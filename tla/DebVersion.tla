----------------------------- MODULE DebVersion -----------------------------
(* The version arithmetic of internal/ospackage/debutils/resolver.go, a pure *)
(* algorithm: a version is the sequence of its character codes.  Operators   *)
(* only; MCDebResolver checks them on every short version over a small       *)
(* alphabet against the order dpkg documents.                                *)
EXTENDS Integers, Sequences, FiniteSetsExt, SequencesExt

Dash == 45
Dot == 46
Colon == 58
Tilde == 126

IsDigit(c) == c \in 48..57
IsLetter(c) == c \in (65..90) \cup (97..122)
Sign(n) == IF n < 0 THEN -1 ELSE IF n > 0 THEN 1 ELSE 0

Positions(s, c) == {i \in DOMAIN s : s[i] = c}
Upto(s, i) == SubSeq(s, 1, i - 1)
After(s, i) == SubSeq(s, i + 1, Len(s))
StartsWith(s, c) == s # <<>> /\ s[1] = c

(* The longest run of characters of one class the string begins with. *)
NextSegment(s) ==
    LET numeric == IsDigit(s[1])
        end == Min({Len(s) + 1} \cup {i \in DOMAIN s : IsDigit(s[i]) # numeric})
    IN  [seg |-> Upto(s, end), rest |-> SubSeq(s, end, Len(s)), numeric |-> numeric]

(* Leading zeros do not count, then the longer run is the larger number. *)
Number(s) == FoldLeft(LAMBDA n, c : 10 * n + c - 48, 0, s)

StripEpoch(v) ==
    IF Positions(v, Colon) = {} THEN v ELSE After(v, Min(Positions(v, Colon)))

Epoch(v) ==
    LET c == Positions(v, Colon)
        before == IF c = {} THEN <<>> ELSE Upto(v, Min(c))
    IN  IF before = <<>> \/ ~IsDigit(before[1]) THEN 0 ELSE Number(NextSegment(before).seg)

Upstream(v) == IF Positions(v, Dash) = {} THEN v ELSE Upto(v, Max(Positions(v, Dash)))
Revision(v) == IF Positions(v, Dash) = {} THEN <<>> ELSE After(v, Max(Positions(v, Dash)))

(* A tilde sorts before the end of the string, the end before letters, and   *)
(* letters before every other character.                                     *)
CharOrder(s, i) ==
    IF i > Len(s) THEN -1
    ELSE IF s[i] = Tilde THEN -2
    ELSE IF IsLetter(s[i]) THEN s[i] ELSE 256 + s[i]

CompareNonDigit(a, b) ==
    LET differ == {i \in 1..Max({Len(a), Len(b)}) : CharOrder(a, i) # CharOrder(b, i)}
    IN  IF differ = {} THEN 0
        ELSE Sign(CharOrder(a, Min(differ)) - CharOrder(b, Min(differ)))

RECURSIVE CompareParts(_, _)
CompareParts(a, b) ==
    CASE a = <<>> /\ b = <<>> -> 0
      [] StartsWith(a, Tilde) /\ StartsWith(b, Tilde) -> CompareParts(Tail(a), Tail(b))
      [] StartsWith(a, Tilde) /\ ~StartsWith(b, Tilde) -> -1
      [] StartsWith(b, Tilde) /\ ~StartsWith(a, Tilde) -> 1
      [] a = <<>> /\ b # <<>> /\ ~StartsWith(b, Tilde) -> -1
      [] b = <<>> /\ a # <<>> /\ ~StartsWith(a, Tilde) -> 1
      [] OTHER ->
           LET x == NextSegment(a)
               y == NextSegment(b)
               c == IF x.numeric # y.numeric THEN (IF x.numeric THEN -1 ELSE 1)
                    ELSE IF x.numeric THEN Sign(Number(x.seg) - Number(y.seg))
                    ELSE CompareNonDigit(x.seg, y.seg)
           IN  IF c # 0 THEN c ELSE CompareParts(x.rest, y.rest)

CompareDebianVersions(a, b) ==
    LET e == Sign(Epoch(a) - Epoch(b))
        u == CompareParts(Upstream(StripEpoch(a)), Upstream(StripEpoch(b)))
    IN  IF a = <<>> \/ b = <<>> THEN Sign(Len(a) - Len(b))
        ELSE IF e # 0 THEN e
        ELSE IF u # 0 THEN u
        ELSE CompareParts(Revision(StripEpoch(a)), Revision(StripEpoch(b)))

(* "name_version*": a prefix with an epoch matches that epoch only, one      *)
(* without it ignores the version's epoch.                                   *)
VersionHasPrefix(v, p) ==
    IF Positions(p, Colon) = {} THEN IsPrefix(p, StripEpoch(v))
    ELSE /\ Upto(p, Min(Positions(p, Colon)))
              = (IF Positions(v, Colon) = {} THEN <<48>> ELSE Upto(v, Min(Positions(v, Colon))))
         /\ IsPrefix(StripEpoch(p), StripEpoch(v))

(* A kernel version names a candidate's whole version or a leading part of   *)
(* it that ends at a separator.                                              *)
MatchesKernelVersion(v, kernelVersion) ==
    LET w == StripEpoch(v)
        n == Len(kernelVersion)
    IN  /\ kernelVersion # <<>>
        /\ IsPrefix(kernelVersion, w)
        /\ Len(w) = n \/ w[n + 1] \in {Dot, Dash, 95, 43, Tilde}

-----------------------------------------------------------------------------
(* The order dpkg defines (verrevcmp), to compare with: alternately the      *)
(* leading non-digits, where a digit and the end both count 0, and the       *)
(* leading numbers, where no digits count as 0.                              *)
DpkgOrder(s, i) ==
    IF i > Len(s) \/ (i <= Len(s) /\ IsDigit(s[i])) THEN 0
    ELSE IF s[i] = Tilde THEN -1
    ELSE IF IsLetter(s[i]) THEN s[i] ELSE 256 + s[i]

LeadingDigits(s) == IF s = <<>> \/ ~IsDigit(s[1]) THEN <<>> ELSE NextSegment(s).seg
AfterDigits(s) == SubSeq(s, Len(LeadingDigits(s)) + 1, Len(s))
TailOf(s) == IF s = <<>> THEN <<>> ELSE Tail(s)

RECURSIVE DpkgCompare(_, _)
DpkgCompare(a, b) ==
    LET inText(s) == s # <<>> /\ ~IsDigit(s[1])
        n == Sign(Number(LeadingDigits(a)) - Number(LeadingDigits(b)))
    IN  IF a = <<>> /\ b = <<>> THEN 0
        ELSE IF inText(a) \/ inText(b)
        THEN IF DpkgOrder(a, 1) # DpkgOrder(b, 1)
             THEN Sign(DpkgOrder(a, 1) - DpkgOrder(b, 1))
             ELSE DpkgCompare(TailOf(a), TailOf(b))
        ELSE IF n # 0 THEN n
        ELSE DpkgCompare(AfterDigits(a), AfterDigits(b))

(* internal/ospackage/rpmutils/helper.go takes the same order, but a version *)
(* that continues another one after a separator counts as equal to it, so    *)
(* that a requirement "1.19" is met by "1.19-1.emt3".                        *)
Separators == {Dash, Dot, 43, Tilde}

Continues(a, b) ==
    IsPrefix(b, a) /\ (Len(a) = Len(b) \/ a[Len(b) + 1] \in Separators)

ComparePackageVersions(a, b) ==
    LET x == StripEpoch(a)
        y == StripEpoch(b)
    IN  IF a # <<>> /\ b # <<>> /\ Epoch(a) = Epoch(b) /\ (Continues(x, y) \/ Continues(y, x))
        THEN 0 ELSE CompareDebianVersions(a, b)
=============================================================================
