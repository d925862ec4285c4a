------------------------------- MODULE Lists -------------------------------
(* Helpers the modules that compute share.                                   *)
EXTENDS Integers, Sequences, FiniteSetsExt, SequencesExt, Functions, TLC

(* What an operation returns that fails; else it returns <<its result>>. *)
Refused == <<>>

Put(f, x, v) == [y \in DOMAIN f \cup {x} |-> IF y = x THEN v ELSE f[y]]
(* f with what is fresh in its place. *)
Over(f, fresh) == [x \in DOMAIN f \cup DOMAIN fresh |-> IF x \in DOMAIN fresh THEN fresh[x] ELSE f[x]]

(* body(v), with v evaluated once. *)
With(v, body(_)) == CHOOSE r \in {body(x) : x \in {v}} : TRUE

(* FoldLeft, the sequence and the accumulator evaluated once a step. *)
Fold(op(_, _), base, seq) ==
    LET over(s) == LET f[i \in 0..Len(s)] ==
                           IF i = 0 THEN base ELSE With(f[i - 1], LAMBDA acc : op(acc, s[i]))
                   IN  f[Len(s)]
    IN  With(seq, over)

(* What is in the places I of s, in its order. *)
Sift(s, I) ==
    LET upto[n \in 0..Len(s)] ==
            IF n = 0 THEN <<>> ELSE IF n \in I THEN Append(upto[n - 1], s[n]) ELSE upto[n - 1]
    IN  upto[Len(s)]

(* A stable sort: x goes behind everything it does not precede. *)
Insert(s, x, Before(_, _)) ==
    LET k == Cardinality({i \in DOMAIN s : ~Before(x, s[i])})
    IN  SubSeq(s, 1, k) \o <<x>> \o SubSeq(s, k + 1, Len(s))
StableSort(s, Before(_, _)) ==
    Fold(LAMBDA acc, x : Insert(acc, x, Before), <<>>, s)
=============================================================================
