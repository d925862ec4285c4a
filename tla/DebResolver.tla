----------------------------- MODULE DebResolver -----------------------------
(* How a Debian build turns the template's package list into the packages it *)
(* installs: internal/ospackage/debutils/{download,resolver,pins}.go and     *)
(* internal/ospackage/pkgsorter.                                             *)
(*                                                                           *)
(* MatchRequested answers every request with packages of the repositories;   *)
(* ResolveDependencies closes them under Requires with a work list: a package *)
(* or an edge of it a turn; SortPackages orders the result for installation. *)
(* What the repositories offer, and the request, are chosen by Init.  A      *)
(* package is a record: name, ver, repo, reqs (a sequence of edges, an edge  *)
(* the sequence of its alternatives) and prov (what it provides).  Versions  *)
(* are numbers (DebVersion says how the code orders the real ones), 0 the    *)
(* version an unversioned Provides does not have.  sort.Slice is not stable: *)
(* what it puts first is any that nothing precedes.                          *)
EXTENDS Lists

CONSTANTS Names,    \* the package names, in the order sort.Strings gives them
          Worlds    \* [all, requests, pins, priority, imageBase, kernelVers]

(* Listings are finite, with versions that are numbers; an edge names at      *)
(* least one package.                                                        *)
ASSUME ResolverAssumption ==
    \A w \in Worlds :
        /\ w.all \in Seq(Range(w.all)) /\ w.requests \in Seq(Range(w.requests))
        /\ \A r \in Range(w.requests) : r.kind \in {"name", "exact", "prefix", "glob"}
        /\ \A p \in Range(w.all) :
             /\ p.ver \in Int /\ p.reqs \in Seq(Range(p.reqs))
             /\ \A e \in Range(p.reqs) : e \in Seq(Range(e)) /\ e # <<>>

VARIABLES world,    \* the repositories and the request of this build
          phase,    \* "match", "resolve", "sort", or how the build ended
          seeds,    \* what MatchRequested chose, in order
          st,       \* the state of either loop: see ResolverInit, Start
          order     \* the sets of packages SortPackages has emitted

resolverVars == <<world, phase, seeds, st, order>>

Offered == Range(world.all)
Provides(p, n) == \E i \in DOMAIN p.prov : p.prov[i].name = n
NameVer(p) == <<p.name, p.ver>>

-----------------------------------------------------------------------------
(* Priorities: the first pin that names the package, else the best of the    *)
(* pins for every package, else its repository's priority.                   *)
Applies(pin, p) ==
    /\ pin.general \/ p.name \in pin.names
    /\ IF pin.repos # {} THEN p.repo \in pin.repos ELSE p.ver \in pin.vers

RepositoryPriority(p) == world.priority[p.repo]

PackagePriority(p) ==
    LET named == {i \in DOMAIN world.pins : ~world.pins[i].general /\ Applies(world.pins[i], p)}
        general == {q \in Range(world.pins) : q.general /\ Applies(q, p)}
    IN  IF named # {} THEN world.pins[Min(named)].priority
        ELSE IF general # {} THEN Max({q.priority : q \in general})
        ELSE RepositoryPriority(p)

BlockedByRepository(p) == RepositoryPriority(p) < 0
Blocked(p) == PackagePriority(p) < 0

Tier(p) == CASE PackagePriority(p) > 1000 -> 3
             [] PackagePriority(p) = 1000 -> 2
             [] PackagePriority(p) = 990 -> 1
             [] OTHER -> 0

Precedes(p, q) ==
    IF Tier(p) # Tier(q) THEN Tier(p) > Tier(q)
    ELSE IF PackagePriority(p) # PackagePriority(q) THEN PackagePriority(p) > PackagePriority(q)
    ELSE p.ver > q.ver

FirstByPriority(cands) == {p \in cands : \A q \in cands : ~Precedes(q, p)}

(* The package of the wanted name first, then by priority; providers under   *)
(* other names stay in the order the repositories list them, a provider's    *)
(* own versions newest first.                                                *)
FirstSeen(cands, n) == Min({i \in DOMAIN world.all : world.all[i] \in cands /\ world.all[i].name = n})

PrecedesFor(p, q, target, cands) ==
    IF (p.name = target) # (q.name = target) THEN p.name = target
    ELSE IF PackagePriority(p) # PackagePriority(q) THEN PackagePriority(p) > PackagePriority(q)
    ELSE IF p.name = q.name THEN p.ver > q.ver
    ELSE FirstSeen(cands, p.name) < FirstSeen(cands, q.name)

(* Whether a candidate of the parent's repository keeps its place against    *)
(* one of another repository.                                                *)
KeepsItsPlace(a, b) ==
    IF Blocked(a) \/ Blocked(b) THEN ~Blocked(a)
    ELSE IF Tier(a) # Tier(b) THEN Tier(a) > Tier(b)
    ELSE IF PackagePriority(a) # PackagePriority(b)
    THEN PackagePriority(a) > PackagePriority(b)
    ELSE PackagePriority(a) = 1000 \/ a.ver > b.ver

-----------------------------------------------------------------------------
(* MatchRequested: the packages that may answer a request. *)
Answers(p, n) == p.name = n \/ Provides(p, n)

FilterKernelCandidates(cands) ==
    IF world.kernelVers = {} THEN cands ELSE {p \in cands : p.ver \in world.kernelVers}

FirstForTarget(cands, target, kernel) ==
    LET fit == IF kernel THEN FilterKernelCandidates(cands) ELSE cands
    IN  {p \in fit : \A q \in fit : ~PrecedesFor(q, p, target, cands)}

(* A plain name also answers to the packages that provide it.  A request     *)
(* that spells the version out ignores the pins and priorities that forbid   *)
(* the package.                                                              *)
ResolveTopPackageConflicts(n, kernel) ==
    FirstForTarget({p \in Offered : Answers(p, n) /\ ~Blocked(p)}, n, kernel)
Asked(r) == {p \in Offered : p.name = r.name /\ p.ver \in r.vers}
ExactMatch(r) == FirstForTarget(Asked(r), "", r.kernel)
ResolveVersionPrefix(r) == FirstForTarget({p \in Asked(r) : ~Blocked(p)}, r.name, FALSE)

(* Prefix requests of the same list also narrow what a glob brings in. *)
ApplyVersionPrefixes(pkgs) ==
    {p \in pkgs : \A r \in Range(world.requests) : r.kind = "prefix" /\ r.name = p.name => p.ver \in r.vers}

NameIndex(n) == CHOOSE i \in DOMAIN Names : Names[i] = n
InOrder(p, q) ==
    IF p.name = q.name THEN p.ver >= q.ver ELSE NameIndex(p.name) < NameIndex(q.name)
Newer(p, q) == p.ver > q.ver \/ (p.ver = q.ver /\ NameIndex(p.name) < NameIndex(q.name))
SelectLatestKernel(pkgs) == {p \in pkgs : \A q \in pkgs : ~Newer(q, p)}

(* The best package of every name the pattern matches; of a kernel's, the    *)
(* latest.                                                                   *)
ResolveWildcardPackageConflicts(r) ==
    LET listed == {n \in r.names : /\ \E p \in Offered : p.name = n
                                   /\ ResolveTopPackageConflicts(n, r.kernel) # {}}
        best == {f \in [listed -> Offered] :
                   \A n \in listed : f[n] \in ResolveTopPackageConflicts(n, r.kernel)}
    IN  UNION {LET found == ApplyVersionPrefixes({f[n] : n \in listed})
               IN  IF r.kernel THEN {{p} : p \in SelectLatestKernel(found)} ELSE {found} : f \in best}

(* The sets of packages a request may be answered with, {} for none. *)
Answer(r) ==
    CASE r.kind = "name" -> {{p} : p \in ResolveTopPackageConflicts(r.name, r.kernel)}
      [] r.kind = "exact" -> {{p} : p \in ExactMatch(r)}
      [] r.kind = "prefix" -> {{p} : p \in ResolveVersionPrefix(r)}
      [] r.kind = "glob" -> ResolveWildcardPackageConflicts(r) \ {{}}

ResolverInit ==
    /\ world \in Worlds
    /\ phase = "match"
    /\ seeds = <<>>
    /\ st = [asked |-> 0, found |-> {}, missing |-> FALSE]
    /\ order = <<>>

(* A request nothing answers fails the build once all were tried. *)
MatchRequested ==
    /\ phase = "match" /\ st.found = {} /\ st.asked < Len(world.requests)
    /\ LET answers == Answer(world.requests[st.asked + 1]) IN
       IF answers = {} THEN st' = [st EXCEPT !.asked = @ + 1, !.missing = TRUE]
       ELSE \E found \in answers : st' = [st EXCEPT !.asked = @ + 1, !.found = found]
    /\ UNCHANGED <<world, phase, seeds, order>>

AddSeed ==
    /\ phase = "match"
    /\ \E p \in st.found :
          /\ \A q \in st.found : InOrder(p, q)
          /\ seeds' = IF NameVer(p) \in {NameVer(q) : q \in Range(seeds)} THEN seeds ELSE Append(seeds, p)
          /\ st' = [st EXCEPT !.found = @ \ {p}]
    /\ UNCHANGED <<world, phase, order>>

-----------------------------------------------------------------------------
(* What an edge asks of a package. *)
DepName(e) == e[1].name

DebVersionSatisfies(v, op, w) ==
    CASE op = "<<" -> v < w
      [] op = "<=" -> v <= w
      [] op = "=" -> v = w
      [] op = ">=" -> v >= w
      [] op = ">>" -> v > w

(* The version p has as d: its own, or the first its Provides declares. *)
VersionForDependency(p, d) ==
    LET declared == SelectSeq(p.prov, LAMBDA v : v.name = d /\ v.ver # 0)
    IN  IF p.name = d THEN {p.ver}
        ELSE IF declared # <<>> THEN {declared[1].ver} ELSE {}

Meets(p, alt) ==
    alt.op # "" => \E v \in VersionForDependency(p, alt.name) :
                       DebVersionSatisfies(v, alt.op, alt.ver)

(* A direct dependency is held to the constraints of its edges without       *)
(* alternatives; a name that is only an alternative to every constraint on   *)
(* it.                                                                       *)
VersionConstraints(cur, d) ==
    LET edges == Range(cur.reqs)
        alternatives == UNION {Range(e) : e \in edges}
    IN  IF \E e \in edges : DepName(e) = d
        THEN {e[1] : e \in {f \in edges : Len(f) = 1 /\ DepName(f) = d /\ f[1].op # ""}}
        ELSE {a \in alternatives : a.name = d /\ a.op # ""}

FindAllCandidates(d) ==
    LET named == {p \in Offered : p.name = d}
    IN  {p \in IF named # {} THEN named ELSE {q \in Offered : Provides(q, d)} : ~Blocked(p)}

SameRepo(parent, p) ==
    p.repo = parent.repo \/ {p.repo, parent.repo} \subseteq world.imageBase

(* The best candidates that meet cur's constraints on d: of the parent's     *)
(* repository, unless one of another repository outranks it.                 *)
ResolveMultiCandidates(cur, d, cands) ==
    LET fit == {p \in cands : ~Blocked(p) /\ \A c \in VersionConstraints(cur, d) : Meets(p, c)}
        same == FirstByPriority({p \in fit : SameRepo(cur, p)})
        other == FirstByPriority({p \in fit : ~SameRepo(cur, p)})
    IN  {p \in same : other = {} \/ \E q \in other : KeepsItsPlace(p, q)}
            \cup {q \in other : same = {} \/ \E p \in same : ~KeepsItsPlace(p, q)}

(* The version a name is selected at: {} when it is not, {0} when it is but  *)
(* its version is not known.                                                 *)
SelectedVersion(s, n) ==
    LET chosen == {p \in Range(seeds) : p.name = n}
    IN  IF n \in DOMAIN s.resolved THEN {s.resolved[n].ver}
        ELSE IF chosen # {}
        THEN {seeds[Max({i \in DOMAIN seeds : seeds[i].name = n})].ver}
        ELSE IF \/ \E p \in Range(s.resolved) \cup Range(seeds) : Provides(p, n)
                \/ n \in s.needed
        THEN {0} ELSE {}

AlternativeAlreadySelected(cur, s, d) ==
    LET edges == {e \in Range(cur.reqs) : DepName(e) = d}
    IN  /\ edges # {}
        /\ \A e \in edges :
              \E a \in Range(Tail(e)) : \E v \in SelectedVersion(s, a.name) :
                  a.op # "" => v # 0 /\ DebVersionSatisfies(v, a.op, a.ver)

-----------------------------------------------------------------------------
(* The loop.  st.rebound is not in the code: it records that a name that was *)
(* already resolved has been resolved anew.                                  *)
NoPackage == [reqs |-> <<>>]

ByNameVer(p) ==
    world.all[Max({i \in DOMAIN world.all : NameVer(world.all[i]) = NameVer(p)})]

Start ==
    LET named(n) == {i \in DOMAIN seeds : seeds[i].name = n}
    IN  [queue |-> [i \in DOMAIN seeds |-> ByNameVer(seeds[i])],
         resolved |-> [n \in {p.name : p \in Range(seeds)} |-> ByNameVer(seeds[Max(named(n))])],
         needed |-> {}, result |-> <<>>, cur |-> NoPackage, at |-> 1, missing |-> FALSE, conflict |-> FALSE,
         rebound |-> \E p \in Range(seeds) : Cardinality(named(p.name)) > 1]

FinishMatch ==
    /\ phase = "match" /\ st.found = {} /\ st.asked = Len(world.requests)
    /\ IF st.missing THEN phase' = "unmatched" /\ st' = st ELSE phase' = "resolve" /\ st' = Start
    /\ UNCHANGED <<world, seeds, order>>

RememberResolvedDependency(s, d, p) ==
    [s EXCEPT !.resolved = Put(Put(@, d, p), p.name, p),
              !.rebound = @ \/ \E k \in {d, p.name} \cap DOMAIN s.resolved : s.resolved[k] # p]

Enqueue(s, d, p) == RememberResolvedDependency([s EXCEPT !.queue = Append(@, p)], d, p)

(* The version already chosen does not meet cur's constraints: another one   *)
(* that does takes its place.                                                *)
Without(s, i) == [j \in 1 .. Len(s) - 1 |-> IF j < i THEN s[j] ELSE s[j + 1]]
Replace(s, d, old, new) ==
    [s EXCEPT !.needed = @ \ {old.name},
              !.result = LET at == {i \in DOMAIN @ : NameVer(@[i]) = NameVer(old)}
                         IN  IF at = {} THEN @ ELSE Without(@, Min(at)),
              !.queue = Append(@, new),
              !.resolved = Put(@, d, new),
              !.rebound = TRUE]

Resolving == phase = "resolve" /\ ~st.conflict
Through == st.at > Len(st.cur.reqs)

Pop ==
    /\ Resolving /\ Through /\ st.queue # <<>>
    /\ LET cur == Head(st.queue)
           rest == [st EXCEPT !.queue = Tail(@)]
       IN  st' = IF cur.name \in st.needed THEN rest
                 ELSE [rest EXCEPT !.needed = @ \cup {cur.name}, !.result = Append(@, cur),
                                   !.resolved = IF cur.name \in DOMAIN @ THEN @ ELSE Put(@, cur.name, cur),
                                   !.cur = cur, !.at = 1]
    /\ UNCHANGED <<world, phase, seeds, order>>

(* One entry of the package's Requires. *)
Dependency == DepName(st.cur.reqs[st.at])
Onto(s) == st' = [s EXCEPT !.at = @ + 1] /\ UNCHANGED <<world, phase, seeds, order>>
Unresolved == Resolving /\ ~Through /\ ~AlternativeAlreadySelected(st.cur, st, Dependency)

AlternativeSelected ==
    /\ Resolving /\ ~Through /\ AlternativeAlreadySelected(st.cur, st, Dependency)
    /\ Onto(st)

ConstraintsIgnored(cur, d, p) == TRUE
ConstraintsHoldOfPackage(cur, d, p) ==
    \A c \in VersionConstraints(cur, d) : c.op = "" \/ DebVersionSatisfies(p.ver, c.op, c.ver)
ConstraintsHold(cur, d, p) == \A c \in VersionConstraints(cur, d) : Meets(p, c)

(* A name already resolved: to a version that will do, or to one that gives   *)
(* way, or the build fails.                                                  *)
CheckResolved ==
    /\ Unresolved /\ Dependency \in DOMAIN st.resolved
    /\ LET d == Dependency
           old == st.resolved[d]
           new == IF \E c \in VersionConstraints(st.cur, d) : c.op = "=" THEN {}
                  ELSE ResolveMultiCandidates(st.cur, d, FindAllCandidates(d))
       IN  \/ ConstraintsHold(st.cur, d, old) /\ Onto(st)
           \/ /\ ~ConstraintsHold(st.cur, d, old)
              /\ \E p \in new : Onto(Replace(st, d, old, p))
           \/ /\ ~ConstraintsHold(st.cur, d, old) /\ new = {}
              /\ Onto([st EXCEPT !.conflict = TRUE])

ChooseCandidate ==
    /\ Unresolved /\ Dependency \notin DOMAIN st.resolved /\ FindAllCandidates(Dependency) # {}
    /\ LET new == ResolveMultiCandidates(st.cur, Dependency, FindAllCandidates(Dependency))
       IN  \/ \E p \in new : Onto(Enqueue(st, Dependency, p))
           \/ new = {} /\ Onto([st EXCEPT !.missing = TRUE])

(* Nothing offers the first alternative: the first other that resolves, of    *)
(* any edge that mentions it.                                                *)
Mention(e, d) == \E a \in Range(e) : a.name = d
AlternativePlaces(d) ==
    {x \in (DOMAIN st.cur.reqs) \X (UNION {DOMAIN e : e \in Range(st.cur.reqs)}) :
        LET e == st.cur.reqs[x[1]] IN Mention(e, d) /\ x[2] \in DOMAIN e /\ e[x[2]].name # d}
AltAt(x) == st.cur.reqs[x[1]][x[2]].name
Resolvable(n) == ResolveMultiCandidates(st.cur, n, FindAllCandidates(n))
TryAlternatives ==
    /\ Unresolved /\ Dependency \notin DOMAIN st.resolved /\ FindAllCandidates(Dependency) = {}
    /\ LET works == {x \in AlternativePlaces(Dependency) : Resolvable(AltAt(x)) # {}}
       IN  \/ \E x \in works :
                /\ \A y \in works : x[1] < y[1] \/ (x[1] = y[1] /\ x[2] <= y[2])
                /\ \E p \in Resolvable(AltAt(x)) : Onto(Enqueue(st, AltAt(x), p))
           \/ works = {} /\ Onto([st EXCEPT !.missing = TRUE])

FinishResolve ==
    /\ phase = "resolve" /\ (st.conflict \/ (Through /\ st.queue = <<>>))
    /\ phase' = IF st.conflict THEN "conflict" ELSE IF st.missing THEN "missing" ELSE "sort"
    /\ UNCHANGED <<world, seeds, st, order>>

-----------------------------------------------------------------------------
(* SortPackages: strongly connected components, each after those it needs.   *)
(* The code's queue takes the ready component with the least number; here    *)
(* any ready one is taken.                                                   *)
Sorted == {p.name : p \in Range(st.result)}
RequiresOf(n) ==
    {DepName(e) : e \in UNION {Range(p.reqs) : p \in {q \in Range(st.result) : q.name = n}}}

Reach(n) == Fold(LAMBDA seen, x : seen \cup UNION {RequiresOf(m) \cap Sorted : m \in seen},
                     {n}, Names)
Component(n) == {m \in Reach(n) : n \in Reach(m)}
Components == {Component(n) : n \in Sorted}
Needs(c) == {Component(m) : m \in UNION {RequiresOf(n) \cap Sorted : n \in c}} \ {c}

EmitComponent ==
    /\ phase = "sort"
    /\ \E c \in Components \ Range(order) :
          /\ Needs(c) \subseteq Range(order)
          /\ order' = Append(order, c)
    /\ UNCHANGED <<world, phase, seeds, st>>

(* Two packages of one name leave fewer names than packages: the sort fails, *)
(* its caller logs that and goes on with an empty list.                      *)
FinishSort ==
    /\ phase = "sort" /\ Components = Range(order)
    /\ phase' = IF Len(st.result) = Cardinality(Sorted) THEN "done" ELSE "unsorted"
    /\ UNCHANGED <<world, seeds, st, order>>

(* What the installer is then asked for: a prefix request becomes the one     *)
(* version that was resolved, if any.                                        *)
PinVersionPrefixRequests ==
    [i \in DOMAIN world.requests |->
        LET r == world.requests[i]
            pinned == FirstForTarget({p \in Range(st.result) :
                          p.name = r.name /\ p.ver \in r.vers /\ ~Blocked(p)}, r.name, FALSE)
        IN  IF r.kind = "prefix" /\ pinned # {}
            THEN [r EXCEPT !.kind = "exact", !.vers = {p.ver : p \in pinned}] ELSE r]

Ended == phase \in {"unmatched", "conflict", "missing", "done", "unsorted"}

ResolverNext ==
    \/ MatchRequested \/ AddSeed \/ FinishMatch
    \/ Pop \/ AlternativeSelected \/ CheckResolved \/ ChooseCandidate \/ TryAlternatives \/ FinishResolve
    \/ EmitComponent \/ FinishSort

ResolverSpec == ResolverInit /\ [][ResolverNext]_resolverVars /\ WF_resolverVars(ResolverNext)

-----------------------------------------------------------------------------
(* Properties.                                                               *)

Installed == IF phase \in {"match", "unmatched"} THEN {} ELSE Range(st.result)

EdgeHolds(e) ==
    \E a \in Range(e), p \in Installed :
        Answers(p, a.name) /\ (Len(e) = 1 => Meets(p, a))

(* Nothing offers the first of its alternatives, and one of another edge      *)
(* that names it too was taken instead.                                      *)
EdgeBorrows(p, e) ==
    /\ FindAllCandidates(DepName(e)) = {}
    /\ \E f \in Range(p.reqs) \ {e} : Mention(f, DepName(e)) /\ \E a \in Range(f), q \in Installed : Answers(q, a.name)

(* The set the comment on ResolveDependencies promises: every Requires of    *)
(* every package met by a package of the result.                             *)
ClosureHolds == \A p \in Installed : \A e \in Range(p.reqs) : EdgeHolds(e) \/ EdgeBorrows(p, e)

(* What the template asked for is there, at the version it asked for, and a  *)
(* prefix request reaches the installer as that version.                     *)
Honoured(i) ==
    LET r == world.requests[i] IN
    \E p \in Installed :
        CASE r.kind = "name" -> Answers(p, r.name)
          [] r.kind = "glob" -> /\ \E n \in r.names : Answers(p, n)
                                /\ r.kernel /\ world.kernelVers # {} => p.ver \in world.kernelVers
          [] r.kind = "exact" -> p.name = r.name /\ p.ver \in r.vers
          [] r.kind = "prefix" -> /\ p.name = r.name /\ p.ver \in r.vers
                                  /\ Blocked(p) \/ PinVersionPrefixRequests[i].vers = {p.ver}

(* Another repository lists a requested package's version with other Provides. *)
Ambiguous == \E p \in Range(seeds), q \in Offered :
    NameVer(p) = NameVer(q) /\ {v.name : v \in Range(p.prov)} # {v.name : v \in Range(q.prov)}

(* A resolution that never gave a name a second package honours the request  *)
(* and returns a closure: versions, alternatives and virtual packages        *)
(* included, unless a requested version is listed twice with different        *)
(* Provides.  (A dependency with alternatives is only held to one of them    *)
(* being there.)                                                             *)
ResolvedUnlessRebound ==
    phase = "done" /\ ~st.rebound /\ ~Ambiguous => ClosureHolds /\ \A i \in DOMAIN world.requests : Honoured(i)

Forbidden(p) == PackagePriority(p) < 0
SpelledOut(p) == \E r \in Range(world.requests) : r.kind = "exact" /\ r.name = p.name /\ p.ver \in r.vers

(* A package whose priority forbids it never comes in as a dependency.  It is *)
(* installed only when a request spells its version out, or in the place of a *)
(* permitted one that was chosen: the loop looks a chosen package up by name  *)
(* and version again and takes the last that is listed, of whatever           *)
(* repository.                                                                *)
ForbiddenOnlyByRelookup ==
    \A p \in Installed : Forbidden(p) =>
        \E q \in Range(seeds) : p = ByNameVer(q) /\ (SpelledOut(q) \/ ~Forbidden(q))

(* The names p's constraints reject a package of, while another meets them. *)
Rejected(p) ==
    LET unfit(d) == {o.name : o \in {x \in Offered : /\ Answers(x, d)
                                                     /\ \E c \in VersionConstraints(p, d) : ~Meets(x, c)}}
        replaced == {d \in {DepName(e) : e \in Range(p.reqs)} :
                        /\ unfit(d) # {} /\ \A c \in VersionConstraints(p, d) : c.op # "="
                        /\ ResolveMultiCandidates(p, d, FindAllCandidates(d)) # {}}
    IN  UNION {unfit(d) : d \in replaced}

(* Packages displace each other in a circle: each requires a version of a     *)
(* name that the next one's requirements put back.                           *)
Circular ==
    LET circle(displaces) ==
            \E p \in Offered : p \in Fold(LAMBDA S, x : {q \in Offered : \E r \in S \cup {p} : <<r, q.name>> \in displaces},
                                          {}, world.all)
    IN  With(UNION {{p} \X Rejected(p) : p \in Offered}, circle)

(* Whatever cycles the repositories contain, and however often one package    *)
(* has given way to another, the resolution ends, unless packages displace    *)
(* each other in a circle: then each in turn takes the other's place, and     *)
(* nothing stops it.                                                          *)
EndsUnlessCircular == Circular \/ <>Ended

=============================================================================
