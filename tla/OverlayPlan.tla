----------------------------- MODULE OverlayPlan ------------------------------
(***************************************************************************)
(* What an overlay build decides before it changes the baseline            *)
(* (internal/image/overlay/resolve.go, provides.go, depcheck.go,           *)
(* preflight.go): the packages to install, those to upgrade, those to      *)
(* remove, and whether the template's policy blocks the build.             *)
(*                                                                         *)
(* Everything is a function of a world w, the inputs of one build:         *)
(*   family     "deb" or "rpm"                                             *)
(*   base       [names installed in the baseline -> version]               *)
(*   virtual    the names its packages provide                             *)
(*   needs      their dependencies, {[pkg, alts]}                          *)
(*   repo       [names the repositories offer -> newest version]           *)
(*   deps       the candidates' dependencies, {[pkg, alts]}                *)
(*   gives      the names candidates provide, {<<pkg, name>>}              *)
(*   clash      their Breaks and Conflicts, {[pkg, on, in, kind]}          *)
(*   gone       their rpm Obsoletes, {[pkg, on, in]}                       *)
(*   requested  systemConfig.packages                                      *)
(*   swap       overlayPolicy.replaceKernel: NoSwap, or [glob, names], the *)
(*              name it gives or all names its pattern matches             *)
(*   allow      the parts of overlayPolicy that permit something           *)
(*   bootloader what was detected in the baseline                          *)
(*   unread     artifacts whose own metadata cannot be read                *)
(* alts is a sequence of alternatives [on, in]: package `on` at a version  *)
(* of `in`; an alternative without a version has in = Versions.            *)
(***************************************************************************)
EXTENDS Naturals, FiniteSets, Sequences, SequencesExt

CONSTANTS
  Packages, Versions,
  Images,       \* names of bootable kernel images
  Aliases,      \* those that stand for whichever image is current
  Family,       \* names of kernel packages that are not images
  Bootloaders   \* names of bootloader packages

ASSUME PlanAssumption ==
  /\ IsFiniteSet(Packages) /\ Versions \subseteq Nat
  /\ Images \cup Family \cup Bootloaders \subseteq Packages
  /\ Aliases \subseteq Images /\ Images \cap Family = {}

NoSwap == [glob |-> FALSE, names |-> {}]
Names(f) == DOMAIN f
KernelFamily == Images \cup Family
Versioned(a) == a.in # Versions

Rounds(n) == [i \in 1..n |-> i]

\* What Step finds from start on, and from what it found.
Fixpoint(Step(_), start) ==
  start \cup FoldLeft(LAMBDA found, i : found \cup Step(found), start, Rounds(Cardinality(Packages)))

-----------------------------------------------------------------------------
(* Resolution *)

Swapping(w) == w.swap # NoSwap
Upgrading(w) == "upgrade" \in w.allow

\* The names asked for, and the candidates a pattern among them matches.
Requested(w) == w.requested \cup (IF w.swap.glob THEN {} ELSE w.swap.names)
Matches(w) == IF w.swap.glob THEN w.swap.names \cap Names(w.repo) ELSE {}
Present(w) == Names(w.base) \cup w.virtual

\* What the resolver is asked for: all of it when a newer version may be wanted.
Seed(w, asked) == Matches(w) \cup (IF Upgrading(w) THEN asked ELSE asked \ Present(w))

\* The alternative the resolver follows: the first the repositories offer.
Followed(w, d) == {d.alts[i].on : i \in {k \in DOMAIN d.alts :
    d.alts[k].on \in Names(w.repo) /\ \A j \in 1..(k - 1) : d.alts[j].on \notin Names(w.repo)}}

Closure(w, seed) ==
  LET pulled(S) == UNION {Followed(w, d) : d \in {e \in w.deps : e.pkg \in S}}
  IN  Fixpoint(pulled, seed)

\* The resolver gives up when a name, or every alternative of a dependency, is
\* offered by no repository.
Resolvable(w, seed) ==
  /\ seed \subseteq Names(w.repo) /\ (w.swap.glob => Matches(w) # {})
  /\ \A d \in w.deps : d.pkg \in Closure(w, seed) => Followed(w, d) # {}

Newer(w, p) == p \in Names(w.base) \cap Names(w.repo) /\ w.repo[p] > w.base[p]

\* The present packages an upgrade may replace: those asked for, and those a
\* package being installed needs at a version the baseline does not have.
UpgradeEligible(w, asked, closure) ==
  LET adds == closure \ Present(w)
      newer == {p \in closure : Newer(w, p)}
      demanded(S) ==
        {p \in newer : \E d \in w.deps : d.pkg \in S
                        /\ \E i \in DOMAIN d.alts : /\ d.alts[i].on = p /\ Versioned(d.alts[i])
                                                     /\ w.base[p] \notin d.alts[i].in}
  IN  IF Upgrading(w) THEN newer \cap Fixpoint(demanded, adds \cup (newer \cap asked)) ELSE {}

\* [closure, install] of one resolver call.
SinglePass(w, asked) ==
  LET closure == Closure(w, Seed(w, asked))
  IN  [closure |-> closure,
       install |-> (closure \ Present(w)) \cup UpgradeEligible(w, asked, closure)]

PostInstall(w, install) ==
  [p \in Names(w.base) \cup install |-> IF p \in install THEN w.repo[p] ELSE w.base[p]]

\* Baseline packages a versioned Breaks of the install set still hits: they are
\* asked for in the next pass.
BreaksDrivenTargets(w, install) ==
  IF w.family # "deb" THEN {}
  ELSE {c.on : c \in {k \in w.clash : /\ k.pkg \in install /\ k.kind = "breaks" /\ Versioned(k)
                                      /\ k.on \in Names(w.base)
                                      /\ PostInstall(w, install)[k.on] \in k.in}}

MaxBreaksPasses == 4

\* The requests of the last pass: the template's, with the upgrades earlier passes
\* forced.
Asked(w) ==
  LET pass(asked, i) == asked \cup BreaksDrivenTargets(w, SinglePass(w, asked).install)
  IN  Requested(w) \cup
      IF Upgrading(w) THEN FoldLeft(pass, Requested(w), Rounds(MaxBreaksPasses)) ELSE {}

Resolution(w) == SinglePass(w, Asked(w))

-----------------------------------------------------------------------------
(* Preflight: the actions the install stands for *)

\* Bootable images of a set; a meta name counts only when it is all there is.
KernelImagesIn(S) == IF S \cap (Images \ Aliases) # {} THEN S \cap (Images \ Aliases) ELSE S \cap Aliases

\* The images overlayPolicy.replaceKernel.package stands for.
ReplacementImages(w, r) ==
  LET supplied == r.install \cup r.closure
      matched  == w.swap.names \cap supplied
      concrete == matched \cap (Images \ Aliases)
      only     == CHOOSE p \in w.swap.names : TRUE
  IN  IF w.swap.glob
      THEN IF concrete # {} THEN concrete
           ELSE IF matched \cap (Aliases \cup Family) # {} THEN KernelImagesIn(supplied)
           ELSE w.swap.names \cap Names(w.base) \cap Images
      ELSE IF only \in Aliases /\ KernelImagesIn(supplied) # {} THEN KernelImagesIn(supplied)
      ELSE IF only \in Images THEN {only}
      ELSE IF only \in Family THEN KernelImagesIn(supplied)
      ELSE {}

SameKernelBuild(w, p, q) == w.family = "rpm" /\ {p, q} \subseteq Images /\ w.repo[p] = w.repo[q]

Readable(w, S) == {e \in S : e.pkg \notin w.unread}

Action(type, p, by) == [type |-> type, pkg |-> p, by |-> by]

\* Adds, upgrades and downgrades; an equal version is none of them.
VersionActions(w, r) ==
  {Action("add", p, p) : p \in r.install \ Names(w.base)}
  \cup {Action("upgrade", p, p) : p \in {q \in r.install \cap Names(w.base) : w.repo[q] > w.base[q]}}
  \cup {Action("downgrade", p, p) : p \in {q \in r.install \cap Names(w.base) : w.repo[q] < w.base[q]}}

\* What a declared conflict hits: its package when present or added; for an
\* unversioned one on a virtual name, whoever else adds that name.
Hits(w, r, c) ==
  LET post == PostInstall(w, r.install)
      givers == {q \in r.install \ {c.pkg} : <<q, c.on>> \in w.gives}
  IN  IF c.on = c.pkg THEN {}
      ELSE IF c.on \in Names(post) THEN {q \in {c.on} : post[q] \in c.in}
      ELSE IF Versioned(c) \/ givers = {} THEN {}
      ELSE {CHOOSE q \in givers : TRUE}

ConflictActions(w, r) ==
  UNION {{Action("conflict", q, c.pkg) : q \in Hits(w, r, c)} :
           c \in {k \in Readable(w, w.clash) : k.pkg \in r.install}}

\* Only a dependency whose alternatives all name a version, of packages that will
\* be there, can be told to be unmet.
Unmet(post, d) ==
  \A i \in DOMAIN d.alts : /\ Versioned(d.alts[i]) /\ d.alts[i].on \in Names(post)
                           /\ post[d.alts[i].on] \notin d.alts[i].in

UnsatisfiedDeps(w, r) ==
  {Action("unsatisfied-dep", d.pkg, d.alts[1].on) :
     d \in {e \in Readable(w, w.deps) : e.pkg \in r.install /\ e.alts # <<>>
                                        /\ Unmet(PostInstall(w, r.install), e)}}

Obsoletions(w, r) ==
  {Action("obsolete", o.on, o.pkg) :
     o \in {k \in Readable(w, w.gone) : /\ w.family = "rpm" /\ k.pkg \in r.install
                                        /\ k.on \in Names(w.base) /\ w.base[k.on] \in k.in}}

\* Every baseline kernel package the new set does not bring along.
KernelRemovals(w, r) ==
  LET images == ReplacementImages(w, r)
  IN  IF Swapping(w) /\ Cardinality(images) = 1
      THEN {Action("swapped", p, p) :
              p \in (Names(w.base) \cap KernelFamily) \ (r.install \cup r.closure \cup images)}
      ELSE {}

\* allowPackageRemoval turns a conflict into the removal of what it hits.
ResolvedByRemoval(w, r, a) ==
  IF /\ a.type = "conflict" /\ "removal" \in w.allow
     /\ a.pkg \notin Bootloaders \cup Images /\ a.pkg \notin r.install
  THEN [a EXCEPT !.type = "removed"] ELSE a

Removing == {"removed", "obsolete", "swapped"}

Actions(w, r) ==
  VersionActions(w, r) \cup {ResolvedByRemoval(w, r, a) : a \in ConflictActions(w, r)}
  \cup UnsatisfiedDeps(w, r) \cup Obsoletions(w, r) \cup KernelRemovals(w, r)

\* The swap's own kernel may be added or upgraded.
PartOfSwap(w, r, a) ==
  \/ a.type = "swapped"
  \/ /\ Swapping(w) /\ a.pkg \in Images /\ a.type \in {"add", "upgrade"}
     /\ \E k \in ReplacementImages(w, r) :
          /\ ReplacementImages(w, r) = {k}
          /\ a.pkg = k \/ (k \in Names(w.repo) /\ SameKernelBuild(w, k, a.pkg))

\* Mutant: nothing asks whether packages may be removed.
ViolatesAnyRemoval(w, r, a) ==
  \/ a.type = "unsatisfied-dep"
  \/ a.pkg \in Bootloaders /\ a.type # "add"
  \/ a.pkg \in Images /\ a.type # "add" /\ ~PartOfSwap(w, r, a)
  \/ a.type = "upgrade" /\ ~Upgrading(w)
  \/ a.type = "conflict" /\ "conflict" \notin w.allow

\* violatedRule
Violates(w, r, a) ==
  IF a.type = "unsatisfied-dep" THEN TRUE
  ELSE \/ a.pkg \in Bootloaders /\ a.type # "add"
       \/ a.pkg \in Images /\ a.type # "add" /\ ~PartOfSwap(w, r, a)
       \/ a.type \in Removing /\ ~PartOfSwap(w, r, a) /\ "removal" \notin w.allow
       \/ a.type = "upgrade" /\ ~Upgrading(w)
       \/ a.type = "downgrade" /\ "downgrade" \notin w.allow
       \/ a.type = "conflict" /\ "conflict" \notin w.allow

\* Mutant: the request is unique, what else the install brings is not looked at.
SwapInvalidRequestOnly(w, r) == Swapping(w) /\ Cardinality(ReplacementImages(w, r)) # 1

\* The request must come down to one image, and nothing else bootable may ride in.
SwapInvalid(w, r) ==
  LET images == ReplacementImages(w, r)
  IN  Swapping(w) /\
      \/ Cardinality(images) # 1
      \/ \E k \in images, q \in KernelImagesIn(r.install \cup r.closure) \ images :
           ~(k \in Names(w.repo) /\ SameKernelBuild(w, k, q))

\* What Preprocess hands to Build.
EvaluatePreflight(w, r) ==
  LET actions == Actions(w, r)
      approved == {a \in actions : a.type \in Removing
                                   /\ ("removal" \in w.allow \/ PartOfSwap(w, r, a))}
  IN  [blocked  |-> SwapInvalid(w, r) \/ \E a \in actions : Violates(w, r, a),
       upgrades |-> \E a \in actions : a.type = "upgrade",
       approved |-> {a.pkg : a \in approved},
       toRemove |-> {a.pkg : a \in {b \in approved : b.type # "obsolete"}}]

\* Preflight refuses a kernel swap on a baseline that does not boot with GRUB 2.
Preflight(w) ==
  LET r == Resolution(w)
      report == EvaluatePreflight(w, r)
  IN  [closure |-> r.closure, install |-> r.install, upgrades |-> report.upgrades,
       approved |-> report.approved, toRemove |-> report.toRemove,
       ok |-> /\ Resolvable(w, Seed(w, Asked(w)))
              /\ ~(Swapping(w) /\ w.bootloader # "grub2")
              /\ ~report.blocked]

\* The packages of a root file system R that are not the baseline's.
New(w, R) == {p \in Names(R) : p \in Names(w.base) => R[p] # w.base[p]}

\* The dependencies its packages declare, and whether one is met there.
Needs(w, R) == {d \in w.needs : d.pkg \in Names(R) \ New(w, R)} \cup {d \in w.deps : d.pkg \in New(w, R)}

Met(w, R, d) ==
  \E i \in DOMAIN d.alts :
    \/ d.alts[i].on \in Names(R) /\ R[d.alts[i].on] \in d.alts[i].in
    \/ /\ ~Versioned(d.alts[i])
       /\ d.alts[i].on \in w.virtual \/ \E q \in New(w, R) : <<q, d.alts[i].on>> \in w.gives

Audit(w, R) == {d \in Needs(w, R) : ~Met(w, R, d)}
=============================================================================
