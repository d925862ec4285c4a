-------------------------- MODULE RpmPackagesProofs ---------------------------
(* Proofs about RpmPackages, for any worlds and any way to read a name off a  *)
(* file name: that the resolver's result answers every dependency something   *)
(* answers, and that nothing unverified is in the cache directory of a build  *)
(* that returns its packages.                                                 *)
EXTENDS RpmPackages, TLAPS

(* Both records keep their fields.                                           *)
Fields ==
    /\ DOMAIN run = {"pc", "at", "href", "all", "retried", "seen", "jobs", "failing", "result"}
    /\ DOMAIN st = {"asked", "queue", "cur", "left", "result", "failed", "late"}

(* The build has what it resolved.                                           *)
Holding == run.pc \in {"resolve", "purge", "fetch"} \/ Done

Pending == st.result \cup Range(st.queue)

(* A file of p is taken, or will be.                                         *)
Taken(p) == \E q \in Pending : PackageFile(q) = PackageFile(p)

Answered(e) ==
    (\E q \in Range(run.all) : Offers(q, e.name)) =>
        \E a \in Range(run.all) : Taken(a) /\ Offers(a, e.name)

Honoured(p, e) ==
    (\E q \in Range(run.all) : Base(q) = e.name) /\ <<PackageFile(p), e.name>> \notin st.late =>
        \A c \in ExtractVersionRequirement(p, e.name) :
            \E q \in Pending : Base(q) = e.name /\ Satisfies(q.ver, c)

LookedAt(p) == DOMAIN p.reqs \ (IF p = st.cur THEN st.left ELSE {})

(* The loop invariant of the resolver.                                       *)
LoopInv ==
    Holding =>
        /\ st.queue \in Seq(Range(run.all))
        /\ st.result \subseteq Range(run.all)
        /\ \A p, q \in st.result : PackageFile(p) = PackageFile(q) => p = q
        /\ \A p \in st.result : \A j \in LookedAt(p) :
              Answered(p.reqs[j]) /\ Honoured(p, p.reqs[j])

Resolved ==
    /\ st.failed \in {"", "conflict", "unsatisfied"}
    /\ run.pc \in {"purge", "fetch"} \/ Done => st.queue = <<>> /\ st.left = {}

(* What is fetched for a trusted repository is fetched anew.                 *)
FetchInv ==
    /\ run.pc = "fetch" => run.jobs \subseteq st.result
    /\ run.pc = "fetch" \/ Done => DOMAIN rpms = Files
    /\ run.pc = "fetch" => \A p \in st.result : PackageFile(p) \in Files /\ Trusted(p.repo) =>
          /\ p \in run.jobs => rpms[PackageFile(p)] = NoFile
          /\ rpms[PackageFile(p)] # NoFile =>
                rpms[PackageFile(p)] = [from |-> p.repo, whole |-> TRUE, at |-> builds]

RpmInv == Fields /\ LoopInv /\ Resolved /\ FetchInv /\ NothingUnverified

-----------------------------------------------------------------------------
(* The resolver's loop.                                                      *)

(* A step that leaves the resolver and its listing alone.                    *)
LEMMA LoopFrame ==
  ASSUME LoopInv, st' = st, run'.all = run.all, Holding' => Holding
  PROVE  LoopInv'
<1>1. Pending' = Pending
  BY DEF Pending
<1>2. \A p : Taken(p)' = Taken(p)
  BY <1>1 DEF Taken
<1>3. \A e : Answered(e)' = Answered(e)
  BY <1>2 DEF Answered
<1>4. \A p, e : Honoured(p, e)' = Honoured(p, e)
  BY <1>1 DEF Honoured
<1>5. \A p : LookedAt(p)' = LookedAt(p)
  BY DEF LookedAt
<1> QED
  BY <1>3, <1>4, <1>5 DEF LoopInv

(* Before anything is taken there is nothing to answer.                      *)
LEMMA LoopStarts ==
  ASSUME st' = Nothing
  PROVE  LoopInv'
<1>1. st'.queue = <<>> /\ st'.result = {}
  BY DEF Nothing
<1>2. <<>> \in Seq(Range(run'.all))
  OBVIOUS
<1> QED
  BY <1>1, <1>2 DEF LoopInv

(* What was answered stays answered while nothing pending is lost.           *)
LEMMA AnswersStay ==
  ASSUME run' = run,
         \A q \in Pending : \E r \in Pending' : PackageFile(r) = PackageFile(q),
         st.late \subseteq st'.late
  PROVE  /\ \A e : Answered(e) => Answered(e)'
         /\ \A p, e : Honoured(p, e) => Honoured(p, e)'
<1>1. \A a : Taken(a) => Taken(a)'
  BY DEF Taken
<1>2. \A e : Answered(e) => Answered(e)'
  BY <1>1 DEF Answered
<1>3. ASSUME NEW p, NEW e, Honoured(p, e) PROVE Honoured(p, e)'
  <2>1. SUFFICES ASSUME \E q \in Range(run.all) : Base(q) = e.name,
                        <<PackageFile(p), e.name>> \notin st'.late,
                        NEW c \in ExtractVersionRequirement(p, e.name)
                 PROVE  \E q \in Pending' : Base(q) = e.name /\ Satisfies(q.ver, c)
    BY DEF Honoured
  <2>2. PICK q \in Pending : Base(q) = e.name /\ Satisfies(q.ver, c)
    BY <1>3, <2>1 DEF Honoured
  <2>3. PICK r \in Pending' : PackageFile(r) = PackageFile(q)
    BY <2>2
  <2>4. Base(r) = e.name
    BY <2>2, <2>3 DEF Base
  <2>5. r.ver = q.ver
    BY <2>3 DEF PackageFile
  <2> QED
    BY <2>2, <2>4, <2>5
<1> QED
  BY <1>2, <1>3

LEMMA HeadAndTail ==
  ASSUME NEW S, NEW q \in Seq(S), q # <<>>
  PROVE  Head(q) \in S /\ Tail(q) \in Seq(S) /\ Range(q) = {Head(q)} \cup Range(Tail(q))
<1>1. Head(q) = q[1] /\ 1 \in 1..Len(q) /\ DOMAIN q = 1..Len(q) /\ Len(q) \in Nat
  OBVIOUS
<1>2. Tail(q) \in Seq(S) /\ DOMAIN Tail(q) = 1..(Len(q) - 1)
      /\ \A i \in 1..(Len(q) - 1) : Tail(q)[i] = q[i + 1]
  OBVIOUS
<1>3. ASSUME NEW x \in Range(q), x # q[1] PROVE x \in Range(Tail(q))
  <2>1. PICK i \in DOMAIN q : x = q[i]
    BY <1>3 DEF Range
  <2>2. i # 1 /\ i - 1 \in DOMAIN Tail(q) /\ Tail(q)[i - 1] = x
    BY <1>1, <1>2, <1>3, <2>1
  <2> QED
    BY <2>2 DEF Range
<1>4. ASSUME NEW x \in Range(Tail(q)) PROVE x \in Range(q)
  <2>1. PICK i \in DOMAIN Tail(q) : x = Tail(q)[i]
    BY <1>4 DEF Range
  <2>2. i + 1 \in DOMAIN q /\ q[i + 1] = x
    BY <1>1, <1>2, <2>1
  <2> QED
    BY <2>2 DEF Range
<1>5. q[1] \in Range(q) /\ q[1] \in S
  BY <1>1 DEF Range
<1> QED
  BY <1>1, <1>2, <1>3, <1>4, <1>5

LEMMA FieldsStay ==
  ASSUME Fields, [Next]_vars
  PROVE  Fields'
<1> USE DEF Fields
<1>1. CASE \E f : Ends(f) /\ st' = st
  BY <1>1 DEF Ends
<1>2. CASE st' = Nothing /\ (run' = NoRun \/ \E f : Ends(f))
  BY <1>2 DEF Ends, Nothing, NoRun
<1>3. CASE UNCHANGED <<run, st>>
  BY <1>3
<1>4. CASE StartBuild
  BY <1>4 DEF StartBuild, NoRun
<1>5. CASE FetchPrimaryURL
  BY <1>5 DEF FetchPrimaryURL
<1>6. CASE ParseRepositoryMetadata
  BY <1>6 DEF ParseRepositoryMetadata, TakePackages, Ends
<1>7. CASE LocalUserPackages
  BY <1>7 DEF LocalUserPackages, Nothing, Ends
<1>8. CASE MatchRequested
  BY <1>8 DEF MatchRequested, Nothing, Ends
<1>9. CASE Pop
  BY <1>9 DEF Pop
<1>10. CASE ResolveEntry
  BY <1>10 DEF ResolveEntry, CheckQueued, ChooseCandidate
<1>11. CASE HandleCacheRetry
  BY <1>11 DEF HandleCacheRetry, Ends, Nothing
<1>12. CASE PurgeTrustedCached
  BY <1>12 DEF PurgeTrustedCached
<1>13. ASSUME NEW p \in run.jobs, FetchPackage(p) PROVE Fields'
  BY <1>13 DEF FetchPackage
<1> QED
  BY <1>1, <1>2, <1>3, <1>4, <1>5, <1>6, <1>7, <1>8, <1>9, <1>10, <1>11, <1>12, <1>13
     DEF Next, vars, Publish, NextTemplate, NetworkFails, Kill, ValidateOrigins

LEMMA PopKeepsLoop ==
  ASSUME Fields, LoopInv, Pop
  PROVE  LoopInv'
<1> PICK p : p = Head(st.queue)
  OBVIOUS
<1>1. run' = run /\ st.left = {} /\ st.queue # <<>> /\ Holding
  BY DEF Pop, Resolving, Holding
<1>2. /\ st.queue \in Seq(Range(run.all))
      /\ st.result \subseteq Range(run.all)
      /\ \A q, r \in st.result : PackageFile(q) = PackageFile(r) => q = r
      /\ \A q \in st.result : \A j \in LookedAt(q) :
            Answered(q.reqs[j]) /\ Honoured(q, q.reqs[j])
  BY <1>1 DEF LoopInv
<1>3. p \in Range(run.all) /\ Tail(st.queue) \in Seq(Range(run.all))
  BY <1>1, <1>2, HeadAndTail
<1>4. Range(st.queue) = {p} \cup Range(Tail(st.queue))
  BY <1>1, <1>2, HeadAndTail
<1>5. CASE PackageFile(p) \in PackageFiles(st.result)
  <2>1. st'.queue = Tail(st.queue) /\ st'.result = st.result /\ st'.late = st.late
        /\ st'.cur = st.cur /\ st'.left = st.left
    BY <1>5 DEF Pop, Fields
  <2>2. PICK r \in st.result : PackageFile(r) = PackageFile(p)
    BY <1>5 DEF PackageFiles
  <2>3. \A q \in Pending : \E t \in Pending' : PackageFile(t) = PackageFile(q)
    BY <2>1, <2>2, <1>4 DEF Pending
  <2>4. \A q : LookedAt(q)' = LookedAt(q)
    BY <2>1 DEF LookedAt
  <2> QED
    BY <1>1, <1>2, <1>3, <2>1, <2>3, <2>4, AnswersStay DEF LoopInv
<1>6. CASE PackageFile(p) \notin PackageFiles(st.result)
  <2>1. st'.queue = Tail(st.queue) /\ st'.result = st.result \cup {p} /\ st'.late = st.late
        /\ st'.cur = p /\ st'.left = DOMAIN p.reqs
    BY <1>6 DEF Pop, Fields
  <2>2. \A q \in Pending : \E t \in Pending' : PackageFile(t) = PackageFile(q)
    BY <2>1, <1>4 DEF Pending
  <2>3. LookedAt(p)' = {}
    BY <2>1 DEF LookedAt
  <2>4. \A q \in st.result : LookedAt(q)' \subseteq LookedAt(q)
    BY <1>1, <2>1 DEF LookedAt
  <2>5. \A q \in st.result : PackageFile(q) # PackageFile(p)
    BY <1>6 DEF PackageFiles
  <2>6. \A q, r \in st'.result : PackageFile(q) = PackageFile(r) => q = r
    BY <1>2, <2>1, <2>5
  <2>7. ASSUME NEW q \in st'.result, NEW j \in LookedAt(q)'
        PROVE  Answered(q.reqs[j])' /\ Honoured(q, q.reqs[j])'
    BY <1>1, <1>2, <2>1, <2>2, <2>3, <2>4, <2>7, AnswersStay
  <2> QED
    BY <1>1, <1>2, <1>3, <2>1, <2>6, <2>7 DEF LoopInv
<1> QED
  BY <1>5, <1>6

LEMMA EntryKeepsLoop ==
  ASSUME LoopInv, Holding, run' = run, NEW cur, cur = st.cur, NEW j \in st.left,
         st'.left = st.left \ {j}, st'.cur = cur, st'.result = st.result,
         st.late \subseteq st'.late, Pending \subseteq Pending',
         st'.queue \in Seq(Range(run.all)),
         Answered(cur.reqs[j])', Honoured(cur, cur.reqs[j])'
  PROVE  LoopInv'
<1>1. /\ st.result \subseteq Range(run.all)
      /\ \A q, r \in st.result : PackageFile(q) = PackageFile(r) => q = r
      /\ \A q \in st.result : \A k \in LookedAt(q) :
            Answered(q.reqs[k]) /\ Honoured(q, q.reqs[k])
  BY DEF LoopInv
<1>2. \A q : LookedAt(q)' \subseteq LookedAt(q) \/ (q = cur /\ LookedAt(q)' \subseteq LookedAt(q) \cup {j})
  BY DEF LookedAt
<1>3. ASSUME NEW q \in st'.result, NEW k \in LookedAt(q)'
      PROVE  Answered(q.reqs[k])' /\ Honoured(q, q.reqs[k])'
  <2>1. CASE k \in LookedAt(q)
    BY <1>1, <1>3, <2>1, AnswersStay
  <2>2. CASE q = cur /\ k = j
    BY <2>2
  <2> QED
    BY <1>2, <1>3, <2>1, <2>2
<1> QED
  BY <1>1, <1>3 DEF LoopInv

LEMMA SelectedIsCandidate ==
  ASSUME NEW parent, NEW s, NEW I, NEW first,
         NEW i \in SelectByPriorityThenRepo(parent, s, I, first)
  PROVE  i \in I
BY DEF SelectByPriorityThenRepo, FirstOf, Newest

LEMMA CandidatesOffer ==
  ASSUME NEW n, NEW s
  PROVE  /\ \A i \in FindAllCandidates(n, s) : i \in DOMAIN s /\ Offers(s[i], n)
         /\ FindAllCandidates(n, s) = {} => \A i \in DOMAIN s : ~Offers(s[i], n)
         /\ (\E i \in DOMAIN s : Base(s[i]) = n) =>
               \A i \in FindAllCandidates(n, s) : Base(s[i]) = n
BY DEF FindAllCandidates, Offers

LEMMA AppendRange ==
  ASSUME NEW S, NEW q \in Seq(S), NEW x \in S
  PROVE  Append(q, x) \in Seq(S) /\ Range(Append(q, x)) = Range(q) \cup {x}
<1> DEFINE r == Append(q, x)
<1>1. r \in Seq(S) /\ DOMAIN r = 1..(Len(q) + 1) /\ DOMAIN q = 1..Len(q) /\ Len(q) \in Nat
      /\ r[Len(q) + 1] = x /\ \A i \in 1..Len(q) : r[i] = q[i]
  OBVIOUS
<1> HIDE DEF r
<1>2. Range(r) = Range(q) \cup {x}
  BY <1>1 DEF Range
<1> QED
  BY <1>1, <1>2 DEF r

(* A package of the name that was taken answers. *)
LEMMA SeenIsAnswered ==
  ASSUME NEW e, Seen(e.name), st.result \subseteq Range(run.all), run' = run,
         st'.result = st.result
  PROVE  Answered(e)'
<1>1. PICK p \in st.result : Base(p) = e.name
  BY DEF Seen
<1>2. p \in Range(run'.all) /\ Taken(p)' /\ Offers(p, e.name)
  BY <1>1 DEF Taken, Pending, Offers
<1> QED
  BY <1>2 DEF Answered

LEMMA EntryStepKeepsLoop ==
  ASSUME Fields, LoopInv, ResolveEntry
  PROVE  LoopInv'
<1> PICK cur, all : cur = st.cur /\ all = run.all
  OBVIOUS
<1> PICK j \in st.left :
      LET looked == [st EXCEPT !.left = @ \ {j}]
      IN  IF Seen(cur.reqs[j].name) THEN CheckQueued(cur.reqs[j], looked)
          ELSE ChooseCandidate(cur.reqs[j], looked)
  BY DEF ResolveEntry
<1> PICK e : e = cur.reqs[j]
  OBVIOUS
<1>1. run' = run /\ Holding
  BY DEF ResolveEntry, Resolving, Holding
<1>2. st.queue \in Seq(Range(all)) /\ st.result \subseteq Range(all)
  BY <1>1 DEF LoopInv
<1>3. ASSUME NEW f, st' = [st EXCEPT !.failed = f] PROVE LoopInv'
  <2>1. /\ st'.queue = st.queue /\ st'.result = st.result /\ st'.late = st.late
        /\ st'.cur = st.cur /\ st'.left = st.left
    BY <1>3 DEF Fields
  <2>2. \A q \in Pending : q \in Pending'
    BY <2>1 DEF Pending
  <2>3. \A q : LookedAt(q)' = LookedAt(q)
    BY <2>1 DEF LookedAt
  <2> QED
    BY <1>1, <2>1, <2>2, <2>3, AnswersStay DEF LoopInv
<1>4. ASSUME Seen(e.name),
             st' = [[st EXCEPT !.left = @ \ {j}]
                      EXCEPT !.late = @ \cup {<<PackageFile(st.cur), e.name>>}]
      PROVE  LoopInv'
  <2>1. /\ st'.queue = st.queue /\ st'.result = st.result /\ st'.cur = st.cur
        /\ st'.late = st.late \cup {<<PackageFile(cur), e.name>>}
        /\ st'.left = st.left \ {j}
    BY <1>4 DEF Fields
  <2>2. Pending' = Pending
    BY <2>1 DEF Pending
  <2>3. Answered(e)'
    BY <1>1, <1>2, <1>4, <2>1, SeenIsAnswered
  <2>4. Honoured(cur, e)'
    BY <2>1 DEF Honoured
  <2> QED
    BY <1>1, <1>2, <2>1, <2>2, <2>3, <2>4, EntryKeepsLoop
<1>4a. ASSUME Seen(e.name), st' = [st EXCEPT !.left = @ \ {j}],
             NEW queued, NEW first \in DOMAIN st.queue, Base(st.queue[first]) = e.name,
             queued = FindAllCandidates(e.name, st.queue),
             NEW i \in MatchingCandidates(cur, st.queue, queued, first)
      PROVE  LoopInv'
  <2>1. /\ st'.queue = st.queue /\ st'.result = st.result /\ st'.cur = st.cur
        /\ st'.late = st.late /\ st'.left = st.left \ {j}
    BY <1>4a DEF Fields
  <2>2. Pending' = Pending
    BY <2>1 DEF Pending
  <2>3. Answered(e)'
    BY <1>1, <1>2, <1>4a, <2>1, SeenIsAnswered
  <2>4. /\ i \in DOMAIN st.queue /\ Base(st.queue[i]) = e.name
        /\ \A c \in ExtractVersionRequirement(cur, e.name) : Satisfies(st.queue[i].ver, c)
    BY <1>4a, CandidatesOffer DEF MatchingCandidates
  <2>5. st.queue[i] \in Pending'
    BY <2>2, <2>4 DEF Pending, Range
  <2>6. Honoured(cur, e)'
    BY <2>4, <2>5 DEF Honoured
  <2> QED
    BY <1>1, <1>2, <2>1, <2>2, <2>3, <2>6, EntryKeepsLoop
<1>5. ASSUME FindAllCandidates(e.name, all) = {}, st' = [st EXCEPT !.left = @ \ {j}]
      PROVE  LoopInv'
  <2>1. /\ st'.queue = st.queue /\ st'.result = st.result /\ st'.cur = st.cur
        /\ st'.late = st.late /\ st'.left = st.left \ {j}
    BY <1>5 DEF Fields
  <2>2. Pending' = Pending
    BY <2>1 DEF Pending
  <2>3. \A p \in Range(run'.all) : ~Offers(p, e.name)
    BY <1>1, <1>5, CandidatesOffer DEF Range
  <2>4. Answered(e)' /\ Honoured(cur, e)'
    BY <2>3 DEF Answered, Honoured, Offers
  <2> QED
    BY <1>1, <1>2, <2>1, <2>2, <2>4, EntryKeepsLoop
<1>6. ASSUME NEW first \in FindAllCandidates(e.name, all),
             NEW i \in MatchingCandidates(cur, all, FindAllCandidates(e.name, all), first),
             st' = [[st EXCEPT !.left = @ \ {j}] EXCEPT !.queue = Append(@, run.all[i])]
      PROVE  LoopInv'
  <2>1. /\ st'.queue = Append(st.queue, all[i]) /\ st'.result = st.result
        /\ st'.cur = st.cur /\ st'.late = st.late /\ st'.left = st.left \ {j}
    BY <1>6 DEF Fields
  <2>2. /\ i \in FindAllCandidates(e.name, all)
        /\ \A c \in ExtractVersionRequirement(cur, Base(all[first])) : Satisfies(all[i].ver, c)
    BY <1>6 DEF MatchingCandidates
  <2>3. i \in DOMAIN all /\ Offers(all[i], e.name) /\ all[i] \in Range(all)
    BY <2>2, CandidatesOffer DEF Range
  <2>4. st'.queue \in Seq(Range(all)) /\ Range(st'.queue) = Range(st.queue) \cup {all[i]}
    BY <1>2, <2>1, <2>3, AppendRange
  <2>5. Pending' = Pending \cup {all[i]}
    BY <2>1, <2>4 DEF Pending
  <2>6. Answered(e)'
    BY <1>1, <2>3, <2>5 DEF Answered, Taken
  <2>7. ASSUME \E q \in Range(all) : Base(q) = e.name
        PROVE  /\ Base(all[i]) = e.name
               /\ \A c \in ExtractVersionRequirement(cur, e.name) : Satisfies(all[i].ver, c)
    <3>1. \E k \in DOMAIN all : Base(all[k]) = e.name
      BY <2>7 DEF Range
    <3> QED
      BY <1>6, <2>2, <3>1, CandidatesOffer
  <2>8. Honoured(cur, e)'
    BY <1>1, <2>5, <2>7 DEF Honoured
  <2> QED
    BY <1>1, <1>2, <2>1, <2>4, <2>5, <2>6, <2>8, EntryKeepsLoop
<1>7. CASE Seen(e.name)
  <2>1. CheckQueued(e, [st EXCEPT !.left = @ \ {j}])
    BY <1>7
  <2> DEFINE queued == FindAllCandidates(e.name, st.queue)
  <2>2. CASE st' = [[st EXCEPT !.left = @ \ {j}]
                      EXCEPT !.late = @ \cup {<<PackageFile(st.cur), e.name>>}]
    BY <1>4, <1>7, <2>2
  <2>3. ASSUME NEW first \in Newest(st.queue, queued), Base(st.queue[first]) = e.name,
               MatchingCandidates(cur, st.queue, queued, first) # {},
               st' = [st EXCEPT !.left = @ \ {j}]
        PROVE  LoopInv'
    <3>1. first \in DOMAIN st.queue
      BY <2>3, CandidatesOffer DEF Newest
    <3> QED
      BY <1>4a, <1>7, <2>3, <3>1
  <2> QED
    BY <1>3, <2>1, <2>2, <2>3 DEF CheckQueued
<1>8. CASE ~Seen(e.name)
  <2>1. ChooseCandidate(e, [st EXCEPT !.left = @ \ {j}])
    BY <1>8
  <2> DEFINE cands == FindAllCandidates(e.name, all)
  <2>2. CASE cands = {} /\ st' = [st EXCEPT !.left = @ \ {j}]
    BY <1>5, <2>2
  <2>3. ASSUME NEW first \in Newest(all, cands),
               NEW i \in SelectByPriorityThenRepo(cur, all,
                              MatchingCandidates(cur, all, cands, first), first),
               st' = [[st EXCEPT !.left = @ \ {j}] EXCEPT !.queue = Append(@, run.all[i])]
        PROVE  LoopInv'
    <3>1. first \in cands
      BY DEF Newest
    <3> QED
      BY <1>6, <2>3, <3>1, SelectedIsCandidate
  <2> QED
    BY <1>3, <2>1, <2>2, <2>3 DEF ChooseCandidate
<1> QED
  BY <1>7, <1>8

LEMMA ConcatRange ==
  ASSUME NEW S, NEW q \in Seq(S), NEW r \in Seq(S)
  PROVE  q \o r \in Seq(S) /\ Range(q) \subseteq Range(q \o r)
<1> DEFINE t == q \o r
<1>1. /\ t \in Seq(S) /\ DOMAIN t = 1..(Len(q) + Len(r)) /\ DOMAIN q = 1..Len(q)
      /\ Len(q) \in Nat /\ Len(r) \in Nat /\ \A i \in 1..Len(q) : t[i] = q[i]
  OBVIOUS
<1> HIDE DEF t
<1>2. Range(q) \subseteq Range(t)
  BY <1>1 DEF Range
<1> QED
  BY <1>1, <1>2 DEF t

LEMMA SeedsAreListed ==
  ASSUME NEW answer, NEW s, NEW queue, NEW seeds \in ByName(Seeds(answer, s, queue))
  PROVE  seeds \in Seq(Range(s))
<1>1. PICK n \in 0..Len(Names) : seeds \in [1..n -> Seeds(answer, s, queue)]
  BY DEF ByName, BoundedSeq, SeqOf
<1>2. n \in Nat
  OBVIOUS
<1>3. Seeds(answer, s, queue) \subseteq Range(s)
  BY DEF Seeds, ByNameVer, Range
<1> QED
  BY <1>1, <1>2, <1>3

LEMMA MatchKeepsLoop ==
  ASSUME Fields, LoopInv, MatchRequested
  PROVE  LoopInv'
<1>1. CASE st' = Nothing
  BY <1>1, LoopStarts
<1>2. ASSUME run' = run, NEW answer,
             NEW seeds \in ByName(Seeds(answer, run.all, st.queue)),
             st' = [st EXCEPT !.queue = @ \o seeds, !.asked = @ + 1]
      PROVE  LoopInv'
  <2>1. Holding
    BY DEF MatchRequested, Holding
  <2>2. st.queue \in Seq(Range(run.all)) /\ seeds \in Seq(Range(run.all))
    BY <2>1, SeedsAreListed DEF LoopInv
  <2>3. /\ st'.queue = st.queue \o seeds /\ st'.result = st.result /\ st'.cur = st.cur
        /\ st'.late = st.late /\ st'.left = st.left
    BY <1>2 DEF Fields
  <2>4. st'.queue \in Seq(Range(run.all)) /\ Pending \subseteq Pending'
    BY <2>2, <2>3, ConcatRange DEF Pending
  <2>5. \A q : LookedAt(q)' = LookedAt(q)
    BY <2>3 DEF LookedAt
  <2> QED
    BY <1>2, <2>1, <2>3, <2>4, <2>5, AnswersStay DEF LoopInv
<1> QED
  BY <1>1, <1>2 DEF MatchRequested

LEMMA LoopStays ==
  ASSUME Fields, LoopInv, Resolved, [Next]_vars
  PROVE  LoopInv'
<1>1. CASE st' = Nothing
  BY <1>1, LoopStarts
<1>2. CASE Pop
  BY <1>2, PopKeepsLoop
<1>3. CASE ResolveEntry
  BY <1>3, EntryStepKeepsLoop
<1>4. CASE MatchRequested
  BY <1>4, MatchKeepsLoop
<1>5. CASE UNCHANGED <<run, st>>
  BY <1>5, LoopFrame DEF Holding, Done
<1>6. CASE StartBuild
  <2>1. ~Holding'
    BY <1>6 DEF StartBuild, Holding, Done, NoRun
  <2> QED
    BY <2>1 DEF LoopInv
<1>7. ASSUME NEW outcome, outcome # "done", Ends(outcome) PROVE LoopInv'
  <2>1. ~Holding'
    BY <1>7 DEF Ends, Holding, Done, Fields
  <2> QED
    BY <2>1 DEF LoopInv
<1>8. CASE FetchPrimaryURL \/ ParseRepositoryMetadata
  <2>1. CASE run'.pc \in {"parse", "match", "locate"}
    <3>1. ~Holding'
      BY <2>1 DEF Holding, Done
    <3> QED
      BY <3>1 DEF LoopInv
  <2>2. CASE Ends("nometadata")
    BY <1>7, <2>2
  <2> QED
    BY <1>8, <2>1, <2>2 DEF FetchPrimaryURL, ParseRepositoryMetadata, TakePackages, Fields
<1>9. CASE HandleCacheRetry
  <2>1. CASE st.failed # ""
    <3>1. Ends(st.failed)
      BY <1>9, <2>1 DEF HandleCacheRetry
    <3> QED
      BY <1>7, <2>1, <3>1 DEF Resolved
  <2>2. CASE st' # Nothing /\ st.failed = ""
    <3>1. st' = st /\ run'.all = run.all /\ Holding
      BY <1>9, <2>2 DEF HandleCacheRetry, Ends, Resolving, Holding, Fields
    <3> QED
      BY <3>1, LoopFrame
  <2> QED
    BY <1>1, <2>1, <2>2
<1>10. CASE PurgeTrustedCached
  BY <1>10, LoopFrame DEF PurgeTrustedCached, Holding, Done, Fields
<1>11. ASSUME NEW p \in run.jobs, FetchPackage(p) PROVE LoopInv'
  BY <1>11, LoopFrame DEF FetchPackage, Holding, Done, Fields
<1>12. CASE ValidateOrigins
  BY <1>12, LoopFrame DEF ValidateOrigins, Ends, Holding, Done, Fields
<1> QED
  BY <1>1, <1>2, <1>3, <1>4, <1>5, <1>6, <1>7, <1>8, <1>9, <1>10, <1>11, <1>12
     DEF Next, vars, Publish, NextTemplate, NetworkFails, Kill, LocalUserPackages

LEMMA ResolvedStays ==
  ASSUME Fields, Resolved, [Next]_vars
  PROVE  Resolved'
<1> USE DEF Fields, Resolved
<1>1. CASE st' = Nothing
  BY <1>1 DEF Nothing
<1>2. CASE Pop
  <2>1. st'.failed = st.failed /\ run' = run /\ run.pc = "resolve"
    BY <1>2 DEF Pop, Resolving
  <2> QED
    BY <2>1 DEF Done
<1>3. CASE ResolveEntry
  <2>1. st'.failed \in {"", "conflict", "unsatisfied"} /\ run' = run /\ run.pc = "resolve"
    BY <1>3 DEF ResolveEntry, Resolving, CheckQueued, ChooseCandidate
  <2> QED
    BY <2>1 DEF Done
<1>4. CASE MatchRequested /\ st' # Nothing
  <2>1. st'.failed = st.failed /\ run' = run /\ run.pc = "resolve"
    BY <1>4 DEF MatchRequested
  <2> QED
    BY <2>1 DEF Done
<1>5. CASE UNCHANGED <<run, st>>
  BY <1>5 DEF Done
<1>6. CASE st' = st /\ run'.pc \notin {"purge", "fetch", "returned"}
  BY <1>6 DEF Done
<1>7. ASSUME NEW outcome, outcome # "done", Ends(outcome), st' = st PROVE Resolved'
  BY <1>7 DEF Ends, Done
<1>8. CASE FetchPrimaryURL \/ ParseRepositoryMetadata
  BY <1>6, <1>7, <1>8 DEF FetchPrimaryURL, ParseRepositoryMetadata, TakePackages
<1>9. CASE HandleCacheRetry
  <2>1. CASE st.failed # ""
    BY <1>7, <1>9, <2>1 DEF HandleCacheRetry
  <2>2. CASE st' # Nothing /\ st.failed = ""
    BY <1>9, <2>2 DEF HandleCacheRetry, Resolving
  <2> QED
    BY <1>1, <2>1, <2>2
<1>10. CASE PurgeTrustedCached
  BY <1>10 DEF PurgeTrustedCached
<1>11. ASSUME NEW p \in run.jobs, FetchPackage(p) PROVE Resolved'
  BY <1>11 DEF FetchPackage
<1>12. CASE ValidateOrigins
  BY <1>12 DEF ValidateOrigins
<1>13. CASE StartBuild
  BY <1>6, <1>13 DEF StartBuild, NoRun
<1> QED
  BY <1>1, <1>2, <1>3, <1>4, <1>5, <1>6, <1>7, <1>8, <1>9, <1>10, <1>11, <1>12, <1>13
     DEF Next, vars, Publish, NextTemplate, NetworkFails, Kill, LocalUserPackages

-----------------------------------------------------------------------------
(* The package cache.                                                        *)

(* What is not fetching is not "done" either: the search of the cache never  *)
(* finds a package.                                                          *)
LEMMA CacheIsOutdated ==
  ASSUME st.result # {}
  PROVE  CacheOutdated
<1>1. \A p, f : PackageFile(p) # <<f[1]>>
  BY DEF PackageFile
<1> QED
  BY <1>1 DEF CacheOutdated, CachedNames

LEMMA PurgeStartsFetch ==
  ASSUME Fields, PurgeTrustedCached
  PROVE  FetchInv'
<1> DEFINE served == {PackageFile(p) : p \in {q \in st.result : Trusted(q.repo)}}
<1>1. /\ rpms' = [f \in Files |-> IF f \in served THEN NoFile ELSE rpms[f]]
      /\ run'.pc = "fetch" /\ run'.jobs = st.result
      /\ st' = st /\ world' = world /\ builds' = builds
  BY DEF PurgeTrustedCached, Purged, Fields
<1>2. Files' = Files
  BY <1>1 DEF Files
<1>3. \A p \in st.result : Trusted(p.repo) /\ PackageFile(p) \in Files => rpms'[PackageFile(p)] = NoFile
  BY <1>1
<1>4. \A r : Trusted(r)' = Trusted(r)
  BY <1>1 DEF Trusted
<1>5. ASSUME NEW p \in st'.result, PackageFile(p) \in Files', Trusted(p.repo)'
      PROVE  rpms'[PackageFile(p)] = NoFile
  BY <1>1, <1>2, <1>3, <1>4, <1>5
<1> QED
  BY <1>1, <1>2, <1>5 DEF FetchInv

LEMMA FetchKeepsFetch ==
  ASSUME Fields, LoopInv, FetchInv, NEW p \in run.jobs, FetchPackage(p)
  PROVE  FetchInv'
<1> DEFINE f == PackageFile(p)
<1>1. /\ run.pc = "fetch" /\ run'.pc = "fetch" /\ run'.jobs = run.jobs \ {p}
      /\ st' = st /\ world' = world /\ builds' = builds
  BY DEF FetchPackage, Fields
<1>2. Files' = Files /\ \A r : Trusted(r)' = Trusted(r)
  BY <1>1 DEF Files, Trusted
<1>3. /\ run.jobs \subseteq st.result /\ DOMAIN rpms = Files
      /\ \A q \in st.result : PackageFile(q) \in Files /\ Trusted(q.repo) =>
            /\ q \in run.jobs => rpms[PackageFile(q)] = NoFile
            /\ rpms[PackageFile(q)] # NoFile =>
                  rpms[PackageFile(q)] = [from |-> q.repo, whole |-> TRUE, at |-> builds]
  BY <1>1 DEF FetchInv
<1>4. \A q \in st.result : PackageFile(q) = f => q = p
  BY <1>1, <1>3 DEF LoopInv, Holding
<1>5. \/ rpms' = rpms
      \/ rpms' = [rpms EXCEPT ![f] = [from |-> p.repo, whole |-> TRUE, at |-> builds]]
  BY DEF FetchPackage
<1>6. DOMAIN rpms' = Files
  BY <1>3, <1>5
<1>7. ASSUME NEW q \in st.result, PackageFile(q) \in Files, Trusted(q.repo)
      PROVE  /\ q \in run'.jobs => rpms'[PackageFile(q)] = NoFile
             /\ rpms'[PackageFile(q)] # NoFile =>
                   rpms'[PackageFile(q)] = [from |-> q.repo, whole |-> TRUE, at |-> builds]
  <2>1. CASE PackageFile(q) = f
    <3>1. q = p /\ q \notin run'.jobs
      BY <1>1, <1>4, <2>1
    <3> QED
      BY <1>3, <1>5, <1>7, <2>1, <3>1
  <2>2. CASE PackageFile(q) # f
    <3>1. rpms'[PackageFile(q)] = rpms[PackageFile(q)]
      BY <1>3, <1>5, <1>7, <2>2
    <3> QED
      BY <1>1, <1>3, <1>7, <3>1
  <2> QED
    BY <2>1, <2>2
<1> QED
  BY <1>1, <1>2, <1>3, <1>6, <1>7 DEF FetchInv

(* Verification does not miss a file.                                        *)
LEMMA ValidationSuffices ==
  ASSUME Fields, LoopInv, FetchInv, ValidateOrigins
  PROVE  FetchInv' /\ NothingUnverified'
<1>1. /\ run.pc = "fetch" /\ run.jobs = {} /\ run'.pc = "returned"
      /\ rpms' = rpms /\ world' = world /\ builds' = builds
  BY DEF ValidateOrigins, Ends, Fields
<1>2. Files' = Files /\ Cached' = Cached /\ \A r : Trusted(r)' = Trusted(r)
  BY <1>1 DEF Files, Cached, Trusted
<1>3. DOMAIN rpms = Files
  BY <1>1 DEF FetchInv
<1>4. FetchInv'
  BY <1>1, <1>2, <1>3 DEF FetchInv
<1>5. ASSUME Done', NEW f \in Cached
      PROVE  \/ rpms[f].whole /\ world.keys[rpms[f].from] = "own"
             \/ rpms[f].whole /\ Trusted(rpms[f].from) /\ rpms[f].at = builds
  <2>1. FileVerifies(f)
    BY <1>5 DEF ValidateOrigins, Ends, Done, Fields
  <2>2. CASE rpms[f].whole /\ rpms[f].from \in KeysFor(f)
    BY <2>2 DEF KeysFor
  <2>3. ASSUME NEW r \in Origins(f), Trusted(r)
        PROVE  rpms[f].whole /\ Trusted(rpms[f].from) /\ rpms[f].at = builds
    <3>1. PICK p \in st.result : PackageFile(p) = f /\ p.repo = r
      BY <2>3 DEF Origins
    <3>2. f \in Files /\ rpms[f] # NoFile
      BY <1>5 DEF Cached
    <3>3. rpms[f] = [from |-> r, whole |-> TRUE, at |-> builds]
      BY <1>1, <2>3, <3>1, <3>2 DEF FetchInv
    <3> QED
      BY <2>3, <3>3
  <2> QED
    BY <2>1, <2>2, <2>3 DEF FileVerifies
<1>6. NothingUnverified'
  BY <1>1, <1>2, <1>5 DEF NothingUnverified
<1> QED
  BY <1>4, <1>6

LEMMA CacheStays ==
  ASSUME Fields, LoopInv, Resolved, FetchInv, NothingUnverified, [Next]_vars
  PROVE  FetchInv' /\ NothingUnverified'
<1>1. CASE run'.pc \notin {"fetch", "returned"}
  BY <1>1 DEF FetchInv, NothingUnverified, Done
<1>2. ASSUME NEW outcome, outcome # "done", Ends(outcome) PROVE FetchInv' /\ NothingUnverified'
  BY <1>2 DEF Ends, Fields, FetchInv, NothingUnverified, Done
<1>3. CASE UNCHANGED <<world, st, rpms, run, builds>>
  BY <1>3 DEF FetchInv, NothingUnverified, Done, Cached, Files, Trusted
<1>4. CASE PurgeTrustedCached
  <2>1. run'.pc = "fetch"
    BY <1>4 DEF PurgeTrustedCached, Fields
  <2> QED
    BY <1>4, <2>1, PurgeStartsFetch DEF NothingUnverified, Done
<1>5. ASSUME NEW p \in run.jobs, FetchPackage(p) PROVE FetchInv' /\ NothingUnverified'
  <2>1. run'.pc = "fetch"
    BY <1>5 DEF FetchPackage, Fields
  <2> QED
    BY <1>5, <2>1, FetchKeepsFetch DEF NothingUnverified, Done
<1>6. CASE ValidateOrigins
  BY <1>6, ValidationSuffices
<1>7. CASE HandleCacheRetry
  <2>1. CASE st.failed # ""
    BY <1>2, <1>7, <2>1 DEF HandleCacheRetry, Resolved
  <2>2. CASE st.failed = ""
    <3>1. run'.pc \notin {"fetch", "returned"}
      BY <1>7, <2>2, CacheIsOutdated DEF HandleCacheRetry, Fields
    <3> QED
      BY <1>1, <3>1
  <2> QED
    BY <2>1, <2>2
<1>8. CASE FetchPrimaryURL \/ ParseRepositoryMetadata \/ LocalUserPackages
  BY <1>1, <1>2, <1>8 DEF FetchPrimaryURL, ParseRepositoryMetadata, TakePackages,
       LocalUserPackages, Fields
<1>9. CASE StartBuild \/ NextTemplate
  BY <1>1, <1>9 DEF StartBuild, NextTemplate, NoRun
<1>10. CASE MatchRequested \/ Pop \/ ResolveEntry
  <2>1. run'.pc = "resolve" \/ Ends("unmatched")
    BY <1>10 DEF MatchRequested, Pop, ResolveEntry, Resolving
  <2> QED
    BY <1>1, <1>2, <2>1
<1>11. CASE NetworkFails \/ Kill
  BY <1>2, <1>11 DEF NetworkFails, Kill
<1>12. ASSUME NEW r \in Remote, Publish(r) PROVE FetchInv' /\ NothingUnverified'
  BY <1>3, <1>12 DEF Publish
<1> QED
  BY <1>3, <1>4, <1>5, <1>6, <1>7, <1>8, <1>9, <1>10, <1>11, <1>12 DEF Next, vars

-----------------------------------------------------------------------------
LEMMA InitRpmInv ==
  ASSUME Init
  PROVE  RpmInv
<1>1. st.failed = "" /\ run.pc = "idle"
  BY DEF Init, Nothing, NoRun
<1>2. ~Holding /\ ~Done
  BY <1>1 DEF Holding, Done
<1>3. Fields
  BY DEF Init, Nothing, NoRun, Fields
<1> QED
  BY <1>1, <1>2, <1>3 DEF RpmInv, LoopInv, Resolved, FetchInv, NothingUnverified

LEMMA NextRpmInv ==
  ASSUME RpmInv, [Next]_vars
  PROVE  RpmInv'
BY FieldsStay, LoopStays, ResolvedStays, CacheStays DEF RpmInv

\* The strengthened invariant.
LEMMA SpecRpmInv == Spec => []RpmInv
<1>1. Init => RpmInv
  BY InitRpmInv
<1>2. RpmInv /\ [Next]_vars => RpmInv'
  BY NextRpmInv
<1> QED
  BY <1>1, <1>2, PTL DEF Spec

(* Whatever the repositories list and whatever is in the caches, the files a *)
(* build installs from are verified, or fresh from a trusted repository:     *)
(* downloadPackagesComplete with purgeTrustedCachedRPMs and ValidateOrigins. *)
THEOREM SpecNothingUnverified == Spec => []NothingUnverified
<1>1. RpmInv => NothingUnverified
  BY DEF RpmInv
<1> QED
  BY <1>1, SpecRpmInv, PTL

(* The result of MatchRequested and ResolveDependencies is closed, and a     *)
(* version bound is only unmet when it is not the first its package states   *)
(* on the name, or when the name was taken already and not queued, in any    *)
(* listing and whatever sort.Slice does with equal versions.                 *)
THEOREM SpecResolvedUnlessUncompared == Spec => []ResolvedUnlessUncompared
<1>1. ASSUME RpmInv, Done
      PROVE  /\ Closed(st.result, run.all)
             /\ BoundsMet(st.result, run.all, st.late)
  <2>1. Pending = st.result /\ st.left = {}
    <3>1. st.queue = <<>> /\ st.left = {}
      BY <1>1 DEF RpmInv, Resolved
    <3>2. Range(<<>>) = {}
      BY DEF Range
    <3> QED
      BY <3>1, <3>2 DEF Pending
  <2>2. /\ st.result \subseteq Range(run.all)
        /\ \A p \in st.result : \A j \in DOMAIN p.reqs :
              Answered(p.reqs[j]) /\ Honoured(p, p.reqs[j])
    BY <1>1, <2>1 DEF RpmInv, LoopInv, Holding, LookedAt
  <2>3. Closed(st.result, run.all)
    <3>1. SUFFICES ASSUME NEW p \in st.result, NEW e \in Range(p.reqs),
                          \E q \in Range(run.all) : Offers(q, e.name)
                   PROVE  \E q \in st.result, a \in Range(run.all) :
                             PackageFile(a) = PackageFile(q) /\ Offers(a, e.name)
      BY DEF Closed
    <3>2. Answered(e)
      BY <2>2 DEF Range
    <3>3. PICK a \in Range(run.all) : Taken(a) /\ Offers(a, e.name)
      BY <3>1, <3>2 DEF Answered
    <3> QED
      BY <2>1, <3>3 DEF Taken
  <2>4. BoundsMet(st.result, run.all, st.late)
    <3>1. SUFFICES ASSUME NEW p \in st.result, NEW e \in Range(p.reqs),
                          \E q \in Range(run.all) : Base(q) = e.name,
                          ~Uncompared(p, e, st.late)
                   PROVE  \E q \in st.result : Base(q) = e.name /\ Satisfies(q.ver, e)
      BY DEF BoundsMet
    <3>2. Honoured(p, e)
      BY <2>2 DEF Range
    <3> QED
      BY <2>1, <3>1, <3>2 DEF Honoured, Uncompared
  <2> QED
    BY <2>3, <2>4
<1>2. RpmInv => ResolvedUnlessUncompared
  BY <1>1 DEF ResolvedUnlessUncompared
<1> QED
  BY <1>2, SpecRpmInv, PTL

=============================================================================
