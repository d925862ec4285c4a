------------------------ MODULE PackageDownloadProofs ------------------------
(* Proofs about PackageDownload, for any repositories, listings, requests,    *)
(* filters, workers and numbers of attempts, builds and kills: type           *)
(* correctness, that a package comes from a verified index, and that a        *)
(* download that succeeds is whole.  And about DebResolver, which chooses     *)
(* what is downloaded, for any repositories and requests: that its result is  *)
(* a closure that honours the request and brings in nothing forbidden.        *)
EXTENDS PackageDownload, DebResolver, SequenceTheorems, FiniteSetTheorems, WellFoundedInduction, TLAPS

-----------------------------------------------------------------------------
(* The inductive invariant *)

\* What is on disk, staged or remembered of a repository is one of the states it
\* has published.
States(r) == 0 .. Len(Listing[r])

MirrorStates == \A r \in Indexes : mirror[r] \in States(r)
MetaStates ==
    \A r \in Indexes :
        {meta[r].rel, meta[r].sig, meta[r].plain, meta[r].parsed} \subseteq States(r)
AtARepo == run.pc \in Stages \cup {"config"} => run.at \in 1 .. Len(Repos)
StagedState == run.pc \in {"install", "install signature"} => run.staged \in States(Repo)

StatesInv == MirrorStates /\ MetaStates /\ AtARepo /\ StagedState

\* From when its metadata was settled to when its packages are taken, the
\* repository's Release file carries its own signature.
Settled(r) ==
    /\ meta[r].rel # 0
    /\ Format[r] = "classic" => meta[r].sig = meta[r].rel
    /\ Format[r] = "inrelease" => meta[r].plain = meta[r].rel

SettledInv == run.pc \in {"index", "torn"} => Settled(Repo)

\* Only a download has workers at work, each with a file of its own that nobody
\* will be given again.
PoolInv ==
    /\ run.pc # "download" => \A w \in Workers : worker[w] = Idle
    /\ \A w \in Workers : worker[w].file \notin run.jobs
    /\ \A v, w \in Workers : worker[v].file = worker[w].file /\ worker[v].file # "" => v = w

\* Unless a worker gave up, what is needed is still to be fetched, being fetched,
\* there or skipped.
Fetching(f) == \E w \in Workers : worker[w].file = f
NothingForgotten ==
    run.pc = "download" /\ ~run.failing =>
        \A p \in run.needed : \/ p.file \in run.jobs \/ Fetching(p.file)
                              \/ debs[p.file] # "none" \/ p.file \in run.skipped

WholeOrSkipped(f) == debs[f] = "whole" \/ (debs[f] = "none" /\ f \in run.skipped)

WholeInv ==
    run.result = "downloaded" =>
        run.pc = "returned" /\ \A p \in run.needed : WholeOrSkipped(p.file)

DownloadInv ==
    /\ TypeOK /\ StatesInv /\ SettledInv /\ PoolInv /\ NothingForgotten /\ WholeInv

-----------------------------------------------------------------------------
(* Lemmas *)

\* While a repository is worked on, it is one of them.
LEMMA RepoIsOne == TypeOK /\ StatesInv /\ run.pc \in Stages =>
                     Repo \in Indexes /\ run.at \in 1 .. Len(Repos)
<1>1. ASSUME NEW i \in 1 .. Len(Repos) PROVE Repos[i] \in Indexes
  BY ReposAssumption, ElementOfSeq DEF Indexes
<1>2. QED
  BY <1>1 DEF StatesInv, AtARepo, Repo

\* The packages of a published state, whatever the filter.
LEMMA FilteredPackages ==
  ASSUME NEW r \in Indexes, NEW v \in 1 .. Len(Listing[r]), NEW filter
  PROVE  Filtered(r, v, filter) \subseteq Packages
<1>1. Listing[r] \in Seq(SUBSET Packages)
  BY ListingAssumption
<1>2. Listing[r][v] \in SUBSET Packages
  BY <1>1, ElementOfSeq
<1>3. QED
  BY <1>2 DEF Filtered

\* What a mirror may answer with is a state it has published.
LEMMA ServedStates ==
  ASSUME NEW r \in Indexes, mirror[r] \in States(r), NEW v \in Served(r)
  PROVE  v \in States(r)
<1>1. Len(Listing[r]) \in Nat
  BY ListingAssumption, LenProperties
<1>2. QED
  BY <1>1 DEF Served, States

LEMMA NoRunType == NoRun \in Run
<1>1. 1 \in 1 .. Len(Repos) + 1
  BY ReposAssumption
<1>2. QED
  BY <1>1 DEF NoRun, Run, PC, Stages

-----------------------------------------------------------------------------
(* Type correctness *)

LEMMA TypeInit == Init => TypeOK
<1> SUFFICES ASSUME Init PROVE TypeOK
  OBVIOUS
<1>1. meta \in [Indexes -> Metadata]
  BY DEF Init, Metadata
<1>2. run \in Run
  BY NoRunType DEF Init
<1>3. worker \in [Workers -> Task]
  BY DEF Init, Idle, Task
<1>4. mirror \in [Indexes -> Nat] /\ urls \in [Indexes -> {"unknown", "found", "absent"}]
  BY DEF Init
<1>5. debs \in [Files -> {"none", "part", "bad", "whole"}] /\ builds \in Nat /\ kills \in Nat
  BY DEF Init
<1>6. QED
  BY <1>1, <1>2, <1>3, <1>4, <1>5 DEF TypeOK

\* The files on disk.
LEMMA DiskTypeStep ==
  TypeOK /\ StatesInv /\ [Next]_vars =>
    /\ mirror' \in [Indexes -> Nat] /\ meta' \in [Indexes -> Metadata]
    /\ urls' \in [Indexes -> {"unknown", "found", "absent"}]
    /\ debs' \in [Files -> {"none", "part", "bad", "whole"}]
<1> DEFINE DiskType == /\ mirror \in [Indexes -> Nat] /\ meta \in [Indexes -> Metadata]
                       /\ urls \in [Indexes -> {"unknown", "found", "absent"}]
                       /\ debs \in [Files -> {"none", "part", "bad", "whole"}]
<1> SUFFICES ASSUME TypeOK, StatesInv, [Next]_vars PROVE DiskType'
  OBVIOUS
<1>0. DiskType
  BY DEF TypeOK
<1>1. ASSUME NEW r \in Indexes, Publish(r) PROVE DiskType'
  BY <1>0, <1>1 DEF Publish
<1>2. CASE InitializeUserRepos
  BY <1>0, <1>2 DEF InitializeUserRepos, ProbeResult
<1>3. CASE InstallRelease \/ InstallSignature
  <2>1. run.staged \in Nat /\ Repo \in Indexes
    BY <1>3, RepoIsOne DEF InstallRelease, InstallSignature, Stages, TypeOK, Run
  <2>2. \/ meta' = [meta EXCEPT ![Repo].rel = run.staged]
        \/ meta' = [meta EXCEPT ![Repo].sig = run.staged]
    BY <1>3 DEF InstallRelease, InstallSignature
  <2>3. meta' \in [Indexes -> Metadata]
    BY <1>0, <2>1, <2>2 DEF Metadata
  <2>4. QED
    BY <1>0, <1>3, <2>3 DEF InstallRelease, InstallSignature
<1>5. CASE SettleMetadata
  <2>1. Repo \in Indexes
    BY <1>5, RepoIsOne DEF SettleMetadata, Stages
  <2>2. Plain(Repo) \in Nat
    BY <1>0, <2>1 DEF Plain, Metadata
  <2>3. meta' = meta \/ meta' = [meta EXCEPT ![Repo].plain = Plain(Repo)]
    BY <1>5 DEF SettleMetadata
  <2>4. meta' \in [Indexes -> Metadata]
    BY <1>0, <2>1, <2>2, <2>3 DEF Metadata
  <2>5. QED
    BY <1>0, <1>5, <2>4 DEF SettleMetadata
<1>6. CASE FetchIndex
  <2>1. Repo \in Indexes
    BY <1>6, RepoIsOne DEF FetchIndex, Stages
  <2>2. PICK got \in {0, Torn} \cup Served(Repo) : meta' = [meta EXCEPT ![Repo].gz = got]
    BY <1>6 DEF FetchIndex
  <2>3. got \in Nat \cup {Torn}
    BY <1>0, <2>1, <2>2 DEF Served
  <2>4. meta' \in [Indexes -> Metadata]
    BY ZenonT(40), <1>0, <2>2, <2>3 DEF Metadata
  <2>5. QED
    BY <1>0, <1>6, <2>4 DEF FetchIndex
<1>7. CASE TornIndexRemoved
  BY <1>0, <1>7 DEF TornIndexRemoved, Metadata
<1>8. CASE ParseIndex
  <2>1. Repo \in Indexes
    BY <1>8, RepoIsOne DEF ParseIndex, Stages
  <2>2. Expected(Repo) \in Nat /\ run.filter \in Filters \cup {{}}
    BY <1>0, <2>1 DEF Expected, Metadata, TypeOK, Run
  <2>3. meta' = [meta EXCEPT ![Repo].parsed = Expected(Repo), ![Repo].filter = run.filter]
    BY <1>8 DEF ParseIndex
  <2>4. meta' \in [Indexes -> Metadata]
    BY ZenonT(40), <1>0, <2>1, <2>2, <2>3 DEF Metadata
  <2>5. QED
    BY <1>0, <1>8, <2>4 DEF ParseIndex
<1>9. CASE ClearAndRetry
  BY <1>0, <1>9 DEF ClearAndRetry, ForgetParsed, Metadata
<1>10. CASE StartDownload
  BY <1>0, <1>10 DEF StartDownload
<1>11. ASSUME NEW w \in Workers, StartWriting(w) \/ Written(w) \/ AttemptFails(w)
       PROVE  DiskType'
  BY ZenonT(40), <1>0, <1>11 DEF StartWriting, Written, AttemptFails
<1>12. CASE UNCHANGED disk
  BY <1>0, <1>12 DEF disk
<1>13. QED
  BY <1>1, <1>2, <1>3, <1>5, <1>6, <1>7, <1>8, <1>9, <1>10, <1>11, <1>12
     DEF Next, Build, vars, disk, StartBuild, Cancel, Kill, NotConfigured, RefreshFails,
         RefreshRepoMetadata, UseParsedCache, PrepareLocalRepository,
         CreateTemporaryRepository, LocalUserPackages, ResolveRequest, CacheHit,
         FinishDownload, TakeJob, SkipJob

\* The next repository, and a repository that fails.
LEMMA NextRepoType == TypeOK /\ run.at \in 1 .. Len(Repos) => NextRepo \in Run
<1> SUFFICES ASSUME TypeOK, run.at \in 1 .. Len(Repos) PROVE NextRepo \in Run
  OBVIOUS
<1>1. run.at + 1 \in 1 .. Len(Repos) + 1
  BY ReposAssumption, LenProperties
<1>2. QED
  BY ZenonT(40), <1>1 DEF TypeOK, Run, NextRepo, PC, Stages

LEMMA RepoFailsType == TypeOK /\ StatesInv /\ run.pc \in Stages /\ RepoFails => run' \in Run
<1> SUFFICES ASSUME TypeOK, StatesInv, run.pc \in Stages, RepoFails PROVE run' \in Run
  OBVIOUS
<1>1. Repo \in Indexes /\ NextRepo \in Run
  BY RepoIsOne, NextRepoType
<1>2. CASE Return("failed")
  BY <1>2 DEF Return, TypeOK, Run, PC
<1>3. CASE run' = [NextRepo EXCEPT !.failed = @ \cup {Repo}]
  BY <1>1, <1>3 DEF Run
<1>4. QED
  BY <1>2, <1>3 DEF RepoFails

\* The packages of a repository are taken.
LEMMA TakePackagesType ==
  ASSUME TypeOK, StatesInv, run.pc \in Stages, NEW v \in 1 .. Len(Listing[Repo]),
         TakePackages(Repo, v)
  PROVE  run' \in Run
<1>1. Repo \in Indexes /\ NextRepo \in Run
  BY RepoIsOne, NextRepoType
<1>2. Filtered(Repo, v, run.filter) \subseteq Packages
  BY <1>1, FilteredPackages
<1>3. v \in Nat
  <2>1. Listing[Repo] \in Seq(SUBSET Packages)
    BY <1>1, ListingAssumption
  <2>2. Len(Listing[Repo]) \in Nat
    BY <2>1, LenProperties
  <2>3. QED
    BY <2>2
<1>4. [NextRepo.used EXCEPT ![Repo] = v] \in [Indexes -> Nat]
  BY <1>1, <1>3 DEF Run
<1>5. NextRepo.all \cup Filtered(Repo, v, run.filter) \in SUBSET Packages
  BY <1>1, <1>2 DEF Run
<1>6. run' = [NextRepo EXCEPT !.all = NextRepo.all \cup Filtered(Repo, v, run.filter),
                              !.used = [NextRepo.used EXCEPT ![Repo] = v]]
  BY <1>1 DEF TakePackages, Run
<1>7. QED
  BY <1>1, <1>4, <1>5, <1>6 DEF Run

LEMMA RunTypeStep == TypeOK /\ StatesInv /\ SettledInv /\ [Next]_vars => run' \in Run
<1> SUFFICES ASSUME TypeOK, StatesInv, SettledInv, [Next]_vars PROVE run' \in Run
  OBVIOUS
<1>0. run \in Run
  BY DEF TypeOK
<1>1. CASE StartBuild
  BY ZenonT(40), <1>1, NoRunType DEF StartBuild, Run, PC
<1>2. CASE Cancel
  BY <1>0, <1>2 DEF Cancel, Run
<1>3. CASE Kill
  BY <1>3, NoRunType DEF Kill
<1>4. CASE InitializeUserRepos
  <2>1. PICK c \in {User, run.configured} :
          run' = [run EXCEPT !.pc = "refresh", !.configured = c]
    BY <1>4 DEF InitializeUserRepos
  <2>2. c \in SUBSET Indexes
    BY <1>0, <2>1 DEF User, Run
  <2>3. QED
    BY <1>0, <2>1, <2>2 DEF Run, PC, Stages
<1>5. CASE NotConfigured
  BY <1>0, <1>5 DEF NotConfigured, Return, Run, PC
<1>6. CASE RefreshFails
  BY <1>0, <1>6 DEF RefreshFails, Goto, Run, PC, Stages
<1>7. CASE RefreshRepoMetadata
  <2>1. PICK rel \in Served(Repo), sig \in Served(Repo) :
          run' = IF rel = sig THEN [run EXCEPT !.pc = "install", !.staged = rel]
                 ELSE AfterMismatch
    BY <1>7 DEF RefreshRepoMetadata
  <2>2. rel \in Nat
    <3>1. mirror[Repo] \in Nat
      BY <1>7, RepoIsOne DEF RefreshRepoMetadata, Stages, TypeOK
    <3>2. QED
      BY <3>1 DEF Served
  <2>3. AfterMismatch \in Run
    <3>1. run.try + 1 \in Nat
      BY <1>0 DEF Run
    <3>2. [run EXCEPT !.try = run.try + 1] \in Run
      BY <1>0, <3>1 DEF Run
    <3>3. [run EXCEPT !.pc = "settle"] \in Run
      BY <1>0 DEF Run, PC, Stages
    <3>4. QED
      BY <3>2, <3>3 DEF AfterMismatch
  <2>4. [run EXCEPT !.pc = "install", !.staged = rel] \in Run
    BY <1>0, <2>2 DEF Run, PC, Stages
  <2>5. QED
    BY <2>1, <2>3, <2>4
<1>8. CASE InstallRelease
  BY <1>0, <1>8 DEF InstallRelease, Run, PC, Stages
<1>9. CASE InstallSignature
  BY <1>0, <1>9 DEF InstallSignature, Run, PC, Stages
<1>10. CASE SettleMetadata
  <2>1. run.pc \in Stages
    BY <1>10 DEF SettleMetadata, Stages
  <2>2. CASE Goto("index")
    BY <1>0, <2>2 DEF Goto, Run, PC, Stages
  <2>3. QED
    BY <1>10, <2>1, <2>2, RepoFailsType DEF SettleMetadata
<1>11. CASE UseParsedCache
  <2>1. run.pc \in Stages
    BY <1>11 DEF UseParsedCache, Stages
  <2>2. meta[Repo].parsed \in 1 .. Len(Listing[Repo])
    BY <1>11, <2>1, RepoIsOne DEF UseParsedCache, CachedIndexValid, StatesInv, MetaStates, States
  <2>3. QED
    BY <1>11, <2>1, <2>2, TakePackagesType DEF UseParsedCache
<1>12. CASE FetchIndex
  <2>1. run.pc \in Stages
    BY <1>12 DEF FetchIndex, Stages
  <2>2. CASE Goto("torn")
    BY <1>0, <2>2 DEF Goto, Run, PC, Stages
  <2>3. QED
    BY <1>0, <1>12, <2>1, <2>2, RepoFailsType DEF FetchIndex
<1>13. CASE TornIndexRemoved
  BY <1>13, RepoFailsType DEF TornIndexRemoved, Stages
<1>14. CASE ParseIndex
  <2>1. run.pc \in Stages /\ Settled(Repo)
    BY <1>14 DEF ParseIndex, Stages, SettledInv
  <2>2. Expected(Repo) \in 1 .. Len(Listing[Repo])
    <3>1. Repo \in Indexes
      BY <2>1, RepoIsOne
    <3>2. meta[Repo].rel \in States(Repo) /\ meta[Repo].rel # 0
      BY <2>1, <3>1 DEF StatesInv, MetaStates, Settled
    <3>3. Expected(Repo) = meta[Repo].rel
      BY <2>1, <3>1 DEF Settled, Expected
    <3>4. QED
      BY <3>2, <3>3 DEF States
  <2>3. QED
    BY <1>14, <2>1, <2>2, TakePackagesType DEF ParseIndex
<1>a. [run EXCEPT !.pc = "returned", !.result = "failed"] \in Run
  BY <1>0 DEF Run, PC
<1>15. CASE PrepareLocalRepository
  <2>1. \A next \in {"resolve", "serve"} : [run EXCEPT !.pc = next] \in Run
    BY <1>0 DEF Run, PC
  <2>2. QED
    BY <1>a, <1>15, <2>1 DEF PrepareLocalRepository, Goto, Return
<1>16. CASE CreateTemporaryRepository
  <2>1. [run EXCEPT !.pc = "read local"] \in Run
    BY <1>0 DEF Run, PC
  <2>2. QED
    BY <1>a, <1>16, <2>1 DEF CreateTemporaryRepository, Goto, Return
<1>17. CASE LocalUserPackages
  <2>1. run.all \cup Local \subseteq Packages
    <3>1. run.all \subseteq Packages
      BY <1>0 DEF Run
    <3>2. Local \subseteq Packages
      BY DEF Packages
    <3>3. QED
      BY <3>1, <3>2
  <2>2. [run EXCEPT !.pc = "resolve", !.all = run.all \cup Local] \in Run
    BY <1>0, <2>1 DEF Run, PC
  <2>3. QED
    BY <1>a, <1>17, <2>2 DEF LocalUserPackages, Return
<1>18. CASE ResolveRequest
  <2>1. CASE Return("failed")
    BY <1>0, <2>1 DEF Return, Run, PC
  <2>2. CASE ~Return("failed")
    <3> DEFINE needed == {CHOOSE p \in Newest(n) : TRUE : n \in run.request}
    <3>1. /\ run' = [run EXCEPT !.pc = "cache", !.needed = needed]
          /\ \A n \in run.request : Newest(n) # {}
      BY <1>18, <2>2 DEF ResolveRequest
    <3>2. ASSUME NEW n \in run.request PROVE (CHOOSE p \in Newest(n) : TRUE) \in run.all
      BY <3>1 DEF Newest
    <3>3. needed \subseteq Packages
      BY <1>0, <3>2 DEF Run
    <3> HIDE DEF needed
    <3>4. QED
      BY <1>0, <3>1, <3>3 DEF Run, PC
  <2>3. QED
    BY <2>1, <2>2
<1>19. CASE CacheHit
  BY <1>0, <1>19 DEF CacheHit, Return, Run, PC
<1>20. CASE ClearAndRetry
  BY <1>0, <1>20, NoRunType DEF ClearAndRetry, Again, Run, PC
<1>21. CASE StartDownload
  <2>1. {p.file : p \in run.needed} \subseteq Files
    BY <1>0 DEF Run, Files
  <2>2. QED
    BY <1>0, <1>21, <2>1 DEF StartDownload, Run, PC
<1>22. CASE FinishDownload
  BY <1>0, <1>22 DEF FinishDownload, Return, Run, PC
<1>23. ASSUME NEW w \in Workers, TakeJob(w) PROVE run' \in Run
  <2>1. PICK f \in run.jobs :
          run' = [run EXCEPT !.jobs = run.jobs \ {f}, !.failing = run.failing \/ run.cancelled]
    BY <1>23 DEF TakeJob
  <2>2. run.jobs \ {f} \in SUBSET Files /\ (run.failing \/ run.cancelled) \in BOOLEAN
    BY <1>0 DEF Run
  <2>3. QED
    BY <1>0, <2>1, <2>2 DEF Run
<1>24. ASSUME NEW w \in Workers, AttemptFails(w) PROVE run' \in Run
  BY ZenonT(40), <1>0, <1>24 DEF AttemptFails, Run
<1>25. CASE UNCHANGED run
  BY <1>0, <1>25
<1>26. ASSUME NEW w \in Workers, SkipJob(w) PROVE run' \in Run
  <2>1. PICK f \in run.jobs :
          run' = [run EXCEPT !.jobs = run.jobs \ {f}, !.skipped = run.skipped \cup {f}]
    BY <1>26 DEF SkipJob
  <2>2. run.jobs \ {f} \in SUBSET Files /\ run.skipped \cup {f} \in SUBSET Files
    BY <1>0 DEF Run
  <2>3. QED
    BY <1>0, <2>1, <2>2 DEF Run
<1>27. QED
  BY <1>1, <1>2, <1>3, <1>4, <1>5, <1>6, <1>7, <1>8, <1>9, <1>10, <1>11, <1>12, <1>13,
     <1>14, <1>15, <1>16, <1>17, <1>18, <1>19, <1>20, <1>21, <1>22, <1>23, <1>24, <1>25, <1>26
     DEF Next, Build, vars, Publish, StartWriting, Written

\* The workers and the counters.
LEMMA TaskTriedAgain == \A t \in Task : [t EXCEPT !.try = t.try + 1] \in Task
<1> SUFFICES ASSUME NEW t \in Task PROVE [t EXCEPT !.try = t.try + 1] \in Task
  OBVIOUS
<1>1. t.try \in Nat
  BY DEF Task
<1>2. t.try + 1 \in Nat
  BY <1>1
<1>3. QED
  BY <1>2 DEF Task

LEMMA WorkerTypeStep == TypeOK /\ [Next]_vars => worker' \in [Workers -> Task]
<1> SUFFICES ASSUME TypeOK, [Next]_vars PROVE worker' \in [Workers -> Task]
  OBVIOUS
<1>0. worker \in [Workers -> Task] /\ Idle \in Task
  BY DEF TypeOK, Idle, Task
<1>1. CASE Kill
  BY <1>0, <1>1 DEF Kill
<1>2. ASSUME NEW w \in Workers, TakeJob(w) PROVE worker' \in [Workers -> Task]
  <2>1. PICK f \in run.jobs :
          worker' \in {worker, [worker EXCEPT ![w] = [Idle EXCEPT !.file = f]]}
    BY <1>2 DEF TakeJob
  <2>2. f \in Files
    BY <2>1 DEF TypeOK, Run
  <2>3. [Idle EXCEPT !.file = f] \in Task
    BY <2>2 DEF Idle, Task
  <2>4. QED
    BY <1>0, <2>1, <2>3
<1>3. ASSUME NEW w \in Workers, Written(w) PROVE worker' \in [Workers -> Task]
  BY <1>0, <1>3 DEF Written
<1>4. ASSUME NEW w \in Workers, AttemptFails(w) PROVE worker' \in [Workers -> Task]
  <2>1. \/ worker' = [worker EXCEPT ![w] = Idle]
        \/ worker' = [worker EXCEPT ![w] = [worker[w] EXCEPT !.try = worker[w].try + 1]]
    BY <1>4 DEF AttemptFails
  <2>2. [worker[w] EXCEPT !.try = worker[w].try + 1] \in Task
    BY <1>0, TaskTriedAgain
  <2>3. QED
    BY <1>0, <2>1, <2>2
<1>5. CASE UNCHANGED worker
  BY <1>0, <1>5
<1>6. QED
  BY <1>1, <1>2, <1>3, <1>4, <1>5
     DEF Next, Build, vars, Publish, StartBuild, Cancel, InitializeUserRepos, NotConfigured,
         RefreshFails, RefreshRepoMetadata, InstallRelease, InstallSignature,
         SettleMetadata, UseParsedCache, FetchIndex, TornIndexRemoved, ParseIndex,
         PrepareLocalRepository, CreateTemporaryRepository, LocalUserPackages,
         ResolveRequest, CacheHit, ClearAndRetry, StartDownload, FinishDownload, SkipJob,
         StartWriting

LEMMA CounterTypeStep == TypeOK /\ [Next]_vars => builds' \in Nat /\ kills' \in Nat
<1> SUFFICES ASSUME TypeOK, [Next]_vars PROVE builds' \in Nat /\ kills' \in Nat
  OBVIOUS
<1>1. \/ builds' = builds + 1 /\ kills' = kills
      \/ builds' = builds /\ kills' = kills + 1
      \/ UNCHANGED <<builds, kills>>
  BY DEF Next, Build, vars, Publish, StartBuild, Cancel, Kill, InitializeUserRepos,
         NotConfigured, RefreshFails, RefreshRepoMetadata, InstallRelease,
         InstallSignature, SettleMetadata, UseParsedCache, FetchIndex, TornIndexRemoved,
         ParseIndex, PrepareLocalRepository, CreateTemporaryRepository, LocalUserPackages,
         ResolveRequest, CacheHit, ClearAndRetry, StartDownload, TakeJob, SkipJob, StartWriting,
         Written, AttemptFails, FinishDownload
<1>2. QED
  BY <1>1 DEF TypeOK

LEMMA TypeStep == TypeOK /\ StatesInv /\ SettledInv /\ [Next]_vars => TypeOK'
  BY DiskTypeStep, RunTypeStep, WorkerTypeStep, CounterTypeStep DEF TypeOK
-----------------------------------------------------------------------------
(* Published states *)

LEMMA LenOfListing == \A r \in Indexes : Len(Listing[r]) \in Nat
<1> SUFFICES ASSUME NEW r \in Indexes PROVE Len(Listing[r]) \in Nat
  OBVIOUS
<1>1. Listing[r] \in Seq(SUBSET Packages)
  BY ListingAssumption
<1>2. QED
  BY <1>1, LenProperties

LEMMA StatesInit == Init => StatesInv
<1> SUFFICES ASSUME Init PROVE StatesInv
  OBVIOUS
<1>1. MirrorStates
  <2>1. ASSUME NEW r \in Indexes PROVE mirror[r] \in States(r)
    <3>1. mirror[r] \in {0, 1}
      BY DEF Init
    <3>2. Listing[r] \in Seq(SUBSET Packages) /\ Listing[r] # <<>>
      BY ListingAssumption
    <3>3. Len(Listing[r]) \in Nat \ {0}
      BY <3>2, EmptySeq, LenProperties
    <3>4. QED
      BY <3>1, <3>3 DEF States
  <2>2. QED
    BY <2>1 DEF MirrorStates
<1>2. MetaStates
  BY LenOfListing DEF Init, MetaStates, States
<1>3. AtARepo /\ StagedState
  BY DEF Init, NoRun, AtARepo, StagedState, Stages
<1>4. QED
  BY <1>1, <1>2, <1>3 DEF StatesInv

LEMMA MirrorStep == TypeOK /\ MirrorStates /\ [Next]_vars => MirrorStates'
<1> SUFFICES ASSUME TypeOK, MirrorStates, [Next]_vars PROVE MirrorStates'
  OBVIOUS
<1>1. ASSUME NEW r \in Indexes, Publish(r) PROVE MirrorStates'
  BY <1>1, LenOfListing DEF Publish, MirrorStates, States, TypeOK
<1>2. CASE UNCHANGED mirror
  BY <1>2 DEF MirrorStates, States
<1>3. QED
  BY <1>1, <1>2
     DEF Next, Build, vars, disk, StartBuild, Cancel, Kill, InitializeUserRepos,
         NotConfigured, RefreshFails, RefreshRepoMetadata, InstallRelease,
         InstallSignature, SettleMetadata, UseParsedCache, FetchIndex, TornIndexRemoved,
         ParseIndex, PrepareLocalRepository, CreateTemporaryRepository, LocalUserPackages,
         ResolveRequest, CacheHit, ClearAndRetry, StartDownload, TakeJob, SkipJob, StartWriting,
         Written, AttemptFails, FinishDownload

\* What verified when the metadata was settled is what the index is looked up by.
LEMMA ExpectedIsRelease ==
  ASSUME TypeOK, StatesInv, SettledInv, run.pc \in {"index", "torn"}
  PROVE  Repo \in Indexes /\ Settled(Repo) /\ Expected(Repo) = meta[Repo].rel
<1>1. Repo \in Indexes /\ Settled(Repo)
  BY RepoIsOne DEF SettledInv, Stages
<1>2. QED
  BY <1>1 DEF Settled, Expected

LEMMA MetaStep == TypeOK /\ StatesInv /\ SettledInv /\ [Next]_vars => MetaStates'
<1> SUFFICES ASSUME TypeOK, StatesInv, SettledInv, [Next]_vars PROVE MetaStates'
  OBVIOUS
<1>0. MetaStates /\ meta \in [Indexes -> Metadata]
  BY DEF TypeOK, StatesInv
<1>1. CASE InstallRelease
  <2>1. Repo \in Indexes /\ run.staged \in States(Repo)
    BY <1>1, RepoIsOne DEF InstallRelease, Stages, StatesInv, StagedState
  <2>2. QED
    BY <1>0, <1>1, <2>1 DEF InstallRelease, MetaStates, States, Metadata
<1>2. CASE InstallSignature
  <2>1. Repo \in Indexes /\ run.staged \in States(Repo)
    BY <1>2, RepoIsOne DEF InstallSignature, Stages, StatesInv, StagedState
  <2>2. QED
    BY ZenonT(40), <1>0, <1>2, <2>1 DEF InstallSignature, MetaStates, States, Metadata
<1>3. CASE SettleMetadata
  <2>1. Repo \in Indexes
    BY <1>3, RepoIsOne DEF SettleMetadata, Stages
  <2>2. Plain(Repo) \in States(Repo)
    BY <1>0, <2>1, LenOfListing DEF Plain, MetaStates, States
  <2>3. meta' = meta \/ meta' = [meta EXCEPT ![Repo].plain = Plain(Repo)]
    BY <1>3 DEF SettleMetadata
  <2>4. QED
    BY ZenonT(40), <1>0, <2>1, <2>2, <2>3 DEF MetaStates, States, Metadata
<1>4. CASE FetchIndex \/ TornIndexRemoved
  <2>1. PICK got : meta' = [meta EXCEPT ![Repo].gz = got]
    BY <1>4 DEF FetchIndex, TornIndexRemoved
  <2>2. QED
    BY <1>0, <2>1 DEF MetaStates, States, Metadata
<1>5. CASE ParseIndex
  <2>1. Repo \in Indexes /\ Expected(Repo) \in States(Repo)
    BY <1>0, <1>5, ExpectedIsRelease DEF ParseIndex, MetaStates
  <2>2. meta' = [meta EXCEPT ![Repo].parsed = Expected(Repo), ![Repo].filter = run.filter]
    BY <1>5 DEF ParseIndex
  <2>3. QED
    BY <1>0, <2>1, <2>2 DEF MetaStates, States, Metadata
<1>6. CASE ClearAndRetry
  <2>1. ASSUME NEW r \in Indexes
        PROVE  /\ meta'[r].rel = meta[r].rel /\ meta'[r].sig = meta[r].sig
               /\ meta'[r].plain = meta[r].plain /\ meta'[r].parsed \in {0, meta[r].parsed}
    BY <1>0, <1>6 DEF ClearAndRetry, ForgetParsed, Metadata
  <2>2. QED
    BY <1>0, <2>1, LenOfListing DEF MetaStates, States
<1>7. CASE UNCHANGED meta
  BY <1>0, <1>7 DEF MetaStates, States
<1>8. QED
  BY <1>1, <1>2, <1>3, <1>4, <1>5, <1>6, <1>7
     DEF Next, Build, vars, disk, Publish, StartBuild, Cancel, Kill, InitializeUserRepos,
         NotConfigured, RefreshFails, RefreshRepoMetadata, UseParsedCache,
         PrepareLocalRepository, CreateTemporaryRepository, LocalUserPackages,
         ResolveRequest, CacheHit, StartDownload, TakeJob, SkipJob, StartWriting,
         Written, AttemptFails, FinishDownload

-----------------------------------------------------------------------------
(* The repository that is worked on *)

LEMMA NextRepoStage ==
  TypeOK /\ run.at \in 1 .. Len(Repos) =>
    \/ NextRepo.pc = "local"
    \/ NextRepo.pc = "refresh" /\ NextRepo.at \in 1 .. Len(Repos)
<1> SUFFICES ASSUME TypeOK, run.at \in 1 .. Len(Repos)
             PROVE  \/ NextRepo.pc = "local"
                    \/ NextRepo.pc = "refresh" /\ NextRepo.at \in 1 .. Len(Repos)
  OBVIOUS
<1>1. Len(Repos) \in Nat
  BY ReposAssumption, LenProperties
<1>2. run \in Run
  BY DEF TypeOK
<1>3. NextRepo.at = run.at + 1
  BY <1>2 DEF NextRepo, Run
<1>4. NextRepo.pc = IF run.at = Len(Repos) THEN "local" ELSE "refresh"
  BY <1>2 DEF NextRepo, Run
<1>5. QED
  BY <1>1, <1>3, <1>4

\* Where a step takes the build: out of the repositories, to the start of one or to
\* its settling, or one stage on in the same one.
Away == run.pc \notin Stages \cup {"config"}
Starts == run.pc \in {"config", "refresh", "settle"} /\ run.at \in 1 .. Len(Repos)
GoesOn ==
    /\ run.pc \in Stages /\ run'.at = run.at
    /\ \/ run'.pc = "install" /\ run'.staged \in States(Repo)
       \/ run.pc = "install" /\ run'.pc = "install signature" /\ run'.staged = run.staged
       \/ SettleMetadata /\ LocalMetaUsable(Repo) /\ run'.pc = "index"
       \/ FetchIndex /\ run'.pc = "torn"
       \/ run'.pc = run.pc /\ run'.staged = run.staged /\ (UNCHANGED meta \/ FetchIndex)

LEMMA LeavesRepo ==
  ASSUME TypeOK, StatesInv, run.pc \in Stages,
         RepoFails \/ \E v : TakePackages(Repo, v)
  PROVE  Away' \/ Starts'
<1>1. run \in Run /\ NextRepo \in Run
  BY RepoIsOne, NextRepoType DEF TypeOK
<1>2. \/ NextRepo.pc = "local"
      \/ NextRepo.pc = "refresh" /\ NextRepo.at \in 1 .. Len(Repos)
  BY RepoIsOne, NextRepoStage
<1>3. CASE Return("failed")
  BY <1>1, <1>3 DEF Return, Run, Away, Stages
<1>4. CASE run'.pc = NextRepo.pc /\ run'.at = NextRepo.at
  BY <1>2, <1>4 DEF Away, Starts, Stages
<1>5. CASE run' = [NextRepo EXCEPT !.failed = NextRepo.failed \cup {Repo}]
  BY <1>1, <1>4, <1>5 DEF Run
<1>6. CASE \E v : TakePackages(Repo, v)
  BY <1>1, <1>4, <1>6 DEF TakePackages, Run
<1>7. QED
  BY <1>3, <1>5, <1>6 DEF RepoFails

LEMMA StageStep ==
  TypeOK /\ StatesInv /\ [Next]_vars => Away' \/ Starts' \/ GoesOn
<1> SUFFICES ASSUME TypeOK, StatesInv, [Next]_vars PROVE Away' \/ Starts' \/ GoesOn
  OBVIOUS
<1>0. run \in Run /\ AtARepo
  BY DEF TypeOK, StatesInv
<1>a. CASE run'.pc \in PC \ (Stages \cup {"config"})
  BY <1>a DEF Away
<1>b. CASE run'.pc = run.pc /\ run'.at = run.at /\ run'.staged = run.staged /\ UNCHANGED meta
  BY <1>0, <1>b DEF Away, Starts, GoesOn, AtARepo
<1>1. CASE StartBuild \/ ClearAndRetry
  <2>1. run'.pc = "config" /\ run'.at = 1
    <3>1. NoRun \in Run /\ NoRun.at = 1
      BY NoRunType DEF NoRun
    <3>2. CASE StartBuild
      BY <3>1, <3>2 DEF StartBuild, Run
    <3>3. CASE ClearAndRetry
      BY <3>1, <3>3 DEF ClearAndRetry, Again, Run
    <3>4. QED
      BY <1>1, <3>2, <3>3
  <2>2. 1 \in 1 .. Len(Repos)
    BY ReposAssumption, EmptySeq, LenProperties
  <2>3. QED
    BY <2>1, <2>2 DEF Starts
<1>2. CASE Cancel
  BY <1>0, <1>b, <1>2 DEF Cancel, Run, disk
<1>3. CASE Kill
  BY <1>3 DEF Kill, NoRun, Away, Stages
<1>4. CASE InitializeUserRepos
  BY <1>0, <1>4 DEF InitializeUserRepos, Run, Starts, AtARepo
<1>5. CASE NotConfigured \/ CacheHit \/ FinishDownload
  BY <1>0, <1>5 DEF NotConfigured, CacheHit, FinishDownload, Return, Run, Away, Stages
<1>6. CASE RefreshFails
  BY <1>0, <1>6 DEF RefreshFails, Goto, Run, Starts, AtARepo, Stages
<1>7. CASE RefreshRepoMetadata
  <2>1. PICK rel \in Served(Repo), sig \in Served(Repo) :
          run' = IF rel = sig THEN [run EXCEPT !.pc = "install", !.staged = rel]
                 ELSE AfterMismatch
    BY <1>7 DEF RefreshRepoMetadata
  <2>2. run.pc = "refresh" /\ run.pc \in Stages
    BY <1>7 DEF RefreshRepoMetadata, Stages
  <2>3. CASE rel = sig
    <3>1. Repo \in Indexes /\ mirror[Repo] \in States(Repo)
      BY <2>2, RepoIsOne DEF StatesInv, MirrorStates
    <3>2. rel \in States(Repo)
      BY <3>1, ServedStates
    <3>3. QED
      BY <1>0, <2>1, <2>2, <2>3, <3>2 DEF Run, GoesOn
  <2>4. CASE rel # sig
    BY <1>0, <2>1, <2>2, <2>4 DEF AfterMismatch, Run, Starts, AtARepo
  <2>5. QED
    BY <2>3, <2>4
<1>8. CASE InstallRelease
  <2>1. run.pc = "install" /\ run.pc \in Stages
    BY <1>8 DEF InstallRelease, Stages
  <2>2. QED
    BY <1>0, <1>8, <2>1 DEF InstallRelease, Run, Starts, GoesOn, AtARepo
<1>9. CASE InstallSignature
  BY <1>0, <1>9 DEF InstallSignature, Run, Starts, AtARepo, Stages
<1>10. CASE SettleMetadata
  <2>1. run.pc \in Stages
    BY <1>10 DEF SettleMetadata, Stages
  <2>2. CASE LocalMetaUsable(Repo)
    BY <1>0, <1>10, <2>1, <2>2 DEF SettleMetadata, Goto, Run, GoesOn
  <2>3. QED
    BY <1>10, <2>1, <2>2, LeavesRepo DEF SettleMetadata
<1>11. CASE UseParsedCache \/ ParseIndex
  BY <1>11, LeavesRepo DEF UseParsedCache, ParseIndex, Stages
<1>12. CASE FetchIndex
  <2>1. run.pc \in Stages
    BY <1>12 DEF FetchIndex, Stages
  <2>2. CASE Goto("torn")
    BY <1>0, <1>12, <2>1, <2>2 DEF Goto, Run, GoesOn
  <2>3. CASE UNCHANGED run
    BY <1>12, <2>1, <2>3 DEF GoesOn
  <2>4. QED
    BY <1>12, <2>1, <2>2, <2>3, LeavesRepo DEF FetchIndex
<1>13. CASE TornIndexRemoved
  BY <1>13, LeavesRepo DEF TornIndexRemoved, Stages
<1>14. CASE PrepareLocalRepository \/ CreateTemporaryRepository \/ LocalUserPackages
  BY ZenonT(40), <1>0, <1>14
     DEF PrepareLocalRepository, CreateTemporaryRepository, LocalUserPackages, Goto, Return,
         Run, Away, Stages
<1>15. CASE ResolveRequest \/ StartDownload
  <2>1. CASE ResolveRequest
    <3>1. \/ run' = [run EXCEPT !.pc = "returned", !.result = "failed"]
          \/ \E needed : run' = [run EXCEPT !.pc = "cache", !.needed = needed]
      BY <2>1 DEF ResolveRequest, Return
    <3>2. QED
      BY <1>0, <3>1 DEF Run, Away, Stages
  <2>2. CASE StartDownload
    <3>1. \E jobs : run' = [run EXCEPT !.pc = "download", !.jobs = jobs]
      BY <2>2 DEF StartDownload
    <3>2. QED
      BY <1>0, <3>1 DEF Run, Away, Stages
  <2>3. QED
    BY <1>15, <2>1, <2>2
<1>16. ASSUME NEW w \in Workers, TakeJob(w) \/ SkipJob(w) PROVE Away' \/ Starts' \/ GoesOn
  BY <1>0, <1>16 DEF TakeJob, SkipJob, Run, Away, Stages
<1>17. ASSUME NEW w \in Workers, AttemptFails(w) PROVE Away' \/ Starts' \/ GoesOn
  BY <1>0, <1>b, <1>17 DEF AttemptFails, Run
<1>18. CASE UNCHANGED <<run, meta>>
  BY <1>b, <1>18
<1>19. QED
  BY <1>1, <1>2, <1>3, <1>4, <1>5, <1>6, <1>7, <1>8, <1>9, <1>10, <1>11, <1>12, <1>13,
     <1>14, <1>15, <1>16, <1>17, <1>18
     DEF Next, Build, vars, disk, Publish, StartWriting, Written

LEMMA StatesStep == TypeOK /\ StatesInv /\ SettledInv /\ [Next]_vars => StatesInv'
<1> SUFFICES ASSUME TypeOK, StatesInv, SettledInv, [Next]_vars PROVE StatesInv'
  OBVIOUS
<1>1. MirrorStates' /\ MetaStates'
  BY MirrorStep, MetaStep DEF StatesInv
<1>2. Away' \/ Starts' \/ GoesOn
  BY StageStep
<1>3. AtARepo'
  BY <1>2 DEF Away, Starts, GoesOn, AtARepo, StatesInv, Stages
<1>4. StagedState'
  <2>1. CASE Away' \/ Starts'
    BY <2>1 DEF Away, Starts, StagedState, Stages
  <2>2. CASE GoesOn
    BY <2>2 DEF GoesOn, StatesInv, StagedState, SettleMetadata, FetchIndex, Repo, States
  <2>3. QED
    BY <1>2, <2>1, <2>2
<1>5. QED
  BY <1>1, <1>3, <1>4 DEF StatesInv

LEMMA SettledStep == TypeOK /\ StatesInv /\ SettledInv /\ [Next]_vars => SettledInv'
<1> SUFFICES ASSUME TypeOK, StatesInv, SettledInv, [Next]_vars PROVE SettledInv'
  OBVIOUS
<1>1. CASE Away' \/ Starts'
  BY <1>1 DEF Away, Starts, SettledInv, Stages
<1>2. CASE GoesOn
  <2>1. run.pc \in Stages /\ Repo \in Indexes /\ Repo' = Repo /\ meta \in [Indexes -> Metadata]
    BY <1>2, RepoIsOne DEF GoesOn, Repo, TypeOK
  <2>2. CASE SettleMetadata /\ LocalMetaUsable(Repo) /\ run'.pc = "index"
    <3>1. meta' = [meta EXCEPT ![Repo].plain = Plain(Repo)]
      BY <2>2 DEF SettleMetadata
    <3>2. Settled(Repo)'
      BY <2>1, <2>2, <3>1
         DEF Settled, Metadata, Plain, LocalMetaUsable, HaveLocalMeta, Verifies
    <3>3. QED
      BY <2>1, <3>2 DEF SettledInv
  <2>3. CASE FetchIndex
    <3>1. PICK got : meta' = [meta EXCEPT ![Repo].gz = got]
      BY <2>3 DEF FetchIndex
    <3>2. Settled(Repo)
      BY <2>3 DEF FetchIndex, SettledInv
    <3>3. Settled(Repo)'
      BY <2>1, <3>1, <3>2 DEF Settled, Metadata
    <3>4. QED
      BY <2>1, <3>3 DEF SettledInv
  <2>4. CASE run'.pc \in {"install", "install signature"}
    BY <2>4 DEF SettledInv
  <2>5. CASE run'.pc = run.pc /\ UNCHANGED meta
    BY <2>1, <2>5 DEF SettledInv, Settled
  <2>6. QED
    BY <1>2, <2>2, <2>3, <2>4, <2>5 DEF GoesOn
<1>3. QED
  BY <1>1, <1>2, StageStep

-----------------------------------------------------------------------------
(* The pool of workers *)

LEMMA IdleFile == Idle.file = "" /\ \A f : [Idle EXCEPT !.file = f].file = f
  BY DEF Idle

LEMMA IdlePool ==
  ASSUME run' \in Run, \A w \in Workers : worker'[w] = Idle
  PROVE  PoolInv'
<1>1. run'.jobs \subseteq Files
  BY DEF Run
<1>2. "" \notin run'.jobs
  BY <1>1, ListingAssumption
<1>3. \A w \in Workers : worker'[w].file = ""
  BY IdleFile
<1>4. QED
  BY <1>2, <1>3 DEF PoolInv

LEMMA PoolStep == TypeOK /\ TypeOK' /\ PoolInv /\ [Next]_vars => PoolInv'
<1> SUFFICES ASSUME TypeOK, TypeOK', PoolInv, [Next]_vars PROVE PoolInv'
  OBVIOUS
<1>0. run \in Run /\ run' \in Run /\ worker \in [Workers -> Task]
  BY DEF TypeOK
<1>1. CASE \A w \in Workers : worker'[w] = Idle
  BY <1>0, <1>1, IdlePool
<1>2. CASE UNCHANGED worker /\ run.pc # "download"
  BY <1>1, <1>2 DEF PoolInv
<1>3. CASE UNCHANGED worker /\ run'.pc = run.pc /\ run'.jobs = run.jobs
  BY <1>3 DEF PoolInv
<1>4. CASE Kill \/ FinishDownload
  BY <1>1, <1>4 DEF Kill, FinishDownload
<1>5. CASE Cancel
  BY <1>0, <1>3, <1>5 DEF Cancel, Run
<1>6. ASSUME NEW w \in Workers, TakeJob(w) PROVE PoolInv'
  <2>1. PICK f \in run.jobs :
          /\ run' = [run EXCEPT !.jobs = run.jobs \ {f},
                               !.failing = run.failing \/ run.cancelled]
          /\ worker' = IF run.cancelled \/ debs[f] # "none" THEN worker
                       ELSE [worker EXCEPT ![w] = [Idle EXCEPT !.file = f]]
    BY <1>6 DEF TakeJob
  <2>2. run.pc = "download" /\ run'.pc = "download" /\ run'.jobs = run.jobs \ {f}
    BY <1>0, <1>6, <2>1 DEF TakeJob, Run
  <2>3. \A v \in Workers : worker'[v].file = worker[v].file \/ (v = w /\ worker'[v].file = f)
    <3>1. CASE UNCHANGED worker
      BY <3>1
    <3>2. CASE worker' = [worker EXCEPT ![w] = [Idle EXCEPT !.file = f]]
      BY <1>0, <3>2, IdleFile
    <3>3. QED
      BY <2>1, <3>1, <3>2
  <2>4. QED
    BY ZenonT(40), <2>2, <2>3 DEF PoolInv
<1>7. ASSUME NEW w \in Workers, Written(w) \/ AttemptFails(w) PROVE PoolInv'
  <2>1. run.pc = "download" /\ run'.pc = run.pc /\ run'.jobs = run.jobs
    <3>1. worker[w].file # ""
      BY <1>7 DEF Written, AttemptFails
    <3>2. run.pc = "download"
      BY <3>1, IdleFile DEF PoolInv
    <3>3. QED
      BY <1>0, <1>7, <3>2 DEF Written, AttemptFails, Run
  <2>2. \/ worker' = [worker EXCEPT ![w] = Idle]
        \/ worker' = [worker EXCEPT ![w] = [worker[w] EXCEPT !.try = worker[w].try + 1]]
    BY <1>7 DEF Written, AttemptFails
  <2>3. \A v \in Workers : worker'[v].file \in {worker[v].file, ""}
    <3>1. worker'[w].file \in {worker[w].file, ""}
      <4>1. worker[w] \in Task
        BY <1>0
      <4>2. [worker[w] EXCEPT !.try = worker[w].try + 1].file = worker[w].file
        BY <4>1 DEF Task
      <4>3. QED
        BY <1>0, <2>2, <4>2, IdleFile
    <3>2. QED
      BY <1>0, <2>2, <3>1
  <2>4. \A v \in Workers : v # w => worker'[v] = worker[v]
    BY <1>0, <2>2
  <2>5. "" \notin run.jobs
    BY <1>0, ListingAssumption DEF Run
  <2>6. QED
    BY ZenonT(40), <2>1, <2>3, <2>4, <2>5 DEF PoolInv
<1>8. ASSUME NEW w \in Workers, SkipJob(w) PROVE PoolInv'
  <2>1. PICK f \in run.jobs :
          run' = [run EXCEPT !.jobs = run.jobs \ {f}, !.skipped = run.skipped \cup {f}]
    BY <1>8 DEF SkipJob
  <2>2. run'.pc = "download" /\ run'.jobs = run.jobs \ {f} /\ UNCHANGED worker
    BY <1>0, <1>8, <2>1 DEF SkipJob, Run
  <2>3. QED
    BY <2>2 DEF PoolInv
<1>9. QED
  BY <1>2, <1>3, <1>4, <1>5, <1>6, <1>7, <1>8
     DEF Next, Build, vars, disk, Publish, StartBuild, InitializeUserRepos, NotConfigured,
         RefreshFails, RefreshRepoMetadata, InstallRelease, InstallSignature,
         SettleMetadata, UseParsedCache, FetchIndex, TornIndexRemoved, ParseIndex,
         PrepareLocalRepository, CreateTemporaryRepository, LocalUserPackages,
         ResolveRequest, CacheHit, ClearAndRetry, StartDownload, StartWriting

\* Only StartDownload and the steps of the pool lead to a build that downloads.
LEMMA DownloadSteps ==
  ASSUME TypeOK, StatesInv, [Next]_vars, run'.pc = "download"
  PROVE  \/ StartDownload
         \/ \E w \in Workers : TakeJob(w) \/ SkipJob(w) \/ StartWriting(w) \/ Written(w)
                               \/ AttemptFails(w)
         \/ UNCHANGED <<run.pc, run.jobs, run.skipped, run.needed, run.failing, worker, debs>>
<1>0. run \in Run
  BY DEF TypeOK
<1> DEFINE Same == UNCHANGED <<run.pc, run.jobs, run.skipped, run.needed, run.failing, worker, debs>>
<1>1. CASE Cancel \/ UNCHANGED vars \/ \E r \in Indexes : Publish(r)
  BY <1>0, <1>1 DEF Cancel, Publish, vars, disk, Run
<1>2. CASE StartBuild \/ ClearAndRetry \/ Kill
  <2>1. NoRun \in Run /\ NoRun.pc = "idle"
    BY NoRunType DEF NoRun
  <2>2. QED
    BY <1>2, <2>1 DEF StartBuild, ClearAndRetry, Again, Kill, Run
<1>3. CASE InitializeUserRepos \/ RefreshFails \/ InstallRelease \/ InstallSignature
  BY <1>0, <1>3
     DEF InitializeUserRepos, RefreshFails, InstallRelease, InstallSignature, Goto, Run
<1>4. CASE NotConfigured \/ PrepareLocalRepository \/ CreateTemporaryRepository
             \/ LocalUserPackages \/ ResolveRequest \/ CacheHit \/ FinishDownload
  BY <1>0, <1>4
     DEF NotConfigured, PrepareLocalRepository, CreateTemporaryRepository,
         LocalUserPackages, ResolveRequest, CacheHit, FinishDownload, Goto, Return, Run
<1>5. CASE RefreshRepoMetadata
  BY <1>0, <1>5 DEF RefreshRepoMetadata, AfterMismatch, Run
<1>6. CASE SettleMetadata \/ UseParsedCache \/ FetchIndex \/ TornIndexRemoved \/ ParseIndex
  <2>1. run.pc \in Stages /\ run.pc # "download"
    BY <1>6
       DEF SettleMetadata, UseParsedCache, FetchIndex, TornIndexRemoved, ParseIndex, Stages
  <2>2. NextRepo \in Run /\ NextRepo.pc # "download"
    BY <1>0, <2>1, RepoIsOne, NextRepoType DEF NextRepo, Run
  <2>3. QED
    BY ZenonT(40), <1>0, <1>6, <2>1, <2>2
       DEF SettleMetadata, UseParsedCache, FetchIndex, TornIndexRemoved, ParseIndex,
           TakePackages, RepoFails, Goto, Return, Run
<1>7. QED
  BY <1>1, <1>2, <1>3, <1>4, <1>5, <1>6 DEF Next, Build

LEMMA ForgottenStep ==
  TypeOK /\ StatesInv /\ PoolInv /\ NothingForgotten /\ [Next]_vars => NothingForgotten'
<1> SUFFICES ASSUME TypeOK, StatesInv, PoolInv, NothingForgotten, [Next]_vars,
                    run'.pc = "download", ~run'.failing, NEW p \in run'.needed
             PROVE  \/ p.file \in run'.jobs \/ debs'[p.file] # "none" \/ p.file \in run'.skipped
                    \/ \E w \in Workers : worker'[w].file = p.file
  BY DEF NothingForgotten, Fetching
<1>0. run \in Run /\ worker \in [Workers -> Task] /\ DOMAIN debs = Files
  BY DEF TypeOK
<1>1. CASE StartDownload
  BY <1>0, <1>1 DEF StartDownload, Run
<1>2. CASE run.pc = "download" /\ ~run.failing /\ run'.needed = run.needed
  <2>0. p \in Packages /\ p.file \in Files
    BY <1>0, <1>2 DEF Run, Files
  <2>1. \/ p.file \in run.jobs \/ debs[p.file] # "none" \/ p.file \in run.skipped
        \/ \E w \in Workers : worker[w].file = p.file
    BY <1>2 DEF NothingForgotten, Fetching
  <2>2. CASE UNCHANGED <<run.jobs, run.skipped, worker, debs>>
    BY <2>1, <2>2
  <2>3. ASSUME NEW w \in Workers, TakeJob(w)
        PROVE  \/ p.file \in run'.jobs \/ debs'[p.file] # "none" \/ p.file \in run'.skipped
               \/ \E v \in Workers : worker'[v].file = p.file
    <3>1. PICK f \in run.jobs :
            /\ run' = [run EXCEPT !.jobs = run.jobs \ {f},
                                 !.failing = run.failing \/ run.cancelled]
            /\ worker' = IF run.cancelled \/ debs[f] # "none" THEN worker
                         ELSE [worker EXCEPT ![w] = [Idle EXCEPT !.file = f]]
      BY <2>3 DEF TakeJob
    <3>2. worker[w] = Idle /\ debs' = debs
      BY <2>3 DEF TakeJob, disk
    <3>3. ~run.cancelled /\ run'.jobs = run.jobs \ {f} /\ run'.skipped = run.skipped
      BY <1>0, <3>1 DEF Run
    <3>4. CASE p.file = f /\ debs[f] = "none"
      <4>1. worker'[w].file = f
        BY <1>0, <3>1, <3>3, <3>4 DEF Idle
      <4>2. QED
        BY <3>4, <4>1
    <3>5. ASSUME NEW v \in Workers, worker[v].file = p.file
          PROVE  worker'[v].file = p.file
      <4>1. v # w
        BY <2>0, <3>2, <3>5, IdleFile, ListingAssumption
      <4>2. QED
        BY <1>0, <3>1, <3>5, <4>1
    <3>6. QED
      BY <2>1, <3>2, <3>3, <3>4, <3>5
  <2>4. ASSUME NEW w \in Workers, StartWriting(w)
        PROVE  \/ p.file \in run'.jobs \/ debs'[p.file] # "none" \/ p.file \in run'.skipped
               \/ \E v \in Workers : worker'[v].file = p.file
    BY <1>0, <2>0, <2>1, <2>4 DEF StartWriting
  <2>5. ASSUME NEW w \in Workers, Written(w)
        PROVE  \/ p.file \in run'.jobs \/ debs'[p.file] # "none" \/ p.file \in run'.skipped
               \/ \E v \in Workers : worker'[v].file = p.file
    <3>1. PICK c \in {"whole", "bad"} : debs' = [debs EXCEPT ![worker[w].file] = c]
      BY <2>5 DEF Written
    <3>2. UNCHANGED run /\ worker' = [worker EXCEPT ![w] = Idle]
      BY <2>5 DEF Written
    <3>3. CASE p.file = worker[w].file
      BY <1>0, <2>0, <3>1, <3>3
    <3>4. CASE p.file # worker[w].file
      BY <1>0, <2>0, <2>1, <3>1, <3>2, <3>4
    <3>5. QED
      BY <3>3, <3>4
  <2>6. ASSUME NEW w \in Workers, AttemptFails(w)
        PROVE  \/ p.file \in run'.jobs \/ debs'[p.file] # "none" \/ p.file \in run'.skipped
               \/ \E v \in Workers : worker'[v].file = p.file
    <3>1. PICK ends \in BOOLEAN :
            /\ run' = [run EXCEPT !.failing = run.failing \/ ends]
            /\ worker' = IF ends THEN [worker EXCEPT ![w] = Idle]
                         ELSE [worker EXCEPT ![w] = [worker[w] EXCEPT !.try = worker[w].try + 1]]
      BY <2>6 DEF AttemptFails
    <3>2. ~ends /\ run'.jobs = run.jobs /\ run'.skipped = run.skipped
      BY <1>0, <1>2, <3>1 DEF Run
    <3>3. \A v \in Workers : worker'[v].file = worker[v].file
      BY <1>0, <3>1, <3>2 DEF Task
    <3>4. debs' = [debs EXCEPT ![worker[w].file] = "none"]
      BY <2>6 DEF AttemptFails
    <3>5. CASE p.file = worker[w].file
      BY <3>3, <3>5
    <3>6. CASE p.file # worker[w].file
      BY <1>0, <2>0, <2>1, <3>2, <3>3, <3>4, <3>6
    <3>7. QED
      BY <3>5, <3>6
  <2>7. ASSUME NEW w \in Workers, SkipJob(w)
        PROVE  \/ p.file \in run'.jobs \/ debs'[p.file] # "none" \/ p.file \in run'.skipped
               \/ \E v \in Workers : worker'[v].file = p.file
    <3>1. PICK f \in run.jobs :
            run' = [run EXCEPT !.jobs = run.jobs \ {f}, !.skipped = run.skipped \cup {f}]
      BY <2>7 DEF SkipJob
    <3>2. run'.jobs = run.jobs \ {f} /\ run'.skipped = run.skipped \cup {f}
      BY <1>0, <3>1 DEF Run
    <3>3. UNCHANGED <<worker, debs>>
      BY <2>7 DEF SkipJob, disk
    <3>4. QED
      BY <2>1, <3>2, <3>3
  <2>8. QED
    BY <1>1, <2>2, <2>3, <2>4, <2>5, <2>6, <2>7, DownloadSteps
<1>3. ASSUME ~StartDownload
      PROVE  run.pc = "download" /\ ~run.failing /\ run'.needed = run.needed
  <2>1. CASE UNCHANGED <<run.pc, run.jobs, run.skipped, run.needed, run.failing, worker, debs>>
    BY <2>1
  <2>2. ASSUME NEW w \in Workers, TakeJob(w) \/ SkipJob(w) \/ AttemptFails(w)
        PROVE  run.pc = "download" /\ ~run.failing /\ run'.needed = run.needed
    BY <1>0, <2>2 DEF TakeJob, SkipJob, AttemptFails, Run
  <2>3. ASSUME NEW w \in Workers, StartWriting(w) \/ Written(w)
        PROVE  run.pc = "download" /\ ~run.failing /\ run'.needed = run.needed
    BY <2>3 DEF StartWriting, Written
  <2>4. QED
    BY <1>3, <2>1, <2>2, <2>3, DownloadSteps
<1>4. QED
  BY <1>1, <1>2, <1>3

-----------------------------------------------------------------------------
(* A download that succeeds *)

\* Only FinishDownload makes a build's result "downloaded", and then only StartBuild
\* changes it.
LEMMA ResultSteps ==
  ASSUME TypeOK, StatesInv, PoolInv, WholeInv, [Next]_vars, run'.result = "downloaded"
  PROVE  FinishDownload \/ (run.result = "downloaded" /\ UNCHANGED <<run, debs>>)
<1>0. run \in Run
  BY DEF TypeOK
<1>1. CASE StartBuild \/ ClearAndRetry \/ Kill
  <2>1. NoRun \in Run /\ NoRun.result = "none"
    BY NoRunType DEF NoRun
  <2>2. QED
    BY <1>1, <2>1 DEF StartBuild, ClearAndRetry, Again, Kill, Run
<1>2. ASSUME run.pc # "returned", run'.result = run.result PROVE FALSE
  BY <1>2 DEF WholeInv
<1>3. CASE Cancel
  BY <1>0, <1>2, <1>3 DEF Cancel, Run
<1>4. CASE InitializeUserRepos \/ RefreshFails \/ InstallRelease \/ InstallSignature
  BY <1>0, <1>2, <1>4
     DEF InitializeUserRepos, RefreshFails, InstallRelease, InstallSignature, Goto, Run
<1>5. CASE NotConfigured \/ PrepareLocalRepository \/ CreateTemporaryRepository
             \/ LocalUserPackages \/ ResolveRequest \/ CacheHit \/ StartDownload
  BY <1>0, <1>2, <1>5
     DEF NotConfigured, PrepareLocalRepository, CreateTemporaryRepository,
         LocalUserPackages, ResolveRequest, CacheHit, StartDownload, Goto, Return, Run
<1>6. CASE RefreshRepoMetadata
  BY <1>0, <1>2, <1>6 DEF RefreshRepoMetadata, AfterMismatch, Run
<1>7. CASE SettleMetadata \/ UseParsedCache \/ FetchIndex \/ TornIndexRemoved \/ ParseIndex
  <2>1. run.pc \in Stages /\ run.pc # "returned"
    BY <1>7
       DEF SettleMetadata, UseParsedCache, FetchIndex, TornIndexRemoved, ParseIndex, Stages
  <2>2. NextRepo \in Run /\ NextRepo.result = run.result
    BY <1>0, <2>1, RepoIsOne, NextRepoType DEF NextRepo, Run
  <2>3. QED
    BY ZenonT(40), <1>0, <1>2, <1>7, <2>1, <2>2
       DEF SettleMetadata, UseParsedCache, FetchIndex, TornIndexRemoved, ParseIndex,
           TakePackages, RepoFails, Goto, Return, Run
<1>8. ASSUME NEW w \in Workers, TakeJob(w) \/ SkipJob(w) PROVE FALSE
  BY <1>0, <1>2, <1>8 DEF TakeJob, SkipJob, Run
<1>9. ASSUME NEW w \in Workers, StartWriting(w) \/ Written(w) \/ AttemptFails(w) PROVE FALSE
  <2>1. run.pc = "download"
    BY <1>9, IdleFile DEF StartWriting, Written, AttemptFails, PoolInv
  <2>2. run'.result = run.result
    BY <1>0, <1>9 DEF StartWriting, Written, AttemptFails, Run
  <2>3. QED
    BY <1>2, <2>1, <2>2
<1>10. CASE UNCHANGED vars \/ \E r \in Indexes : Publish(r)
  BY <1>10 DEF Publish, vars
<1>11. QED
  BY <1>1, <1>3, <1>4, <1>5, <1>6, <1>7, <1>8, <1>9, <1>10 DEF Next, Build

LEMMA WholeStep ==
  TypeOK /\ StatesInv /\ PoolInv /\ NothingForgotten /\ WholeInv /\ [Next]_vars => WholeInv'
<1> SUFFICES ASSUME TypeOK, StatesInv, PoolInv, NothingForgotten, WholeInv, [Next]_vars,
                    run'.result = "downloaded"
             PROVE  run'.pc = "returned" /\ \A p \in run'.needed : WholeOrSkipped(p.file)'
  BY DEF WholeInv
<1>0. run \in Run
  BY DEF TypeOK
<1>1. CASE run.result = "downloaded" /\ UNCHANGED <<run, debs>>
  BY <1>1 DEF WholeInv, WholeOrSkipped
<1>2. CASE FinishDownload
  <2>1. /\ run'.pc = "returned" /\ run'.needed = run.needed /\ debs' = debs
        /\ run'.skipped = run.skipped
    BY <1>0, <1>2 DEF FinishDownload, Return, Run, disk
  <2>2. FetchSucceeded /\ Validated
    BY <1>0, <1>2 DEF FinishDownload, Return, Run
  <2>3. ASSUME NEW p \in run.needed PROVE WholeOrSkipped(p.file)
    <3>1. p.file \in Files /\ p.file # ""
      BY <1>0, ListingAssumption DEF Run, Files
    <3>2. \A w \in Workers : worker[w].file # p.file
      BY <1>2, <3>1, IdleFile DEF FinishDownload
    <3>3. debs[p.file] # "none" \/ p.file \in run.skipped
      BY <1>2, <2>2, <3>2 DEF FinishDownload, FetchSucceeded, NothingForgotten, Fetching
    <3>4. QED
      BY <2>2, <3>1, <3>3 DEF Validated, Cached, FileVerifies, WholeOrSkipped
  <2>4. QED
    BY <2>1, <2>3 DEF WholeOrSkipped
<1>3. QED
  BY <1>1, <1>2, ResultSteps

-----------------------------------------------------------------------------
(* The theorems *)

LEMMA InvInit == Init => DownloadInv
<1> SUFFICES ASSUME Init PROVE DownloadInv
  OBVIOUS
<1>1. run = NoRun /\ \A w \in Workers : worker[w] = Idle
  BY DEF Init
<1>2. SettledInv /\ NothingForgotten /\ WholeInv
  BY <1>1 DEF NoRun, SettledInv, NothingForgotten, WholeInv
<1>3. PoolInv
  BY <1>1, IdleFile DEF NoRun, PoolInv
<1>4. QED
  BY <1>2, <1>3, TypeInit, StatesInit DEF DownloadInv

LEMMA InvStep == DownloadInv /\ [Next]_vars => DownloadInv'
  BY TypeStep, StatesStep, SettledStep, PoolStep, ForgottenStep, WholeStep DEF DownloadInv

LEMMA Invariant == Spec => []DownloadInv
  BY InvInit, InvStep, PTL DEF Spec

\* Every value is of the kind the code keeps, whatever the mirrors, the workers, a
\* cancellation and a kill do.
THEOREM TypeCorrect == Spec => []TypeOK
<1>1. DownloadInv => TypeOK
  BY DEF DownloadInv
<1>2. QED
  BY <1>1, Invariant, PTL

\* A download that succeeds has every package that was needed, complete and verified,
\* but one whose job was skipped because the cache directory could not be created;
\* that one is there whole or not at all.
THEOREM FreshIsWholeUnlessSkipped == Spec => []FreshDownloadWholeUnlessSkipped
<1>1. DownloadInv => FreshDownloadWholeUnlessSkipped
  BY DEF DownloadInv, WholeInv, WholeOrSkipped, FreshDownloadWholeUnlessSkipped
<1>2. QED
  BY <1>1, Invariant, PTL

\* A step that takes a repository's packages takes those of the state whose Release
\* file, with its own signature, is in place.
LEMMA VerifiedStep ==
  ASSUME DownloadInv, [Next]_vars, NEW r \in Indexes, run'.used[r] \notin {0, run.used[r]}
  PROVE  /\ meta'[r].rel = run'.used[r]
         /\ Format[r] = "classic" => meta'[r].sig = run'.used[r]
<1>0. run \in Run /\ meta \in [Indexes -> Metadata]
  BY DEF DownloadInv, TypeOK
<1>1. ASSUME NEW v, TakePackages(Repo, v), run.pc = "index", v = meta[Repo].rel,
             meta'[Repo].rel = meta[Repo].rel, meta'[Repo].sig = meta[Repo].sig
      PROVE  /\ meta'[r].rel = run'.used[r]
             /\ Format[r] = "classic" => meta'[r].sig = run'.used[r]
  <2>1. Repo \in Indexes /\ Settled(Repo) /\ NextRepo \in Run /\ NextRepo.used = run.used
    BY <1>0, <1>1, ExpectedIsRelease, RepoIsOne, NextRepoType
       DEF DownloadInv, NextRepo, Run, Stages
  <2>2. run'.used = [run.used EXCEPT ![Repo] = v]
    BY <1>1, <2>1 DEF TakePackages, Run
  <2>3. r = Repo /\ run'.used[r] = v
    BY <1>0, <2>1, <2>2 DEF Run
  <2>4. QED
    BY <1>1, <2>1, <2>3 DEF Settled
<1>2. CASE UseParsedCache
  <2>1. Expected(Repo) = meta[Repo].rel
    BY <1>2, ExpectedIsRelease DEF UseParsedCache, DownloadInv
  <2>2. QED
    BY <1>1, <1>2, <2>1 DEF UseParsedCache, CachedIndexValid, disk
<1>3. CASE ParseIndex
  <2>1. Repo \in Indexes /\ Expected(Repo) = meta[Repo].rel
    BY <1>3, ExpectedIsRelease DEF ParseIndex, DownloadInv
  <2>2. meta'[Repo].rel = meta[Repo].rel /\ meta'[Repo].sig = meta[Repo].sig
    BY <1>0, <1>3, <2>1 DEF ParseIndex, Metadata
  <2>3. QED
    BY <1>1, <1>3, <2>1, <2>2 DEF ParseIndex
<1>4. CASE StartBuild \/ ClearAndRetry \/ Kill
  <2>1. NoRun \in Run /\ NoRun.used[r] = 0
    BY NoRunType DEF NoRun
  <2>2. QED
    BY <1>4, <2>1 DEF StartBuild, ClearAndRetry, Again, Kill, Run
<1>5. ASSUME run'.used = run.used PROVE FALSE
  BY <1>5
<1>6. CASE Cancel \/ InitializeUserRepos \/ RefreshFails \/ InstallRelease \/ InstallSignature
  BY <1>0, <1>5, <1>6
     DEF Cancel, InitializeUserRepos, RefreshFails, InstallRelease, InstallSignature, Goto, Run
<1>7. CASE NotConfigured \/ PrepareLocalRepository \/ CreateTemporaryRepository
             \/ LocalUserPackages \/ ResolveRequest \/ CacheHit \/ StartDownload
             \/ FinishDownload
  BY <1>0, <1>5, <1>7
     DEF NotConfigured, PrepareLocalRepository, CreateTemporaryRepository, FinishDownload,
         LocalUserPackages, ResolveRequest, CacheHit, StartDownload, Goto, Return, Run
<1>8. CASE RefreshRepoMetadata
  BY <1>0, <1>5, <1>8 DEF RefreshRepoMetadata, AfterMismatch, Run
<1>9. CASE SettleMetadata \/ FetchIndex \/ TornIndexRemoved
  <2>1. run.pc \in Stages
    BY <1>9 DEF SettleMetadata, FetchIndex, TornIndexRemoved, Stages
  <2>2. NextRepo \in Run /\ NextRepo.used = run.used
    BY <1>0, <2>1, RepoIsOne, NextRepoType DEF NextRepo, Run, DownloadInv
  <2>3. QED
    BY ZenonT(40), <1>0, <1>5, <1>9, <2>2
       DEF SettleMetadata, FetchIndex, TornIndexRemoved, RepoFails, Goto, Return, Run
<1>10. ASSUME NEW w \in Workers,
              TakeJob(w) \/ SkipJob(w) \/ StartWriting(w) \/ Written(w) \/ AttemptFails(w)
       PROVE  FALSE
  BY <1>0, <1>5, <1>10 DEF TakeJob, SkipJob, StartWriting, Written, AttemptFails, Run
<1>11. CASE UNCHANGED vars \/ \E s \in Indexes : Publish(s)
  BY <1>5, <1>11 DEF Publish, vars
<1>12. QED
  BY <1>2, <1>3, <1>4, <1>6, <1>7, <1>8, <1>9, <1>10, <1>11 DEF Next, Build

\* A repository's packages come from the index its verified Release file names,
\* whether it was read now or by an earlier build.
THEOREM IndexIsVerified == Spec => UsesVerifiedIndex
<1>1. DownloadInv /\ [Next]_vars =>
        [\A r \in Indexes : run'.used[r] \notin {0, run.used[r]} =>
            /\ meta'[r].rel = run'.used[r]
            /\ Format[r] = "classic" => meta'[r].sig = run'.used[r]]_vars
  BY VerifiedStep
<1>2. QED
  BY <1>1, Invariant, PTL DEF Spec, UsesVerifiedIndex

-----------------------------------------------------------------------------
(* DebResolver: its invariant.                                               *)

\* What a request wants of a package.
Wanted(r, p) ==
    CASE r.kind = "name" -> Answers(p, r.name)
      [] r.kind = "glob" -> /\ \E n \in r.names : Answers(p, n)
                            /\ r.kernel /\ world.kernelVers # {} => p.ver \in world.kernelVers
      [] OTHER -> p.name = r.name /\ p.ver \in r.vers

\* Before the loop, or never in it.
Matching == phase \in {"match", "unmatched"}
\* What is taken, or will be.
Pending == Range(st.queue) \cup Range(st.result)

\* What MatchRequested has: packages of the repositories, and for every request
\* it has been through something the request wants.
MatchInv ==
    /\ world \in Worlds
    /\ seeds \in Seq(Offered)
    /\ Matching => /\ DOMAIN st = {"asked", "found", "missing"}
                   /\ st.asked \in 0 .. Len(world.requests) /\ st.found \subseteq Offered
    /\ phase = "match" =>
         \/ st.missing \/ Ambiguous
         \/ \A i \in 1 .. st.asked : \E p \in Range(seeds) \cup st.found : Wanted(world.requests[i], p)
    /\ ~Matching => Ambiguous \/ \A i \in DOMAIN world.requests : \E p \in Range(seeds) : Wanted(world.requests[i], p)

\* What was chosen is permitted, or was asked for with its version.
Permitted(q) == SpelledOut(q) \/ ~Forbidden(q)
SeedInv ==
    /\ \A q \in Range(seeds) : Permitted(q)
    /\ Matching => \A q \in st.found : Permitted(q)

\* The loop handles packages of the repositories, and queues none that is
\* forbidden but those it started from.
LoopType ==
    /\ DOMAIN st = {"queue", "resolved", "needed", "result", "cur", "at", "missing", "conflict", "rebound"}
    /\ st.queue \in Seq(Offered) /\ st.result \in Seq(Offered)
    /\ Range(st.resolved) \subseteq Offered
    /\ st.cur \in Offered \cup {NoPackage} /\ st.at \in Nat \ {0}
    /\ \A p \in Pending : Blocked(p) => p \in {ByNameVer(q) : q \in Range(seeds)}

\* A resolution that went well left nothing undone.
FinishInv ==
    phase \in {"sort", "done", "unsorted"} => st.queue = <<>> /\ Through /\ ~st.missing /\ ~st.conflict

\* While every name kept its first package: each package taken is the one its
\* name is resolved to, what resolves a name answers to it and is taken, and so
\* is every package asked for.
NamesInv ==
    ~st.rebound =>
        /\ \A p \in Pending : p.name \in DOMAIN st.resolved /\ st.resolved[p.name] = p
        /\ \A n \in DOMAIN st.resolved : st.resolved[n] \in Pending /\ Answers(st.resolved[n], n)
        /\ \A n \in st.needed : \E p \in Range(st.result) : p.name = n
        /\ \A q \in Range(seeds) : ByNameVer(q) \in Pending

\* The entry e of p's Requires is met by one of pkgs, or its first alternative is
\* offered nowhere and one of another entry that names it stands in.
HeldBy(pkgs, p, e) ==
    \/ \E a \in Range(e), q \in pkgs : Answers(q, a.name) /\ (Len(e) = 1 => Meets(q, a))
    \/ /\ FindAllCandidates(DepName(e)) = {}
       /\ \E f \in Range(p.reqs) \ {e} :
            Mention(f, DepName(e)) /\ \E a \in Range(f), q \in pkgs : Answers(q, a.name)
Held(p, e) == HeldBy(Pending, p, e)

\* The entries of p's Requires the loop is through with.
LookedAt(p) == IF p = st.cur THEN 1 .. st.at - 1 ELSE DOMAIN p.reqs

\* They are met.
EdgesInv ==
    ~st.rebound /\ ~Ambiguous /\ ~st.missing /\ ~st.conflict =>
        \A p \in Range(st.result) : \A i \in LookedAt(p) : Held(p, p.reqs[i])

ResolverInv == MatchInv /\ SeedInv /\ (~Matching => LoopType /\ FinishInv /\ NamesInv /\ EdgesInv)

-----------------------------------------------------------------------------
\* What appending to a list, taking its head and dropping an element do to what
\* is in it.
LEMMA AppendedRange ==
  ASSUME NEW S, NEW q \in Seq(S), NEW x \in S
  PROVE  Append(q, x) \in Seq(S) /\ Range(Append(q, x)) = Range(q) \cup {x}
<1>1. DOMAIN q = 1 .. Len(q) /\ Len(q) \in Nat /\ DOMAIN Append(q, x) = 1 .. Len(q) + 1
  OBVIOUS
<1>2. \A i \in 1 .. Len(q) : Append(q, x)[i] = q[i]
  OBVIOUS
<1>3. Append(q, x)[Len(q) + 1] = x
  OBVIOUS
<1>4. Append(q, x) \in Seq(S)
  OBVIOUS
<1> QED
  BY <1>1, <1>2, <1>3, <1>4 DEF Range

LEMMA HeadAndTail ==
  ASSUME NEW S, NEW q \in Seq(S), q # <<>>
  PROVE  Head(q) \in S /\ Tail(q) \in Seq(S) /\ Range(q) = {Head(q)} \cup Range(Tail(q))
<1>1. Head(q) = q[1] /\ 1 \in 1 .. Len(q) /\ DOMAIN q = 1 .. Len(q) /\ Len(q) \in Nat
  OBVIOUS
<1>2. Tail(q) \in Seq(S) /\ DOMAIN Tail(q) = 1 .. (Len(q) - 1)
      /\ \A i \in 1 .. (Len(q) - 1) : Tail(q)[i] = q[i + 1]
  OBVIOUS
<1>3. ASSUME NEW x \in Range(q), x # q[1] PROVE x \in Range(Tail(q))
  <2>1. PICK i \in DOMAIN q : x = q[i]
    BY <1>3 DEF Range
  <2>2. i # 1 /\ i - 1 \in DOMAIN Tail(q) /\ Tail(q)[i - 1] = x
    BY <1>1, <1>2, <1>3, <2>1
  <2> QED
    BY <2>2 DEF Range
<1>4. ASSUME NEW x \in Range(Tail(q)) PROVE x \in Range(q)
  <2>1. PICK i \in DOMAIN Tail(q) : x = Tail(q)[i]
    BY <1>4 DEF Range
  <2>2. i + 1 \in DOMAIN q /\ q[i + 1] = x
    BY <1>1, <1>2, <2>1
  <2> QED
    BY <2>2 DEF Range
<1>5. q[1] \in Range(q) /\ q[1] \in S
  BY <1>1 DEF Range
<1> QED
  BY <1>1, <1>2, <1>3, <1>4, <1>5

LEMMA WithoutRange ==
  ASSUME NEW S, NEW q \in Seq(S), NEW i \in DOMAIN q
  PROVE  Without(q, i) \in Seq(S) /\ Range(Without(q, i)) \subseteq Range(q)
<1>1. DOMAIN q = 1 .. Len(q) /\ Len(q) \in Nat /\ Len(q) - 1 \in Nat
  OBVIOUS
<1>2. \A j \in 1 .. Len(q) - 1 : (IF j < i THEN q[j] ELSE q[j + 1]) \in Range(q)
  BY <1>1 DEF Range
<1>3. Range(q) \subseteq S
  BY <1>1 DEF Range
<1>4. Without(q, i) \in [1 .. Len(q) - 1 -> Range(q)]
  BY <1>2 DEF Without
<1>5. Range(Without(q, i)) \subseteq Range(q)
  BY <1>4 DEF Range
<1>6. Without(q, i) \in [1 .. Len(q) - 1 -> S]
  BY <1>2, <1>3 DEF Without
<1> QED
  BY <1>1, <1>5, <1>6

\* The greatest of bounded numbers, and the least of natural ones, exist.
LEMMA GreatestBounded ==
  ASSUME NEW n \in Nat, NEW S, S \subseteq 1 .. n, S # {} PROVE Max(S) \in S /\ \A y \in S : Max(S) >= y
<1> DEFINE T == {n - x : x \in S}
<1>1. T \in SUBSET Nat /\ T # {}
  <2>1. \A x \in S : n - x \in Nat
    OBVIOUS
  <2>2. PICK z \in S : TRUE
    OBVIOUS
  <2>3. n - z \in T
    OBVIOUS
  <2> QED
    BY <2>1, <2>3
<1>2. PICK m \in T : \A y \in T : ~(<<y, m>> \in OpToRel(<, Nat))
  BY <1>1, NatLessThanWellFounded, WFMin
<1>3. \A y \in T : ~(y < m)
  BY <1>1, <1>2 DEF OpToRel
<1>4. PICK x \in S : m = n - x
  OBVIOUS
<1>5. \A y \in S : x >= y
  BY <1>3, <1>4
<1> QED
  BY <1>5 DEF Max

LEMMA LeastOfNat ==
  ASSUME NEW S \in SUBSET Nat, S # {} PROVE Min(S) \in S
<1>1. PICK m \in S : \A y \in S : ~(<<y, m>> \in OpToRel(<, Nat))
  BY NatLessThanWellFounded, WFMin
<1>2. \A y \in S : ~(y < m)
  BY <1>1 DEF OpToRel
<1>3. \A y \in S : m <= y
  BY <1>2
<1> QED
  BY <1>3 DEF Min

\* byNameVer finds a package of the same name and version.
LEMMA ByNameVerListed ==
  ASSUME world \in Worlds, NEW p \in Offered
  PROVE  ByNameVer(p) \in Offered /\ NameVer(ByNameVer(p)) = NameVer(p)
<1> DEFINE places == {i \in DOMAIN world.all : NameVer(world.all[i]) = NameVer(p)}
<1>1. DOMAIN world.all = 1 .. Len(world.all) /\ Len(world.all) \in Nat
  <2>1. world.all \in Seq(Range(world.all))
    BY ResolverAssumption
  <2> QED
    BY <2>1
<1>2. places # {}
  BY DEF Offered, Range
<1>3. Max(places) \in places
  BY <1>1, <1>2, GreatestBounded
<1> QED
  BY <1>3 DEF ByNameVer, Offered, Range

-----------------------------------------------------------------------------
(* MatchRequested.                                                           *)

\* Whatever a request is answered with is offered, and some of it wanted.
LEMMA Answered ==
  ASSUME NEW r, r.kind \in {"name", "exact", "prefix", "glob"}, NEW found \in Answer(r)
  PROVE  found \subseteq Offered /\ \E p \in found : Wanted(r, p)
<1>1. \A cands, target, kernel :
         /\ FirstForTarget(cands, target, kernel) \subseteq cands
         /\ kernel /\ world.kernelVers # {} =>
              \A p \in FirstForTarget(cands, target, kernel) : p.ver \in world.kernelVers
  BY DEF FirstForTarget, FilterKernelCandidates
<1>2. ASSUME NEW n, NEW kernel, NEW p \in ResolveTopPackageConflicts(n, kernel)
      PROVE  p \in Offered /\ Answers(p, n) /\ (kernel /\ world.kernelVers # {} => p.ver \in world.kernelVers)
  BY <1>1, <1>2 DEF ResolveTopPackageConflicts
<1>3. CASE r.kind = "name"
  BY <1>2, <1>3 DEF Answer, Wanted
<1>4. CASE r.kind = "exact"
  <2>1. PICK p \in ExactMatch(r) : found = {p}
    BY <1>4 DEF Answer
  <2>2. p \in Asked(r)
    BY <1>1, <2>1 DEF ExactMatch
  <2> QED
    BY <1>4, <2>1, <2>2 DEF Asked, Wanted
<1>5. CASE r.kind = "prefix"
  <2>1. PICK p \in ResolveVersionPrefix(r) : found = {p}
    BY <1>5 DEF Answer
  <2>2. p \in Asked(r)
    BY <1>1, <2>1 DEF ResolveVersionPrefix
  <2> QED
    BY <1>5, <2>1, <2>2 DEF Asked, Wanted
<1>6. CASE r.kind = "glob"
  <2> DEFINE listed == {n \in r.names : /\ \E p \in Offered : p.name = n
                                        /\ ResolveTopPackageConflicts(n, r.kernel) # {}}
             best == {f \in [listed -> Offered] :
                        \A n \in listed : f[n] \in ResolveTopPackageConflicts(n, r.kernel)}
             chosen(f) == ApplyVersionPrefixes({f[n] : n \in listed})
  <2>1. found \in ResolveWildcardPackageConflicts(r) /\ found # {}
    BY <1>6 DEF Answer
  <2>2. PICK f \in best : found \in IF r.kernel THEN {{p} : p \in SelectLatestKernel(chosen(f))} ELSE {chosen(f)}
    BY <2>1 DEF ResolveWildcardPackageConflicts
  <2>3. found \subseteq chosen(f)
    BY <2>2 DEF SelectLatestKernel
  <2>4. chosen(f) \subseteq {f[n] : n \in listed}
    BY DEF ApplyVersionPrefixes
  <2>5. PICK p \in found : TRUE
    BY <2>1
  <2>6. PICK m \in listed : p = f[m]
    BY <2>3, <2>4, <2>5
  <2>7. Wanted(r, p)
    BY <1>2, <1>6, <2>6 DEF Wanted
  <2>8. {f[n] : n \in listed} \subseteq Offered
    BY <2>2
  <2> HIDE DEF chosen, best, listed
  <2> QED
    BY <2>3, <2>4, <2>5, <2>7, <2>8
<1> QED
  BY <1>3, <1>4, <1>5, <1>6

\* Only a request that spells the version out is answered with what is forbidden.
LEMMA AnsweredPermitted ==
  ASSUME NEW r \in Range(world.requests), r.kind \in {"name", "exact", "prefix", "glob"},
         NEW found \in Answer(r), NEW p \in found
  PROVE  Permitted(p)
<1>1. \A cands, target, kernel : FirstForTarget(cands, target, kernel) \subseteq cands
  BY DEF FirstForTarget, FilterKernelCandidates
<1>2. ASSUME NEW n, NEW kernel, p \in ResolveTopPackageConflicts(n, kernel) PROVE Permitted(p)
  BY <1>1, <1>2 DEF ResolveTopPackageConflicts, Permitted, Blocked, Forbidden
<1>3. CASE r.kind = "name"
  BY <1>2, <1>3 DEF Answer
<1>4. CASE r.kind = "exact"
  <2>1. PICK x \in ExactMatch(r) : found = {x}
    BY <1>4 DEF Answer
  <2>2. p \in Asked(r)
    BY <1>1, <2>1 DEF ExactMatch
  <2> QED
    BY <1>4, <2>2 DEF Asked, Permitted, SpelledOut
<1>5. CASE r.kind = "prefix"
  <2>1. p \in {x \in Asked(r) : ~Blocked(x)}
    BY <1>1, <1>5 DEF Answer, ResolveVersionPrefix
  <2> QED
    BY <2>1 DEF Permitted, Blocked, Forbidden
<1>6. CASE r.kind = "glob"
  <2> DEFINE listed == {n \in r.names : /\ \E q \in Offered : q.name = n
                                        /\ ResolveTopPackageConflicts(n, r.kernel) # {}}
             best == {f \in [listed -> Offered] :
                        \A n \in listed : f[n] \in ResolveTopPackageConflicts(n, r.kernel)}
             chosen(f) == ApplyVersionPrefixes({f[n] : n \in listed})
  <2>1. found \in ResolveWildcardPackageConflicts(r)
    BY <1>6 DEF Answer
  <2>2. PICK f \in best : found \in IF r.kernel THEN {{q} : q \in SelectLatestKernel(chosen(f))} ELSE {chosen(f)}
    BY <2>1 DEF ResolveWildcardPackageConflicts
  <2>3. p \in {f[n] : n \in listed}
    BY <2>2 DEF SelectLatestKernel, ApplyVersionPrefixes
  <2> QED
    BY <1>2, <2>3
<1> QED
  BY <1>3, <1>4, <1>5, <1>6

\* Packages of one name and version that provide the same names are wanted
\* alike.
Alike(p, q) == NameVer(p) = NameVer(q) /\ {v.name : v \in Range(p.prov)} = {v.name : v \in Range(q.prov)}

\* Nothing a dependency or a request asks tells packages that are alike apart.
LEMMA AlikeAnswer ==
  ASSUME NEW p, NEW q, Alike(p, q), NEW n, Answers(p, n) PROVE Answers(q, n)
<1>1. p.name = q.name
  BY DEF Alike, NameVer
<1>2. CASE Provides(p, n)
  <2>1. n \in {v.name : v \in Range(p.prov)}
    BY <1>2 DEF Provides, Range
  <2>2. n \in {v.name : v \in Range(q.prov)}
    BY <2>1 DEF Alike
  <2> QED
    BY <2>2 DEF Answers, Provides, Range
<1> QED
  BY <1>1, <1>2 DEF Answers

LEMMA AlikeWanted ==
  ASSUME NEW p, NEW q, Alike(p, q), NEW r, Wanted(r, p) PROVE Wanted(r, q)
<1>1. p.name = q.name /\ p.ver = q.ver
  BY DEF Alike, NameVer
<1> QED
  BY <1>1, AlikeAnswer DEF Wanted

LEMMA SeedsAlike ==
  ASSUME ~Ambiguous, NEW p \in Range(seeds), NEW q \in Offered, NameVer(p) = NameVer(q) PROVE Alike(p, q) /\ Alike(q, p)
BY DEF Ambiguous, Alike

\* The loop keeps what MatchRequested chose.
LEMMA MatchFrame ==
  ASSUME MatchInv, UNCHANGED <<world, seeds>>, ~Matching, ~Matching' PROVE MatchInv'
<1>1. Offered' = Offered /\ (Ambiguous' <=> Ambiguous)
  BY DEF Offered, Ambiguous
<1>2. \A r, p : Wanted(r, p)' <=> Wanted(r, p)
  BY DEF Wanted
<1> QED
  BY <1>1, <1>2 DEF MatchInv, Matching

\* Every step keeps MatchInv.
LEMMA MatchKept ==
  ASSUME MatchInv, ResolverNext PROVE MatchInv'
<1>1. world' = world /\ Offered' = Offered
  BY DEF ResolverNext, MatchRequested, AddSeed, FinishMatch, Pop, AlternativeSelected, CheckResolved, ChooseCandidate,
         TryAlternatives, FinishResolve, EmitComponent, FinishSort, Onto, Offered
<1>2. \A r, p : Wanted(r, p)' <=> Wanted(r, p)
  BY <1>1 DEF Wanted
<1>3. CASE MatchRequested
  <2> DEFINE r == world.requests[st.asked + 1]
  <2>1. world.requests \in Seq(Range(world.requests)) /\ \A x \in Range(world.requests) : x.kind \in {"name", "exact", "prefix", "glob"}
    BY ResolverAssumption DEF MatchInv
  <2>7. DOMAIN world.requests = 1 .. Len(world.requests) /\ Len(world.requests) \in Nat
    BY <2>1
  <2>8. phase = "match" /\ phase' = "match" /\ seeds' = seeds /\ st.asked < Len(world.requests)
    BY <1>3 DEF MatchRequested
  <2>9. st.asked \in 0 .. Len(world.requests)
    BY <2>8 DEF MatchInv, Matching
  <2>2. st.asked + 1 \in DOMAIN world.requests /\ st.asked + 1 \in 1 .. Len(world.requests) /\ phase = "match" /\ phase' = "match" /\ seeds' = seeds
    BY <2>7, <2>8, <2>9
  <2>3. r \in Range(world.requests)
    BY <2>2 DEF Range
  <2>4. (Ambiguous' <=> Ambiguous) /\ st.found = {}
    BY <1>1, <1>3, <2>2 DEF Ambiguous, MatchRequested
  <2>5. CASE Answer(r) = {}
    <3>1. st' = [st EXCEPT !.asked = @ + 1, !.missing = TRUE]
      BY <1>3, <2>5 DEF MatchRequested
    <3> QED
      BY <1>1, <2>2, <3>1 DEF MatchInv, Matching
  <2>6. CASE Answer(r) # {}
    <3>1. PICK found \in Answer(r) : st' = [st EXCEPT !.asked = @ + 1, !.found = found]
      BY <1>3, <2>6 DEF MatchRequested
    <3>2. found \subseteq Offered /\ \E p \in found : Wanted(r, p)
      BY <2>1, <2>3, Answered
    <3>3. /\ DOMAIN st' = {"asked", "found", "missing"}
          /\ st'.asked = st.asked + 1 /\ st'.found = found /\ st'.missing = st.missing
      BY <2>2, <3>1 DEF MatchInv, Matching
    <3>4. \A i \in 1 .. st'.asked : i \in 1 .. st.asked \/ i = st.asked + 1
      BY <2>2, <3>3 DEF MatchInv, Matching
    <3>5. \/ st'.missing \/ Ambiguous'
          \/ \A i \in 1 .. st'.asked : \E p \in Range(seeds') \cup st'.found : Wanted(world.requests[i], p)
      BY <2>2, <2>4, <3>2, <3>3, <3>4 DEF MatchInv
    <3> QED
      BY <1>1, <1>2, <2>2, <3>2, <3>3, <3>5 DEF MatchInv, Matching
  <2> QED
    BY <2>5, <2>6
<1>4. CASE AddSeed
  <2>1. PICK p \in st.found :
           /\ seeds' = IF NameVer(p) \in {NameVer(q) : q \in Range(seeds)} THEN seeds ELSE Append(seeds, p)
           /\ st' = [st EXCEPT !.found = @ \ {p}]
    BY <1>4 DEF AddSeed
  <2>2. phase = "match" /\ phase' = "match"
    BY <1>4 DEF AddSeed
  <2>3. /\ DOMAIN st' = {"asked", "found", "missing"} /\ st'.asked = st.asked /\ st'.missing = st.missing
        /\ st'.found = st.found \ {p} /\ p \in Offered
    BY <2>1, <2>2 DEF MatchInv, Matching
  <2>4. seeds' \in Seq(Offered) /\ Range(seeds) \subseteq Range(seeds') /\ (seeds' = seeds \/ p \in Range(seeds'))
    BY <2>1, <2>3, AppendedRange DEF MatchInv
  <2>5. Ambiguous => Ambiguous'
    BY <1>1, <2>4 DEF Ambiguous
  <2>6. ASSUME ~Ambiguous', NEW i \in 1 .. st.asked, NEW x \in Range(seeds) \cup st.found, Wanted(world.requests[i], x)
        PROVE  \E y \in Range(seeds') \cup st'.found : Wanted(world.requests[i], y)
    <3>1. CASE x # p \/ seeds' # seeds
      BY <2>3, <2>4, <2>6, <3>1
    <3>2. CASE x = p /\ seeds' = seeds
      <4>1. CASE NameVer(p) \in {NameVer(q) : q \in Range(seeds)}
        <5>1. PICK q \in Range(seeds) : NameVer(q) = NameVer(p)
          BY <4>1
        <5>2. Alike(p, q)
          BY <2>3, <2>5, <2>6, <5>1, SeedsAlike
        <5> QED
          BY <2>4, <2>6, <3>2, <5>1, <5>2, AlikeWanted
      <4>2. CASE NameVer(p) \notin {NameVer(q) : q \in Range(seeds)}
        BY <2>1, <2>3, <2>6, <3>2, <4>2, AppendedRange DEF MatchInv
      <4> QED
        BY <4>1, <4>2
    <3> QED
      BY <3>1, <3>2
  <2> QED
    BY <1>1, <1>2, <2>2, <2>3, <2>4, <2>5, <2>6 DEF MatchInv, Matching
<1>5. CASE FinishMatch
  <2>1. seeds' = seeds /\ (Ambiguous' <=> Ambiguous)
    BY <1>1, <1>5 DEF FinishMatch, Ambiguous
  <2>2. DOMAIN world.requests = 1 .. st.asked /\ st.found = {}
    <3>1. world.requests \in Seq(Range(world.requests))
      BY ResolverAssumption DEF MatchInv
    <3> QED
      BY <1>5, <3>1 DEF FinishMatch
  <2>3. CASE st.missing
    BY <1>1, <1>5, <2>1, <2>3 DEF FinishMatch, MatchInv, Matching
  <2>4. CASE ~st.missing
    BY <1>1, <1>2, <1>5, <2>1, <2>2, <2>4 DEF FinishMatch, MatchInv, Matching
  <2> QED
    BY <2>3, <2>4
<1>6. CASE Pop \/ AlternativeSelected \/ CheckResolved \/ ChooseCandidate \/ TryAlternatives \/ FinishResolve \/ EmitComponent \/ FinishSort
  BY <1>6, MatchFrame DEF Pop, AlternativeSelected, CheckResolved, ChooseCandidate, TryAlternatives, FinishResolve,
         EmitComponent, FinishSort, Onto, Resolving, Unresolved, Matching
<1> QED
  BY <1>3, <1>4, <1>5, <1>6 DEF ResolverNext

\* Every step keeps SeedInv.
LEMMA SeedsKept ==
  ASSUME MatchInv, SeedInv, ResolverNext PROVE SeedInv'
<1>1. world' = world
  BY DEF ResolverNext, MatchRequested, AddSeed, FinishMatch, Pop, AlternativeSelected, CheckResolved, ChooseCandidate,
         TryAlternatives, FinishResolve, EmitComponent, FinishSort, Onto
<1>2. \A p : Permitted(p)' <=> Permitted(p)
  BY <1>1 DEF Permitted, SpelledOut, Forbidden, PackagePriority, Applies, RepositoryPriority
<1>3. CASE MatchRequested
  <2> DEFINE r == world.requests[st.asked + 1]
  <2>1. world.requests \in Seq(Range(world.requests)) /\ \A x \in Range(world.requests) : x.kind \in {"name", "exact", "prefix", "glob"}
    BY ResolverAssumption DEF MatchInv
  <2>2. DOMAIN world.requests = 1 .. Len(world.requests) /\ Len(world.requests) \in Nat
    BY <2>1
  <2>3. phase = "match" /\ seeds' = seeds /\ st.asked < Len(world.requests)
    BY <1>3 DEF MatchRequested
  <2>4. st.asked \in 0 .. Len(world.requests) /\ DOMAIN st = {"asked", "found", "missing"}
    BY <2>3 DEF MatchInv, Matching
  <2>5. r \in Range(world.requests)
    BY <2>2, <2>3, <2>4 DEF Range
  <2>6. st'.found = st.found \/ st'.found \in Answer(r)
    BY <1>3, <2>4 DEF MatchRequested
  <2>7. \A p \in st'.found : Permitted(p)
    BY <2>1, <2>3, <2>5, <2>6, AnsweredPermitted DEF SeedInv, Matching
  <2> HIDE DEF r
  <2> QED
    BY <1>2, <2>3, <2>7 DEF SeedInv
<1>4. CASE AddSeed
  <2>1. PICK p \in st.found :
           /\ seeds' = IF NameVer(p) \in {NameVer(q) : q \in Range(seeds)} THEN seeds ELSE Append(seeds, p)
           /\ st' = [st EXCEPT !.found = @ \ {p}]
    BY <1>4 DEF AddSeed
  <2>2. phase = "match"
    BY <1>4 DEF AddSeed
  <2>3. st'.found \subseteq st.found /\ p \in Offered /\ seeds \in Seq(Offered)
    BY <2>1, <2>2 DEF MatchInv, Matching
  <2>4. Range(seeds') \subseteq Range(seeds) \cup {p}
    BY <2>1, <2>3, AppendedRange
  <2> QED
    BY <1>2, <2>1, <2>2, <2>3, <2>4 DEF SeedInv, Matching
<1>5. CASE FinishMatch
  BY <1>2, <1>5 DEF FinishMatch, SeedInv, Matching
<1>6. CASE Pop \/ AlternativeSelected \/ CheckResolved \/ ChooseCandidate \/ TryAlternatives \/ FinishResolve \/ EmitComponent \/ FinishSort
  BY <1>2, <1>6 DEF Pop, AlternativeSelected, CheckResolved, ChooseCandidate, TryAlternatives, FinishResolve,
         EmitComponent, FinishSort, Onto, Resolving, Unresolved, SeedInv, Matching
<1> QED
  BY <1>3, <1>4, <1>5, <1>6 DEF ResolverNext

-----------------------------------------------------------------------------
(* The loop.                                                                 *)

\* The loop starts from the packages asked for.
LEMMA LoopStarts ==
  ASSUME MatchInv, FinishMatch, ~Matching'
  PROVE  (LoopType /\ FinishInv /\ NamesInv /\ EdgesInv)'
<1> DEFINE named(n) == {i \in DOMAIN seeds : seeds[i].name = n}
<1>1. /\ st' = [queue |-> [i \in DOMAIN seeds |-> ByNameVer(seeds[i])],
         resolved |-> [n \in {p.name : p \in Range(seeds)} |-> ByNameVer(seeds[Max(named(n))])],
         needed |-> {}, result |-> <<>>, cur |-> NoPackage, at |-> 1, missing |-> FALSE, conflict |-> FALSE,
         rebound |-> \E p \in Range(seeds) : Cardinality(named(p.name)) > 1]
      /\ phase' = "resolve" /\ UNCHANGED <<world, seeds, order>>
  BY DEF FinishMatch, Start, Matching
<1>2. Offered' = Offered /\ \A p : ByNameVer(p)' = ByNameVer(p)
  BY <1>1 DEF Offered, ByNameVer
<1>3. ASSUME NEW p \in Offered PROVE ByNameVer(p) \in Offered /\ NameVer(ByNameVer(p)) = NameVer(p)
  BY <1>3, ByNameVerListed DEF MatchInv
<1>4. DOMAIN seeds = 1 .. Len(seeds) /\ Len(seeds) \in Nat /\ \A i \in DOMAIN seeds : seeds[i] \in Offered
  BY DEF MatchInv
<1>5. st'.queue \in Seq(Offered) /\ Range(st'.queue) = {ByNameVer(q) : q \in Range(seeds)}
  BY <1>1, <1>3, <1>4 DEF Range
<1>6. st'.result \in Seq(Offered) /\ Range(st'.result) = {}
  BY <1>1 DEF Range
<1>7. ASSUME NEW n, n \in {p.name : p \in Range(seeds)}
      PROVE  Max(named(n)) \in DOMAIN seeds /\ seeds[Max(named(n))].name = n
  <2>1. named(n) # {}
    BY <1>7 DEF Range
  <2>2. Max(named(n)) \in named(n)
    BY <1>4, <2>1, GreatestBounded
  <2> QED
    BY <2>2
<1>8. Range(st'.resolved) \subseteq Offered
  <2>1. \A n \in DOMAIN st'.resolved :
          n \in {p.name : p \in Range(seeds)} /\ st'.resolved[n] = ByNameVer(seeds[Max(named(n))])
    BY <1>1
  <2> HIDE DEF named
  <2>2. \A n \in DOMAIN st'.resolved : st'.resolved[n] \in Offered
    BY <1>3, <1>4, <1>7, <2>1
  <2> QED
    BY <2>2 DEF Range
<1>9. LoopType'
  <2>1. \A p \in Pending' : p \in {ByNameVer(q) : q \in Range(seeds)}
    BY <1>3, <1>4, <1>5, <1>6 DEF Pending, Range
  <2> QED
    BY <1>1, <1>2, <1>5, <1>6, <1>8, <2>1 DEF LoopType
<1>10. FinishInv'
  BY <1>1 DEF FinishInv
<1>11. NamesInv'
  <2>1. SUFFICES ASSUME ~st'.rebound PROVE NamesInv'
    BY DEF NamesInv
  <2>2. ASSUME NEW q \in Range(seeds) PROVE seeds[Max(named(q.name))] = q
    <3>1. PICK i \in DOMAIN seeds : q = seeds[i]
      BY DEF Range
    <3>2. Max(named(q.name)) \in named(q.name) /\ i \in named(q.name)
      BY <1>7, <3>1
    <3>3. ~(Cardinality(named(q.name)) > 1)
      BY <1>1, <2>1
    <3>4. Max(named(q.name)) = i
      <4>1. IsFiniteSet(named(q.name))
        <5>1. IsFiniteSet(1 .. Len(seeds)) /\ named(q.name) \subseteq 1 .. Len(seeds)
          BY <1>4, FS_Interval
        <5> QED
          BY <5>1, FS_Subset
      <4>2. SUFFICES ASSUME Max(named(q.name)) # i PROVE FALSE
        OBVIOUS
      <4> DEFINE pair == {i, Max(named(q.name))}
      <4>3. pair \subseteq named(q.name)
        BY <3>2
      <4>4. Cardinality(pair) = 2
        <5>1. IsFiniteSet({i}) /\ Cardinality({i}) = 1
          BY FS_Singleton
        <5>2. ASSUME NEW x, x # i PROVE Cardinality({i} \cup {x}) = 2
          <6>1. Cardinality({i} \cup {x}) = Cardinality({i}) + 1
            BY <5>1, <5>2, FS_AddElement
          <6> QED
            BY <5>1, <6>1
        <5>3. pair = {i} \cup {Max(named(q.name))}
          OBVIOUS
        <5> HIDE DEF named, pair
        <5> QED
          BY <4>2, <5>2, <5>3
      <4>5. Cardinality(pair) <= Cardinality(named(q.name)) /\ Cardinality(named(q.name)) \in Nat
        BY <4>1, <4>3, FS_Subset, FS_CardinalityType
      <4> QED
        BY <3>3, <4>4, <4>5
    <3> QED
      BY <3>1, <3>4
  <2>3. \A q \in Range(seeds) : q \in Offered /\ ByNameVer(q).name = q.name
    BY <1>3, <1>4 DEF Range, NameVer
  <2>4. \A n \in DOMAIN st'.resolved : \E q \in Range(seeds) : n = q.name /\ st'.resolved[n] = ByNameVer(q)
    BY <1>1, <2>2
  <2>5. \A q \in Range(seeds) : q.name \in DOMAIN st'.resolved /\ st'.resolved[q.name] = ByNameVer(q)
    BY <1>1, <2>2
  <2>6. Pending' = {ByNameVer(q) : q \in Range(seeds)} /\ st'.needed = {} /\ Range(seeds') = Range(seeds)
    BY <1>1, <1>5, <1>6 DEF Pending
  <2> QED
    BY <1>2, <2>3, <2>4, <2>5, <2>6 DEF NamesInv, Answers
<1>12. EdgesInv'
  BY <1>6 DEF EdgesInv
<1> QED
  BY <1>9, <1>10, <1>11, <1>12

\* What was taken stays, so what was held stays.
LEMMA HeldNext ==
  ASSUME world' = world, NEW p, NEW e, HeldBy(Pending', p, e) PROVE Held(p, e)'
<1>1. FindAllCandidates(DepName(e))' = FindAllCandidates(DepName(e))
  BY DEF FindAllCandidates, Offered, Blocked, PackagePriority, Applies, RepositoryPriority
<1> QED
  BY <1>1 DEF Held, HeldBy

LEMMA HeldStays ==
  ASSUME world' = world, Pending \subseteq Pending', NEW p, NEW e, Held(p, e) PROVE Held(p, e)'
BY HeldNext DEF Held, HeldBy

\* The steps that leave the loop alone.
LEMMA LoopFrame ==
  ASSUME LoopType, NamesInv, EdgesInv, UNCHANGED <<world, seeds, st>> PROVE LoopType' /\ NamesInv' /\ EdgesInv'
<1>1. Pending' = Pending /\ Offered' = Offered /\ (Ambiguous' <=> Ambiguous)
  BY DEF Pending, Offered, Ambiguous
<1>2. \A p : (Blocked(p)' <=> Blocked(p)) /\ ByNameVer(p)' = ByNameVer(p)
  BY DEF Blocked, PackagePriority, Applies, RepositoryPriority, ByNameVer
<1>3. LoopType'
  BY <1>1, <1>2 DEF LoopType
<1>4. NamesInv'
  BY <1>1, <1>2 DEF NamesInv
<1>5. \A p : LookedAt(p)' = LookedAt(p)
  BY DEF LookedAt
<1> QED
  BY <1>1, <1>3, <1>4, <1>5, HeldStays DEF EdgesInv

\* Taking the next package of the queue keeps what the loop knows: no entry of a
\* new package was looked at, and a package dropped is there already.
LEMMA PopKept ==
  ASSUME MatchInv, LoopType, NamesInv, EdgesInv, Pop
  PROVE  LoopType' /\ NamesInv' /\ EdgesInv'
<1> DEFINE cur == Head(st.queue)
<1>1. /\ UNCHANGED <<world, seeds>> /\ st.queue # <<>> /\ st.queue \in Seq(Offered) /\ st.result \in Seq(Offered)
      /\ Through /\ phase = "resolve" /\ phase' = "resolve"
  BY DEF Pop, Resolving, LoopType
<1>2. cur \in Offered /\ Tail(st.queue) \in Seq(Offered) /\ Range(st.queue) = {cur} \cup Range(Tail(st.queue))
  BY <1>1, HeadAndTail
<1>3. Offered' = Offered /\ (Ambiguous' <=> Ambiguous) /\ Range(seeds') = Range(seeds)
  BY <1>1 DEF Offered, Ambiguous
<1>4. \A p : (Blocked(p)' <=> Blocked(p)) /\ ByNameVer(p)' = ByNameVer(p)
  BY <1>1 DEF Blocked, PackagePriority, Applies, RepositoryPriority, ByNameVer
<1>5. CASE cur.name \in st.needed
  <2>1. st' = [st EXCEPT !.queue = Tail(@)]
    BY <1>5 DEF Pop
  <2>2. /\ DOMAIN st' = DOMAIN st /\ st'.queue = Tail(st.queue) /\ st'.result = st.result /\ st'.resolved = st.resolved
        /\ st'.needed = st.needed /\ st'.cur = st.cur /\ st'.at = st.at /\ st'.missing = st.missing
        /\ st'.conflict = st.conflict /\ st'.rebound = st.rebound
    BY <2>1 DEF LoopType
  <2>3. Pending' \subseteq Pending
    BY <1>2, <2>2 DEF Pending
  <2>4. LoopType'
    BY <1>2, <1>3, <1>4, <2>2, <2>3 DEF LoopType
  <2>5. ~st.rebound => Pending' = Pending
    <3>1. SUFFICES ASSUME ~st.rebound PROVE cur \in Range(st.result)
      BY <1>2, <2>2 DEF Pending
    <3>2. PICK p \in Range(st.result) : p.name = cur.name
      BY <1>5, <3>1 DEF NamesInv
    <3>3. cur \in Pending /\ p \in Pending
      BY <1>2 DEF Pending
    <3> QED
      BY <3>1, <3>2, <3>3 DEF NamesInv
  <2>6. NamesInv'
    BY <1>3, <1>4, <2>2, <2>5 DEF NamesInv
  <2>7. \A p : LookedAt(p)' = LookedAt(p)
    BY <2>2 DEF LookedAt
  <2>8. EdgesInv'
    BY <1>1, <1>3, <2>2, <2>5, <2>7, HeldStays DEF EdgesInv
  <2> QED
    BY <2>4, <2>6, <2>8
<1>6. CASE cur.name \notin st.needed
  <2>1. st' = [st EXCEPT !.queue = Tail(@), !.needed = @ \cup {cur.name}, !.result = Append(@, cur),
                         !.resolved = IF cur.name \in DOMAIN @ THEN @ ELSE Put(@, cur.name, cur),
                         !.cur = cur, !.at = 1]
    BY <1>6 DEF Pop, LoopType
  <2>2. /\ DOMAIN st' = DOMAIN st /\ st'.queue = Tail(st.queue) /\ st'.result = Append(st.result, cur)
        /\ st'.resolved = IF cur.name \in DOMAIN st.resolved THEN st.resolved ELSE Put(st.resolved, cur.name, cur)
        /\ st'.needed = st.needed \cup {cur.name} /\ st'.cur = cur /\ st'.at = 1 /\ st'.missing = st.missing
        /\ st'.conflict = st.conflict /\ st'.rebound = st.rebound
    BY <2>1 DEF LoopType
  <2>3. st'.result \in Seq(Offered) /\ Range(st'.result) = Range(st.result) \cup {cur}
    BY <1>1, <1>2, <2>2, AppendedRange
  <2>4. Pending' = Pending
    BY <1>2, <2>2, <2>3 DEF Pending
  <2>5. Range(st'.resolved) \subseteq Offered
    <3>1. \A n \in DOMAIN st.resolved : st.resolved[n] \in Offered
      BY DEF LoopType, Range
    <3>2. \A n \in DOMAIN st'.resolved : st'.resolved[n] \in Offered
      BY <1>2, <2>2, <3>1 DEF Put
    <3> QED
      BY <3>2 DEF Range
  <2>6. LoopType'
    BY <1>2, <1>3, <1>4, <2>2, <2>3, <2>4, <2>5 DEF LoopType
  <2>7. NamesInv'
    <3>1. SUFFICES ASSUME ~st.rebound PROVE NamesInv'
      BY <2>2 DEF NamesInv
    <3>2. st'.resolved = st.resolved
      BY <1>2, <2>2, <3>1 DEF NamesInv, Pending
    <3> QED
      BY <1>3, <1>4, <2>2, <2>3, <2>4, <3>1, <3>2 DEF NamesInv
  <2>8. ASSUME NEW p \in Range(st.result) PROVE LookedAt(p)' \subseteq LookedAt(p)
    <3>1. DOMAIN p.reqs = 1 .. Len(p.reqs) /\ Len(p.reqs) \in Nat
      <4>1. p \in Range(world.all)
        BY <1>1 DEF Range, Offered
      <4>2. p.reqs \in Seq(Range(p.reqs))
        BY <4>1, ResolverAssumption DEF MatchInv
      <4> QED
        BY <4>2
    <3>2. st.at \in Nat /\ (p = st.cur => st.at > Len(p.reqs))
      BY <1>1 DEF Through, LoopType
    <3> QED
      BY <2>2, <3>1, <3>2 DEF LookedAt
  <2>9. \A p : p = cur => LookedAt(p)' = {}
    BY <2>2 DEF LookedAt
  <2>10. EdgesInv'
    BY <1>1, <1>3, <2>2, <2>3, <2>4, <2>8, <2>9, HeldStays DEF EdgesInv
  <2> QED
    BY <2>6, <2>7, <2>10
<1> QED
  BY <1>5, <1>6

\* The entry of Requires at hand.
Edge == st.cur.reqs[st.at]
LEMMA EdgeAtHand ==
  ASSUME MatchInv, LoopType, ~Through
  PROVE  /\ st.cur \in Offered /\ st.at \in DOMAIN st.cur.reqs /\ Edge \in Range(st.cur.reqs)
         /\ Edge[1] \in Range(Edge) /\ Dependency = Edge[1].name /\ DepName(Edge) = Dependency
         /\ Len(Edge) \in Nat /\ DOMAIN Edge = 1 .. Len(Edge)
         /\ Range(Tail(Edge)) # {} => Len(Edge) # 1
         /\ Range(Tail(Edge)) \subseteq Range(Edge)
<1>1. st.cur # NoPackage
  BY DEF Through, NoPackage, LoopType
<1>2. st.cur \in Offered /\ st.at \in Nat \ {0}
  BY <1>1 DEF LoopType
<1>3. /\ st.cur.reqs \in Seq(Range(st.cur.reqs))
      /\ \A e \in Range(st.cur.reqs) : e \in Seq(Range(e)) /\ e # <<>>
  BY <1>2, ResolverAssumption DEF MatchInv, Offered
<1>4. st.at \in DOMAIN st.cur.reqs
  BY <1>2, <1>3 DEF Through
<1>5. Edge \in Range(st.cur.reqs)
  BY <1>4 DEF Edge, Range
<1>6. Edge \in Seq(Range(Edge)) /\ Edge # <<>>
  BY <1>3, <1>5
<1>7. Len(Edge) \in Nat /\ DOMAIN Edge = 1 .. Len(Edge) /\ 1 \in DOMAIN Edge
  BY <1>6
<1>8. Edge[1] \in Range(Edge)
  BY <1>7 DEF Range
<1>9. Range(Tail(Edge)) \subseteq Range(Edge)
  BY <1>6, HeadAndTail
<1>10. Range(Tail(Edge)) # {} => Len(Edge) # 1
  <2>1. DOMAIN Tail(Edge) = 1 .. Len(Edge) - 1
    BY <1>6, <1>7
  <2>2. Len(Edge) = 1 => DOMAIN Tail(Edge) = {}
    BY <2>1
  <2> QED
    BY <2>2 DEF Range
<1> QED
  BY <1>2, <1>4, <1>5, <1>7, <1>8, <1>9, <1>10 DEF Dependency, DepName, Edge

\* An entry is met when what was taken stays and the entry at hand is met.
LEMMA EdgeDone ==
  ASSUME MatchInv, LoopType, EdgesInv, ~Through, UNCHANGED <<world, seeds>>,
         st'.cur = st.cur, st'.at = st.at + 1, st'.result = st.result,
         st.rebound => st'.rebound, st.missing => st'.missing, st.conflict => st'.conflict,
         ~st'.rebound => Pending \subseteq Pending',
         ~st'.rebound /\ ~Ambiguous /\ ~st'.missing /\ ~st'.conflict =>
            HeldBy(Pending', st.cur, Edge)
  PROVE  EdgesInv'
<1>1. Ambiguous' <=> Ambiguous
  BY DEF Offered, Ambiguous
<1>2. SUFFICES ASSUME ~st'.rebound, ~Ambiguous, ~st'.missing, ~st'.conflict,
                      NEW p \in Range(st.result), NEW i \in LookedAt(p)'
               PROVE  Held(p, p.reqs[i])'
  BY <1>1 DEF EdgesInv
<1>3. CASE p = st.cur /\ i = st.at
  <2>1. HeldBy(Pending', p, p.reqs[i])
    BY <1>2, <1>3 DEF Edge
  <2> QED
    BY <2>1, HeldNext
<1>4. CASE ~(p = st.cur /\ i = st.at)
  <2>1. i \in LookedAt(p)
    BY <1>2, <1>4 DEF LookedAt, LoopType
  <2>2. Held(p, p.reqs[i])
    BY <1>2, <2>1 DEF EdgesInv
  <2> QED
    BY <1>2, <2>2, HeldStays
<1> QED
  BY <1>3, <1>4

\* Nothing is taken.
LEMMA FlagStep ==
  ASSUME MatchInv, LoopType, NamesInv, EdgesInv, ~Through, UNCHANGED <<world, seeds>>,
         \/ /\ st' = [st EXCEPT !.at = @ + 1]
            /\ ~st.rebound /\ ~Ambiguous => Held(st.cur, Edge)
         \/ st' = [[st EXCEPT !.missing = TRUE] EXCEPT !.at = @ + 1]
         \/ st' = [[st EXCEPT !.conflict = TRUE] EXCEPT !.at = @ + 1]
  PROVE  LoopType' /\ NamesInv' /\ EdgesInv'
<1>1. /\ DOMAIN st' = DOMAIN st /\ st'.queue = st.queue /\ st'.result = st.result /\ st'.resolved = st.resolved
      /\ st'.needed = st.needed /\ st'.cur = st.cur /\ st'.at = st.at + 1 /\ st'.rebound = st.rebound
      /\ st.missing => st'.missing
      /\ st.conflict => st'.conflict
      /\ st'.missing \/ st'.conflict \/ (~st.rebound /\ ~Ambiguous => Held(st.cur, Edge))
  BY DEF LoopType
<1>2. Pending' = Pending /\ Offered' = Offered
  BY <1>1 DEF Pending, Offered
<1>3. \A p : (Blocked(p)' <=> Blocked(p)) /\ ByNameVer(p)' = ByNameVer(p)
  BY DEF Blocked, PackagePriority, Applies, RepositoryPriority, ByNameVer
<1>4. LoopType'
  BY <1>1, <1>2, <1>3 DEF LoopType
<1>5. NamesInv'
  BY <1>1, <1>2, <1>3 DEF NamesInv
<1>6. ~st'.rebound /\ ~Ambiguous /\ ~st'.missing /\ ~st'.conflict =>
            HeldBy(Pending', st.cur, Edge)
  BY <1>1, <1>2 DEF Held
<1> QED
  BY <1>1, <1>2, <1>4, <1>5, <1>6, EdgeDone

\* A package is queued for the entry at hand.
LEMMA EnqueueStep ==
  ASSUME MatchInv, LoopType, NamesInv, EdgesInv, ~Through, UNCHANGED <<world, seeds>>,
         NEW d, NEW p \in Offered, ~Blocked(p), Answers(p, d), st' = [Enqueue(st, d, p) EXCEPT !.at = @ + 1],
         \A pkgs : p \in pkgs => HeldBy(pkgs, st.cur, Edge)
  PROVE  LoopType' /\ NamesInv' /\ EdgesInv'
<1>1. /\ DOMAIN st' = DOMAIN st /\ st'.queue = Append(st.queue, p) /\ st'.result = st.result
      /\ st'.resolved = Put(Put(st.resolved, d, p), p.name, p)
      /\ st'.needed = st.needed /\ st'.cur = st.cur /\ st'.at = st.at + 1
      /\ st'.rebound = (st.rebound \/ \E k \in {d, p.name} \cap DOMAIN st.resolved : st.resolved[k] # p)
      /\ st'.missing = st.missing
      /\ st'.conflict = st.conflict
  BY DEF LoopType, Enqueue, RememberResolvedDependency
<1>2. st'.queue \in Seq(Offered) /\ Range(st'.queue) = Range(st.queue) \cup {p}
  <2>1. st.queue \in Seq(Offered)
    BY DEF LoopType
  <2>2. /\ Append(st.queue, p) \in Seq(Offered)
        /\ Range(Append(st.queue, p)) = Range(st.queue) \cup {p}
    BY <2>1, AppendedRange
  <2> QED
    BY <1>1, <2>2
<1>3. Pending' = Pending \cup {p} /\ Offered' = Offered
  BY <1>1, <1>2 DEF Pending, Offered
<1>4. \A x : (Blocked(x)' <=> Blocked(x)) /\ ByNameVer(x)' = ByNameVer(x)
  BY DEF Blocked, PackagePriority, Applies, RepositoryPriority, ByNameVer
<1>5. /\ DOMAIN st'.resolved = DOMAIN st.resolved \cup {d, p.name}
      /\ \A n \in DOMAIN st'.resolved : st'.resolved[n] = IF n \in {d, p.name} THEN p ELSE st.resolved[n]
  <2> DEFINE first == Put(st.resolved, d, p)
  <2>1. /\ DOMAIN first = DOMAIN st.resolved \cup {d}
        /\ \A y \in DOMAIN first : first[y] = IF y = d THEN p ELSE st.resolved[y]
    BY DEF Put
  <2>2. st'.resolved = [y \in DOMAIN first \cup {p.name} |-> IF y = p.name THEN p ELSE first[y]]
    BY <1>1 DEF Put
  <2> HIDE DEF first
  <2>3. /\ DOMAIN st'.resolved = DOMAIN first \cup {p.name}
        /\ \A y \in DOMAIN st'.resolved : st'.resolved[y] = IF y = p.name THEN p ELSE first[y]
    BY <2>2
  <2> QED
    BY <2>1, <2>3
<1>6. Range(st'.resolved) \subseteq Offered
  BY <1>5 DEF Range, LoopType
<1>7. LoopType'
  BY <1>1, <1>2, <1>3, <1>4, <1>6 DEF LoopType
<1>8. NamesInv'
  <2>1. SUFFICES ASSUME ~st'.rebound PROVE NamesInv'
    BY DEF NamesInv
  <2>2. ~st.rebound /\ \A n \in DOMAIN st.resolved : st'.resolved[n] = st.resolved[n]
    BY <1>1, <1>5, <2>1
  <2>3. \A x \in Pending' : x.name \in DOMAIN st'.resolved /\ st'.resolved[x.name] = x
    BY <1>3, <1>5, <2>2 DEF NamesInv
  <2>4. \A n \in DOMAIN st'.resolved : st'.resolved[n] \in Pending' /\ Answers(st'.resolved[n], n)
    BY <1>3, <1>5, <2>2 DEF NamesInv, Answers
  <2> QED
    BY <1>1, <1>3, <1>4, <2>2, <2>3, <2>4 DEF NamesInv
<1> QED
  BY <1>1, <1>3, <1>7, <1>8, EdgeDone

\* A package gives way to another: from here on only LoopType is promised.
LEMMA ReplaceStep ==
  ASSUME MatchInv, LoopType, EdgesInv, ~Through, UNCHANGED <<world, seeds>>,
         NEW d \in DOMAIN st.resolved, NEW p \in Offered, ~Blocked(p),
         st' = [Replace(st, d, st.resolved[d], p) EXCEPT !.at = @ + 1]
  PROVE  LoopType' /\ NamesInv' /\ EdgesInv'
<1> DEFINE at == {i \in DOMAIN st.result : NameVer(st.result[i]) = NameVer(st.resolved[d])}
<1>1. /\ DOMAIN st' = DOMAIN st /\ st'.queue = Append(st.queue, p)
      /\ st'.result = IF at = {} THEN st.result ELSE Without(st.result, Min(at))
      /\ st'.resolved = Put(st.resolved, d, p)
      /\ st'.cur = st.cur /\ st'.at = st.at + 1 /\ st'.rebound = TRUE
  BY DEF LoopType, Replace
<1>2. st'.queue \in Seq(Offered) /\ Range(st'.queue) = Range(st.queue) \cup {p}
  <2>1. st.queue \in Seq(Offered)
    BY DEF LoopType
  <2>2. /\ Append(st.queue, p) \in Seq(Offered)
        /\ Range(Append(st.queue, p)) = Range(st.queue) \cup {p}
    BY <2>1, AppendedRange
  <2> QED
    BY <1>1, <2>2
<1>3. st'.result \in Seq(Offered) /\ Range(st'.result) \subseteq Range(st.result)
  <2>1. st.result \in Seq(Offered)
    BY DEF LoopType
  <2>2. CASE at = {}
    BY <1>1, <2>1, <2>2
  <2>3. CASE at # {}
    <3>1. at \in SUBSET Nat /\ at \subseteq DOMAIN st.result
      <4>1. DOMAIN st.result = 1 .. Len(st.result)
        BY <2>1
      <4> QED
        BY <4>1
    <3>2. Min(at) \in DOMAIN st.result
      BY <2>3, <3>1, LeastOfNat
    <3> QED
      BY <1>1, <2>1, <2>3, <3>2, WithoutRange
  <2> QED
    BY <2>2, <2>3
<1>4. Range(st'.resolved) \subseteq Offered
  <2>1. \A n \in DOMAIN st.resolved : st.resolved[n] \in Offered
    BY DEF LoopType, Range
  <2>2. \A n \in DOMAIN st'.resolved : st'.resolved[n] \in Offered
    BY <1>1, <2>1 DEF Put
  <2> QED
    BY <2>2 DEF Range
<1>5. /\ Pending' \subseteq Pending \cup {p} /\ Offered' = Offered
      /\ \A x : (Blocked(x)' <=> Blocked(x)) /\ ByNameVer(x)' = ByNameVer(x)
  BY <1>2, <1>3 DEF Pending, Offered, Blocked, PackagePriority, Applies, RepositoryPriority, ByNameVer
<1>6. LoopType'
  BY <1>1, <1>2, <1>3, <1>4, <1>5 DEF LoopType
<1> QED
  BY <1>1, <1>6 DEF NamesInv, EdgesInv

\* What is selected is taken, or will be.
LEMMA SelectedIsPending ==
  ASSUME MatchInv, LoopType, NamesInv, ~st.rebound, ~Ambiguous, NEW n, SelectedVersion(st, n) # {}
  PROVE  \E q \in Pending : Answers(q, n)
<1>1. ASSUME NEW q \in Range(seeds), Answers(q, n) PROVE \E p \in Pending : Answers(p, n)
  <2>1. q \in Offered
    BY DEF MatchInv, Range
  <2>2. ByNameVer(q) \in Offered /\ NameVer(ByNameVer(q)) = NameVer(q)
    BY <2>1, ByNameVerListed DEF MatchInv
  <2>3. Alike(q, ByNameVer(q))
    BY <2>2, SeedsAlike
  <2> QED
    BY <1>1, <2>3, AlikeAnswer DEF NamesInv
<1>2. CASE n \in DOMAIN st.resolved
  BY <1>2 DEF NamesInv
<1>3. CASE \E p \in Range(seeds) : p.name = n
  BY <1>1, <1>3 DEF Answers
<1>4. CASE \E p \in Range(st.resolved) : Provides(p, n)
  BY <1>4 DEF NamesInv, Range, Answers
<1>5. CASE \E p \in Range(seeds) : Provides(p, n)
  BY <1>1, <1>5 DEF Answers
<1>6. CASE n \in st.needed
  BY <1>6 DEF NamesInv, Answers, Pending
<1> QED
  BY <1>2, <1>3, <1>4, <1>5, <1>6 DEF SelectedVersion

\* The four ways through an entry: an alternative is selected, ...
LEMMA AlternativeHolds ==
  ASSUME MatchInv, LoopType, NamesInv, ~Through, ~st.rebound, ~Ambiguous,
         AlternativeAlreadySelected(st.cur, st, Dependency)
  PROVE  Held(st.cur, Edge)
<1>1. Edge \in {e \in Range(st.cur.reqs) : DepName(e) = Dependency}
  BY EdgeAtHand
<1>2. PICK a \in Range(Tail(Edge)) : SelectedVersion(st, a.name) # {}
  BY <1>1 DEF AlternativeAlreadySelected
<1>3. PICK q \in Pending : Answers(q, a.name)
  BY <1>2, SelectedIsPending
<1>4. a \in Range(Edge) /\ Len(Edge) # 1
  BY <1>2, EdgeAtHand
<1> QED
  BY <1>3, <1>4 DEF Held, HeldBy

\* ... a candidate is chosen, which meets every constraint, ...
LEMMA CandidateFits ==
  ASSUME NEW d, NEW p \in ResolveMultiCandidates(st.cur, d, FindAllCandidates(d))
  PROVE  p \in Offered /\ ~Blocked(p) /\ Answers(p, d) /\ \A c \in VersionConstraints(st.cur, d) : Meets(p, c)
<1>1. \A S : FirstByPriority(S) \subseteq S
  BY DEF FirstByPriority
<1>2. /\ p \in FindAllCandidates(d)
      /\ ~Blocked(p) /\ \A c \in VersionConstraints(st.cur, d) : Meets(p, c)
  BY <1>1 DEF ResolveMultiCandidates
<1> QED
  BY <1>2 DEF FindAllCandidates, Answers

\* ... the constraints hold of the package, ...
LEMMA ConstraintHolds ==
  ASSUME MatchInv, LoopType, ~Through, NEW q, Answers(q, Dependency), NEW pkgs, q \in pkgs,
         ConstraintsHold(st.cur, Dependency, q)
  PROVE  HeldBy(pkgs, st.cur, Edge)
<1>1. Edge \in Range(st.cur.reqs) /\ Edge[1] \in Range(Edge) /\ Edge[1].name = Dependency /\ DepName(Edge) = Dependency
  BY EdgeAtHand
<1>2. Len(Edge) = 1 => Meets(q, Edge[1])
  <2>1. CASE Edge[1].op = ""
    BY <2>1 DEF Meets
  <2>2. CASE Edge[1].op # "" /\ Len(Edge) = 1
    BY <1>1, <2>2 DEF ConstraintsHold, VersionConstraints
  <2> QED
    BY <2>1, <2>2
<1> QED
  BY <1>1, <1>2 DEF HeldBy

\* ... or another alternative of an entry naming it is taken.
LEMMA BorrowedHolds ==
  ASSUME MatchInv, LoopType, ~Through, FindAllCandidates(Dependency) = {},
         NEW x \in AlternativePlaces(Dependency), NEW q, Answers(q, AltAt(x)), NEW pkgs, q \in pkgs
  PROVE  HeldBy(pkgs, st.cur, Edge)
<1> DEFINE f == st.cur.reqs[x[1]]
           a == f[x[2]]
<1>1. x[1] \in DOMAIN st.cur.reqs /\ Mention(f, Dependency) /\ x[2] \in DOMAIN f /\ a.name # Dependency
  BY DEF AlternativePlaces
<1>2. f \in Range(st.cur.reqs) /\ a \in Range(f) /\ Answers(q, a.name)
  BY <1>1 DEF Range, AltAt
<1>3. CASE f = Edge
  <2>1. Edge[1].name = Dependency /\ DOMAIN Edge = 1 .. Len(Edge) /\ Len(Edge) \in Nat
    BY EdgeAtHand
  <2>2. x[2] \in DOMAIN Edge /\ x[2] # 1
    BY <1>1, <1>3, <2>1
  <2>3. Len(Edge) # 1
    BY <2>1, <2>2
  <2> QED
    BY <1>2, <1>3, <2>3 DEF HeldBy
<1>4. CASE f # Edge
  <2>1. f \in Range(st.cur.reqs) \ {Edge} /\ DepName(Edge) = Dependency
    BY <1>2, <1>4, EdgeAtHand
  <2> HIDE DEF f, a
  <2> QED
    BY <1>1, <1>2, <2>1 DEF HeldBy
<1> QED
  BY <1>3, <1>4

\* So every turn of the inner loop keeps it.
LEMMA EdgeKept ==
  ASSUME MatchInv, LoopType, NamesInv, EdgesInv,
         AlternativeSelected \/ CheckResolved \/ ChooseCandidate \/ TryAlternatives
  PROVE  LoopType' /\ NamesInv' /\ EdgesInv'
<1>1. ~Through /\ UNCHANGED <<world, seeds>>
  BY DEF AlternativeSelected, CheckResolved, ChooseCandidate, TryAlternatives, Unresolved, Onto
<1>2. CASE AlternativeSelected
  <2>1. st' = [st EXCEPT !.at = @ + 1]
    BY <1>2 DEF AlternativeSelected, Onto
  <2>2. ~st.rebound /\ ~Ambiguous => Held(st.cur, Edge)
    BY <1>1, <1>2, AlternativeHolds DEF AlternativeSelected
  <2> QED
    BY <1>1, <2>1, <2>2, FlagStep
<1>3. CASE CheckResolved
  <2> DEFINE d == Dependency
             old == st.resolved[d]
  <2>1. d \in DOMAIN st.resolved
    BY <1>3 DEF CheckResolved
  <2>2. CASE ConstraintsHold(st.cur, d, old) /\ Onto(st)
    <3>1. st' = [st EXCEPT !.at = @ + 1]
      BY <2>2 DEF Onto
    <3>2. ~st.rebound => old \in Pending /\ Answers(old, d)
      BY <2>1 DEF NamesInv
    <3>3. ~st.rebound => Held(st.cur, Edge)
      BY <1>1, <2>2, <3>2, ConstraintHolds DEF Held
    <3> QED
      BY <1>1, <3>1, <3>3, FlagStep
  <2>3. ASSUME NEW p \in ResolveMultiCandidates(st.cur, d, FindAllCandidates(d)), Onto(Replace(st, d, old, p))
        PROVE  LoopType' /\ NamesInv' /\ EdgesInv'
    <3>1. st' = [Replace(st, d, old, p) EXCEPT !.at = @ + 1]
      BY <2>3 DEF Onto
    <3>2. p \in Offered /\ ~Blocked(p)
      BY CandidateFits
    <3> QED
      BY <1>1, <2>1, <3>1, <3>2, ReplaceStep
  <2>4. CASE Onto([st EXCEPT !.conflict = TRUE])
    <3>1. st' = [[st EXCEPT !.conflict = TRUE] EXCEPT !.at = @ + 1]
      BY <2>4 DEF Onto
    <3> QED
      BY <1>1, <3>1, FlagStep
  <2> QED
    BY <1>3, <2>2, <2>3, <2>4 DEF CheckResolved
<1>4. CASE Onto([st EXCEPT !.missing = TRUE])
  <2>1. st' = [[st EXCEPT !.missing = TRUE] EXCEPT !.at = @ + 1]
    BY <1>4 DEF Onto
  <2> QED
    BY <1>1, <2>1, FlagStep
<1>5. ASSUME NEW d, NEW p \in ResolveMultiCandidates(st.cur, d, FindAllCandidates(d)), Onto(Enqueue(st, d, p)),
             \A pkgs : p \in pkgs => HeldBy(pkgs, st.cur, Edge)
      PROVE  LoopType' /\ NamesInv' /\ EdgesInv'
  <2>1. st' = [Enqueue(st, d, p) EXCEPT !.at = @ + 1]
    BY <1>5 DEF Onto
  <2>2. p \in Offered /\ ~Blocked(p) /\ Answers(p, d)
    BY CandidateFits
  <2> QED
    BY <1>1, <1>5, <2>1, <2>2, EnqueueStep
<1>6. CASE ChooseCandidate
  <2>1. ASSUME NEW p \in ResolveMultiCandidates(st.cur, Dependency, FindAllCandidates(Dependency)),
               Onto(Enqueue(st, Dependency, p))
        PROVE  LoopType' /\ NamesInv' /\ EdgesInv'
    <3>1. Answers(p, Dependency) /\ ConstraintsHold(st.cur, Dependency, p)
      BY CandidateFits DEF ConstraintsHold
    <3>2. \A pkgs : p \in pkgs => HeldBy(pkgs, st.cur, Edge)
      BY <1>1, <3>1, ConstraintHolds
    <3> QED
      BY <1>5, <2>1, <3>2
  <2> QED
    BY <1>4, <1>6, <2>1 DEF ChooseCandidate
<1>7. CASE TryAlternatives
  <2>1. ASSUME NEW x \in AlternativePlaces(Dependency), NEW p \in Resolvable(AltAt(x)), Onto(Enqueue(st, AltAt(x), p))
        PROVE  LoopType' /\ NamesInv' /\ EdgesInv'
    <3>1. p \in ResolveMultiCandidates(st.cur, AltAt(x), FindAllCandidates(AltAt(x)))
      BY <2>1 DEF Resolvable
    <3>2. Answers(p, AltAt(x))
      BY <3>1, CandidateFits
    <3>3. FindAllCandidates(Dependency) = {}
      BY <1>7 DEF TryAlternatives
    <3>4. \A pkgs : p \in pkgs => HeldBy(pkgs, st.cur, Edge)
      BY <1>1, <3>2, <3>3, BorrowedHolds
    <3> QED
      BY <1>5, <2>1, <3>1, <3>4
  <2>2. \/ \E x \in AlternativePlaces(Dependency) : \E p \in Resolvable(AltAt(x)) : Onto(Enqueue(st, AltAt(x), p))
        \/ Onto([st EXCEPT !.missing = TRUE])
    BY <1>7 DEF TryAlternatives
  <2> QED
    BY <1>4, <2>1, <2>2
<1> QED
  BY <1>2, <1>3, <1>6, <1>7

-----------------------------------------------------------------------------
\* A resolution only goes well when the queue is empty.
LEMMA Ends ==
  ASSUME ResolverInv, ResolverNext, ~Matching' PROVE FinishInv'
<1>1. MatchInv
  BY DEF ResolverInv
<1>2. CASE FinishMatch
  BY <1>1, <1>2, LoopStarts
<1>3. CASE FinishResolve
  BY <1>3 DEF FinishResolve, FinishInv, Through
<1>4. CASE EmitComponent \/ FinishSort
  BY <1>4 DEF EmitComponent, FinishSort, ResolverInv, FinishInv, Through, Matching
<1>5. CASE phase' \in {"match", "resolve"}
  BY <1>5 DEF FinishInv
<1> QED
  BY <1>2, <1>3, <1>4, <1>5 DEF ResolverNext, MatchRequested, AddSeed, Pop, AlternativeSelected, CheckResolved,
       ChooseCandidate, TryAlternatives, Unresolved, Resolving, Onto

\* Every step keeps the invariant.
LEMMA InvKept ==
  ASSUME ResolverInv, [ResolverNext]_resolverVars PROVE ResolverInv'
<1>1. MatchInv /\ SeedInv
  BY DEF ResolverInv
<1>2. CASE ResolverNext
  <2>1. MatchInv' /\ SeedInv'
    BY <1>1, <1>2, MatchKept, SeedsKept
  <2>2. SUFFICES ASSUME ~Matching' PROVE (LoopType /\ FinishInv /\ NamesInv /\ EdgesInv)'
    BY <2>1 DEF ResolverInv
  <2>3. FinishInv'
    BY <1>2, <2>2, Ends
  <2>4. CASE FinishMatch
    BY <1>1, <2>2, <2>4, LoopStarts
  <2>5. CASE ~FinishMatch
    <3>1. ~(MatchRequested \/ AddSeed)
      BY <2>2 DEF MatchRequested, AddSeed, Matching
    <3>2. ~Matching
      BY <1>2, <2>5, <3>1 DEF ResolverNext, Pop, AlternativeSelected, CheckResolved, ChooseCandidate, TryAlternatives,
           FinishResolve, EmitComponent, FinishSort, Unresolved, Resolving, Matching
    <3>3. LoopType /\ NamesInv /\ EdgesInv
      BY <3>2 DEF ResolverInv
    <3>4. CASE Pop
      BY <1>1, <2>3, <3>3, <3>4, PopKept
    <3>5. CASE AlternativeSelected \/ CheckResolved \/ ChooseCandidate \/ TryAlternatives
      BY <1>1, <2>3, <3>3, <3>5, EdgeKept
    <3>6. CASE FinishResolve \/ EmitComponent \/ FinishSort
      BY <2>3, <3>3, <3>6, LoopFrame DEF FinishResolve, EmitComponent, FinishSort
    <3> QED
      BY <1>2, <2>5, <3>1, <3>4, <3>5, <3>6 DEF ResolverNext
  <2> QED
    BY <2>4, <2>5
<1>3. CASE UNCHANGED resolverVars
  <2>1. UNCHANGED <<world, phase, seeds, st>>
    BY <1>3 DEF resolverVars
  <2>2. Offered' = Offered /\ (Ambiguous' <=> Ambiguous)
    BY <2>1 DEF Offered, Ambiguous
  <2>3. \A r, p : Wanted(r, p)' <=> Wanted(r, p)
    BY <2>1 DEF Wanted
  <2>4. MatchInv'
    BY <1>1, <2>1, <2>2, <2>3 DEF MatchInv, Matching
  <2>5. \A p : Permitted(p)' <=> Permitted(p)
    BY <2>1 DEF Permitted, SpelledOut, Forbidden, PackagePriority, Applies, RepositoryPriority
  <2>6. SeedInv'
    BY <1>1, <2>1, <2>5 DEF SeedInv, Matching
  <2> QED
    BY <2>1, <2>4, <2>6, LoopFrame DEF ResolverInv, Matching, FinishInv, Through
<1> QED
  BY <1>2, <1>3

LEMMA InvStarts == ResolverInit => ResolverInv
<1>1. SUFFICES ASSUME ResolverInit PROVE ResolverInv
  OBVIOUS
<1>2. world.requests \in Seq(Range(world.requests))
  BY <1>1, ResolverAssumption DEF ResolverInit
<1> QED
  BY <1>1, <1>2 DEF ResolverInit, ResolverInv, MatchInv, SeedInv, Matching, Range

\* ResolverInv is an invariant of the resolver.
THEOREM ResolverSound == ResolverSpec => []ResolverInv
<1>1. ResolverInit => ResolverInv
  BY InvStarts
<1>2. ResolverInv /\ [ResolverNext]_resolverVars => ResolverInv'
  BY InvKept
<1> QED
  BY <1>1, <1>2, PTL DEF ResolverSpec

LEMMA ForbiddenIsChosen == ResolverInv => ForbiddenOnlyByRelookup
<1> SUFFICES ASSUME ResolverInv, NEW p \in Installed, Forbidden(p)
             PROVE  \E q \in Range(seeds) : p = ByNameVer(q) /\ (SpelledOut(q) \/ ~Forbidden(q))
  BY DEF ForbiddenOnlyByRelookup
<1>1. ~Matching /\ p \in Pending /\ LoopType /\ SeedInv
  BY DEF Installed, Matching, Pending, ResolverInv
<1>2. PICK q \in Range(seeds) : p = ByNameVer(q)
  BY <1>1 DEF LoopType, Blocked, Forbidden
<1> QED
  BY <1>1, <1>2 DEF SeedInv, Permitted

\* A package whose priority forbids it never comes in as a dependency
\* (resolver.go, findAllCandidates and resolveMultiCandidates): a request spells its
\* version out, or it is the listing looked up for a permitted package that was
\* chosen.  So for any repositories, pins and priorities.
THEOREM NoForbidden == ResolverSpec => []ForbiddenOnlyByRelookup
BY ResolverSound, ForbiddenIsChosen, PTL

\* What was asked for is installed.
LEMMA SeedInstalled ==
  ASSUME ResolverInv, phase = "done", ~st.rebound, ~Ambiguous, NEW q \in Range(seeds)
  PROVE  ByNameVer(q) \in Installed /\ Alike(q, ByNameVer(q))
<1>1. MatchInv /\ NamesInv /\ FinishInv
  BY DEF ResolverInv, Matching
<1>2. q \in Offered
  BY <1>1 DEF MatchInv, Range
<1>3. Alike(q, ByNameVer(q))
  BY <1>1, <1>2, ByNameVerListed, SeedsAlike DEF MatchInv
<1>4. ByNameVer(q) \in Pending
  BY <1>1 DEF NamesInv
<1>5. st.queue = <<>>
  BY <1>1 DEF FinishInv
<1>6. Range(st.queue) = {}
  BY <1>5 DEF Range
<1> QED
  BY <1>3, <1>4, <1>6 DEF Pending, Installed

\* A prefix request is pinned to the only package of its name.
LEMMA OnlyOneFits ==
  ASSUME NEW p, p.ver \in Int, NEW n PROVE FirstForTarget({p}, n, FALSE) = {p}
<1>1. ~PrecedesFor(p, p, n, {p}) \/ ~(PackagePriority(p) = PackagePriority(p))
  BY DEF PrecedesFor
<1> QED
  BY <1>1 DEF FirstForTarget

LEMMA PinnedToOne ==
  ASSUME ResolverInv, phase = "done", ~st.rebound, NEW i \in DOMAIN world.requests, world.requests[i].kind = "prefix",
         NEW p \in Installed, p.name = world.requests[i].name, p.ver \in world.requests[i].vers, ~Blocked(p)
  PROVE  PinVersionPrefixRequests[i].vers = {p.ver}
<1> DEFINE r == world.requests[i]
           fit == {q \in Range(st.result) : q.name = r.name /\ q.ver \in r.vers /\ ~Blocked(q)}
<1>1. MatchInv /\ LoopType /\ NamesInv
  BY DEF ResolverInv, Matching
<1>2. p \in Range(st.result) /\ p \in Pending
  BY DEF Installed, Pending
<1>3. fit = {p}
  <2>1. \A q \in Range(st.result) : q.name = p.name => q = p
    BY <1>1, <1>2 DEF NamesInv, Pending
  <2> QED
    BY <1>2, <2>1
<1>4. p.ver \in Int
  <2>1. p \in Range(world.all)
    BY <1>1, <1>2 DEF LoopType, Range, Offered
  <2> QED
    BY <1>1, <2>1, ResolverAssumption DEF MatchInv
<1>5. FirstForTarget(fit, r.name, FALSE) = {p}
  BY <1>3, <1>4, OnlyOneFits
<1>6. PinVersionPrefixRequests[i] = [r EXCEPT !.kind = "exact", !.vers = {q.ver : q \in {p}}]
  BY <1>5 DEF PinVersionPrefixRequests
<1> QED
  BY <1>6

\* Each request is honoured, and each dependency of each package met.
LEMMA RequestHonoured ==
  ASSUME ResolverInv, phase = "done", ~st.rebound, ~Ambiguous, NEW i \in DOMAIN world.requests PROVE Honoured(i)
<1> DEFINE r == world.requests[i]
<1>1. MatchInv
  BY DEF ResolverInv
<1>2. PICK q \in Range(seeds) : Wanted(r, q)
  BY <1>1 DEF MatchInv, Matching
<1>3. PICK p \in Installed : Wanted(r, p)
  BY <1>2, SeedInstalled, AlikeWanted
<1>4. r.kind \in {"name", "exact", "prefix", "glob"}
  <2>1. r \in Range(world.requests)
    BY DEF Range
  <2> QED
    BY <1>1, <2>1, ResolverAssumption DEF MatchInv
<1>5. CASE r.kind = "prefix"
  <2>1. p.name = r.name /\ p.ver \in r.vers
    BY <1>3, <1>5 DEF Wanted
  <2>2. Blocked(p) \/ PinVersionPrefixRequests[i].vers = {p.ver}
    BY <1>5, <2>1, PinnedToOne
  <2> QED
    BY <1>5, <2>1, <2>2 DEF Honoured
<1>6. CASE r.kind # "prefix"
  BY <1>3, <1>4, <1>6 DEF Wanted, Honoured
<1> QED
  BY <1>5, <1>6

LEMMA ClosedAtEnd ==
  ASSUME ResolverInv, phase = "done", ~st.rebound, ~Ambiguous PROVE ClosureHolds
<1>1. MatchInv /\ LoopType /\ FinishInv /\ EdgesInv
  BY DEF ResolverInv, Matching
<1>2. st.queue = <<>> /\ Through /\ ~st.missing /\ ~st.conflict
  BY <1>1 DEF FinishInv
<1>3. Pending = Installed /\ Installed = Range(st.result)
  <2>1. Range(st.queue) = {}
    BY <1>2 DEF Range
  <2> QED
    BY <2>1 DEF Pending, Installed
<1>4. ASSUME NEW p \in Installed, NEW e \in Range(p.reqs) PROVE EdgeHolds(e) \/ EdgeBorrows(p, e)
  <2>1. PICK k \in DOMAIN p.reqs : e = p.reqs[k]
    BY <1>4 DEF Range
  <2>2. k \in LookedAt(p)
    <3>1. p \in Range(world.all)
      BY <1>1, <1>3, <1>4 DEF LoopType, Range, Offered
    <3>2. p.reqs \in Seq(Range(p.reqs))
      BY <1>1, <3>1, ResolverAssumption DEF MatchInv
    <3>3. DOMAIN p.reqs = 1 .. Len(p.reqs) /\ Len(p.reqs) \in Nat
      BY <3>2
    <3> QED
      BY <1>1, <1>2, <2>1, <3>3 DEF LookedAt, Through, LoopType
  <2>3. Held(p, e)
    BY <1>1, <1>2, <1>3, <2>1, <2>2 DEF EdgesInv
  <2> QED
    BY <1>3, <2>3 DEF Held, HeldBy, EdgeHolds, EdgeBorrows
<1> QED
  BY <1>4 DEF ClosureHolds

LEMMA DoneIsClosed == ResolverInv => ResolvedUnlessRebound
BY ClosedAtEnd, RequestHonoured DEF ResolvedUnlessRebound

\* A resolution that gave no name a second package honours every request and is a
\* closure (ResolveDependencies' comment), virtual packages, versions and
\* alternatives included, for any repositories and requests.
THEOREM ResolvedIsClosed == ResolverSpec => []ResolvedUnlessRebound
BY ResolverSound, DoneIsClosed, PTL
=============================================================================
