---------------------------- MODULE RpmPackages ----------------------------
(* How an RPM build gets its packages, over several builds that share the     *)
(* caches on disk: internal/ospackage/rpmutils/{download,resolver,helper,     *)
(* verify}.go.                                                                *)
(*                                                                            *)
(* For each repository the build locates the primary metadata (from           *)
(* primary.location.json, else a saved repomd.xml, else the network), reads   *)
(* it (from primary.parsed.json, else the saved raw file, else the network),  *)
(* resolves the request, forgets the metadata it has parsed and               *)
(* goes over all of it once more, drops the cached files a trusted repository *)
(* will serve, downloads what is missing and verifies every file in the       *)
(* cache directory.                                                           *)
(*                                                                            *)
(* A repository publishes the states of its listing one after the other.      *)
(* Primary metadata is named after its content, as createrepo_c names it: the *)
(* number of a state stands for its name, 0 for none.  A metadata file cut by *)
(* a kill does not parse, which the code takes for a missing one: here it is  *)
(* missing.                                                                   *)
(*                                                                            *)
(* A package is a record: pkg (its canonical name), ver (a number: DebVersion *)
(* says how the code orders the real ones), dist (whether its release carries *)
(* the target's suffix), repo, reqs (a sequence of entries), prov and files   *)
(* (sets of names).  The name the code gives it is its file name, here        *)
(* PackageFile.                                                               *)
EXTENDS Lists

CONSTANTS
  Names,            \* the canonical names, in the order sort.Strings gives them
  BaseOf(_),        \* file name -> the package name the code reads off it
  Worlds            \* [listing, skipped, local, keys, priority, requests, otherRequests,
                    \*  kernelVers, builds: how many there are, faults: how many
                    \*  failures]; run.seen is what a clear should have refetched

VARIABLES world,    \* the request and the repositories of this history
          st,       \* the matching of the requests and the resolver's loop: see Nothing
          mirror,   \* repository -> the state it now publishes
          meta,     \* repository -> the files of its metadata directory
          rpms,     \* file -> what the package cache holds of it
          run,      \* the build that runs
          builds, faults

vars == <<world, st, mirror, meta, rpms, run, builds, faults>>

DefaultPriority == 500

PackageFile(p) == <<p.pkg, p.ver>>
Base(p) == BaseOf(PackageFile(p))

(* Candidates are positions of a listing s.  They are sorted by version, the  *)
(* newest first, with sort.Slice: among equals any may come first, and stays  *)
(* the first of a selection it is in.                                         *)
Newest(s, I) == {i \in I : \A j \in I : s[j].ver <= s[i].ver}
FirstOf(s, I, first) == IF first \in I THEN {first} ELSE Newest(s, I)

-----------------------------------------------------------------------------
(* MatchRequested.  A plain name, the whole file name, or a name and the     *)
(* beginning of a version; kernel requests are held to the kernel's version, *)
(* and packages built for the target distribution are preferred.             *)
Named(r, s) ==
    LET fits == {i \in DOMAIN s : s[i].pkg = r.name /\ (r.kind # "name" => s[i].ver \in r.vers)}
    IN  IF r.kind = "file" THEN {i \in fits : \A j \in fits : i <= j} ELSE fits

FilterKernelCandidates(r, s, I) ==
    IF r.kernel /\ world.kernelVers # {} THEN {i \in I : s[i].ver \in world.kernelVers} ELSE I

PreferDist(s, I) == IF \E i \in I : s[i].dist THEN {i \in I : s[i].dist} ELSE I

ResolveTopPackageConflicts(r, s) ==
    Newest(s, PreferDist(s, FilterKernelCandidates(r, s, Named(r, s))))

(* A glob asks for each name it matches in turn. *)
Asked(r, s) ==
    IF r.kind # "glob" THEN {r}
    ELSE {[r EXCEPT !.kind = "name", !.name = n] :
              n \in {Base(s[i]) : i \in DOMAIN s} \cap r.names}

(* What may answer: one package for each name for which there is one.        *)
Answers(r, s) ==
    LET found == {q \in Asked(r, s) : ResolveTopPackageConflicts(q, s) # {}}
    IN  {answer \in [found -> DOMAIN s] :
            \A q \in found : answer[q] \in ResolveTopPackageConflicts(q, s)}

(* A seed is looked up again by file name: the last repository wins. *)
ByNameVer(f, s) == {i \in DOMAIN s : /\ PackageFile(s[i]) = f
                                     /\ \A j \in DOMAIN s : PackageFile(s[j]) = f => j <= i}

PackageFiles(pkgs) == {PackageFile(p) : p \in pkgs}

(* The answers not among those already queued, ... *)
Seeds(answer, s, queue) ==
    {s[i] : i \in UNION {ByNameVer(PackageFile(s[answer[q]]), s) : q \in
        {r \in DOMAIN answer : PackageFile(s[answer[r]]) \notin PackageFiles(Range(queue))}}}

(* ... by name. *)
Before(p, q) == \E i, j \in DOMAIN Names : i < j /\ Names[i] = Base(p) /\ Names[j] = Base(q)
ByName(pkgs) == {q \in BoundedSeq(pkgs, Len(Names)) :
                    /\ Range(q) = pkgs
                    /\ \A i, j \in DOMAIN q : i < j => Before(q[i], q[j])}

-----------------------------------------------------------------------------
(* What is asked of a dependency.  Of several entries on one name only the   *)
(* first counts.                                                             *)
ExtractVersionRequirement(parent, n) ==
    LET entries == {j \in DOMAIN parent.reqs : parent.reqs[j].name = n}
    IN  {parent.reqs[j] : j \in {k \in entries : /\ parent.reqs[k].op # ""
                                                 /\ \A l \in entries : k <= l}}

Satisfies(v, e) ==
    CASE e.op = "<" -> v < e.ver
      [] e.op = "<=" -> v <= e.ver
      [] e.op = "=" -> v = e.ver
      [] e.op = ">=" -> v >= e.ver
      [] e.op = ">" -> v > e.ver

(* By name, else by what it provides, else by the files it contains. *)
FindAllCandidates(n, s) ==
    LET named == {i \in DOMAIN s : Base(s[i]) = n}
        providing == {i \in DOMAIN s : n \in s[i].prov}
        containing == {i \in DOMAIN s : n \in s[i].files}
    IN  IF named # {} THEN named ELSE IF providing # {} THEN providing ELSE containing

(* A priority of 0 is none; the base repository, and a local one, which is   *)
(* served under another URL, have the default.                               *)
GetRepositoryPriority(p) ==
    LET configured == IF p.repo \in DOMAIN world.priority THEN world.priority[p.repo] ELSE 0
    IN  IF configured = 0 THEN DefaultPriority ELSE configured

SelectByPriorityThenRepo(parent, s, I, first) ==
    LET best == {i \in I : \A j \in I : GetRepositoryPriority(s[j]) <= GetRepositoryPriority(s[i])}
        same == {i \in best : s[i].repo = parent.repo}
    IN  FirstOf(s, IF same = {} THEN best ELSE same, first)

(* The constraint is looked up under the name of the first candidate; {}     *)
(* when none meets it.                                                       *)
MatchingCandidates(parent, s, I, first) ==
    {i \in I : \A e \in ExtractVersionRequirement(parent, Base(s[first])) : Satisfies(s[i].ver, e)}

-----------------------------------------------------------------------------
(* The resolver: the first asked requests are matched, cur is looked at,     *)
(* left are the positions of its entries still to come, result holds the     *)
(* packages taken so far.  late is not in the code: the dependencies that    *)
(* were settled by a package taken before, with none of the name queued, so  *)
(* that no version was compared.                                             *)
Nothing == [asked |-> 0, queue |-> <<>>, cur |-> <<>>, left |-> {}, result |-> {},
            failed |-> "", late |-> {}]

-----------------------------------------------------------------------------
(* The builds and what they share. *)
Repos == <<"base", "user">>
Remote == Range(Repos)
Local == "local"

Files == {PackageFile(p) : p \in
            UNION {Range(e.pkgs) : e \in Range(world.local)} \cup UNION {Range(l) : l \in
                UNION {Range(world.listing[r]) : r \in Remote}}}

NoFile == [from |-> "", whole |-> FALSE, at |-> 0]
NoMeta == [location |-> 0, repomd |-> 0, raw |-> {}, parsed |-> 0]
NoRun == [pc |-> "idle", at |-> 1, href |-> [r \in Remote |-> 0], all |-> <<>>,
          retried |-> FALSE, seen |-> [r \in Remote |-> 0],
          jobs |-> {}, failing |-> FALSE, result |-> "none"]

Init ==
    /\ world \in Worlds
    /\ mirror = [r \in Remote |-> 1]
    /\ meta = [r \in Remote |-> NoMeta]
    /\ rpms = [f \in Files |-> NoFile]
    /\ run = NoRun
    /\ st = Nothing
    /\ builds = 0 /\ faults = 0

Publish(r) ==
    /\ mirror[r] < Len(world.listing[r]) /\ builds > 0
    /\ mirror' = [mirror EXCEPT ![r] = @ + 1]
    /\ UNCHANGED <<world, st, meta, rpms, run, builds, faults>>

StartBuild ==
    /\ run.pc = "idle" /\ builds < world.builds
    /\ run' = [NoRun EXCEPT !.pc = "locate"]
    /\ builds' = builds + 1
    /\ UNCHANGED <<world, st, mirror, meta, rpms, faults>>

Ends(outcome) == run' = [run EXCEPT !.pc = "returned", !.result = outcome]

(* The next template, with its own request, may come to the same caches. *)
NextTemplate ==
    /\ run.pc = "returned" /\ builds < world.builds
    /\ \E q \in {world.requests} \cup world.otherRequests :
          world' = [world EXCEPT !.requests = q]
    /\ run' = NoRun
    /\ st' = Nothing
    /\ UNCHANGED <<mirror, meta, rpms, builds, faults>>

Fault == faults < world.faults /\ faults' = faults + 1

(* A request that fails three times, or a signal, ends the build. *)
NetworkFails ==
    /\ run.pc \in {"locate", "parse", "match", "purge"}
    /\ Fault
    /\ Ends("failed")
    /\ UNCHANGED <<world, st, mirror, meta, rpms, builds>>

(* SIGKILL: what was being written when it came is a partial file. *)
Kill ==
    /\ run.pc = "fetch"
    /\ Fault
    /\ \E p \in run.jobs :
          /\ rpms[PackageFile(p)] = NoFile
          /\ rpms' = [rpms EXCEPT ![PackageFile(p)] = [from |-> p.repo, whole |-> FALSE, at |-> builds]]
    /\ Ends("killed")
    /\ UNCHANGED <<world, st, mirror, meta, builds>>

-----------------------------------------------------------------------------
(* Metadata. *)
(* A repository of the user without an http URL is skipped. *)
Configured == SelectSeq(Repos, LAMBDA r : r \notin world.skipped)
Repo == Configured[run.at]

(* The base repository is located when the provider starts, the user's each  *)
(* time its packages are read.                                               *)
FetchPrimaryURL ==
    /\ run.pc = "locate"
    /\ LET m == meta[Repo]
           cached == IF m.location # 0 THEN m.location ELSE m.repomd
           href == IF Repo = "base" /\ run.retried THEN run.href[Repo]
                   ELSE IF cached # 0 THEN cached ELSE mirror[Repo]
       IN  /\ run' = [run EXCEPT !.pc = "parse", !.href[Repo] = href]
           /\ meta' = IF Repo = "base" /\ run.retried THEN meta
                      ELSE [meta EXCEPT ![Repo].location = href,
                                        ![Repo].repomd = IF cached = 0 THEN href ELSE @]
    /\ UNCHANGED <<world, st, mirror, rpms, builds, faults>>

ReadFromCache(r) == run.href[r] = meta[r].parsed \/ run.href[r] \in meta[r].raw

TakePackages(r) ==
    [run EXCEPT !.all = @ \o world.listing[r][run.href[r]],
                !.pc = IF run.at = Len(Configured) THEN "match" ELSE "locate",
                !.at = IF run.at = Len(Configured) THEN @ ELSE @ + 1]

(* Metadata the mirror has replaced is gone from it. *)
ParseRepositoryMetadata ==
    /\ run.pc = "parse"
    /\ IF ReadFromCache(Repo) \/ mirror[Repo] = run.href[Repo]
       THEN /\ meta' = [meta EXCEPT ![Repo].raw = IF run.href[Repo] = meta[Repo].parsed THEN @
                                                  ELSE @ \cup {run.href[Repo]},
                                    ![Repo].parsed = run.href[Repo]]
            /\ run' = TakePackages(Repo)
       ELSE Ends("nometadata") /\ UNCHANGED meta
    /\ UNCHANGED <<world, st, mirror, rpms, builds, faults>>

(* The files of a local repository: directories, files and archives, copied  *)
(* one after the other over what is there.  An archive has to contain some.  *)
ImportEntry(repo, e) ==
    LET kept == SelectSeq(repo, LAMBDA p : \A q \in Range(e.pkgs) : PackageFile(p) # PackageFile(q))
    IN  kept \o e.pkgs

PrepareLocalRepositoryFiles == Fold(ImportEntry, <<>>, world.local)

LocalUnusable ==
    \/ \E e \in Range(world.local) : e.kind = "archive" /\ e.pkgs = <<>>
    \/ world.local # <<>> /\ PrepareLocalRepositoryFiles = <<>>

(* It is indexed and served on a port of this build; its packages come last. *)
LocalUserPackages ==
    /\ run.pc = "match"
    /\ IF LocalUnusable THEN Ends("nolocal")
       ELSE run' = [run EXCEPT !.pc = "resolve", !.all = @ \o PrepareLocalRepositoryFiles]
    /\ st' = Nothing
    /\ UNCHANGED <<world, mirror, meta, rpms, builds, faults>>

(* One request at a time; one that matches nothing ends the build.           *)
MatchRequested ==
    /\ run.pc = "resolve" /\ st.asked < Len(world.requests)
    /\ LET answers == Answers(world.requests[st.asked + 1], run.all)
       IN  \E answer \in answers :
             IF DOMAIN answer = {} THEN Ends("unmatched") /\ st' = Nothing
             ELSE /\ \E seeds \in ByName(Seeds(answer, run.all, st.queue)) :
                        st' = [st EXCEPT !.queue = @ \o seeds, !.asked = @ + 1]
                  /\ UNCHANGED run
    /\ UNCHANGED <<world, mirror, meta, rpms, builds, faults>>

-----------------------------------------------------------------------------
(* ResolveDependencies.                                                      *)
Seen(n) == \E p \in st.result : Base(p) = n

Resolving == run.pc = "resolve" /\ st.failed = "" /\ st.asked = Len(world.requests)

Pop ==
    /\ Resolving /\ st.left = {} /\ st.queue # <<>>
    /\ LET p == Head(st.queue)
           rest == [st EXCEPT !.queue = Tail(@)]
       IN  st' = IF PackageFile(p) \in PackageFiles(st.result) THEN rest
                 ELSE [rest EXCEPT !.cur = p, !.left = DOMAIN p.reqs, !.result = @ \cup {p}]
    /\ UNCHANGED <<world, mirror, meta, rpms, run, builds, faults>>

(* It is compared with nothing. *)
CheckNothing(e, looked) == st' = looked

(* A package of the dependency's name that was taken before settles it; the  *)
(* version is compared with the packages of that name still queued.          *)
CheckQueued(e, looked) ==
    LET settled == [looked EXCEPT !.late = @ \cup {<<PackageFile(st.cur), e.name>>}]
        queued == FindAllCandidates(e.name, st.queue)
    IN  \/ queued = {} /\ st' = settled
        \/ \E first \in Newest(st.queue, queued) :
              st' = IF MatchingCandidates(st.cur, st.queue, queued, first) = {}
                    THEN [st EXCEPT !.failed = "conflict"]
                    ELSE IF Base(st.queue[first]) = e.name THEN looked ELSE settled

(* A dependency nothing offers is passed over. *)
ChooseCandidate(e, looked) ==
    LET cands == FindAllCandidates(e.name, run.all)
    IN  \/ cands = {} /\ st' = looked
        \/ \E first \in Newest(run.all, cands) :
              LET fit == MatchingCandidates(st.cur, run.all, cands, first)
              IN  \/ fit = {} /\ st' = [st EXCEPT !.failed = "unsatisfied"]
                  \/ \E i \in SelectByPriorityThenRepo(st.cur, run.all, fit, first) :
                        st' = [looked EXCEPT !.queue = Append(@, run.all[i])]

ResolveEntry ==
    /\ Resolving
    /\ \E j \in st.left :
          /\ \A k \in st.left : j <= k
          /\ LET e == st.cur.reqs[j]
                 looked == [st EXCEPT !.left = @ \ {j}]
             IN  IF Seen(e.name) THEN CheckQueued(e, looked) ELSE ChooseCandidate(e, looked)
    /\ UNCHANGED <<world, mirror, meta, rpms, run, builds, faults>>

-----------------------------------------------------------------------------
(* The package cache is searched for the files' full names under their base  *)
(* names; without packages it is not searched.                               *)
Cached == {f \in Files : rpms[f] # NoFile}
CachedNames == {<<f[1]>> : f \in Cached}
CacheOutdated == \E p \in st.result : PackageFile(p) \notin CachedNames

(* primary.parsed.json and primary.location.json only. *)
ClearMetadataCache == [r \in Remote |-> [meta[r] EXCEPT !.parsed = 0, !.location = 0]]

RetryOnce == ~run.retried

HandleCacheRetry ==
    /\ \/ run.pc = "resolve" /\ st.failed # ""
       \/ Resolving /\ st.left = {} /\ st.queue = <<>>
    /\ IF st.failed # "" THEN Ends(st.failed) /\ UNCHANGED <<meta, st>>
       ELSE IF st.result = {} THEN run' = [run EXCEPT !.pc = "purge"] /\ UNCHANGED <<meta, st>>
       ELSE IF ~CacheOutdated THEN Ends("done") /\ UNCHANGED <<meta, st>>
       ELSE /\ meta' = ClearMetadataCache
            /\ IF RetryOnce
               THEN /\ run' = [run EXCEPT !.pc = "locate", !.at = 1, !.all = <<>>, !.retried = TRUE,
                                        !.seen = mirror]
                    /\ st' = Nothing
               ELSE /\ run' = [run EXCEPT !.pc = "purge"]
                    /\ UNCHANGED st
    /\ UNCHANGED <<world, mirror, rpms, builds, faults>>

Trusted(r) == world.keys[r] = "trusted"

PurgedNever(r) == FALSE
Purged(r) == Trusted(r)

PurgeTrustedCached ==
    /\ run.pc = "purge"
    /\ LET served == {PackageFile(p) : p \in {q \in st.result : Purged(q.repo)}}
       IN  rpms' = [f \in Files |-> IF f \in served THEN NoFile ELSE rpms[f]]
    /\ run' = [run EXCEPT !.pc = "fetch", !.jobs = st.result]
    /\ UNCHANGED <<world, st, mirror, meta, builds, faults>>

(* A file the cache has is not downloaded, whatever is in it. *)
Listed(p) == IF p.repo = Local THEN {p} ELSE Range(world.listing[p.repo][mirror[p.repo]])
Offered(p) == p \in Listed(p)

FetchPackage(p) ==
    /\ run.pc = "fetch" /\ p \in run.jobs
    /\ LET f == PackageFile(p)
           job == [run EXCEPT !.jobs = @ \ {p}]
       IN  \/ /\ rpms[f] # NoFile
              /\ run' = job
              /\ UNCHANGED <<rpms, faults>>
           \/ /\ rpms[f] = NoFile /\ Offered(p)
              /\ rpms' = [rpms EXCEPT ![f] = [from |-> p.repo, whole |-> TRUE, at |-> builds]]
              /\ run' = job
              /\ UNCHANGED faults
           \/ /\ rpms[f] = NoFile
              /\ IF Offered(p) THEN Fault ELSE UNCHANGED faults
              /\ run' = [job EXCEPT !.failing = TRUE]
              /\ UNCHANGED rpms
    /\ UNCHANGED <<world, st, mirror, meta, builds>>

-----------------------------------------------------------------------------
(* Verification: each file with the keys of the repository it was downloaded *)
(* from, one that this build did not ask for with all the keys there are.    *)
(* A trusted repository has no key and its packages no signature.            *)
Origins(f) == {p.repo : p \in {q \in st.result : PackageFile(q) = f}}

KeysFor(f) ==
    LET asked == IF Origins(f) = {} THEN Remote \cup {Local} ELSE Origins(f)
    IN  {r \in asked : world.keys[r] = "own"}

FileVerifies(f) ==
    \/ \E r \in Origins(f) : Trusted(r)
    \/ rpms[f].whole /\ rpms[f].from \in KeysFor(f)

(* A file that fails stays where it is. *)
ValidateOrigins ==
    /\ run.pc = "fetch" /\ run.jobs = {}
    /\ Ends(IF run.failing THEN "failed"
            ELSE IF \A f \in Cached : FileVerifies(f) THEN "done" ELSE "invalid")
    /\ UNCHANGED <<world, st, mirror, meta, rpms, builds, faults>>

Next ==
    \/ StartBuild \/ NextTemplate
    \/ \E r \in Remote : Publish(r)
    \/ NetworkFails \/ Kill
    \/ FetchPrimaryURL \/ ParseRepositoryMetadata \/ LocalUserPackages
    \/ MatchRequested \/ Pop \/ ResolveEntry \/ HandleCacheRetry \/ PurgeTrustedCached
    \/ \E p \in run.jobs : FetchPackage(p)
    \/ ValidateOrigins

Steps ==
    \/ FetchPrimaryURL \/ ParseRepositoryMetadata \/ LocalUserPackages
    \/ MatchRequested \/ Pop \/ ResolveEntry \/ HandleCacheRetry \/ PurgeTrustedCached
    \/ \E p \in run.jobs : FetchPackage(p)
    \/ ValidateOrigins

Spec == Init /\ [][Next]_vars /\ WF_vars(Steps)

-----------------------------------------------------------------------------
(* Properties.                                                               *)

(* What a result should be.                                                  *)
Offers(p, n) == Base(p) = n \/ n \in p.prov \/ n \in p.files

(* Every dependency that some package answers is answered in the result; two *)
(* repositories that list one file list the same package.                    *)
Closed(result, all) ==
    \A p \in result : \A e \in Range(p.reqs) :
        (\E q \in Range(all) : Offers(q, e.name)) =>
            \E q \in result, a \in Range(all) :
                PackageFile(a) = PackageFile(q) /\ Offers(a, e.name)

(* The bounds nothing is ever compared with: every entry a package has on a   *)
(* name after its first one there, and one on a name that is taken and not   *)
(* queued.                                                                   *)
Uncompared(p, e, late) ==
    e \notin ExtractVersionRequirement(p, e.name) \/ <<PackageFile(p), e.name>> \in late

(* Every version bound each package states on the name of another. *)
BoundsMet(result, all, late) ==
    \A p \in result : \A e \in Range(p.reqs) :
        e.op # "" /\ (\E q \in Range(all) : Base(q) = e.name) =>
            \/ \E q \in result : Base(q) = e.name /\ Satisfies(q.ver, e)
            \/ Uncompared(p, e, late)

Done == run.pc = "returned" /\ run.result = "done"

(* The result is closed: a dependency any repository can answer, by name, by *)
(* capability or by file, is answered, although entries nothing offers are   *)
(* passed over without a word.  Of the version bounds every one is met that  *)
(* is the first its package states on the name, unless a package of the name *)
(* had been taken before and none was still queued; of two bounds of one     *)
(* package on one name (c >= 2, c < 3) the second may be unmet.              *)
ResolvedUnlessUncompared ==
    Done => Closed(st.result, run.all) /\ BoundsMet(st.result, run.all, st.late)

(* When the build returns its packages, every file in the cache directory,   *)
(* from which the image is installed, is whole and carries the signature of  *)
(* a configured repository, or was fetched by this build from one that is    *)
(* trusted without.                                                          *)
NothingUnverified ==
    Done => \A f \in Cached :
               \/ rpms[f].whole /\ world.keys[rpms[f].from] = "own"
               \/ rpms[f].whole /\ Trusted(rpms[f].from) /\ rpms[f].at = builds

=============================================================================
