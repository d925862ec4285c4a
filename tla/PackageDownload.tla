--------------------------- MODULE PackageDownload ---------------------------
(* How a Debian build gets its packages, over several builds that share the   *)
(* caches on disk: internal/ospackage/debutils/{download,resolver,verify,     *)
(* helper,zip}.go and internal/ospackage/pkgfetcher.                          *)
(*                                                                            *)
(* For every repository the build refreshes Release and its signature in a    *)
(* staging directory, renames them into place one by one, and reads the       *)
(* package index they name, from packages.parsed.json when that is still the  *)
(* index Release names.  It then resolves the request (DebResolver), decides  *)
(* whether the package cache will do, and otherwise downloads with a pool of  *)
(* workers and verifies.  Mirrors move on and go out of step, fetches fail,   *)
(* the build is cancelled, the process is killed.                             *)
(*                                                                            *)
(* A repository's states are numbered; a file of it is the number of the      *)
(* state it belongs to, 0 when absent, Torn when a write was cut.             *)
EXTENDS Integers, Sequences, FiniteSets, Functions

CONSTANTS
    Repos,          \* the sequence of repositories: base ones, then the user's
    Base,           \* the base repositories
    Format,         \* repository -> "classic", "inrelease" or "trusted"
    Listing,        \* repository -> sequence of the package sets it publishes
    Local,          \* the packages of the local repository, {} without one
    Requests,       \* the names a template may ask for
    Filters,        \* the package filters a template may carry
    Workers,
    MaxAttempts, MaxUnavailableAttempts, MaxRefreshAttempts,
    MaxBuilds, MaxKills

Torn == -1

VARIABLES
    mirror,         \* repository -> the state it now publishes, 0 for none
    meta,           \* repository -> the files of its metadata directory
    urls,           \* repository -> what the URL caches remember
    debs,           \* package file -> its content in the package cache
    run,            \* the build that runs
    worker,         \* the fetcher's workers
    builds, kills   \* how many there have been

disk == <<mirror, meta, urls, debs>>
vars == <<mirror, meta, urls, debs, run, worker, builds, kills>>

Indexes == Range(Repos)
User == Indexes \ Base
Listed(r) == UNION Range(Listing[r])
Packages == (UNION {Listed(r) : r \in Indexes}) \cup Local
Files == {p.file : p \in Packages}
NameOf(f) == (CHOOSE p \in Packages : p.file = f).name

ASSUME ReposAssumption ==
    /\ Repos \in Seq(Range(Repos)) /\ Repos # <<>>
    /\ Base \subseteq Indexes
    /\ \A r \in Indexes : Format[r] \in {"classic", "inrelease", "trusted"}

ASSUME ListingAssumption ==
    /\ \A r \in Indexes : Listing[r] \in Seq(SUBSET Packages) /\ Listing[r] # <<>>
    /\ "" \notin Files

ASSUME AttemptsAssumption == MaxAttempts \in Nat /\ MaxUnavailableAttempts \in Nat

Idle == [file |-> "", try |-> 0, unavailable |-> FALSE]
NoRun == [pc |-> "idle", at |-> 1, try |-> 0, staged |-> 0, refreshed |-> FALSE,
          all |-> {}, used |-> [r \in Indexes |-> 0], failed |-> {}, configured |-> {},
          filter |-> {}, request |-> {}, needed |-> {}, retried |-> FALSE, jobs |-> {},
          skipped |-> {}, failing |-> FALSE, cancelled |-> FALSE, result |-> "none"]

Stages == {"refresh", "install", "install signature", "settle", "index", "torn"}
PC == Stages \cup {"idle", "config", "local", "serve", "read local", "resolve", "cache",
                  "download", "returned"}

Run == [pc : PC, at : 1 .. Len(Repos) + 1, try : Nat, staged : Nat, refreshed : BOOLEAN,
        all : SUBSET Packages, used : [Indexes -> Nat], failed : SUBSET Indexes,
        configured : SUBSET Indexes, filter : Filters \cup {{}}, request : Requests \cup {{}},
        needed : SUBSET Packages, retried : BOOLEAN, jobs : SUBSET Files,
        skipped : SUBSET Files, failing : BOOLEAN, cancelled : BOOLEAN,
        result : {"none", "cached", "downloaded", "failed"}]
Metadata == [rel : Nat, sig : Nat, plain : Nat, gz : Nat \cup {Torn}, parsed : Nat,
             filter : Filters \cup {{}}]
Task == [file : Files \cup {""}, try : Nat, unavailable : BOOLEAN]

TypeOK ==
    /\ mirror \in [Indexes -> Nat]
    /\ meta \in [Indexes -> Metadata]
    /\ urls \in [Indexes -> {"unknown", "found", "absent"}]
    /\ debs \in [Files -> {"none", "part", "bad", "whole"}]
    /\ run \in Run
    /\ worker \in [Workers -> Task]
    /\ builds \in Nat /\ kills \in Nat

Init ==
    /\ mirror \in [Indexes -> {0, 1}] /\ \A r \in Base : mirror[r] = 1
    /\ meta = [r \in Indexes |-> [rel |-> 0, sig |-> 0, plain |-> 0, gz |-> 0,
                                  parsed |-> 0, filter |-> {}]]
    /\ urls = [r \in Indexes |-> "unknown"]
    /\ debs = [f \in Files |-> "none"]
    /\ run = NoRun
    /\ worker = [w \in Workers |-> Idle]
    /\ builds = 0 /\ kills = 0

(* A mirror publishes its next state. *)
Publish(r) ==
    /\ mirror[r] < Len(Listing[r]) /\ builds > 0
    /\ mirror' = [mirror EXCEPT ![r] = @ + 1]
    /\ UNCHANGED <<meta, urls, debs, run, worker, builds, kills>>

-----------------------------------------------------------------------------
Goto(pc) == run' = [run EXCEPT !.pc = pc]

Return(outcome) == run' = [run EXCEPT !.pc = "returned", !.result = outcome]

StartBuild ==
    /\ run.pc \in {"idle", "returned"} /\ builds < MaxBuilds
    /\ \E f \in Filters, q \in Requests :
          run' = [NoRun EXCEPT !.pc = "config", !.filter = f, !.request = q]
    /\ builds' = builds + 1
    /\ UNCHANGED <<disk, worker, kills>>

Cancel ==
    /\ run.pc \notin {"idle", "returned"} /\ ~run.cancelled
    /\ run' = [run EXCEPT !.cancelled = TRUE]
    /\ UNCHANGED <<disk, worker, builds, kills>>

(* SIGKILL: nothing is cleaned up; the temporary repository of the process   *)
(* is never looked at again.                                                 *)
Kill ==
    /\ run.pc \notin {"idle", "returned"} /\ kills < MaxKills
    /\ run' = NoRun
    /\ worker' = [w \in Workers |-> Idle]
    /\ kills' = kills + 1
    /\ UNCHANGED <<disk, builds>>

-----------------------------------------------------------------------------
(* The user's repositories, configured once a process.  A 404 is remembered  *)
(* for good, as is the URL of an index that was found; a network error is    *)
(* neither.  A repository without an index cannot be configured.             *)
Remembered(r) == urls[r] # "unknown"
Found(r) == urls[r] = "found"
ProbeResult(r) == IF mirror[r] > 0 THEN "found" ELSE "absent"

InitializeUserRepos ==
    /\ run.pc = "config"
    /\ LET asked == User \ run.configured
           probe == {r \in asked : ~Remembered(r)}
       IN  \E answered \in SUBSET probe :
              /\ run.cancelled => answered = {}
              /\ urls' = [r \in Indexes |-> IF r \in answered THEN ProbeResult(r) ELSE urls[r]]
              /\ run' = [run EXCEPT !.pc = "refresh",
                            !.configured = IF \A r \in asked : Found(r)' THEN User ELSE @]
    /\ UNCHANGED <<mirror, meta, debs, worker, builds, kills>>

Repo == Repos[run.at]

NextRepo == [run EXCEPT !.pc = IF run.at = Len(Repos) THEN "local" ELSE "refresh",
                        !.at = @ + 1, !.try = 0, !.staged = 0, !.refreshed = FALSE]

(* A base repository that fails is left out, unless all fail; one of the     *)
(* user's fails the build.                                                   *)
RepoFails ==
    IF Repo \in User \/ Base \subseteq run.failed \cup {Repo}
    THEN Return("failed")
    ELSE run' = [NextRepo EXCEPT !.failed = @ \cup {Repo}]

-----------------------------------------------------------------------------
(* The staged refresh.  A mirror behind several backends can serve Release   *)
(* and its signature from two states; only that is tried again.              *)
Served(r) == {mirror[r]} \cup ({mirror[r] - 1} \ {0, -1})
OneStateOnly(r) == Format[r] # "classic"

AfterMismatch ==
    IF run.try + 1 < MaxRefreshAttempts THEN [run EXCEPT !.try = @ + 1]
    ELSE [run EXCEPT !.pc = "settle"]

RefreshFails ==
    /\ run.pc = "refresh" /\ Repo \in run.configured \cup Base
    /\ Goto("settle")
    /\ UNCHANGED <<disk, worker, builds, kills>>

RefreshRepoMetadata ==
    /\ run.pc = "refresh" /\ Repo \in run.configured \cup Base
    /\ ~run.cancelled /\ mirror[Repo] > 0
    /\ \E rel \in Served(Repo), sig \in Served(Repo) :
          /\ OneStateOnly(Repo) => sig = rel
          /\ run' = IF rel = sig THEN [run EXCEPT !.pc = "install", !.staged = rel]
                    ELSE AfterMismatch
    /\ UNCHANGED <<disk, worker, builds, kills>>

(* UserPackages asks for the configuration again and gives up without it. *)
NotConfigured ==
    /\ run.pc = "refresh" /\ Repo \in User \ run.configured
    /\ Return("failed")
    /\ UNCHANGED <<disk, worker, builds, kills>>

InstallRelease ==
    /\ run.pc = "install"
    /\ meta' = [meta EXCEPT ![Repo].rel = run.staged]
    /\ run' = IF OneStateOnly(Repo) THEN [run EXCEPT !.pc = "settle", !.refreshed = TRUE]
              ELSE [run EXCEPT !.pc = "install signature"]
    /\ UNCHANGED <<mirror, urls, debs, worker, builds, kills>>

InstallSignature ==
    /\ run.pc = "install signature"
    /\ meta' = [meta EXCEPT ![Repo].sig = run.staged]
    /\ run' = [run EXCEPT !.pc = "settle", !.refreshed = TRUE]
    /\ UNCHANGED <<mirror, urls, debs, worker, builds, kills>>

(* Verification of what is in place, and the text taken out of InRelease. *)
Verifies(r) ==
    CASE Format[r] = "trusted" -> meta[r].rel # 0
      [] Format[r] = "inrelease" -> meta[r].rel # 0
      [] Format[r] = "classic" -> meta[r].rel # 0 /\ meta[r].sig = meta[r].rel

HaveLocalMeta(r) == meta[r].rel # 0 /\ (Format[r] = "classic" => meta[r].sig # 0)

Plain(r) == IF Format[r] = "inrelease" THEN meta[r].rel ELSE 0

AnyLocalMetaVerifies(r) == HaveLocalMeta(r)
LocalMetaUsable(r) == HaveLocalMeta(r) /\ Verifies(r)

SettleMetadata ==
    /\ run.pc = "settle"
    /\ IF LocalMetaUsable(Repo)
       THEN /\ meta' = [meta EXCEPT ![Repo].plain = Plain(Repo)]
            /\ Goto("index")
       ELSE RepoFails /\ UNCHANGED meta
    /\ UNCHANGED <<mirror, urls, debs, worker, builds, kills>>

-----------------------------------------------------------------------------
(* The package index.  The parsed cache holds it for one checksum and one    *)
(* filter, which narrows the repository to some names.                       *)
Expected(r) == IF Format[r] = "inrelease" THEN meta[r].plain ELSE meta[r].rel
IndexMatches(r) == meta[r].gz = Expected(r)
Filtered(r, v, filter) == {p \in Listing[r][v] : p.name \in filter}

CachedIndexValid(r) ==
    meta[r].parsed # 0 /\ meta[r].parsed = Expected(r) /\ meta[r].filter = run.filter

TakePackages(r, v) ==
    run' = [NextRepo EXCEPT !.all = @ \cup Filtered(r, v, run.filter), !.used[r] = v]

UseParsedCache ==
    /\ run.pc = "index" /\ CachedIndexValid(Repo)
    /\ TakePackages(Repo, meta[Repo].parsed)
    /\ UNCHANGED <<disk, worker, builds, kills>>

(* Packages.gz is fetched unless the file there is the one Release names;    *)
(* what was there is removed first.                                          *)
FetchIndex ==
    /\ run.pc = "index" /\ ~CachedIndexValid(Repo) /\ ~IndexMatches(Repo)
    /\ \E got \in {0, Torn} \cup Served(Repo) :
          /\ run.cancelled \/ mirror[Repo] = 0 => got = 0
          /\ meta' = [meta EXCEPT ![Repo].gz = got]
          /\ IF got = Torn THEN Goto("torn")
             ELSE IF got = Expected(Repo) THEN UNCHANGED run
             ELSE RepoFails
    /\ UNCHANGED <<mirror, urls, debs, worker, builds, kills>>

(* The write of a metadata file is under way: the process is killed here, or *)
(* the connection breaks and the fetcher removes the file.                   *)
TornIndexRemoved ==
    /\ run.pc = "torn"
    /\ meta' = [meta EXCEPT ![Repo].gz = 0]
    /\ RepoFails
    /\ UNCHANGED <<mirror, urls, debs, worker, builds, kills>>

ParseIndex ==
    /\ run.pc = "index" /\ ~CachedIndexValid(Repo) /\ IndexMatches(Repo)
    /\ meta' = [meta EXCEPT ![Repo].parsed = Expected(Repo), ![Repo].filter = run.filter]
    /\ TakePackages(Repo, Expected(Repo))
    /\ UNCHANGED <<mirror, urls, debs, worker, builds, kills>>

-----------------------------------------------------------------------------
(* The local repository: its files are gathered in a directory, copied to a  *)
(* temporary repository that is indexed and served over HTTP, and read back;  *)
(* any failure fails the build.  Its index is never cached.                   *)
PrepareLocalRepository ==
    /\ run.pc = "local"
    /\ IF Local = {} THEN Goto("resolve") ELSE Goto("serve") \/ Return("failed")
    /\ UNCHANGED <<disk, worker, builds, kills>>

CreateTemporaryRepository ==
    /\ run.pc = "serve"
    /\ Goto("read local") \/ Return("failed")
    /\ UNCHANGED <<disk, worker, builds, kills>>

LocalUserPackages ==
    /\ run.pc = "read local"
    /\ \/ run' = [run EXCEPT !.pc = "resolve", !.all = @ \cup Local]
       \/ Return("failed")
    /\ UNCHANGED <<disk, worker, builds, kills>>

(* MatchRequested, Resolve and SortPackages, which DebResolver models: here  *)
(* the newest package of every name that is asked for.                       *)
Newest(n) == {p \in run.all : p.name = n /\ \A q \in run.all : q.name = n => q.ver <= p.ver}
ResolveRequest ==
    /\ run.pc = "resolve"
    /\ IF \E n \in run.request : Newest(n) = {} THEN Return("failed")
       ELSE run' = [run EXCEPT !.pc = "cache",
                       !.needed = {CHOOSE p \in Newest(n) : TRUE : n \in run.request}]
    /\ UNCHANGED <<disk, worker, builds, kills>>

-----------------------------------------------------------------------------
(* The package cache.  It is up to date when it has a package of every name  *)
(* that is needed, by the metadata of the files in it or, when that knows    *)
(* none of them, by their file names.                                        *)
Cached == {f \in Files : debs[f] # "none"}
ConfiguredRepos == Base \cup run.configured
CachedOf(repos) ==
    {p \in UNION {Filtered(r, meta[r].parsed, meta[r].filter) :
                   r \in {q \in repos : meta[q].parsed # 0}} : p.file \in Cached}
FromMetadata == CachedOf(ConfiguredRepos)
CachedNames == IF FromMetadata # {} THEN {p.name : p \in FromMetadata}
               ELSE {NameOf(f) : f \in Cached}
Missing == {p.name : p \in run.needed} \ CachedNames

CacheHit ==
    /\ run.pc = "cache" /\ Missing = {}
    /\ Return("cached")
    /\ UNCHANGED <<disk, worker, builds, kills>>

(* Otherwise it is cleared, the parsed metadata with it, and everything is   *)
(* done again, once.                                                         *)
Again(flag) == [NoRun EXCEPT !.pc = "config", !.filter = run.filter, !.request = run.request,
                             !.retried = flag, !.cancelled = run.cancelled,
                             !.configured = run.configured]
ForgetParsed == [r \in Indexes |-> IF r \in ConfiguredRepos
                                    THEN [meta[r] EXCEPT !.parsed = 0, !.filter = {}]
                                    ELSE meta[r]]
NeverRetried == FALSE
AlreadyRetried == run.retried

ClearAndRetry ==
    /\ run.pc = "cache" /\ Missing # {} /\ ~AlreadyRetried
    /\ debs' = [f \in Files |-> "none"]
    /\ meta' = ForgetParsed
    /\ run' = Again(TRUE)
    /\ UNCHANGED <<mirror, urls, worker, builds, kills>>

(* After one retry, or when the cache could not be cleared, the build goes   *)
(* on to download.                                                           *)
StartDownload ==
    /\ run.pc = "cache" /\ Missing # {}
    /\ \E kept \in SUBSET Cached :
          /\ AlreadyRetried => kept = Cached
          /\ debs' = [f \in Files |-> IF f \in kept THEN debs[f] ELSE "none"]
    /\ run' = [run EXCEPT !.pc = "download", !.jobs = {p.file : p \in run.needed}]
    /\ UNCHANGED <<mirror, meta, urls, worker, builds, kills>>

-----------------------------------------------------------------------------
(* The workers of FetchPackages. *)
TakeJob(w) ==
    /\ run.pc = "download" /\ worker[w] = Idle
    /\ \E f \in run.jobs :
          /\ run' = [run EXCEPT !.jobs = @ \ {f}, !.failing = @ \/ run.cancelled]
          /\ worker' = IF run.cancelled \/ debs[f] # "none" THEN worker
                       ELSE [worker EXCEPT ![w] = [Idle EXCEPT !.file = f]]
    /\ UNCHANGED <<disk, builds, kills>>

(* The cache directory cannot be created for this job: that is logged, and   *)
(* the worker goes on to its next one.                                       *)
SkipJob(w) ==
    /\ run.pc = "download" /\ worker[w] = Idle /\ ~run.cancelled
    /\ \E f \in run.jobs : run' = [run EXCEPT !.jobs = @ \ {f}, !.skipped = @ \cup {f}]
    /\ UNCHANGED <<disk, worker, builds, kills>>

(* The response has arrived and its file is being written. *)
StartWriting(w) ==
    /\ worker[w].file # "" /\ debs[worker[w].file] = "none" /\ ~run.cancelled
    /\ debs' = [debs EXCEPT ![worker[w].file] = "part"]
    /\ UNCHANGED <<mirror, meta, urls, run, worker, builds, kills>>

(* The body ends with the length it announced; its content may be another.   *)
Written(w) ==
    /\ worker[w].file # "" /\ debs[worker[w].file] = "part"
    /\ \E c \in {"whole", "bad"} : debs' = [debs EXCEPT ![worker[w].file] = c]
    /\ worker' = [worker EXCEPT ![w] = Idle]
    /\ UNCHANGED <<mirror, meta, urls, run, builds, kills>>

(* It stalls, is cut or too short, or there was no answer: the file is       *)
(* removed.  A status that is neither 200 nor transient, a cancellation and  *)
(* the last attempt end it; a server that is unavailable gets more attempts. *)
Limit(unavailable) == IF unavailable THEN MaxUnavailableAttempts ELSE MaxAttempts

AttemptFails(w) ==
    /\ worker[w].file # ""
    /\ debs' = [debs EXCEPT ![worker[w].file] = "none"]
    /\ \E unavailable, permanent \in BOOLEAN :
          /\ unavailable \/ permanent => debs[worker[w].file] = "none"
          /\ LET ends == permanent \/ run.cancelled \/ worker[w].try + 1 >= Limit(unavailable)
             IN  /\ worker' = IF ends THEN [worker EXCEPT ![w] = Idle]
                              ELSE [worker EXCEPT ![w].try = @ + 1]
                 /\ run' = [run EXCEPT !.failing = @ \/ ends]
    /\ UNCHANGED <<mirror, meta, urls, builds, kills>>

(* Validate looks at the needed files that are there. *)
FetchUncancelled == ~run.cancelled
FetchSucceeded == ~run.cancelled /\ ~run.failing
FileVerifies(f) == debs[f] = "whole"
Validated == \A p \in run.needed : p.file \in Cached => FileVerifies(p.file)

FinishDownload ==
    /\ run.pc = "download" /\ run.jobs = {} /\ \A w \in Workers : worker[w] = Idle
    /\ Return(IF FetchSucceeded /\ Validated THEN "downloaded" ELSE "failed")
    /\ UNCHANGED <<disk, worker, builds, kills>>

-----------------------------------------------------------------------------
Build ==
    \/ InitializeUserRepos \/ NotConfigured \/ RefreshFails \/ RefreshRepoMetadata
    \/ InstallRelease \/ InstallSignature \/ SettleMetadata
    \/ UseParsedCache \/ FetchIndex \/ TornIndexRemoved \/ ParseIndex
    \/ PrepareLocalRepository \/ CreateTemporaryRepository \/ LocalUserPackages
    \/ ResolveRequest \/ CacheHit \/ ClearAndRetry \/ StartDownload \/ FinishDownload
    \/ \E w \in Workers : TakeJob(w) \/ SkipJob(w) \/ StartWriting(w) \/ Written(w) \/ AttemptFails(w)

Next == StartBuild \/ Cancel \/ Kill \/ Build \/ \E r \in Indexes : Publish(r)

(* The build is a sequential program with a pool of workers, each of which   *)
(* ends its attempts (idleTimeoutReader): some step of it is always taken.   *)
Spec == Init /\ [][Next]_vars /\ WF_vars(Build)

-----------------------------------------------------------------------------
(* The packages of a repository come from an index that the Release file now  *)
(* in place names, and that Release file carries its own signature: the files *)
(* are renamed into place one by one, a build may be killed in between, and   *)
(* the parsed index is an earlier build's (ParseRepositoryMetadata).          *)
UsesVerifiedIndex ==
    [][\A r \in Indexes : run'.used[r] \notin {0, run.used[r]} =>
          /\ meta'[r].rel = run'.used[r]
          /\ Format[r] = "classic" => meta'[r].sig = run'.used[r]]_vars

(* What a download that succeeds returns is there, complete and verified,     *)
(* although workers failed, files were left by killed builds, and Validate    *)
(* looks only at what is there.  The exception is the code's: a package whose *)
(* job was skipped because the cache directory could not be created counts    *)
(* as no failure, and may be missing altogether; it is never there torn.      *)
FreshDownloadWholeUnlessSkipped ==
    run.result = "downloaded" =>
        \A p \in run.needed : \/ debs[p.file] = "whole"
                              \/ debs[p.file] = "none" /\ p.file \in run.skipped

(* Every build returns: retries of the refresh and of the workers are         *)
(* bounded, and clearing the cache starts the download over at most once.     *)
BuildEnds == run.pc \notin {"idle", "returned"} ~> run.pc \in {"idle", "returned"}

(* The caching guide's promise for what the package cache returns: "Verify    *)
(* SHA256 checksum (for DEB packages)", and only then a hit.  The code        *)
(* returns whatever has the right names.                                      *)
CacheHitIsSound ==
    run.result = "cached" => \A p \in run.needed : debs[p.file] = "whole"
=============================================================================
