# A TLA+ model of Image Composer Tool

Image Composer Tool builds operating-system images: a command-line program (`image-composer-tool
build`) that merges a template, downloads packages, prepares a chroot, partitions a loop device,
installs a system on it and converts the result, or changes a copy of an existing image (overlay
mode); a live installer that does the same on a real disk; and a web server (`serve`) that composes
templates, searches package repositories and starts builds as child processes, one at a time. These
modules describe the parts of it that keep state across steps or decide what the image will be, and
the properties these must have. Paths below are relative to the repository; `internal/` and `cmd/`
stand for the directories of that name.

Contents: [components](#components) · [modules](#modules) · [runs](#runs) · [bounds](#bounds) ·
[fairness](#fairness) · [proofs](#proofs) · [where the code departs](#where-the-code-departs-from-what-it-says) ·
[not modelled](#what-is-not-modelled) · [plan](#plan) · [running it](#running-it)

## Components

### The server

| component | state | operations | talks to |
|---|---|---|---|
| Build slot and shutdown (`internal/api/service/service.go`, `builds.go`, `internal/api/server.go`) | `activeBuildID`, `admissionClosed`, `setupDone`, the tracker, each build's `done` | `StartBuild` claims the slot, opens a setup window, tracks and launches; `runBuild` owns the child; `watchCancel` gives up on a child; `Server.Start` shuts down | record (`finish`, `beginCancel`), the OS (child, signals) |
| Build record, log and archive (`builds.go`, `history.go`) | `build` under `mu`: status, pgid, residual, log; `persistMu`; `compose.log`, `meta.json`, the generated template | `finish` (single shot), `beginCancel`, `setPgidCheckCancel`, `persist`, `archiveAndCleanupDelta`, `reconcileInterrupted` | slot, disk, child and its output pipe |
| Package index cache (`pkgindex/pkgindex.go`) | `entries`, `order`, `failures`, `inflight` | `Lookup`, the detached fetch, eviction by two caps | fetchers (external), searches |
| Package search (`packages.go`, `packagesearch_sse.go`) | a semaphore, the outcomes of the indexes, the stream | plan, fan out, batch per repository, end | cache, the browser |
| Compose (`compose.go`, `delta.go`, `diskoverride.go`, `repos.go`, `edgepack.go`) | none: files | a selection becomes a delta template, which is merged and checked | configuration |

### The build

| component | state | operations | talks to |
|---|---|---|---|
| Configuration (`internal/config`, `internal/oepinstaller`) | the template as it is merged, checked and lowered | chain of `extends`, layers, overrides, requirements of the OEP Installer, apt sources and preferences | the files of the host, the key servers |
| CLI build lifecycle (`cmd/image-composer-tool/build.go`, `main.go`, `internal/utils/runctx`, `internal/utils/shell`, `internal/cache/isolated.go`) | the ambient context, the coordinator's entries, the isolated workspace | load, `PreProcess`, `BuildImage`, `PostProcess`, backstop, removal of the workspace; signals | everything below, through the global context and coordinator |
| Packages (`internal/ospackage`) | metadata and package caches on disk; a work list | refresh and verify metadata, answer requests, close under dependencies, order, download with workers, verify | mirrors |
| Chroot environment and mounts (`internal/chroot`, `internal/utils/mount`) | the root file system and its tarball, the repository configuration and its backup, mounts | `InitChrootEnv`, `CleanupChrootEnv` | the kernel, the coordinator |
| Disks and loop devices (`internal/image/imagedisc`) | loop devices and the files they are bound to; a disk's label and partitions | choose a disk, check, clear, label, partition, format; attach with registration, detach | the kernel, the coordinator |
| OS installation (`internal/image/imageos`, `imageboot`, `imagesecure`, `imageprovision`, ...) | the image; mounts, mappers, diverted commands to take back | `InstallImageOs`, `InstallRootfs`, `InstallInitrd` | disks, packages |
| Image makers, conversion (`internal/image/rawmaker`, ...) | the image file | create, install, rename, convert, undo | all of the above |
| Overlay (`internal/image/overlay`) | a session over a baseline image: copy, mounts, loop, output directory; a plan; the root | `Preprocess`, `Build` in stages, `Postprocess`, `cleanup` | disks, mounts, packages, coordinator |
| Live installer (`cmd/live-installer`) | the firmware's boot entries | `install`, `updateBootOrder` | disks, OS installation |
| AI assistant, inspection, utilities, other commands | none a step could corrupt | see `PROJECT.json` | |

### What is hard, and what must hold

* *Slot.* Three parties release the slot (the failing start, the goroutine that waits for the child,
  the watchdog) and a fourth, shutdown, must miss none of the builds. One build at a time holds the
  slot; a cancel always frees it; no channel is closed twice; shutdown terminates.
* *Record.* Four threads and a kill share one record and two files. Its outcome is decided once,
  by whoever comes first; a restarted server shows that outcome; a cancel that arrives before the
  child has a process group still reaches it; a cancelled build always concludes.
* *Cache and search.* Callers share one fetch and may leave it; the fetch must not die with its first
  caller, and no two fetch the same index. The last event of a stream must tell whether something is
  missing, whatever order the outcomes, the budget and the client's departure come in.
* *Cleanup.* Every command may fail, be cut by a signal midway or be refused after it; a process may
  be killed between any two. Whatever a build leaves on the host it must report, it must never delete
  over a mount, never lose a finished image, and the next build starts from whatever was left.
* *Overlay.* The copy must outlive what is attached to it, the output directory must not end up with a
  set of files of several builds; the policy that was checked beforehand must hold of what was done,
  and an image that was changed must still boot.
* *Packages.* Files of several caches are written one by one by builds that may be killed, against
  mirrors that move on; resolution replaces packages it has already taken. What is installed must be
  whole, verified, and closed under its dependencies, and every loop must end.
* *Templates.* Layers, flags, an external installer and generated files are merged at different times,
  and each check sees only what was there. What was asked for must come through, and nothing else.
* *Installation.* A disk must not be cleared in vain, the firmware must always have something to start,
  options written early must still be right after encryption, verity, UKI and signing, and every step
  that fails must take back what it made on the host.

`PROJECT.json` lists each hazard at its line with the properties that guard it, or says why none does.

## Modules

```
BuildSlot                       <- ServiceProofs
BuildOutcome <- BuildLife       <- BuildLifeProofs
PkgIndexCache <- PackageSearch  <- ServiceProofs, MCPackageSearch
ShellContext <- ChrootEnv <- BuildCleanup <- BuildCleanupProofs, MCBuildCleanup
ShellContext, ArtifactPromise <- OverlayBuild \
OverlayPlan <- OverlayRoot                    <- OverlayProofs; OverlayRoot <- MCOverlayRoot
Lists <- DebResolver            <- PackageDownloadProofs, MCDebResolver (with DebVersion)
PackageDownload                 <- PackageDownloadProofs, MCPackageDownload
Lists <- RpmPackages            <- RpmPackagesProofs, MCRpmPackages (with DebVersion)
Lists <- TemplateMerge <- TemplateChecks <- OepRequirements, AptSources, ComposeDelta
                                         <- TemplateBuild <- TemplateBuildProofs, MCTemplateBuild
Lists <- DiskLayout <- DiskInstall
Lists <- ImageBoot <- ImageSecure; ImageAccounts, ImageProvision
          all of these <- ImageInstall <- ImageInstallProofs, MCImageInstall
```

### The server

**BuildSlot.** Every `POST /builds` is a member of `Builds` and has three threads: `starter`
(`StartBuild`), `runner` (`runBuild`) and `watchdog` (`watchCancel`); `server` is `Server.Start` from
serving to exit. `activeBuildID`, `admissionClosed`, `setupDone` and `tracker` are the fields of that
name. A channel is named by the start that made it, so that closing somebody else's can be seen.
Each critical section is one action; a deferred call is an action of its own, in the code's order
(`CloseDone` before `ReleaseBuildSlot`). `RefuseStart`, `PrepareFails` and `StartFails` are the early
returns. Timers carry no time: a timeout is a step that may be taken while its wait lasts.

**BuildLife** is the inside of one build: the fields of `build` that more than one thread touches,
`persistMu`, the pipe the child's output comes through, its process group, `compose.log` and
`meta.json`, and the generated template. Its threads are the runner, one user cancel (`canceller`),
the watchdog and the shutdown path. `persist` is three steps (lock, log, meta) because a kill can fall
between them; either write may fail, which the code only warns about: `unsaved` holds what the thread that concluded
the build failed to write, and a killed build that has no record on disk is `unknown` to the observer. `Crash` and `Restart` (`reconcileInterrupted`) are actions. **BuildOutcome** is what it
promises an observer: *in flight*, *concluded*, *saved*, and *lost* only by a kill before saving.
`View` and `Outcome` in `BuildLife` are the refinement mapping.

**PkgIndexCache** is `Cache.Lookup` for an arbitrary set of callers: a hit, a remembered failure, a
join of a fetch in flight or a new fetch; the detached fetch and its publication; ageing of entries
and failures; the eviction loop (`Kept`). **PackageSearch** composes it with the callers that exist:
one lookup per index of a search, under the semaphore, grouped by repository, streamed in the order
they finish; it maps its own actions on the cache's by `InCache`.

### The host a build works on

**ShellContext** says what a command can do under the bound context: `ok`, `fail`, `cut` (its context
ended while it ran: an error is reported and any part of its work may be done) or `refused` (it was
not spawned). `Reached` is the set of outcomes of commands that change a set element by element.
**ChrootEnv** is `InitChrootEnv` and `CleanupChrootEnv` command by command. **BuildCleanup** is
`executeBuild` around them with the raw maker: `pc` follows the single goroutine; `dev`, `opened` and
`entries` are what the process knows; `mounts`, `mapper` and `loops` are what the kernel knows; the
two part when a process is killed (`Forget`). `losetup -d` of a busy device is lazy (`LetGo`), as the
kernel has it. The provider modelled is Ubuntu's create mode; the others differ in what they hand back
after a cleanup that worked, which `executeBuild` filters out.

**OverlayBuild** is the same for overlay mode: `Builder.Preprocess` (copy, attach, mount), `Build` as
one step that succeeds or fails, `Postprocess` (SBOM, release, move to the output directory, inspect,
convert) with its deferred cleanup, and the coordinator's entries. A build's number also names its copy,
the device bound to that file and the artifacts it writes, so that `out` says whose each artifact is.
`teardown` and `loop` are what the builder remembers, `root`, `esp` and `loops` what the kernel has.
**ArtifactPromise** is the contract of the output directory as an observer sees it; `Promise` is the
refinement mapping.

### What an overlay decides and does

**OverlayPlan** has the functions: the closure of the requested packages against the baseline, the
preflight (`EvaluatePreflight`: upgrades, conflicts, obsoletes, unmet dependencies, kernel replacement)
and the policy that blocks a build. A world `w` is the input of one build; its fields are listed at the
head of the module. **OverlayRoot** carries the plan out in the stages of `Builder.Build`: resize layer by layer,
installation by dpkg or rpm with removals, the audit and the cascade, users, configuration commands,
additional files, initramfs and menu. What a package manager accepts is external (`Accepted`).

### Packages

**DebVersion** holds the two version orders, of deb and of rpm packages, over sequences of character codes, checked
by the MC modules' assumptions against the orders the distributions document, for every short string over a small
alphabet. **DebResolver** is `MatchRequested`, `ResolveDependencies` and `SortPackages`: one request, one
package of the work list (`Pop`) or one entry of its `Requires` (`AlternativeSelected`, `CheckResolved`, `ChooseCandidate`,
`TryAlternatives`) a step; versions there are numbers, and what `sort.Slice` puts first is any package that nothing precedes. **PackageDownload** is `downloadPackagesComplete` over
several builds that share the caches: refresh of `Release` and its signature in a staging directory,
the renames, the parsed index with its filter, the decision whether the package cache will do, the pool
of workers, verification; kills, cancellation and mirrors that move on. **RpmPackages** is the same for
rpm, resolver included: `primary.location.json`, saved `repomd.xml`, raw and parsed metadata, the purge of files of trusted
repositories, verification by groups of keys. A candidate is its position in the listing; which of several with the same version comes first is any here too.

### Templates

**TemplateMerge** is `foldChain` and the merge of every section; **TemplateChecks** what is refused before
and after it and what is lowered into additional files; **OepRequirements**, **AptSources** and
**ComposeDelta** what the OEP Installer, the repositories and the web service add. A check that can fail returns
`<<>>` or `<<t>>`; a path is the sequence of its components. **TemplateBuild** strings them together in the code's
order, from the file that was asked for to the template the image is made of, with links among the files
(`Walk` follows a path as the system does, `CheckSymlink` looks at the last component behind the links before it). Files
and keys that are lowered one after the other in the code are a set that is refused as a whole: an order of them
shows only in which of several errors is told.

### The installation

**DiskLayout** computes where partitions lie (boundaries from either end, blocks, alignment, numbers) and
which disk is taken; **DiskInstall** carries it out and then changes the firmware's boot entries,
where every tool may fail; the boot order is a sequence of entry numbers and the new entry any number and any
place in it. **ImageBoot**, **ImageSecure**, **ImageAccounts** and **ImageProvision**
(the vendor's kernel modules, the unit that grows the last partition and the template's commands included) say what each stage makes of a part of the image; **ImageInstall** is `InstallImageOs`,
`InstallRootfs` and `InstallInitrd` with mounts (`sys`), what the deferred calls will take back (`job`)
and the image (`root`). Users, scripts and kernels are configured one a step, as the loops have them; the waits among
systemd units are a set of pairs. What dkms does with a source is the outcome of an external tool (`DkmsOutcomes`): installed or
not, each module compiled or not, and copied or left to what the kernel ships. `BootSupported` names the templates that are not expected to boot, see below.

Definitions whose comment starts with "Mutation of" are not part of any specification. Each is the
form a plausible bug would give the definition it names; substituting it must break the property listed
with it in `PROJECT.json`.

## Runs

| run | module | shows |
|---|---|---|
| `slot` | BuildSlot | `SlotHeldWhileBuilding`, `NoDoubleClose`, `ShutdownMissesOnlyStolenWindows`; `CancelAndShutdownEnd` under fairness |
| `life` | BuildLife | `CancelReachesChild`, `DeltaOutlivesChild`; `ImplementsOutcome` (BuildLife implements BuildOutcome); `BuildsConclude` under fairness |
| `search` | MCPackageSearch | `SharedFetches` of the cache; `StreamIsHonest` and, under fairness, `SearchEnds` of searches |
| `cleanup` | MCBuildCleanup | `RemovedOverNothing`, `FinishedImageSurvives`, `ReapedOrReported` |
| `overlay` | OverlayBuild | `CopyOutlivesItsUsers`, `EmitsReleased`; `KeepsPromise` (OverlayBuild implements ArtifactPromise) |
| `overlay_root` | MCOverlayRoot | `BaselinePreservedUnlessUnread`, `UnmetOnlyByUpgrade`, `BootMatchesRoot`, `ResizeIsSafe` |
| `deb_resolve` | MCDebResolver | `ResolvedUnlessRebound`, `ForbiddenOnlyByRelookup`; `EndsUnlessCircular` |
| `download` | MCPackageDownload | `FreshDownloadWholeUnlessSkipped`, `UsesVerifiedIndex`; `BuildEnds` |
| `rpm` | MCRpmPackages | `ResolvedUnlessUncompared`, `NothingUnverified` |
| `template` | MCTemplateBuild | `LayersAreDistinct`, `ScriptsSurvive`, `DeniedRaisedOnlyByInstaller`, `DeltaChangesOnlyWhatWasAsked` |
| `image` | MCImageInstall | `DiskAsAsked`, `FirmwareKeepsBooting`, `BootReachesRoot`, `NothingLeftBehind`, `UsersMayLogIn`, `ScriptsRun`, `VendorModulesLoadUnlessLeft` |
| `cache_unverified` | MCPackageDownload | that `CacheHitIsSound`, the caching guide's promise, is violated |

What the less obvious properties say:

* `ShutdownMissesOnlyStolenWindows`: a build that is still running when shutdown has waited and taken
  its snapshots, and is in none of them, had its setup window closed by another start or outlasted the
  setup grace. It is the strongest form that holds.
* `CancelReachesChild`: when a cancel and the start of the child cross, one of the two threads sends
  the signal; no order of the two critical sections loses it.
* `ReapedOrReported`: whatever is mounted when a build ends was reported by its error or by the residual
  report; after a signal, a device that was registered is detached, or named in that report, or held by
  a mount that PostProcess reported or by a LUKS mapper.
* `KeepsPromise`: a build that succeeds has put a whole set into the output directory, with nothing beside it that
  describes an earlier image; one that fails has left nothing of its own; an artifact of an earlier
  build never comes back.
* `DoneMeansConcluded` (proved, not among the runs): whoever hears `done` hears of a build that has an outcome, with its final
  record and whole log on disk, but for a file its runner failed to write.
* `BaselinePreservedUnlessUnread` compares the preflight's rules with what rpm, dpkg and the cascade do afterwards,
  packages whose metadata could not be read included. What rpm erases on account of Obsoletes that could not be read
  (`ErasedUnread`) is lost under any policy and counted as unchanged; nothing else is lost against the policy.
* `ResolvedUnlessRebound` (deb): a resolution honours the request and is closed, unless
  a name was given a second package, a requested version is listed twice with different `Provides`, or an entry is met
  by another entry's alternative. `ResolvedUnlessUncompared` (rpm): it is closed, and every version bound is met
  but those that are compared with nothing: one on a name that is taken and no longer queued, and any but the first
  bound a package states on a name (`Uncompared`). Without the exceptions neither holds.
* `ForbiddenOnlyByRelookup`: a package of a blocked repository is installed only when a request spells out its version, or
  because a chosen package is looked up again by name and version, which finds the blocked copy; never as a dependency.
* `EndsUnlessCircular`: resolution ends unless there is a circle of packages each of which requires a version that
  displaces the next (`Circular`); the worlds contain such circles, and in some the code does not end.
* `UsesVerifiedIndex` holds of every state: the index in use is named by the `Release` file in place, which
  carries its own signature. `FreshDownloadWholeUnlessSkipped` and `CacheHitIsSound` are the two ways a download returns; a
  download that succeeds has each package whole, or has skipped its job, since the directory could not be made.
* `BootReachesRoot` walks from the firmware to the root: the loader's file, its options, the mappers they open,
  the initramfs that can open them, the hash tree over what the root holds at the end, the signatures.
* `ScriptsSurvive` and `DeniedRaisedOnlyByInstaller` follow what one check established through everything that is lowered into
  files after it. What the code leaves unchecked is excepted by name: paths generated for the installer's first script, where the
  installer's key goes, pins another repository's file replaces, and the preferences an installer's repository that may
  upgrade brings along, which may name any host. The property says who can raise a denied host above the pin; nothing the
  tool generates can.
* `VendorModulesLoadUnlessLeft`: each kernel has the sources named installed, at least one if none is named, and finds
  each module an installed source declares, unless dkms left that module to what the kernel ships.
* `NothingLeftBehind` is about the host: mounts and open devices, unless what takes them back failed and said so.

## Bounds

* `slot`: two builds. The slot relates the holder, one start that is refused or bails out, and the start
  that takes its place; a third start only repeats one of the two roles. The shutdown is one.
* `life`: one build (builds share no record), one user cancel, any number of restarts; the child may print
  an overlong line or not (`Overlong`).
* `search`: two indexes, two searches of which one covers both indexes, so that sharing, waiting in the
  semaphore (`Slots = 1`), eviction by number (`MaxRepos = 2`) and by weight (`MaxEntries = 3` with
  sizes 1 and 4, the second larger than the cap alone) all occur.
* `cleanup`: two builds in a row (`Runs = 2`), since a build meets what one earlier build left, plus a
  single isolated one; one original repository file (a half-made backup is then an empty one); two loop
  devices, so that an old and a new one can coexist. `Killed` is enabled only where a next build can see
  the difference. Devices are symmetric. One LUKS mapper stands for all partitions that are encrypted, one
  mount for the disk's stack, and the system mounts of a root are one element: the code makes and removes each of
  them as a group, and `Reached` lets the group end either way.
* `overlay`: three builds in a row, so that what the first left can be met by one that fails and then by one that
  succeeds.
* `overlay_root`: 24,716 worlds over eight packages in the roles that matter (a request, a library, a
  reverse dependency, old and new kernel, its alias and modules, a bootloader) with two versions; MiB are units.
  Each family of worlds varies one part (dependencies and policy, kernel swaps, sizes, boot content, Obsoletes that are or are
  not read, of a library, a kernel image and a bootloader).
* `deb_resolve`: 16,632 worlds over four names and a virtual one, up to three versions in two repositories,
  alternatives, version bounds, cycles, circles of displacement, pins, priorities, and requests by name, exact version, version prefix and pattern.
* `download`: three repositories of three formats (`MCFormat`), the first moves on once; two builds that differ in request and
  filter, one kill, two workers, two attempts of each retry (`MaxAttempts`, `MaxUnavailableAttempts`,
  `MaxRefreshAttempts`, the code has more): the second is the one that differs from the first.
* `rpm`: 1,296 resolver worlds with still mirrors, and 144 histories of two builds with moving mirrors, failures,
  kills and four kinds of keys.
* `template`: 10,268 trees: every chain over ten and five spellings of `extends` through six links; parents,
  leaves and defaults with colliding scripts, files and users; repositories sharing hosts; repositories of the installer whose
  own key, list and preferences files take the place of others or name hosts and priorities of their own; selections of the service, from templates with and without a parent.
* `image`: layouts of two partitions from either end on disks with three block shapes; five partitions for numbering;
  device lists of two; firmware tables of up to three entries; images that vary one of loader, package manager, encryption, verity, accounts, scripts, network, modules
  (dkms: any subset of the sources installed, some of them with the packages, modules copied or left), the growth of the last
  partition at the first boot, commands of the template.
  Mount points are drawn from the ten names of `MountOrder`. A failure of any tool at any step is part of every world.

Deadlock checking is off in every run because a build, a resolution, a search and a server end.

## Fairness

Weak fairness of the steps of a goroutine: the Go scheduler runs a goroutine that can run, and a timer
that was set fires. In BuildSlot that covers `runBuild`, `watchCancel`, the deferred `endBuildSetup` and
the shutdown path, in BuildLife the four threads, in PackageSearch the lookups, the fetches (which
`FetchTimeout` bounds) and the emitter. DebResolver, OverlayRoot, RpmPackages and PackageDownload follow one build: weak
fairness of its own steps, never of a mirror's, a kill's or a signal's. Nothing obliges a child to exit, a template to
be prepared in time, a user to cancel, a signal to arrive, a search's budget to expire or an entry to age; the liveness
properties hold without. BuildCleanup, OverlayBuild, TemplateBuild and ImageInstall state safety only: their steps are a
straight line of commands, each of which returns.

## Proofs

TLAPS proves, for every value of the constants:

| module | theorems | along |
|---|---|---|
| ServiceProofs | `SearchUsesCache`, `TypeCorrect`, `SearchTypeCorrect`, `OneFetch`, `OwnCancelOnly`, `LastStays`, `FetchesAreShared`, `HonestStream` of PackageSearch; `ServiceTypeCorrect`, `SlotIsHeld`, `ChannelsCloseOnce`, `DoneComesFirst`, `ShutdownMisses` of BuildSlot | `CacheInv`: what is in flight is what is running, and a waiting caller waits for a fetch of its own key; it is proved of the cache under arbitrary callers and carried over by `SearchUsesCache`; `SearchInv` adds what a search has heard. `ServiceTypeOK /\ SlotInv`: per build (`BuildInv`), an untracked build has no runner, a runner is launched once, the watchdog's verdict comes before it releases the slot, a channel is closed only by a start that claimed the slot and returned, and an open setup window either is the current one or was stolen; and nothing is admitted after shutdown closed admission |
| BuildLifeProofs | `TypeCorrect`, `DoneIsConcluded`, `DeltaStays`, `CancelReaches`, `Refinement` | `LifeInv`: where each thread can be together, who holds `persistMu`, what is on disk when, who owns the single-shot finish. `SignalInv`: a build shown as cancelling was asked to be, and once its group is known the group was signalled or one of the two threads is about to. The refinement shows that Init maps to Init and each step to a step of BuildOutcome or to none |
| BuildCleanupProofs | `TypeCorrect`, `NothingMountedIsRemoved`, `ImageSurvives`, `LeftIsReported` | `CleanupInv`: the phases of the one goroutine (`PhaseInv`); what is mounted is known to the error of `CleanupChrootEnv`, and through it the workspace is kept (`MountsInv`, `WorkspaceInv`); a build that has not failed when the maker detaches has renamed its image (`ProductInv`); what PostProcess had to report (`PostInv`); and a bound device is the process's own, in the coordinator's entries, named in the report or held (`LoopInv`) |
| OverlayProofs | `TypeCorrect`, `CopyOutlives`, `EmittedIsReleased`, `PromiseKept` of OverlayBuild; `RootInvariant`, `Preserved`, `UnmetDependencies`, `BootFits`, `Resize` of OverlayRoot | `OverlayInv`: what the Builder remembers at each place is what the kernel has (`Holds`, `Copied`, `Unmounted`), only an unfailed first Postprocess leads to the move (`Phases`, `Emission`), and which artifacts are whose (`EmittedSet`). The refinement of ArtifactPromise is step by step. `RootChangeInv`: the plan is the preflight's and passed it (`PlanInv`), each package of the root comes from the plan or the baseline and each that went was approved or erased by unread Obsoletes (`RootInv`, `StageInv`), the audit's verdict (`AuditInv`), what the initramfs and the menu were made from (`ContentInv`, `MenuInv`), and which layer already has the new size (`SizeInv`) |
| PackageDownloadProofs | `TypeCorrect`, `IndexIsVerified`, `FreshIsWholeUnlessSkipped` of PackageDownload; `ResolverSound`, `ResolvedIsClosed`, `NoForbidden` of DebResolver | `DownloadInv`: what is on disk or staged is one of the states the mirror has published (`StatesInv`), between settling and taking packages the `Release` in place carries its own signature (`SettledInv`), no two workers have one file (`PoolInv`), what is needed is cached, queued, with a worker or skipped unless one gave up (`NothingForgotten`), and nothing a download wrote is torn but by its own worker (`WholeInv`). `ResolverInv`: each request gone through is answered by something that was found (`MatchInv`), what is taken or in the work list is offered (`LoopType`) and forbidden only as the relookup of a seed (`SeedInv`), while no name was resolved anew each taken package is the one its name stands for and whatever counts as selected is taken (`NamesInv`), each entry looked at is met (`EdgesInv`), and the loop only ends well with nothing left (`FinishInv`) |
| RpmPackagesProofs | `SpecResolvedUnlessUncompared`, `SpecNothingUnverified` | `RpmInv`: each entry already looked at of a package taken is answered, and the version bound that is compared honoured, by something taken or still in the work list (`LoopInv`), the result a build has is the closed one (`Resolved`), and once the files of trusted repositories were purged each such file in the cache was fetched by this build (`FetchInv`) |
| TemplateBuildProofs | `LayersDistinct`, `ScriptsStay`, `DeniedRaisedByInstaller`, `ComposedAsAsked` | `ChainInv`: each layer was loaded from a file of its own, which is no link, and lies below the directory of the first. A parent is compared with the directory of its child only; that the first layer's directory is above it as well follows since a file is directly in its directory, wherever links lead (`WalkLast`, `CanonicalLast`). `LayersInv`: what the service writes and each merge makes is a layer as the world's are, by a lemma for each section that is merged and each fold (`FoldedLayer`: the set of lengths up to which it holds has 0 and each successor). `WayInv`: the template on its way: `Merged` is what the checks of the merged template leave (scripts in place, nothing generated taken), `Installed` what the installer adds to it, `Generated` what the repositories become: each file made for apt is apart from the scripts and from what the tool generates but for the installer's keys, each denied repository's pin is in the image and is no larger than it may be, and preferences come from pins or from a repository of the installer. `SelectionInv`: a load of the service follows one chain of `extends` to its end (`IsWhole`), two such walks that meet agree from there on (`WalksAgree`), so the delta's chain is the template's with the delta before it (`DeltaChain`) and the template's reads nothing of the delta; each result is what one chain is merged and lowered to, and the names given passed their check against the template as it was. Merging one layer more then changes each section only by what that layer has there (`TemplateMerged`, `SystemMerged`, `Composed`), and lowering adds the same files and packages to both (`LoweredTo`) |
| ImageInstallProofs | `Invariant`, `NothingLeft`, `Disk`, `Firmware`, `Users`, `Scripts`, `Modules`, `BootLeadsToRoot` | `InstallInv`: at each stage every mount is in the list to unmount or below a root that is (`DiskInv`, `DirectoryInv`, `SysfsInv`), every open device in the list to close (`LuksInv`), every stand-in for a command of the image in what will be restored (`StandInInv`); `StageInv` and `UntakenInv` say what is there before. `DisksInv`: what was cleared may be and passed the check of the layout (`ChosenInv`), the table is the one asked for and empty until there is one (`TableInv`), and every partition gone through is under its id, with its file system, apart from the others (`MadeInv`). `FirmwareInv`: the entries that existed are there but for the installer's own of before (`EntriesInv`), and where the new one is in the order (`OrderInv`). `LaterInv`: the vendor's modules kernel by kernel, where what dkms installed is built and each of its modules copied or left (`TreeInv`), the scripts, units and a rank that orders all waits (`SiteInv`), the accounts made so far (`EtcInv`); no later stage undoes them (`Onward`, `Untouching`). `BootInv`, while the installation may still end well (`Live`): a partition's device is its mapper once it is encrypted, and what is encrypted at the end is what was asked for (`DevInv`); every kernel's modules were looked for (`DepInv`); an entry of the fstab names its partition as it will be (`FstabInv`); the loader's options name the root's partition before the encryption and its mapper after it, `Options` of what is encrypted (`LoaderInv`), and the crypttab and the keys are those of the same partitions (`WireInv`); the UKI has these options, the initramfs that can follow them and the hash of a root that is read-only from then on (`UkiInv`). Each part is kept stage by stage: what a stage writes is computed once (`BootMade`, `WireMade`), and what it does not write stays (`Steady`, `Leaves`) |

The properties alone are not inductive. `SlotHeldWhileBuilding`, for instance, says nothing of which
threads exist, and the step that releases the slot could be taken by a stale watchdog; `BuildInv` is
what rules that out; `ReapedOrReported` speaks of the end of a build, while `LoopInv` has to follow a device through
every command that may be cut. Each strengthened invariant was checked by TLC on the instances above first, except `SelectionInv`,
which speaks of chains no constant bounds.

Assumptions, all named `ASSUME`s, which TLC evaluates in the runs:

* names differ: the empty slot is no build (`NoBuildAssumption`), no device is called like a mount or like none
  (`CleanupAssumption`), no file has the empty name (`ListingAssumption`);
* shapes: the cache's bounds are natural numbers and a caller wants a known key (`CacheAssumption`, `SearchAssumption`),
  repositories are a sequence that is not empty, of three formats, each with a first listing (`ReposAssumption`), the
  kernel names of an overlay are packages and finitely many (`PlanAssumption`);
* `ResolverAssumption` (DebResolver): listings, requests and `Requires` are sequences, versions are numbers, an entry of `Requires`
  names a package and a request is of one of four kinds. Nothing is assumed of cycles, pins, priorities or what is provided by whom;
* `WorldsAssumption` (OverlayRoot): versions are versions and sizes natural numbers; a kernel swap allows upgrades, as
  `OverlayPolicy.validate` demands. Nothing is assumed of what is or is not read, nor of what that obsoletes;
* `ImageAssumption`: nothing of the disk is mounted when an installation starts (what a killed build can leave is a
  hazard at `mount.go:186` that no property covers), the image's packages bring no stand-in of the diversion of their own, and
  a root partition is no swap space;
* `DisksAssumption`: there is a disk, disks have distinct names, sizes are numbers, logical blocks are not larger than the alignment
  and not of size zero, and the table is one of the two kinds the template's schema allows. Nothing is assumed of whether a layout fits or its numbers collide;
* `FilesAssumption` (TemplateBuild): the files of a world are named by where they are without links, and none is a directory
  of another. Nothing is assumed of the links;
* `LayersAssumption` (TemplateBuild): layers have the fields of a template; scripts and repositories are sequences, priorities
  integers; a repository's address has a host; no suite is called like the policy's own file, `00-ict-apt-policy`; no file of the
  host has the name this model gives to a kind of generated content; the installer's list and preferences files are below
  `sources.list.d` and `preferences.d`, as the schema of its documents demands. Nothing is assumed of what scripts, files, users, hosts or priorities collide;
* `SelectionAssumption` (TemplateBuild): a template the service offers lies in its template directory, which is named without links;
  the name drawn for the delta is no other file's or link's (`writeDelta` names it with a random UUID); kernels, networks, bootloaders and users
  of a layer have the fields of their kinds and its configurations are a sequence. Nothing is assumed of what is chosen, nor of what the templates extend;
* `TemplateAssumption` (ImageInstall): users, scripts and kernels are sequences, and the records of the image (accounts, sources of modules) have
  the fields named in the modules; a source has at most one `dkms.conf`; the partitions to be encrypted are a sequence, and of each of the two
  commands that build an initramfs it is known whether the image has it;
* `DkmsAssumption` (ImageInstall): what the image's packages had dkms install, dkms built, and each of its modules it copied or left.

Only model-checked:

* liveness (`CancelAndShutdownEnd`, `BuildsConclude`, `SearchEnds`, `EndsUnlessCircular`, `BuildEnds`): the backends have neither fairness nor `ENABLED`;
* the order in which SortPackages emits packages, which a stable sort computes.

TLC evaluates all of them on every world of the bounds.
Four pure algorithms are checked as assumptions of the MC modules: `VersionsOrderedAsDpkg` and
`KernelVersionsArePrefixes` (MCDebResolver), `VersionsOrdered` (MCRpmPackages), `CombineIsMeet` (MCTemplateBuild).

## Where the code departs from what it says

One run is expected to be violated: `cache_unverified`. A build that is killed while it downloads leaves partial
files; the next build takes every name for cached and returns them unverified, although the caching guide has
checksums verified before a hit (`debutils/download.go`).

The models show these too; the properties above are stated so that they hold with them.

*Server.* A start that bails out releases the slot before its deferred `endBuildSetup`, which then closes the
setup channel of the start that took the slot, so shutdown's snapshot can miss that build (`service.go:126`). The cancel
watchdog frees the slot while the child it could not stop is alive, though the field's comment says the slot is held until
the child has exited (`builds.go:652`). When the watchdog wins `finish`, `runBuild` closes `done` while the
watchdog is still writing; `WaitForInFlightBuilds` relies on the opposite. After a line longer than 1 MiB nobody reads the
child's pipe, `cmd.Wait` does not return and the build stays running after its child exited. A log or record that cannot be
written is only warned about (`history.go:158-161, 180-182`), so `done` may be closed over a record of a running build, which a
restart then shows as interrupted.

*Cleanup.* A LUKS mapper that could not be closed is not reported by a cancelled build. After a kill with the disk
mounted, `MountPath` takes the old mount for the new and the system is installed through it instead of onto this
build's device; overlay builds share that.

*Overlay.* Modules that configuration commands add are not in the initramfs (comment at `session.go:307`). A package whose
metadata cannot be read goes in unchecked (`depcheck.go:116-120`, `preflight.go:368-375`), and `rpm -U` obeys its Obsoletes: a
baseline package is lost although "by default an overlay never removes a baseline package", a kernel image or the bootloader too
(templates guide, lines 453, 457 and 472), and the report counts it as unchanged. An error of the rollback of `MountLayout` is dropped
and the root stays mounted. Converted formats an earlier build was asked for stay in the output directory. Across file
systems `moveFile` fails on an existing destination and then deletes the earlier image. A signal after a
finished build makes the exit "cancelled" with a whole output. A kernel swap leaves no kernel when the image it names is only provided
by a package of the baseline, which then counts as present, or comes down to a meta package that brings no image
(`KernelOffered` excepts both from `BootMatchesRoot`).

*Debian packages.* A package that is replaced keeps what it pulled in, and its dependants are not looked at again
(comment at `resolver.go:1140`). The seed is looked up by name and version only, which gives the package of the last
repository, even when that listing does not provide what the request asked for, or is a repository whose negative priority
shall "block packages from that repository" (`multi-repo-support.md:156`). An entry whose first
alternative nothing offers is met with an alternative of any other entry that names it (`resolver.go:1389`). A cache hit returns every cached file, those of other requests too; an older version in the same index counts as the name; packages of local
repositories are never in the parsed metadata, so a build with one clears the package cache each time. A 404 of a probe is
cached for good. Packages whose requirements displace each other in a circle are exchanged for ever
(`resolver.go:1350-1363`): nothing remembers what was replaced. A worker that cannot make the cache directory skips its job without
counting a failure, and the fetch succeeds with the package missing (`pkgfetcher.go:392-398`; `TestFetchPackages_InvalidDestDir` has
it so). `CompareDebianVersions`
differs from dpkg on zero-only tails and on an absent revision against `-0`.

*RPM packages.* Clearing the metadata leaves `repomd.xml` and the raw files, so the mirror is not asked again (comment at
`rpmutils/download.go:843`). A cached file that fails verification stays. A version requirement on a package taken before
is compared with what is still queued only (`rpmutils/resolver.go:1094`: "check version compatibility for already-resolved
dependencies"), and only the first of several entries on one name counts (`helper.go:659`), though `multi-repo-support.md:167` applies
"version constraints from dependency metadata"; a missing dependency is passed over. The
package cache is never found up to date, since full file names are compared with base names. When the cached location
outlives the raw file and the mirror has moved on, every later build fails. A leftover unsigned file of a trusted repository fails
every later build that does not ask for it.

*Templates.* A layer that has only `systemConfig.network` is dropped, and `fde: {enabled: false}` of a child is
ignored (COMPOSITION.md, lines 90-91). Repositories are merged by codename, URL and path, not by codename. Paths generated on account of
scripts are not checked when the OEP Installer adds the first one (doc at `provisioning.go:343`). The installer's repositories come
after `checkAptPolicyOrigins`; their key file goes where it says, where the tool generates a file too, and their preferences file, which goes in as it is
(`repository.go:46-99`, `apt_sources.go:506-515`), can take the place of a denied repository's pin or raise its host, although "every
other configured repository is pinned below the installed version's priority" (templates guide, line 1278). Two hosts whose names `sanitizeFilename` maps to one lose a pin. A generated apt file replaces a user's. A template without a default never gets
the fix of immutability; one in the middle of a chain that loses its hash partition loses it for good. A child that only sets how FDE is
unlocked drops FDE. The order of users and additional files is that of a map.

*Disks.* A disk named by its path with an absolute layout too large for it is cleared before that is
found (release notes, line 48). An MBR with more than four partitions always fails, after the wipe: the extended partition is formatted and
logical numbers are off by one. Explicit and automatic GPT numbers can collide. The type of a file system and the numbers are checked after the
wipe. "Accepts both gaps and overlaps" (release notes, line 186): overlaps are refused.

*Images.* With several kernels, a Debian image with GRUB gets the modules in the initramfs of the lowest only. GRUB with
immutability boots to a mapper nobody opens; GRUB with FDE fails late. Root partitions named "root" collide with
verity's mapper; dashes in names are refused there. Immutability's binds hide `/home` and `/var`. Signing on aarch64 fails. Nothing refuses a layout
in which two partitions have one id or two are mounted at `/`, or that encrypts verity's hash partition or has two that pass for it: the
options are written for the one whose mount point is `none` and rewritten for the one named `roothashmap` or `hash` (`FdeHashPartitionDev`). `BootSupported`
leaves out several kernels with GRUB, immutability with GRUB, an encrypted root named "root" behind verity, and these layouts (`PlainLayout`); all
others it takes are proved to start. A local repository that could be mounted but not set up stays mounted in a rootfs
or an initrd; so does verity's tmpfs on two early errors, until the deferred unmount. With no dkms module named, one
source that installed is enough (`dkms.go:158-162`), a source dkms did not build for the kernel is not looked at (190-197), and a module that was
built and not copied counts as there (186-188). A remount that fails after encryption
with a rollback that fails leaves a mapper nobody closes. `generateNetworkdFile` writes `DNS=` after a `[Route]` section.

## What is not modelled

`PROJECT.json` has the status of every component. Not modelled because it has no state a step could
corrupt: HTTP decoding and mapping, the web client, catalogues, inspection, utilities, the AI assistant (its
answers are not a matter of state). External: mirrors, signature verification, parsers, the kernel (as far as `losetup`,
`mount` and `cryptsetup` show it), package managers. Abstracted where a component is modelled:

* *server*: log contents and their subscribers, names and paths, ranking and paging of search hits, the time a timer
  takes, process-id reuse, length limits of the service;
* *packages*: fuzzy matches of names and requests for `.deb` files, the probing of alternative URLs, the temporary directories and
  servers of local repositories (a local repository is served on a fresh port), validity of file names, migration of old raw caches, the live installer's mode of the caches; primary metadata is assumed to be named after its content;
  the order of components that could be installed in any order is any;
* *overlay*: detection of the baseline, parsing of tool output, several architectures of one package, packages that
  scripts install, partial unpacking of a failed installation (no artifact is made of it);
* *templates*: schema validation, GPG key cache writes, what the SBOM and the manifest say, `sed` replacement characters in options;
* *disks and images*: parsing of device listings, retry clocks, alignment `sgdisk` adds, the contents of SBOMs, the copy of `DB.cer`,
  the compression of modules (all or none), a swap partition's `swapon`, `SetPasswordMaxAge`'s rewriting of 0 to -1 (no property reads
  it). The template's commands are modelled by the files they write and by their failure: one that undoes what the build
  configured is outside every property; so is the fstab entry of `/`, which the kernel's `root=` comes before (`BootReachesRoot`).

The ISO, initrd and WSL makers, the providers' differences, the chroot's own package commands, the text UI of the live installer
and the fetchers of the index cache are not modelled: they are straight lines of commands whose failure handling is the one
BuildCleanup and ImageInstall show, or input handling.

## Plan

Done: 1 BuildSlot, 2 BuildLife over BuildOutcome, 3 PkgIndexCache and PackageSearch, 4 ShellContext, ChrootEnv and
BuildCleanup, 5 OverlayBuild over ArtifactPromise, OverlayPlan and OverlayRoot, each with its proofs; 6 DebResolver,
PackageDownload and RpmPackages, with proofs; 7 TemplateBuild and what it is made of; 8 DiskInstall and
ImageInstall, with proofs; 9 proofs of `NothingUnverified`, `ResolvedUnlessUncompared`, `FirmwareKeepsBooting`,
`ScriptsSurvive`, `DeniedRaisedOnlyByInstaller`, `DeltaChangesOnlyWhatWasAsked` and `BootReachesRoot`.

Left:

10. *Image makers*: the ISO, initrd and WSL pipelines as refinements of one abstract maker (acquire,
    work, publish or undo).
11. *The live installer's* pages, as the template they make.

## Running it

```
tlc -config BuildSlot.cfg BuildSlot           # and likewise for the other configurations
tlapm ServiceProofs.tla                       # and the other *Proofs modules
```

Each configuration ends within two minutes on two cores.
