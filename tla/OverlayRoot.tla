----------------------------- MODULE OverlayRoot ------------------------------
(***************************************************************************)
(* What an overlay build does to the root file system of its copy of the   *)
(* baseline: the stages of Builder.Build (internal/image/overlay/          *)
(* session.go: resize.go, install.go, users.go, configure.go,              *)
(* bootupdate.go, grubupdate.go, additionalfiles.go) carrying out the plan *)
(* of OverlayPlan.  OverlayBuild has the life of the copy around it.       *)
(*                                                                         *)
(* Any command may fail, which ends the build: no artifact is made of the  *)
(* copy then.  The world w has these fields besides OverlayPlan's:         *)
(*   disk       [cur, size, max, free, sum, known, gpt, last]: MiB of the  *)
(*              image, of disk.size and disk.maxSize (0: unset), free on   *)
(*              the root, summed installed sizes; for how many of the      *)
(*              packages the repository states one (all, some, none); a    *)
(*              GPT; the root is its last partition                        *)
(*   ships      packages with files an initramfs may hold                  *)
(*   prefile    an additional file has stage pre-initramfs                 *)
(*   modules    replaceKernel.enableExtraModules is set                    *)
(*   config     what the configuration commands add: nothing, or boot      *)
(*              content                                                    *)
(*   generator  the initramfs tool of the baseline; none: there is none    *)
(*   mkconfig   it has a GRUB configuration generator                      *)
(*   cmdline    overlayPolicy.kernelCmdline or grubDefault is set          *)
(*   user       the template adds an account                               *)
(*   owners     who else makes one of that name: the baseline, a script of *)
(*              a package                                                  *)
(***************************************************************************)
EXTENDS Integers, OverlayPlan

CONSTANT Worlds

\* Sizes and versions are what they are; a template that swaps the kernel allows
\* upgrades (OverlayPolicy.validate).
ASSUME WorldsAssumption == \A x \in Worlds :
  /\ \A p \in Names(x.base) : x.base[p] \in Versions
  /\ \A p \in Names(x.repo) : x.repo[p] \in Versions
  /\ x.swap \in [glob : BOOLEAN, names : SUBSET Packages]
  /\ x.swap # NoSwap => "upgrade" \in x.allow
  /\ {x.disk.cur, x.disk.size, x.disk.max, x.disk.free, x.disk.sum} \subseteq Nat

VARIABLES
  w,         \* the inputs of this build
  plan,      \* what Preprocess decided
  due,       \* the stage that is next
  size,      \* MiB of the file, the loop device, what its table may use, the root
             \* partition, what the kernel knows of it, and the file system
  installed, \* [packages installed in the root -> version]
  broken,    \* the dependencies unmet before the removals
  approved,  \* report.ApprovedRemovals
  held,      \* what is mounted into the root for a stage
  account,   \* who made the account of the template's name
  matter,    \* boot content in the root that the baseline did not have
  baked,     \* what of it is in the initramfs
  menu,      \* the kernels grub.cfg lists
  args       \* grub.cfg was made with the template's arguments

rootVars == <<w, plan, due, size, installed, broken, approved, held, account, matter, baked, menu, args>>
packageVars == <<installed, broken, approved>>
bootVars == <<matter, baked, menu, args>>

Layers == {"file", "loop", "usable", "part", "seen", "fs"}
Stages == {"resize", "truncate", "losetup", "sgdisk", "growpart", "partx", "growfs", "install", "audit", "remove",
           "unpack", "cascade", "unmount", "users", "configure", "prefiles", "initramfs", "grub",
           "files", "done", "failed", "refused"}

Kernels(R) == Names(R) \cap (Images \ Aliases)

RootInit ==
  /\ w \in Worlds
  /\ plan = Preflight(w)
  \* ValidateOverlayUsers
  /\ due = (IF plan.ok /\ ~(w.user /\ "baseline" \in w.owners) THEN "resize" ELSE "refused")
  /\ size = [l \in Layers |-> w.disk.cur]
  /\ installed = w.base /\ broken = {} /\ approved = plan.approved /\ held = {}
  /\ account = (IF "baseline" \in w.owners THEN "baseline" ELSE "none")
  /\ matter = {} /\ baked = {} /\ menu = Kernels(w.base) /\ args = FALSE

\* Stage `from` is done, or failed.
RootGoto(from, next) == due = from /\ due' = next /\ UNCHANGED <<w, plan>>

-----------------------------------------------------------------------------
(* Resize *)

AtLeast(a, b) == IF a >= b THEN a ELSE b
AtMost(a, b) == IF a <= b THEN a ELSE b
NoTarget == -1

\* estimateRequiredBytes: the installed sizes and 30 %, and 512 MiB.
Required(sum) == (sum * 130 + 99) \div 100 + 512

\* The size the image is to have; NoTarget: the template or the metadata make it
\* impossible to say.
Target ==
  LET d == w.disk
      floor == AtLeast(d.cur, d.size)
      ceiling == IF d.max = 0 THEN floor ELSE d.max
      shortfall == Required(d.sum) - (d.free + floor - d.cur)
  IN  IF d.max # 0 /\ (d.max <= d.size \/ d.max < floor) THEN NoTarget
      ELSE IF plan.install = {} THEN floor
      ELSE IF d.known = "none" THEN ceiling
      ELSE IF d.known = "some" THEN IF d.max = 0 THEN NoTarget ELSE ceiling
      ELSE IF shortfall <= 0 THEN floor
      ELSE AtMost(floor + shortfall, ceiling)

NothingToGrow ==
  /\ Target = size.file
  /\ RootGoto("resize", "install")
  /\ UNCHANGED <<size, packageVars, held, account, bootVars>>

\* planResize, the tools and the place of the root are checked before anything
\* is changed.
MayGrow ==
  /\ Target > size.file /\ w.disk.last
  /\ RootGoto("resize", "truncate")
  /\ UNCHANGED <<size, packageVars, held, account, bootVars>>

\* One layer takes the size of the one below it.
Grow(from, layers, to, next) ==
  /\ RootGoto(from, next)
  /\ size' = [l \in Layers |-> IF l \in layers THEN to ELSE size[l]]
  /\ UNCHANGED <<packageVars, held, account, bootVars>>

\* Mutant: the backup header stays where it was.
RefreshLoopOnly == Grow("losetup", {"loop"}, size.file, "growpart")

\* A GPT keeps its last usable block until sgdisk -e has moved the backup header.
RefreshLoop ==
  IF w.disk.gpt THEN Grow("losetup", {"loop"}, size.file, "sgdisk")
  ELSE Grow("losetup", {"loop", "usable"}, size.file, "growpart")

ResizeBaseline ==
  \/ NothingToGrow
  \/ MayGrow
  \/ Grow("truncate", {"file"}, Target, "losetup")
  \/ RefreshLoop
  \/ Grow("sgdisk", {"usable"}, size.loop, "growpart")
  \/ Grow("growpart", {"part"}, size.usable, "partx")
  \/ Grow("partx", {"seen"}, size.part, "growfs")
  \/ Grow("growfs", {"fs"}, size.seen, "install")

-----------------------------------------------------------------------------
(* Install Packages *)

SkipInstall ==
  /\ plan.install = {} /\ plan.toRemove = {}
  /\ RootGoto("install", "users")
  /\ UNCHANGED <<size, packageVars, held, account, bootVars>>

\* mountChrootForInstall; what a failed mount left is unmounted, as far as that goes.
MountChroot ==
  /\ plan.install # {} \/ plan.toRemove # {}
  /\ \/ RootGoto("install", IF plan.toRemove # {} THEN "audit" ELSE "unpack") /\ held' = {"sys", "bind"}
     \/ RootGoto("install", "failed") /\ held' \in {{}, {"sys"}}
  /\ UNCHANGED <<size, packageVars, account, bootVars>>

\* Mutant: what the removals break counts as the baseline's own fault.
AuditAfterRemoval ==
  /\ RootGoto("audit", "remove")
  /\ broken' = Audit(w, [p \in Names(installed) \ plan.toRemove |-> installed[p]])
  /\ UNCHANGED <<size, installed, approved, held, account, bootVars>>

\* The baseline's own faults are known before anything is removed.
AuditBaseline ==
  /\ RootGoto("audit", "remove")
  /\ broken' = Audit(w, installed)
  /\ UNCHANGED <<size, installed, approved, held, account, bootVars>>

Without(R, S) == [p \in Names(R) \ S |-> R[p]]

RemovePackages ==
  /\ RootGoto("remove", IF plan.install # {} THEN "unpack" ELSE "cascade")
  /\ installed' = Without(installed, plan.toRemove)
  /\ UNCHANGED <<size, broken, approved, held, account, bootVars>>

\* rpm -U only when preflight counted an upgrade or an erasure that -U implies.
UpgradeMode == plan.upgrades \/ Cardinality(plan.approved) > Cardinality(plan.toRemove)

\* The root the package manager makes of the artifacts.
Unpacked ==
  LET erased == IF w.family = "rpm" /\ UpgradeMode
                THEN {o.on : o \in {g \in w.gone : /\ g.pkg \in plan.install /\ g.on \in Names(installed)
                                                   /\ installed[g.on] \in g.in}} \ plan.install
                ELSE {}
  IN  [p \in (Names(installed) \ erased) \cup plan.install |->
         IF p \in plan.install THEN w.repo[p] ELSE installed[p]]

\* What dpkg and rpm refuse: a clash that is still there, and an unmet dependency
\* of what is new; rpm also one of the baseline's that the transaction breaks.
Accepted(R) ==
  /\ \A c \in w.clash : c.pkg \in plan.install /\ c.on # c.pkg =>
       /\ c.on \in Names(R) => R[c.on] \notin c.in
       /\ c.on \notin Names(R) /\ ~Versioned(c) =>
            \A q \in plan.install \ {c.pkg} : <<q, c.on>> \notin w.gives
  /\ \A d \in Audit(w, R) : d.pkg \notin plan.install /\ (w.family = "rpm" => d \in Audit(w, installed))

InstallPackages ==
  /\ Accepted(Unpacked)
  /\ RootGoto("unpack", IF plan.toRemove # {} THEN "cascade" ELSE "unmount")
  /\ installed' = Unpacked
  /\ matter' = matter \cup (w.ships \cap plan.install)
  /\ account' = (IF account = "none" /\ "script" \in w.owners /\ plan.install # {}
                 THEN "script" ELSE account)
  /\ UNCHANGED <<size, broken, approved, held, baked, menu, args>>

NewlyBroken == {d.pkg : d \in Audit(w, installed) \ broken}

\* What an approved removal orphaned goes too, if that was allowed and none of it
\* is a bootloader, a kernel image or a package just installed.
CascadeRemove ==
  /\ NewlyBroken # {}
  /\ "removal" \in w.allow
  /\ NewlyBroken \cap (Bootloaders \cup Images \cup plan.install) = {}
  /\ RootGoto("cascade", "cascade")
  /\ installed' = Without(installed, NewlyBroken)
  /\ approved' = approved \cup NewlyBroken
  /\ UNCHANGED <<size, broken, held, account, bootVars>>

CascadeDone ==
  /\ NewlyBroken = {}
  /\ RootGoto("cascade", "unmount")
  /\ UNCHANGED <<size, packageVars, held, account, bootVars>>

\* The stage's mounts go; one that stays is an error.
Unmount ==
  /\ \E left \in SUBSET held :
       held' = left /\ RootGoto("unmount", IF left = {} THEN "users" ELSE "failed")
  /\ UNCHANGED <<size, packageVars, account, bootVars>>

InstallOverlayPackages ==
  SkipInstall \/ MountChroot \/ AuditBaseline \/ RemovePackages \/ InstallPackages
  \/ CascadeRemove \/ CascadeDone \/ Unmount

-----------------------------------------------------------------------------
(* The stages after the packages *)

\* Every one of these mounts and unmounts the pseudo file systems for itself.
Chrooted(from, next) ==
  \/ RootGoto(from, next) /\ UNCHANGED held
  \/ RootGoto(from, "failed") /\ held' = {"sys"}

\* An account that a package's script has made by now is not redefined either.
RunOverlayUsers ==
  /\ w.user => account = "none"
  /\ IF w.user THEN Chrooted("users", "configure") ELSE RootGoto("users", "configure") /\ UNCHANGED held
  /\ account' = (IF w.user THEN "template" ELSE account)
  /\ UNCHANGED <<size, packageVars, bootVars>>

RunOverlayConfigurations ==
  /\ Chrooted("configure", "prefiles")
  /\ matter' = matter \cup (IF w.config = "boot" THEN {"config"} ELSE {})
  /\ UNCHANGED <<size, packageVars, account, baked, menu, args>>

CopyPreInitramfsFiles ==
  /\ RootGoto("prefiles", "initramfs")
  /\ matter' = matter \cup (IF w.prefile THEN {"file"} ELSE {})
  /\ UNCHANGED <<size, packageVars, held, account, baked, menu, args>>

\* A manifest that cannot be read counts as boot content.
AddedBootContent == plan.install \cap (w.ships \cup w.unread) # {}
Forced == w.prefile \/ w.modules
Wanted == Forced \/ AddedBootContent

NoBootRegeneration ==
  /\ ~Wanted \/ (~Forced /\ w.generator = "none")
  /\ RootGoto("initramfs", "grub")
  /\ UNCHANGED <<size, packageVars, held, account, bootVars>>

RegenerateBoot ==
  /\ Wanted /\ w.generator # "none"
  /\ Chrooted("initramfs", "grub")
  /\ matter' = matter \cup (IF w.modules THEN {"module"} ELSE {})
  /\ baked' = (IF due' = "grub" THEN matter' ELSE baked)
  /\ UNCHANGED <<size, packageVars, account, menu, args>>

\* Arguments and a default entry are only for GRUB 2; a kernel swap pins a default.
GrubOptions == w.cmdline \/ Swapping(w)
NewKernels == Kernels(installed) \ Kernels(w.base)

NoGrubRegeneration ==
  /\ ~GrubOptions /\ (w.bootloader = "grub2" => NewKernels = {})
  /\ RootGoto("grub", "files")
  /\ UNCHANGED <<size, packageVars, held, account, bootVars>>

RegenerateGrub ==
  /\ w.bootloader = "grub2" /\ w.mkconfig
  /\ GrubOptions \/ NewKernels # {}
  /\ Chrooted("grub", "files")
  /\ IF due' = "files" THEN menu' = Kernels(installed) /\ args' = GrubOptions ELSE UNCHANGED <<menu, args>>
  /\ UNCHANGED <<size, packageVars, account, matter, baked>>

CopyAdditionalFiles ==
  /\ RootGoto("files", "done")
  /\ UNCHANGED <<size, packageVars, held, account, bootVars>>

\* ComputePackageStats: what the summary and the delta SBOM say of the baseline.
Statistics ==
  [upgraded  |-> {p \in plan.install \cap Names(w.base) : w.repo[p] # w.base[p]},
   removed   |-> approved,
   unchanged |-> {p \in Names(w.base) : IF p \in plan.install THEN w.repo[p] = w.base[p]
                                        ELSE p \notin approved}]

Working == Stages \ {"done", "failed", "refused"}

Build ==
  \/ ResizeBaseline \/ InstallOverlayPackages
  \/ RunOverlayUsers \/ RunOverlayConfigurations \/ CopyPreInitramfsFiles
  \/ NoBootRegeneration \/ RegenerateBoot \/ NoGrubRegeneration \/ RegenerateGrub
  \/ CopyAdditionalFiles

\* A command fails, or a check of the stage does; the install stage unmounts then too.
StageFails ==
  /\ due \in Working /\ due' = "failed"
  /\ held' \in (IF due \in {"audit", "remove", "unpack", "cascade"} THEN SUBSET held ELSE {held})
  /\ UNCHANGED <<w, plan, size, packageVars, account, bootVars>>

RootNext == Build \/ StageFails
RootSpec == RootInit /\ [][RootNext]_rootVars /\ WF_rootVars(RootNext)

-----------------------------------------------------------------------------
(* Properties *)

Lost == Names(w.base) \ Names(installed)
Changed == {p \in Names(w.base) \cap Names(installed) : installed[p] # w.base[p]}

\* What rpm -U erases on account of Obsoletes that preflight could not read, and
\* passed over with a warning (depcheck.go).
ErasedUnread ==
  IF w.family = "rpm" /\ UpgradeMode
  THEN {o.on : o \in {g \in w.gone : /\ g.pkg \in plan.install \cap w.unread
                                     /\ g.on \in Names(w.base) /\ w.base[g.on] \in g.in}}
  ELSE {}

Kept(p) == p \in Names(installed) /\ installed[p] = w.base[p]

\* Whatever the build has done so far, a baseline package is gone only if the policy
\* lets packages be removed, or the kernel swap replaces it; it is of another
\* version only if upgrades are allowed, and a newer one; a bootloader is untouched,
\* a kernel image too unless the kernel is swapped; and the report of a finished
\* build names what is gone or changed.  The one exception is what an rpm obsoletes
\* whose metadata could not be read: that is lost under any policy, a bootloader or
\* an image no less, and reported as unchanged (preflight.go's rules, against what
\* install.go, rpm -U and the cascade really do).
BaselinePreservedUnlessUnread ==
  /\ \A p \in Lost \ ErasedUnread : "removal" \in w.allow \/ (Swapping(w) /\ p \in KernelFamily)
  /\ \A p \in Changed : Upgrading(w) /\ installed[p] > w.base[p]
  /\ \A p \in (Names(w.base) \cap Bootloaders) \ ErasedUnread : Kept(p)
  /\ \A p \in (Names(w.base) \cap Images) \ ErasedUnread : Swapping(w) \/ Kept(p)
  /\ due = "done" => /\ Lost \ ErasedUnread \subseteq Statistics.removed
                    /\ Changed \subseteq Statistics.upgraded
                    /\ Statistics.unchanged \cap (Lost \cup Changed) \subseteq ErasedUnread

\* The only dependency a finished build leaves newly unmet is one of the baseline on
\* a version of a package the build has upgraded, and no build that removed
\* packages leaves any (the audit before and after, install.go).
UnmetOnlyByUpgrade ==
  due = "done" => \A d \in Audit(w, installed) \ Audit(w, w.base) :
    /\ plan.toRemove = {} /\ d.pkg \notin plan.install
    /\ \E i \in DOMAIN d.alts : Versioned(d.alts[i]) /\ d.alts[i].on \in plan.install \cap Names(w.base)

\* An image erased unread is still in a menu that nothing gave reason to make again.
MenuListsKernels ==
  w.bootloader = "grub2" => Kernels(installed) \subseteq menu /\ menu \ Kernels(installed) \subseteq ErasedUnread

OneKernelBuild ==
  Swapping(w) => /\ \A p, q \in Kernels(installed) : p = q \/ SameKernelBuild(w, p, q)
                 /\ Names(installed) \cap Family \cap Names(w.base) \subseteq plan.closure
                 /\ args

\* The request comes down to no meta package that brings no image, and no name of an
\* image is one that a package of the baseline merely provides: such a name counts as
\* present, nothing is installed for it, and the kernels of before go all the same.
KernelOffered ==
  w.virtual \cap Images = {} /\ ReplacementImages(w, Resolution(w)) \cap Aliases = {}

KernelLeft == Swapping(w) /\ KernelOffered => Kernels(installed) # {} \/ ErasedUnread \cap Images # {}

InitramfsHoldsContent ==
  /\ w.generator # "none" => matter \ {"config"} \subseteq baked
  /\ Forced => "file" \in baked \/ "module" \in baked

\* A finished kernel swap leaves bootable images, of one build only, where there were
\* any to be had, all of them in the menu, and of the baseline's kernel packages only what the new kernel
\* brought; without a swap the menu lists what is installed too (preflight.go,
\* grubupdate.go), but for an image erased by Obsoletes nobody could read.  What packages, an early additional file and the extra modules
\* bring for the initramfs is in it, if the baseline has a generator
\* (RegenerateBoot's decision to skip).
BootMatchesRoot ==
  due = "done" => MenuListsKernels /\ OneKernelBuild /\ KernelLeft /\ InitramfsHoldsContent

\* No layer is ever larger than the one it lies on, the file never shrinks nor
\* outgrows what the template allows, and the packages are unpacked only when every
\* layer has the new size (resize.go).
ResizeIsSafe ==
  /\ size.fs <= size.seen /\ size.seen <= size.part /\ size.part <= size.usable
  /\ size.usable <= size.loop /\ size.loop <= size.file
  /\ w.disk.cur <= size.file
  /\ size.file <= AtLeast(w.disk.cur, AtLeast(w.disk.size, w.disk.max))
  /\ due = "install" => size.fs = size.file

=============================================================================
