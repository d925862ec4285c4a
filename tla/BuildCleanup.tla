----------------------------- MODULE BuildCleanup -----------------------------
(***************************************************************************)
(* One `image-composer-tool build` of a raw image and what it leaves on    *)
(* the host however it ends (cmd/image-composer-tool/build.go,             *)
(* internal/cache/isolated.go, internal/image/rawmaker/rawmaker.go,        *)
(* imageos/imageos.go, imageos/fde.go, imagedisc/loopdev.go): load, pre-   *)
(* process, image, PostProcess, the coordinator's backstop and the removal *)
(* of a --no-cache workspace.  Every command can fail, be cut by a signal  *)
(* or be refused after one; the process can be killed between two steps    *)
(* (a second signal does that too), and a next build starts from what an   *)
(* earlier one left in the workspace and in the kernel.                    *)
(***************************************************************************)
EXTENDS ChrootEnv

CONSTANTS
  NoDev,  \* no loop device
  Runs    \* bound: builds in a row

ASSUME CleanupAssumption ==
  /\ NoDev \notin Devices /\ Devices \cap {"sys", "repo", "rootsys"} = {}
  /\ Runs \in Nat \ {0}

VARIABLES
  run,      \* which build of the row this is
  nocache,  \* --no-cache: an isolated workspace
  ws,       \* the workspace: "shared", "fresh" (isolated) or "removed"
  keep,     \* Isolated.keepWorkDir
  out,      \* PreserveOutput copied the image to the configured workspace
  failed,   \* buildErr # nil, or loading failed
  exit,     \* executeBuild's result
  post,     \* what PostProcess returned: none (it did not run), ok or error
  residual, \* what Coordinator.Run reports
  phase,    \* before PostProcess, from it on, or in the backstop
  dev,      \* loopDevPath
  opened,   \* openedLuks names the mapper
  mapper,   \* the device an open LUKS mapper holds
  loops,    \* [device -> the file it is bound to]
  lazy,     \* devices the kernel detaches as soon as nobody holds them
  raw,      \* the image file exists
  product   \* the finished, renamed image exists

workVars == <<nocache, ws, keep, out, run>>
verdictVars == <<failed, exit, post, residual, phase>>
diskVars == <<dev, opened, mapper, loops, lazy>>
imageVars == <<raw, product>>
runVars == <<workVars, verdictVars, diskVars, imageVars>>
vars == <<envVars, runVars>>

Busy(d) == d \in mounts \/ mapper = d
Attached(d) == loops[d] # "free" /\ (d \in lazy => Busy(d))

PC == {"load", "pre", "init", "mountsys", "backup", "clear", "copylocal", "bindrepo",
       "undo", "image", "fallocate", "stale", "attach", "partition", "mountdisk",
       "install", "encrypt", "openluks", "remount", "seal", "umountdisk", "closeluks",
       "rename", "remove", "convert", "removefinal", "detach", "detachfirst",
       "removelast", "failed", "post", "stopgpg", "umountall", "restore", "copyback",
       "dropbackup", "cleaned", "return", "preserve", "backstop", "reaploop",
       "reapchroot", "leave"} \cup Ended

Labels == {"chroot", "loop"}

ContextType ==
  /\ pc \in PC
  /\ ctx \in {"build", "cleanup"} /\ live \in BOOLEAN /\ signalled \in BOOLEAN
  /\ entries \subseteq Labels /\ fired \in BOOLEAN

ChrootType ==
  /\ rootfs \in {"empty", "part", "whole"} /\ tarball \in {"none", "part", "whole"}
  /\ conf \subseteq ConfFiles /\ had \subseteq ConfFiles
  /\ backup = NoBackup \/ backup \subseteq ConfFiles
  /\ cleanupErr \in BOOLEAN

MountType ==
  /\ mounts \subseteq Mounts
  /\ \A d, e \in mounts \cap Devices : d = e

VerdictType ==
  /\ run \in 1..Runs /\ nocache \in BOOLEAN
  /\ ws \in {"shared", "fresh", "removed"} /\ keep \in BOOLEAN /\ out \in BOOLEAN
  /\ failed \in BOOLEAN /\ post \in {"none", "ok", "error"}
  /\ exit \in {"none", "ok", "error", "cancelled"}
  /\ residual \subseteq Labels
  /\ phase \in {"build", "post", "backstop"}

DiskType ==
  /\ dev \in Devices \cup {NoDev} /\ mapper \in Devices \cup {NoDev}
  /\ opened \in BOOLEAN
  /\ loops \in [Devices -> {"free", "image", "final", "deleted"}]
  /\ lazy \subseteq Devices
  /\ raw \in BOOLEAN /\ product \in BOOLEAN

TypeOK == ContextType /\ ChrootType /\ MountType /\ VerdictType /\ DiskType

Init ==
  /\ ContextInit /\ ChrootInit
  /\ keep = FALSE /\ out = FALSE
  /\ failed = FALSE /\ exit = "none" /\ post = "none" /\ residual = {}
  /\ phase = "build" /\ dev = NoDev /\ opened = FALSE
  /\ run = 1
  /\ nocache \in BOOLEAN
  /\ ws = (IF nocache THEN "fresh" ELSE "shared")
  /\ mapper = NoDev /\ loops = [d \in Devices |-> "free"] /\ lazy = {}
  /\ raw = FALSE /\ product = FALSE

\* A stage of the build: its error is on the way to buildErr.
Stage(from, how, next, onError) ==
  Command(from, how, next, onError) /\ failed' = (failed \/ how # "ok")

otherVerdicts == <<exit, post, residual, phase>>
chrootButMounts == <<rootfsVars, confVars, cleanupErr>>

-----------------------------------------------------------------------------
(* executeBuild up to BuildImage *)

\* The template, a flag or a prerequisite is rejected: nothing to clean up.
LoadFails ==
  /\ Goto("load", "backstop")
  /\ failed' = TRUE /\ exit' = "error"
  /\ UNCHANGED <<coordinatorVars, chrootVars, workVars, post, residual,
                 phase, diskVars, imageVars>>

\* initProvider fails: there is no provider to post-process with.
NoProvider ==
  /\ Goto("load", "return")
  /\ failed' = TRUE
  /\ UNCHANGED <<coordinatorVars, chrootVars, workVars, otherVerdicts, diskVars,
                 imageVars>>

Loaded ==
  /\ Goto("load", "pre")
  /\ UNCHANGED <<coordinatorVars, chrootVars, runVars>>

\* PreProcess before InitChrootEnv: host packages, downloads.
PreProcess(how) ==
  /\ Stage("pre", how, "init", "failed")
  /\ UNCHANGED <<coordinatorVars, chrootVars, workVars, otherVerdicts, diskVars,
                 imageVars>>

\* PreProcess or BuildImage returns an error.
BuildErr ==
  /\ Goto("failed", "post")
  /\ failed' = TRUE
  /\ UNCHANGED <<coordinatorVars, chrootVars, workVars, otherVerdicts, diskVars,
                 imageVars>>

-----------------------------------------------------------------------------
(* BuildRawImage: the loop device *)

\* NewRawMaker and Init make directories.
NewRawMaker(how) ==
  /\ Stage("image", how, "fallocate", "failed")
  /\ UNCHANGED <<coordinatorVars, chrootVars, workVars, otherVerdicts, diskVars,
                 imageVars>>

CreateRawFile(how) ==
  /\ Stage("fallocate", how, "stale", "removelast")
  /\ raw' \in CASE how = "ok" -> {TRUE} [] how = "refused" -> {raw}
                [] OTHER -> {raw, TRUE}
  /\ UNCHANGED <<coordinatorVars, chrootVars, workVars, otherVerdicts, diskVars,
                 product>>

\* losetup -d of the devices in D: the kernel keeps a busy one until it is free.
LetGo(D) ==
  /\ loops' = [d \in Devices |-> IF d \in D /\ ~Busy(d) THEN "free" ELSE loops[d]]
  /\ lazy' = lazy \cup {d \in D : Busy(d)}

\* Bound to the image file, or to one of that name that was deleted, and not mounted.
Stale == {d \in Devices : Attached(d) /\ loops[d] \in {"image", "deleted"} /\ d \notin mounts}

\* Best effort: whatever fails is only logged.
DetachStaleLoopDevices(how) ==
  /\ Command("stale", how, "attach", "attach")
  /\ \E D \in SUBSET Stale :
       /\ how = "ok" => D = Stale
       /\ how = "refused" => D = {}
       /\ LetGo(D)
  /\ UNCHANGED <<coordinatorVars, chrootVars, workVars, verdictVars, dev, opened,
                 mapper, imageVars>>

Bound(d) ==
  /\ ~Attached(d)
  /\ loops' = [loops EXCEPT ![d] = "image"]
  /\ lazy' = lazy \ {d}

\* losetup -f, and the registration of its detach.  The name of a device that was
\* bound by a losetup that was cut is lost.
LoopSetupCreate(how) ==
  /\ Stage("attach", how, "partition", "removelast")
  /\ \/ /\ how = "ok"
        /\ \E d \in Devices : Bound(d) /\ dev' = d
        /\ Register("loop")
     \/ /\ how = "cut"
        /\ \E d \in Devices : Bound(d)
        /\ UNCHANGED <<dev, entries>>
     \/ how # "ok" /\ UNCHANGED <<loops, lazy, dev, entries>>
  /\ UNCHANGED <<fired, chrootVars, workVars, otherVerdicts, opened, mapper, imageVars>>

DiskPartitionsCreate(how) ==
  /\ Stage("partition", how, "mountdisk", "detachfirst")
  /\ UNCHANGED <<coordinatorVars, chrootVars, workVars, otherVerdicts, diskVars,
                 imageVars>>

\* The maker detaches its device, and unregisters it only if that worked.  It
\* does so last, except after a failed partitioning.
LoopSetupDelete(how) ==
  /\ pc \in {"detach", "detachfirst"}
  /\ Shell(how)
  /\ pc' = IF pc = "detachfirst" THEN "removelast" ELSE IF failed THEN "failed" ELSE "post"
  /\ \/ how \in {"ok", "cut"} /\ LetGo({dev})
     \/ how # "ok" /\ UNCHANGED <<loops, lazy>>
  /\ entries' = IF how = "ok" THEN entries \ {"loop"} ELSE entries
  /\ UNCHANGED <<fired, chrootVars, workVars, verdictVars, dev, opened, mapper, imageVars>>

-----------------------------------------------------------------------------
(* InstallImageOs *)

\* What the disk's mount stack adds under ChrootEnvRoot.
Disk == Devices \cup {"rootsys"}

\* MountPath leaves a mount point alone on which something is mounted already.
WithDisk == mounts \cup {"rootsys"} \cup (IF mounts \cap Devices = {} THEN {dev} ELSE {})

\* When mounting fails, what was mounted is rolled back, as far as that works.
MountDiskLeaves(how) ==
  mounts' \in CASE how = "ok" -> {WithDisk}
                [] how = "refused" -> {mounts}
                [] OTHER -> {m \in SUBSET WithDisk : mounts \ Disk \subseteq m}

\* A deb image has its root mounted before, and unmounts it on an error.
MountDiskToChroot(how) ==
  /\ pc = "mountdisk"
  /\ Shell(how)
  /\ pc' \in IF how = "ok" THEN {"install"} ELSE {"umountdisk", "closeluks"}
  /\ failed' = (how # "ok")
  /\ MountDiskLeaves(how)
  /\ UNCHANGED <<coordinatorVars, chrootButMounts, workVars, otherVerdicts, diskVars,
                 imageVars>>

\* Packages, configuration, boot loader, SBOM; the template says whether the disk
\* is then encrypted.
InstallPackages(how) ==
  /\ \E next \in {"encrypt", "seal"} : Stage("install", how, next, "umountdisk")
  /\ UNCHANGED <<coordinatorVars, chrootVars, workVars, otherVerdicts, diskVars,
                 imageVars>>

\* enablingFDE unmounts the disk ...
UmountForFDE(how) ==
  /\ Stage("encrypt", how, "openluks", "umountdisk")
  /\ mounts' \in Reached(how, mounts, mounts \ Disk)
  /\ UNCHANGED <<coordinatorVars, chrootButMounts, workVars, otherVerdicts, diskVars,
                 imageVars>>

\* ... encrypts it and opens the mapper, whose name may be taken ...
ReencryptPartitionInPlace(how) ==
  /\ Stage("openluks", how, "remount", "umountdisk")
  /\ mapper = NoDev \/ how # "ok"
  /\ \/ how # "ok" /\ UNCHANGED mapper
     \/ how # "refused" /\ mapper = NoDev /\ mapper' = dev
  /\ UNCHANGED <<coordinatorVars, chrootVars, workVars, otherVerdicts, dev, opened,
                 loops, lazy, imageVars>>

\* ... and mounts it again; on an error the mapper is closed, if that works.
RemountForFDE(how) ==
  /\ Stage("remount", how, "seal", "umountdisk")
  /\ MountDiskLeaves(how)
  /\ opened' = (how = "ok")
  /\ \/ UNCHANGED mapper
     \/ how = "fail" /\ mounts' \cap Devices = {} /\ mapper' = NoDev
  /\ UNCHANGED <<coordinatorVars, chrootButMounts, workVars, otherVerdicts, dev,
                 loops, lazy, imageVars>>

\* Boot wiring, UKI, signature, post-install.
SealImage(how) ==
  /\ Stage("seal", how, "umountdisk", "umountdisk")
  /\ UNCHANGED <<coordinatorVars, chrootVars, workVars, otherVerdicts, diskVars,
                 imageVars>>

UmountDiskFromChroot(how) ==
  /\ Stage("umountdisk", how, "closeluks", "closeluks")
  /\ mounts' \in Reached(how, mounts, mounts \ Disk)
  /\ UNCHANGED <<coordinatorVars, chrootButMounts, workVars, otherVerdicts, diskVars,
                 imageVars>>

Installed == IF failed THEN "remove" ELSE "rename"

\* The mappers InstallImageOs opened; a failure is only logged.
CloseLuks(how) ==
  /\ opened
  /\ how = "ok" => mounts \cap Devices = {}
  /\ Command("closeluks", how, Installed, Installed)
  /\ \/ how \in {"ok", "cut"} /\ mounts \cap Devices = {} /\ mapper' = NoDev
     \/ how # "ok" /\ UNCHANGED mapper
  /\ UNCHANGED <<coordinatorVars, chrootVars, workVars, verdictVars, dev, opened, loops,
                 lazy, imageVars>>

NoLuks ==
  /\ ~opened
  /\ Goto("closeluks", Installed)
  /\ UNCHANGED <<coordinatorVars, chrootVars, runVars>>

-----------------------------------------------------------------------------
(* BuildRawImage: the image file *)

AfterRemove == IF pc = "removelast" THEN "failed" ELSE "detach"

\* cleanupImageFileOnError; a failure is only logged.
RemoveImage(how) ==
  /\ pc \in {"remove", "removelast"} /\ raw
  /\ Shell(how)
  /\ pc' = AfterRemove
  /\ \/ how # "refused" /\ raw' = FALSE
        /\ loops' = [d \in Devices |-> IF loops[d] = "image" THEN "deleted" ELSE loops[d]]
     \/ how # "ok" /\ UNCHANGED <<raw, loops>>
  /\ UNCHANGED <<coordinatorVars, chrootVars, workVars, verdictVars, dev, opened,
                 mapper, lazy, product>>

NothingToRemove ==
  /\ ~raw
  /\ \E from \in {"remove", "removelast"} : Goto(from, AfterRemove)
  /\ UNCHANGED <<coordinatorVars, chrootVars, runVars>>

\* mv: a device follows its file.
RenameImageFile(how) ==
  /\ Stage("rename", how, "convert", "remove")
  /\ \/ how \in {"ok", "cut"} /\ raw' = FALSE /\ product' = TRUE
        /\ loops' = [d \in Devices |-> IF loops[d] = "image" THEN "final" ELSE loops[d]]
     \/ how # "ok" /\ UNCHANGED <<raw, product, loops>>
  /\ UNCHANGED <<coordinatorVars, chrootVars, workVars, otherVerdicts, dev, opened,
                 mapper, lazy>>

ConvertImageFile(how) ==
  /\ Stage("convert", how, "detach", "removefinal")
  /\ UNCHANGED <<coordinatorVars, chrootVars, workVars, otherVerdicts, diskVars,
                 imageVars>>

RemoveFinal(how) ==
  /\ Command("removefinal", how, "detach", "detach")
  /\ \/ how # "refused" /\ product' = FALSE
     \/ how # "ok" /\ UNCHANGED product
  /\ UNCHANGED <<coordinatorVars, chrootVars, workVars, verdictVars, diskVars, raw>>

-----------------------------------------------------------------------------
(* executeBuild from PostProcess on *)

\* After a signal PostProcess is given a context of its own.
PostProcess ==
  /\ pc = "post" /\ pc' = "stopgpg"
  /\ Bind(IF signalled THEN "cleanup" ELSE "build")
  /\ phase' = "post" /\ cleanupErr' = FALSE
  /\ UNCHANGED <<coordinatorVars, rootfsVars, confVars, mounts, workVars, failed, exit,
                 post, residual, diskVars, imageVars>>

\* Mutation of PostReturned: the isolated workspace is not kept.
PostReturnedForgets ==
  /\ pc = "cleaned" /\ phase = "post"
  /\ Bind("build")
  /\ post' = (IF cleanupErr THEN "error" ELSE "ok")
  /\ IF cleanupErr THEN pc' = "backstop" /\ exit' = "error"
                   ELSE pc' = "return" /\ UNCHANGED exit
  /\ UNCHANGED <<coordinatorVars, chrootVars, workVars, failed, residual, phase,
                 diskVars, imageVars>>

\* An error keeps an isolated workspace, and wins over the build's own.  A
\* signal under the build's context may show in it.
PostReturned ==
  /\ pc = "cleaned" /\ phase = "post"
  /\ Bind("build")
  /\ post' = (IF cleanupErr THEN "error" ELSE "ok")
  /\ keep' = (keep \/ (nocache /\ cleanupErr))
  /\ \/ ~cleanupErr /\ pc' = "return" /\ UNCHANGED exit
     \/ cleanupErr /\ pc' = "backstop" /\ exit' = "error"
     \/ cleanupErr /\ pc' = "backstop" /\ signalled /\ ctx = "build" /\ exit' = "cancelled"
  /\ UNCHANGED <<coordinatorVars, chrootVars, nocache, ws, out, run, failed,
                 residual, phase, diskVars, imageVars>>

\* The result, unless an image is still to be copied out.
Return ==
  /\ Goto("return", IF ~signalled /\ ~failed /\ nocache THEN "preserve" ELSE "backstop")
  /\ exit' = IF signalled THEN "cancelled"
             ELSE IF failed THEN "error"
             ELSE IF nocache THEN "none"
             ELSE "ok"
  /\ UNCHANGED <<coordinatorVars, chrootVars, workVars, failed, post, residual, phase,
                 diskVars, imageVars>>

\* Mutation of PreserveOutput: the workspace goes although the copy failed.
PreserveForgets(how) ==
  /\ Command("preserve", how, "backstop", "backstop")
  /\ exit' = IF how = "ok" THEN "ok" ELSE "error"
  /\ out' = (how = "ok")
  /\ UNCHANGED <<coordinatorVars, chrootVars, nocache, ws, keep, run, failed,
                 post, residual, phase, diskVars, imageVars>>

\* The image is copied to the configured workspace, or the isolated one is kept.
PreserveOutput(how) ==
  /\ Command("preserve", how, "backstop", "backstop")
  /\ exit' \in CASE how = "ok" -> {"ok"} [] how = "fail" -> {"error"}
                 [] OTHER -> {"error", "cancelled"}
  /\ out' = (how = "ok")
  /\ keep' = (how # "ok")
  /\ UNCHANGED <<coordinatorVars, chrootVars, nocache, ws, run, failed, post,
                 residual, phase, diskVars, imageVars>>

\* The deferred backstop fires only after a signal.
NoBackstop ==
  /\ ~signalled
  /\ Goto("backstop", "leave")
  /\ UNCHANGED <<coordinatorVars, chrootVars, runVars>>

\* Coordinator.Run: the latest registration first; entries are those left to run.
Backstop ==
  /\ signalled
  /\ pc = "backstop"
  /\ pc' = IF "loop" \in entries THEN "reaploop"
           ELSE IF "chroot" \in entries THEN "reapchroot"
           ELSE "leave"
  /\ Bind("cleanup")
  /\ fired' = TRUE
  /\ phase' = "backstop"
  /\ UNCHANGED <<entries, chrootVars, workVars, failed, exit, post, residual, diskVars,
                 imageVars>>

\* loopSetupCreate's callback, under a budget of its own.
ReapLoop(how) ==
  LET next == IF "chroot" \in entries THEN "reapchroot" ELSE "leave"
  IN  /\ Command("reaploop", how, next, next)
      /\ \/ how \in {"ok", "cut"} /\ LetGo({dev})
         \/ how # "ok" /\ UNCHANGED <<loops, lazy>>
      /\ residual' = (IF how = "ok" THEN residual ELSE residual \cup {"loop"})
      /\ entries' = entries \ {"loop"}
      /\ UNCHANGED <<fired, chrootVars, workVars, failed, exit, post, phase, dev,
                     opened, mapper, imageVars>>

\* InitChrootEnv's callback is CleanupChrootEnv.
ReapChroot ==
  /\ pc = "reapchroot" /\ pc' = "stopgpg"
  /\ Bind("cleanup")
  /\ entries' = entries \ {"chroot"}
  /\ cleanupErr' = FALSE
  /\ UNCHANGED <<fired, rootfsVars, confVars, mounts, runVars>>

BackstopReturned ==
  /\ pc = "cleaned" /\ phase = "backstop" /\ pc' = "leave"
  /\ Bind("build")
  /\ residual' = (IF cleanupErr THEN residual \cup {"chroot"} ELSE residual)
  /\ UNCHANGED <<coordinatorVars, chrootVars, workVars, failed, exit, post, phase,
                 diskVars, imageVars>>

\* The last defer removes an isolated workspace, unless it is kept.
Leave ==
  /\ Goto("leave", "exited")
  /\ IF nocache /\ ~keep
     THEN /\ ws' = "removed" /\ raw' = FALSE /\ product' = FALSE
          /\ loops' = [d \in Devices |-> IF loops[d] = "image" THEN "deleted" ELSE loops[d]]
     ELSE UNCHANGED <<ws, raw, product, loops>>
  /\ UNCHANGED <<coordinatorVars, chrootVars, nocache, keep, out, run, verdictVars,
                 dev, opened, mapper, lazy>>

-----------------------------------------------------------------------------
(* The host *)

\* What a process knows is gone when it is.
Forget(p) ==
  /\ ContextForget(p)
  /\ had' = {} /\ cleanupErr' = FALSE
  /\ keep' = FALSE /\ out' = FALSE
  /\ failed' = FALSE /\ exit' = "none" /\ post' = "none" /\ residual' = {}
  /\ phase' = "build" /\ dev' = NoDev /\ opened' = FALSE
  /\ UNCHANGED <<rootfs, tarball, confVars, mounts, nocache, ws, mapper, loops, lazy,
                 imageVars>>

\* kill -9, the OOM killer, a second signal; only a next build sees the difference.
Killed ==
  /\ pc \notin Ended /\ ws = "shared" /\ run < Runs
  /\ Forget("killed")
  /\ UNCHANGED run

\* The next build in the same workspace.
NextRun ==
  /\ pc \in Ended /\ ws = "shared" /\ run < Runs
  /\ Forget("load")
  /\ run' = run + 1

ImageStep(how) ==
  \/ NewRawMaker(how) \/ CreateRawFile(how) \/ DetachStaleLoopDevices(how)
  \/ LoopSetupCreate(how) \/ DiskPartitionsCreate(how) \/ LoopSetupDelete(how)
  \/ MountDiskToChroot(how) \/ InstallPackages(how) \/ UmountForFDE(how)
  \/ ReencryptPartitionInPlace(how) \/ RemountForFDE(how) \/ SealImage(how)
  \/ UmountDiskFromChroot(how) \/ CloseLuks(how) \/ RemoveImage(how)
  \/ RenameImageFile(how) \/ ConvertImageFile(how) \/ RemoveFinal(how)

BuildStep ==
  \/ LoadFails \/ NoProvider \/ Loaded \/ BuildErr \/ NoLuks \/ NothingToRemove
  \/ PostProcess \/ PostReturned \/ Return \/ NoBackstop \/ Backstop \/ ReapChroot
  \/ BackstopReturned \/ Leave
  \/ \E how \in Endings :
       PreProcess(how) \/ ImageStep(how) \/ PreserveOutput(how) \/ ReapLoop(how)
  \/ ChrootStep /\ UNCHANGED runVars

Next ==
  \/ BuildStep
  \/ SignalArrives /\ UNCHANGED <<coordinatorVars, chrootVars, runVars>>
  \/ Killed \/ NextRun

Spec == Init /\ [][Next]_vars

-----------------------------------------------------------------------------
(* Properties *)

Returned == pc = "exited"
Posted == post # "none"

\* The recursive removal of an isolated workspace never runs over a mount: the
\* devtmpfs among them is the host's own /dev (mount.go, CleanSysfs).
RemovedOverNothing == ws = "removed" => mounts = {}

\* An image that was finished by a build that was not cancelled outlives it, in
\* the configured workspace or in an isolated one that was kept (build.go,
\* KeepWorkspace).
FinishedImageSurvives ==
  Returned /\ Posted /\ ~failed /\ exit # "cancelled" =>
    out \/ (product /\ ws # "removed")

\* Whatever a build that had a provider leaves mounted, it reported: as its
\* error, or as a residual of the backstop.  After a signal a registered device
\* is detached, or is named in the residual report, or is kept by a mount that
\* was reported or by a mapper.
ReapedOrReported ==
  /\ Returned /\ Posted /\ mounts # {} => post = "error" /\ exit # "ok"
  /\ Returned /\ fired /\ dev # NoDev /\ Attached(dev) =>
       "loop" \in residual \/ post = "error" \/ mapper = dev

=============================================================================
