-------------------------- MODULE BuildCleanupProofs --------------------------
(* Proofs about BuildCleanup, for any repository files, loop devices and      *)
(* number of builds in a row: type correctness and the three promises of the  *)
(* module, from one inductive invariant.                                      *)
EXTENDS BuildCleanup, TLAPS

-----------------------------------------------------------------------------
(* The inductive invariant *)

\* Before anything is mounted, inside CleanupChrootEnv, after its unmounting, and
\* after PostProcess.
Early == {"load", "pre", "init", "mountsys"}
Cleaning == {"stopgpg", "umountall", "restore", "copyback", "dropbackup", "cleaned"}
Unmounted == {"restore", "copyback", "dropbackup", "cleaned"}
Backstopping == {"reaploop", "reapchroot"}
Leaving == Backstopping \cup {"return", "preserve", "backstop", "leave", "exited"}

\* PostProcess is over: nothing but the backstop's cleanup touches a mount again.
Over == pc \in Leaving \/ phase = "backstop"

PhaseInv ==
  /\ phase = "backstop" => pc \in Backstopping \cup Cleaning \cup {"leave", "exited"}
  /\ phase # "backstop" => pc \notin Backstopping
  /\ phase = "build" => pc \notin Cleaning
  /\ fired => phase = "backstop"
  /\ pc \in {"copyback", "dropbackup"} => backup # NoBackup

\* What is mounted is known to CleanupChrootEnv's error, and then to the workspace.
MountsInv ==
  /\ nocache /\ pc \in Early => mounts = {}
  /\ pc \in Unmounted => cleanupErr \/ mounts = {}
  /\ nocache /\ Over => keep \/ mounts = {}
  /\ nocache /\ pc \in {"return", "preserve"} => mounts = {}

WorkspaceInv ==
  /\ nocache <=> ws # "shared"
  /\ ws = "removed" => pc = "exited" /\ mounts = {}

\* A build that has not failed by the time the maker detaches its device has
\* renamed its image; in an isolated workspace it is copied out or kept.
ProductInv ==
  /\ pc \in {"remove", "removelast", "removefinal", "detachfirst"} => failed
  /\ pc \in {"convert", "detach", "post"} \cup Cleaning \cup (Leaving \ {"exited"}) =>
       failed \/ product
  /\ nocache /\ Over /\ pc \notin {"return", "preserve"} =>
       failed \/ exit = "cancelled" \/ out \/ keep
  /\ pc = "exited" => failed \/ exit = "cancelled" \/ out \/ (product /\ ws # "removed")

\* PostProcess has returned, with an error if anything is still mounted.
PostInv ==
  /\ post # "none" => Over
  /\ post # "none" /\ mounts # {} => post = "error"
  /\ post = "error" => exit \in {"error", "cancelled"} /\ pc \notin {"return", "preserve"}

\* The maker's device is registered, reported, or let go.
Unattached == Early \cup {"backup", "clear", "copylocal", "bindrepo", "undo", "image",
                          "fallocate", "stale", "attach"}
Accounted == dev # NoDev => \/ "loop" \in entries \cup residual
                           \/ loops[dev] = "free" \/ dev \in lazy
Holding == {"partition", "mountdisk", "install", "encrypt", "openluks", "remount", "seal",
            "umountdisk", "closeluks", "rename", "remove", "convert", "removefinal",
            "detach", "detachfirst"}
DeviceKnown == "loop" \in entries \/ pc \in Holding => dev # NoDev
LoopInv ==
  /\ pc \in Unattached => dev = NoDev
  /\ DeviceKnown
  /\ pc = "reaploop" => "loop" \in entries
  /\ dev # NoDev /\ Over => post # "none"
  /\ Accounted
  /\ phase = "backstop" /\ pc # "reaploop" => "loop" \notin entries

CleanupInv ==
  /\ TypeOK /\ PhaseInv /\ MountsInv /\ WorkspaceInv /\ ProductInv /\ PostInv /\ LoopInv

-----------------------------------------------------------------------------
(* Lemmas *)

LEMMA ReachedBounds ==
  ASSUME NEW how \in Endings, NEW now, NEW goal, NEW s \in Reached(how, now, goal)
  PROVE  s \subseteq now \cup goal /\ (how = "ok" => s = goal)
  BY DEF Reached, Endings

\* The stages of the build, up to PostProcess.
Working == PC \ ({"post"} \cup Cleaning \cup Leaving \cup Ended)

\* What no stage of the build touches.
lateVars == <<nocache, ws, keep, out, run, exit, post, residual, phase, fired>>

Work ==
  /\ pc \in Working /\ pc' \in Working \cup {"post"}
  /\ pc' \in Early => pc \in Early /\ UNCHANGED mounts
  /\ UNCHANGED lateVars

\* A step of CleanupChrootEnv.
Cleans ==
  /\ pc \in Cleaning /\ pc' \in Cleaning
  /\ mounts' \subseteq mounts
  /\ pc = "umountall" => cleanupErr' \/ mounts' = {}
  /\ pc \in Unmounted => (cleanupErr => cleanupErr') /\ UNCHANGED mounts
  /\ pc = "stopgpg" => pc' = "umountall"
  /\ pc' \in {"copyback", "dropbackup"} =>
       UNCHANGED backup /\ (backup # NoBackup \/ pc = "copyback")
  /\ UNCHANGED <<runVars, coordinatorVars>>

LEMMA ChrootWork ==
  ASSUME TypeOK, NEW how \in Endings, InitChrootEnv(how), UNCHANGED runVars
  PROVE  Work
<1>1. CASE BuildTarball(how) \/ Extract(how) \/ MountChrootSysfs(how) \/ BackUp(how)
  BY <1>1
     DEF BuildTarball, Extract, MountChrootSysfs, BackUp, Command, Work, Working, PC, Early,
         Cleaning, Leaving, Backstopping, Ended, lateVars, runVars, workVars, verdictVars,
         coordinatorVars
<1>2. CASE Clear(how) \/ CopyLocal(how) \/ InitChrootLocalRepo(how) \/ UmountChrootSysfs(how)
  BY <1>2
     DEF Clear, CopyLocal, InitChrootLocalRepo, UmountChrootSysfs, Command, Work, Working,
         PC, Early, Cleaning, Leaving, Backstopping, Ended, lateVars, runVars, workVars,
         verdictVars, coordinatorVars
<1>3. QED
  BY <1>1, <1>2 DEF InitChrootEnv

LEMMA ImageWork ==
  ASSUME TypeOK, NEW how \in Endings, ImageStep(how)
  PROVE  Work
<1>1. CASE NewRawMaker(how) \/ CreateRawFile(how) \/ DetachStaleLoopDevices(how)
             \/ DiskPartitionsCreate(how)
  BY ZenonT(40), <1>1
     DEF NewRawMaker, CreateRawFile, DetachStaleLoopDevices, DiskPartitionsCreate, Stage,
         Command, Work, Working, PC, Early, Cleaning, Leaving, Backstopping, Ended,
         lateVars, workVars, verdictVars, otherVerdicts, coordinatorVars
<1>2. CASE LoopSetupCreate(how)
  BY <1>2
     DEF LoopSetupCreate, Stage, Command, Work, Working, PC, Early, Cleaning, Leaving,
         Backstopping, Ended, lateVars, workVars, otherVerdicts
<1>3. CASE LoopSetupDelete(how)
  BY <1>3
     DEF LoopSetupDelete, Work, Working, PC, Early, Cleaning, Leaving,
         Backstopping, Ended, lateVars, workVars, verdictVars
<1>4. CASE MountDiskToChroot(how) \/ InstallPackages(how) \/ UmountForFDE(how)
             \/ ReencryptPartitionInPlace(how) \/ RemountForFDE(how) \/ SealImage(how)
  BY <1>4
     DEF MountDiskToChroot, InstallPackages, UmountForFDE, ReencryptPartitionInPlace,
         RemountForFDE, SealImage, Stage, Command, Work, Working, PC, Early,
         Cleaning, Leaving, Backstopping, Ended, lateVars, workVars, otherVerdicts,
         coordinatorVars
<1>5. CASE UmountDiskFromChroot(how) \/ CloseLuks(how) \/ RemoveImage(how)
             \/ RenameImageFile(how) \/ ConvertImageFile(how) \/ RemoveFinal(how)
  BY <1>5
     DEF UmountDiskFromChroot, CloseLuks, Installed, RemoveImage, AfterRemove,
         RenameImageFile, ConvertImageFile, RemoveFinal, Stage, Command, Work, Working, PC,
         Early, Cleaning, Leaving, Backstopping, Ended, lateVars, workVars, verdictVars,
         otherVerdicts, coordinatorVars
<1>6. QED
  BY <1>1, <1>2, <1>3, <1>4, <1>5 DEF ImageStep

LEMMA OtherWork ==
  ASSUME TypeOK,
         \/ Loaded \/ BuildErr \/ NoLuks \/ NothingToRemove
         \/ (ReuseRoot \/ NothingToBackUp) /\ UNCHANGED runVars
         \/ \E how \in Endings : PreProcess(how)
  PROVE  Work
  BY DEF Loaded, BuildErr, NoLuks, Installed, NothingToRemove, AfterRemove, ReuseRoot,
         NothingToBackUp, PreProcess, Stage, Command, Goto, Work, Working, PC, Early,
         Cleaning, Leaving, Backstopping, Ended, lateVars, runVars, workVars, verdictVars,
         otherVerdicts, coordinatorVars, chrootVars

LEMMA CleanStep ==
  ASSUME TypeOK, UNCHANGED runVars,
         NoGPG \/ NothingToRestore \/ \E how \in Endings : CleanupChrootEnv(how)
  PROVE  Cleans
<1>1. CASE NoGPG \/ NothingToRestore
  BY <1>1
     DEF NoGPG, NothingToRestore, Goto, Cleans, Cleaning, Unmounted, chrootVars, confVars
<1>2. ASSUME NEW how \in Endings, StopGPGComponents(how)
      PROVE  Cleans
  BY <1>2 DEF StopGPGComponents, Command, Cleans, Cleaning, Unmounted
<1>3. ASSUME NEW how \in Endings, UmountSubPath(how)
      PROVE  Cleans
  <2>1. mounts' \subseteq mounts /\ (how = "ok" => mounts' = {})
    <3>1. mounts' \in Reached(how, mounts, {})
      BY <1>3 DEF UmountSubPath
    <3>2. QED
      BY <3>1, ReachedBounds
  <2>2. QED
    BY <1>3, <2>1 DEF UmountSubPath, Command, Cleans, Cleaning, Unmounted
<1>4. ASSUME NEW how \in Endings, RemoveLocal(how) \/ CopyBack(how) \/ DropBackup(how)
      PROVE  Cleans
  BY <1>4 DEF RemoveLocal, CopyBack, DropBackup, Command, Cleans, Cleaning, Unmounted
<1>5. QED
  BY <1>1, <1>2, <1>3, <1>4 DEF CleanupChrootEnv

\* What is left of a step: executeBuild from PostProcess on, a build that did not
\* start, the host, and a signal.
Ends ==
  \/ LoadFails \/ NoProvider \/ PostProcess \/ PostReturned \/ Return \/ NoBackstop
  \/ Backstop \/ ReapChroot \/ BackstopReturned \/ Leave
  \/ \E how \in Endings : PreserveOutput(how) \/ ReapLoop(how)
  \/ Killed \/ NextRun

Quiet == UNCHANGED <<pc, coordinatorVars, chrootVars, runVars>>

LEMMA StepKinds == TypeOK /\ [Next]_vars => Work \/ Cleans \/ Ends \/ Quiet
<1> SUFFICES ASSUME TypeOK, [Next]_vars PROVE Work \/ Cleans \/ Ends \/ Quiet
  OBVIOUS
<1>1. CASE ChrootStep /\ UNCHANGED runVars
  BY <1>1, ChrootWork, OtherWork, CleanStep DEF ChrootStep
<1>2. ASSUME NEW how \in Endings, ImageStep(how) PROVE Work
  BY <1>2, ImageWork
<1>3. CASE \/ Loaded \/ BuildErr \/ NoLuks \/ NothingToRemove
           \/ \E how \in Endings : PreProcess(how)
  BY <1>3, OtherWork
<1>4. CASE SignalArrives /\ UNCHANGED <<coordinatorVars, chrootVars, runVars>>
  BY <1>4 DEF SignalArrives, Quiet
<1>5. CASE UNCHANGED vars
  BY <1>5 DEF vars, envVars, Quiet
<1>6. QED
  BY <1>1, <1>2, <1>3, <1>4, <1>5 DEF Next, BuildStep, Ends

-----------------------------------------------------------------------------
(* The phases and what is mounted *)

LEMMA PhaseStep == TypeOK /\ PhaseInv /\ [Next]_vars => PhaseInv'
<1> SUFFICES ASSUME TypeOK, PhaseInv, [Next]_vars PROVE PhaseInv'
  OBVIOUS
<1> USE DEF Cleaning, Backstopping, Leaving, Ended
<1>1. CASE Work
  BY <1>1 DEF Work, Working, lateVars, PhaseInv
<1>2. CASE Cleans
  BY <1>2 DEF Cleans, runVars, verdictVars, coordinatorVars, PhaseInv
<1>3. CASE Quiet
  BY <1>3 DEF Quiet, runVars, verdictVars, coordinatorVars, chrootVars, confVars, PhaseInv
<1>4. CASE LoadFails \/ NoProvider \/ PostProcess \/ PostReturned \/ Return
  BY <1>4
     DEF LoadFails, NoProvider, PostProcess, PostReturned, Return, Goto, otherVerdicts,
         coordinatorVars, chrootVars, confVars, PhaseInv
<1>5. CASE NoBackstop \/ Backstop \/ ReapChroot \/ BackstopReturned \/ Leave
  BY <1>5
     DEF NoBackstop, Backstop, ReapChroot, BackstopReturned, Leave, Goto, runVars,
         verdictVars, coordinatorVars, PhaseInv
<1>6. ASSUME NEW how \in Endings, PreserveOutput(how) \/ ReapLoop(how) PROVE PhaseInv'
  BY <1>6 DEF PreserveOutput, ReapLoop, Command, coordinatorVars, PhaseInv
<1>7. CASE Killed \/ NextRun
  BY <1>7 DEF Killed, NextRun, Forget, ContextForget, PhaseInv
<1>8. QED
  BY <1>1, <1>2, <1>3, <1>4, <1>5, <1>6, <1>7, StepKinds DEF Ends

LEMMA WorkspaceStep ==
  TypeOK /\ PhaseInv /\ MountsInv /\ WorkspaceInv /\ [Next]_vars => WorkspaceInv'
<1> SUFFICES ASSUME TypeOK, PhaseInv, MountsInv, WorkspaceInv, [Next]_vars
             PROVE  WorkspaceInv'
  OBVIOUS
<1> USE DEF Cleaning, Backstopping, Leaving, Ended
<1>1. CASE Work
  BY <1>1 DEF Work, Working, lateVars, WorkspaceInv
<1>2. CASE Cleans
  BY <1>2 DEF Cleans, runVars, workVars, WorkspaceInv
<1>3. CASE Quiet
  BY <1>3 DEF Quiet, runVars, workVars, chrootVars, WorkspaceInv
<1>4. CASE LoadFails \/ NoProvider \/ PostProcess \/ PostReturned \/ Return
  BY <1>4
     DEF LoadFails, NoProvider, PostProcess, PostReturned, Return, Goto, workVars,
         WorkspaceInv
<1>5. CASE NoBackstop \/ Backstop \/ ReapChroot \/ BackstopReturned
  BY <1>5
     DEF NoBackstop, Backstop, ReapChroot, BackstopReturned, Goto, runVars, workVars,
         WorkspaceInv
<1>6. CASE Leave
  <2>1. pc = "leave" /\ pc' = "exited" /\ UNCHANGED <<mounts, nocache>>
    BY <1>6 DEF Leave, Goto, chrootVars
  <2>2. nocache /\ ~keep => mounts = {}
    BY <2>1 DEF MountsInv, Over
  <2>3. QED
    BY <1>6, <2>1, <2>2 DEF Leave, WorkspaceInv, VerdictType, TypeOK
<1>7. ASSUME NEW how \in Endings, PreserveOutput(how) \/ ReapLoop(how) PROVE WorkspaceInv'
  BY <1>7 DEF PreserveOutput, ReapLoop, Command, workVars, WorkspaceInv
<1>8. CASE Killed \/ NextRun
  BY <1>8 DEF Killed, NextRun, Forget, WorkspaceInv
<1>9. QED
  BY <1>1, <1>2, <1>3, <1>4, <1>5, <1>6, <1>7, <1>8, StepKinds DEF Ends

LEMMA MountsStep ==
  TypeOK /\ PhaseInv /\ WorkspaceInv /\ MountsInv /\ [Next]_vars => MountsInv'
<1> SUFFICES ASSUME TypeOK, PhaseInv, WorkspaceInv, MountsInv, [Next]_vars
             PROVE  MountsInv'
  OBVIOUS
<1> USE DEF Cleaning, Unmounted, Backstopping, Leaving, Ended, Early
<1>1. CASE Work
  BY <1>1 DEF Work, Working, lateVars, PhaseInv, MountsInv, Over
<1>2. CASE Cleans
  BY <1>2 DEF Cleans, runVars, workVars, verdictVars, MountsInv, Over
<1>3. CASE Quiet
  BY <1>3 DEF Quiet, runVars, workVars, verdictVars, chrootVars, MountsInv, Over
<1>4. CASE LoadFails \/ NoProvider
  BY <1>4
     DEF LoadFails, NoProvider, Goto, workVars, otherVerdicts, chrootVars, MountsInv, Over
<1>5. CASE PostProcess
  BY <1>5 DEF PostProcess, workVars, MountsInv, Over
<1>6. CASE PostReturned
  BY <1>6 DEF PostReturned, chrootVars, MountsInv, Over
<1>7. CASE Return
  BY <1>7 DEF Return, Goto, workVars, chrootVars, MountsInv, Over
<1>8. CASE NoBackstop \/ Backstop
  BY <1>8 DEF NoBackstop, Backstop, Goto, runVars, workVars, verdictVars, chrootVars,
              MountsInv, Over
<1>9. CASE ReapChroot \/ BackstopReturned
  BY <1>9 DEF ReapChroot, BackstopReturned, runVars, workVars, verdictVars, chrootVars,
              MountsInv, Over
<1>10. CASE Leave
  BY <1>10 DEF Leave, Goto, verdictVars, chrootVars, MountsInv, Over
<1>11. ASSUME NEW how \in Endings, PreserveOutput(how) PROVE MountsInv'
  BY <1>11 DEF PreserveOutput, Command, chrootVars, MountsInv, Over
<1>12. ASSUME NEW how \in Endings, ReapLoop(how) PROVE MountsInv'
  BY <1>12 DEF ReapLoop, Command, workVars, chrootVars, MountsInv, Over
<1>13. CASE Killed \/ NextRun
  BY <1>13 DEF Killed, NextRun, Forget, ContextForget, WorkspaceInv, MountsInv, Over
<1>14. QED
  BY <1>1, <1>2, <1>3, <1>4, <1>5, <1>6, <1>7, <1>8, <1>9, <1>10, <1>11, <1>12, <1>13,
     StepKinds DEF Ends

LEMMA PostStep ==
  TypeOK /\ PhaseInv /\ MountsInv /\ PostInv /\ [Next]_vars => PostInv'
<1> SUFFICES ASSUME TypeOK, PhaseInv, MountsInv, PostInv, [Next]_vars PROVE PostInv'
  OBVIOUS
<1> USE DEF Cleaning, Unmounted, Backstopping, Leaving, Ended, Early
<1>1. CASE Work
  BY <1>1 DEF Work, Working, lateVars, PhaseInv, PostInv, Over
<1>2. CASE Cleans
  BY <1>2 DEF Cleans, runVars, verdictVars, PostInv, Over
<1>3. CASE Quiet
  BY <1>3 DEF Quiet, runVars, verdictVars, chrootVars, PostInv, Over
<1>4. CASE LoadFails \/ NoProvider
  BY <1>4
     DEF LoadFails, NoProvider, Goto, otherVerdicts, chrootVars, PhaseInv, PostInv, Over
<1>5. CASE PostProcess
  BY <1>5 DEF PostProcess, PhaseInv, PostInv, Over
<1>6. CASE PostReturned
  BY <1>6 DEF PostReturned, chrootVars, MountsInv, PostInv, Over
<1>7. CASE Return
  BY <1>7 DEF Return, Goto, chrootVars, PostInv, Over
<1>8. CASE NoBackstop \/ Backstop
  BY <1>8 DEF NoBackstop, Backstop, Goto, runVars, verdictVars, chrootVars,
              PostInv, Over
<1>9. CASE ReapChroot \/ BackstopReturned
  BY <1>9 DEF ReapChroot, BackstopReturned, runVars, verdictVars, chrootVars,
              PhaseInv, PostInv, Over
<1>10. CASE Leave
  BY <1>10 DEF Leave, Goto, verdictVars, chrootVars, PostInv, Over
<1>11. ASSUME NEW how \in Endings, PreserveOutput(how) PROVE PostInv'
  BY <1>11 DEF PreserveOutput, Command, chrootVars, PostInv, Over
<1>12. ASSUME NEW how \in Endings, ReapLoop(how) PROVE PostInv'
  BY <1>12 DEF ReapLoop, Command, chrootVars, PostInv, Over
<1>13. CASE Killed \/ NextRun
  BY <1>13 DEF Killed, NextRun, Forget, PostInv
<1>14. QED
  BY <1>1, <1>2, <1>3, <1>4, <1>5, <1>6, <1>7, <1>8, <1>9, <1>10, <1>11, <1>12, <1>13,
     StepKinds DEF Ends

-----------------------------------------------------------------------------
(* The product and the device *)

\* What the stages of the build say of the image.
LEMMA WorkProduct ==
  ASSUME TypeOK, ProductInv, Work, Next
  PROVE  /\ pc' \in {"remove", "removelast", "removefinal", "detachfirst"} => failed'
         /\ pc' \in {"convert", "detach", "post"} => failed' \/ product'
<1> DEFINE Goal == /\ pc' \in {"remove", "removelast", "removefinal", "detachfirst"} => failed'
                   /\ pc' \in {"convert", "detach", "post"} => failed' \/ product'
<1>0. pc \in Working
  BY DEF Work
<1>1. ASSUME NEW how \in Endings, InitChrootEnv(how) PROVE Goal
  BY <1>1
     DEF InitChrootEnv, BuildTarball, Extract, MountChrootSysfs, BackUp, Clear, CopyLocal,
         InitChrootLocalRepo, UmountChrootSysfs, Command
<1>2. ASSUME NEW how \in Endings,
             NewRawMaker(how) \/ CreateRawFile(how) \/ DetachStaleLoopDevices(how)
      PROVE  Goal
  BY <1>2 DEF NewRawMaker, CreateRawFile, DetachStaleLoopDevices, Stage, Command
<1>3. ASSUME NEW how \in Endings, LoopSetupCreate(how) \/ DiskPartitionsCreate(how)
      PROVE  Goal
  BY <1>3 DEF LoopSetupCreate, DiskPartitionsCreate, Stage, Command
<1>4. ASSUME NEW how \in Endings, LoopSetupDelete(how) PROVE Goal
  BY <1>4 DEF LoopSetupDelete, verdictVars, imageVars, ProductInv
<1>5. ASSUME NEW how \in Endings, MountDiskToChroot(how) \/ InstallPackages(how)
      PROVE  Goal
  BY <1>5 DEF MountDiskToChroot, InstallPackages, Stage, Command
<1>6. ASSUME NEW how \in Endings,
             UmountForFDE(how) \/ ReencryptPartitionInPlace(how) \/ RemountForFDE(how)
      PROVE  Goal
  BY <1>6 DEF UmountForFDE, ReencryptPartitionInPlace, RemountForFDE, Stage, Command
<1>7. ASSUME NEW how \in Endings,
             SealImage(how) \/ UmountDiskFromChroot(how) \/ CloseLuks(how)
      PROVE  Goal
  BY <1>7
     DEF SealImage, UmountDiskFromChroot, CloseLuks, Installed, verdictVars, Stage, Command
<1>8. ASSUME NEW how \in Endings, RemoveImage(how) PROVE Goal
  BY <1>8 DEF RemoveImage, AfterRemove, verdictVars, ProductInv
<1>9. ASSUME NEW how \in Endings,
             RenameImageFile(how) \/ ConvertImageFile(how) \/ RemoveFinal(how)
      PROVE  Goal
  BY <1>9
     DEF RenameImageFile, ConvertImageFile, RemoveFinal, verdictVars, imageVars, Stage,
         Command, ProductInv
<1>10. ASSUME NEW how \in Endings, PreProcess(how) PROVE Goal
  BY <1>10 DEF PreProcess, Stage, Command
<1>11. CASE Loaded \/ BuildErr \/ ReuseRoot \/ NothingToBackUp
  BY <1>11 DEF Loaded, BuildErr, ReuseRoot, NothingToBackUp, Goto
<1>12. CASE NoLuks \/ NothingToRemove
  BY <1>12
     DEF NoLuks, Installed, NothingToRemove, AfterRemove, Goto, runVars, verdictVars,
         ProductInv
<1>13. CASE UNCHANGED <<pc, failed, product>>
  BY <1>13 DEF ProductInv
<1>14. CASE Cleans \/ Ends
  BY <1>0, <1>14
     DEF Cleans, Ends, Working, Cleaning, Leaving, Backstopping, Ended, LoadFails, NoProvider,
         PostProcess, PostReturned, Return, NoBackstop, Backstop, ReapChroot,
         BackstopReturned, Leave, PreserveOutput, ReapLoop, Killed, NextRun, Forget,
         ContextForget, Goto, Command
<1>15. QED
  BY <1>1, <1>2, <1>3, <1>4, <1>5, <1>6, <1>7, <1>8, <1>9, <1>10, <1>11, <1>12, <1>13,
     <1>14, CleanStep
     DEF Next, BuildStep, ImageStep, ChrootStep, SignalArrives, runVars, verdictVars,
         imageVars, Ends

LEMMA ProductStep ==
  TypeOK /\ PhaseInv /\ WorkspaceInv /\ ProductInv /\ [Next]_vars => ProductInv'
<1> SUFFICES ASSUME TypeOK, PhaseInv, WorkspaceInv, ProductInv, [Next]_vars
             PROVE  ProductInv'
  OBVIOUS
<1> USE DEF Cleaning, Backstopping, Leaving, Ended
<1>1. CASE Work /\ Next
  <2>1. /\ pc' \in {"remove", "removelast", "removefinal", "detachfirst"} => failed'
        /\ pc' \in {"convert", "detach", "post"} => failed' \/ product'
    BY <1>1, WorkProduct
  <2>2. pc' \notin Leaving \cup Cleaning /\ phase' # "backstop"
    BY <1>1 DEF Work, Working, lateVars, PhaseInv
  <2>3. QED
    BY <2>1, <2>2 DEF ProductInv, Over
<1>2. CASE Cleans
  BY <1>2 DEF Cleans, runVars, workVars, verdictVars, imageVars, ProductInv, Over
<1>3. CASE Quiet \/ UNCHANGED vars
  BY <1>3
     DEF Quiet, vars, envVars, runVars, workVars, verdictVars, imageVars, ProductInv, Over
<1>4. CASE LoadFails \/ NoProvider
  BY <1>4
     DEF LoadFails, NoProvider, Goto, workVars, otherVerdicts, imageVars, PhaseInv,
         ProductInv, Over
<1>5. CASE PostProcess
  BY <1>5 DEF PostProcess, imageVars, ProductInv, Over
<1>6. CASE PostReturned
  BY <1>6 DEF PostReturned, imageVars, ProductInv, Over
<1>7. CASE Return
  <2>1. /\ pc = "return" /\ pc' = IF ~signalled /\ ~failed /\ nocache THEN "preserve" ELSE "backstop"
        /\ UNCHANGED <<nocache, failed, product, out, keep>>
    BY <1>7 DEF Return, Goto, workVars, imageVars
  <2>2. signalled => exit' = "cancelled"
    BY <1>7 DEF Return
  <2>3. failed \/ product
    BY <2>1 DEF ProductInv
  <2>4. QED
    BY <2>1, <2>2, <2>3 DEF ProductInv
<1>8. CASE NoBackstop \/ Backstop
  BY <1>8
     DEF NoBackstop, Backstop, Goto, runVars, workVars, verdictVars, imageVars, ProductInv,
         Over
<1>9. CASE ReapChroot \/ BackstopReturned
  BY <1>9
     DEF ReapChroot, BackstopReturned, runVars, workVars, verdictVars, imageVars, PhaseInv,
         ProductInv, Over
<1>10. CASE Leave
  <2>1. pc = "leave" /\ pc' = "exited" /\ UNCHANGED <<failed, exit, out, keep, nocache>>
    BY <1>10 DEF Leave, Goto, verdictVars
  <2>2. failed \/ product
    BY <2>1 DEF ProductInv
  <2>3. nocache => failed \/ exit = "cancelled" \/ out \/ keep
    BY <2>1 DEF ProductInv, Over
  <2>4. ws # "removed" /\ (~nocache \/ keep => UNCHANGED <<ws, product>>)
    BY <1>10, <2>1 DEF Leave, WorkspaceInv
  <2>5. QED
    BY <2>1, <2>2, <2>3, <2>4 DEF ProductInv, TypeOK, VerdictType
<1>11. ASSUME NEW how \in Endings, PreserveOutput(how) PROVE ProductInv'
  BY <1>11 DEF PreserveOutput, Command, imageVars, ProductInv, Over
<1>12. ASSUME NEW how \in Endings, ReapLoop(how) PROVE ProductInv'
  BY <1>12 DEF ReapLoop, Command, workVars, imageVars, ProductInv, Over
<1>13. CASE Killed \/ NextRun
  BY <1>13 DEF Killed, NextRun, Forget, ContextForget, ProductInv, Over
<1>14. QED
  BY <1>1, <1>2, <1>3, <1>4, <1>5, <1>6, <1>7, <1>8, <1>9, <1>10, <1>11, <1>12, <1>13,
     StepKinds DEF Ends

LEMMA LetGoKeeps ==
  ASSUME DiskType, NEW D, LetGo(D), NEW d \in Devices
  PROVE  /\ loops[d] = "free" => loops'[d] = "free"
         /\ d \in lazy => d \in lazy'
         /\ d \in D => loops'[d] = "free" \/ d \in lazy'
  BY DEF DiskType, LetGo

LEMMA DevIsDevice == TypeOK => dev = NoDev \/ dev \in Devices
  BY DEF TypeOK, DiskType

\* The stages of the build and the device: only losetup takes one, registered.
LEMMA WorkLoop ==
  ASSUME TypeOK, PhaseInv, LoopInv, Work, Next
  PROVE  /\ pc' \in Unattached => pc \in Unattached /\ UNCHANGED dev
         /\ DeviceKnown' /\ Accounted'
<1> DEFINE Goal == /\ pc' \in Unattached => pc \in Unattached /\ UNCHANGED dev
                   /\ DeviceKnown' /\ Accounted'
<1>0. pc \in Working /\ UNCHANGED residual /\ ~fired
  BY DEF Work, Working, lateVars, PhaseInv, Cleaning, Backstopping, Leaving, Ended
<1>a. ASSUME UNCHANGED <<dev, lazy>>, entries \subseteq entries',
             dev # NoDev /\ loops[dev] = "free" => loops'[dev] = "free"
      PROVE  Accounted'
  BY <1>0, <1>a DEF LoopInv, Accounted
<1>c. ASSUME UNCHANGED dev, entries' \subseteq entries \cup {"chroot"},
             pc' \in Holding => pc \in Holding
      PROVE  DeviceKnown'
  BY <1>c DEF LoopInv, DeviceKnown
<1>b. ASSUME UNCHANGED <<diskVars, entries>>, pc' \in Holding => pc \in Holding
      PROVE  DeviceKnown' /\ Accounted'
  BY <1>a, <1>b, <1>c DEF diskVars
<1>1. ASSUME NEW how \in Endings, InitChrootEnv(how), UNCHANGED runVars PROVE Goal
  <2>1. /\ pc \in Unattached /\ UNCHANGED diskVars /\ pc' \notin Holding
        /\ entries \subseteq entries' /\ entries' \subseteq entries \cup {"chroot"}
    BY <1>1
       DEF InitChrootEnv, BuildTarball, Extract, MountChrootSysfs, BackUp, Clear, CopyLocal,
           InitChrootLocalRepo, UmountChrootSysfs, Command, runVars, diskVars, Register,
           coordinatorVars, Unattached, Early, Holding
  <2>2. QED
    BY <1>a, <1>c, <2>1 DEF diskVars
<1>2. ASSUME NEW how \in Endings, NewRawMaker(how) \/ CreateRawFile(how) PROVE Goal
  BY <1>b, <1>2
     DEF NewRawMaker, CreateRawFile, Stage, Command, diskVars, coordinatorVars, Unattached,
         Early, Holding
<1>3. ASSUME NEW how \in Endings, DetachStaleLoopDevices(how) PROVE Goal
  BY <1>3
     DEF DetachStaleLoopDevices, Command, coordinatorVars, LoopInv, Accounted, Unattached,
         Early, Holding, DeviceKnown
<1>4. ASSUME NEW how \in Endings, LoopSetupCreate(how) PROVE Goal
  <2>1. pc = "attach" /\ pc' \notin Unattached /\ dev = NoDev
    BY <1>4 DEF LoopSetupCreate, Stage, Command, LoopInv, Unattached, Early
  <2>2. \/ dev' \in Devices /\ "loop" \in entries'
        \/ dev' = NoDev /\ UNCHANGED entries /\ pc' = "removelast"
    BY <1>0, <1>4, <2>1 DEF LoopSetupCreate, Register, Stage, Command
  <2>3. QED
    BY <2>1, <2>2, CleanupAssumption DEF Accounted, LoopInv, DeviceKnown, Holding
<1>5. ASSUME NEW how \in Endings, LoopSetupDelete(how) PROVE Goal
  <2>1. /\ pc' \notin Unattached \cup Holding /\ UNCHANGED dev /\ entries' \subseteq entries
    BY <1>5 DEF LoopSetupDelete, Unattached, Early, Holding
  <2>2. CASE how = "ok"
    <3>1. LetGo({dev})
      BY <1>5, <2>2 DEF LoopSetupDelete
    <3>2. dev # NoDev => loops'[dev] = "free" \/ dev \in lazy'
      BY <3>1, DevIsDevice, LetGoKeeps DEF TypeOK
    <3>3. QED
      BY <1>c, <2>1, <3>2 DEF Accounted
  <2>3. CASE how # "ok"
    <3>1. UNCHANGED entries /\ (LetGo({dev}) \/ UNCHANGED <<loops, lazy>>)
      BY <1>5, <2>3 DEF LoopSetupDelete
    <3>2. dev # NoDev => /\ loops[dev] = "free" => loops'[dev] = "free"
                         /\ dev \in lazy => dev \in lazy'
      BY <3>1, DevIsDevice, LetGoKeeps DEF TypeOK
    <3>3. QED
      BY <1>0, <1>c, <2>1, <3>1, <3>2 DEF LoopInv, Accounted
  <2>4. QED
    BY <2>2, <2>3
<1>6. ASSUME NEW how \in Endings,
             \/ DiskPartitionsCreate(how) \/ MountDiskToChroot(how) \/ InstallPackages(how)
             \/ UmountForFDE(how) \/ SealImage(how) \/ UmountDiskFromChroot(how)
      PROVE  Goal
  BY <1>b, <1>6
     DEF DiskPartitionsCreate, MountDiskToChroot, InstallPackages, UmountForFDE, SealImage,
         UmountDiskFromChroot, Stage, Command, diskVars, coordinatorVars, Unattached, Early,
         Holding
<1>7. ASSUME NEW how \in Endings,
             ReencryptPartitionInPlace(how) \/ RemountForFDE(how) \/ CloseLuks(how)
      PROVE  Goal
  <2>1. /\ UNCHANGED <<dev, lazy, loops, entries>> /\ pc' \notin Unattached
        /\ pc \in Holding
    BY <1>7
       DEF ReencryptPartitionInPlace, RemountForFDE, CloseLuks, Installed, Stage, Command,
           coordinatorVars, Unattached, Early, Holding
  <2>2. QED
    BY <1>a, <1>c, <2>1
<1>8. ASSUME NEW how \in Endings, RemoveImage(how) \/ RenameImageFile(how) PROVE Goal
  <2>1. /\ UNCHANGED <<dev, lazy, entries>> /\ pc' \notin Unattached
        /\ pc' \in Holding => pc \in Holding
    BY <1>8
       DEF RemoveImage, AfterRemove, RenameImageFile, Stage, Command, coordinatorVars,
           Unattached, Early, Holding
  <2>2. \A d \in Devices : loops[d] = "free" => loops'[d] = "free"
    BY <1>8 DEF RemoveImage, RenameImageFile
  <2>3. QED
    BY <1>a, <1>c, <2>1, <2>2, DevIsDevice
<1>9. ASSUME NEW how \in Endings,
             ConvertImageFile(how) \/ RemoveFinal(how) \/ PreProcess(how)
      PROVE  Goal
  BY <1>b, <1>9
     DEF ConvertImageFile, RemoveFinal, PreProcess, Stage, Command, diskVars,
         coordinatorVars, Unattached, Early, Holding
<1>10. CASE \/ Loaded \/ BuildErr \/ NoLuks \/ NothingToRemove
            \/ (ReuseRoot \/ NothingToBackUp) /\ UNCHANGED runVars
  BY <1>b, <1>10
     DEF Loaded, BuildErr, NoLuks, Installed, NothingToRemove, AfterRemove, ReuseRoot,
         NothingToBackUp, Goto, runVars, diskVars, coordinatorVars, Unattached, Early,
         Holding
<1>11. CASE SignalArrives /\ UNCHANGED <<coordinatorVars, runVars>>
  BY <1>b, <1>11
     DEF SignalArrives, coordinatorVars, runVars, diskVars
<1>12. CASE Cleans
  BY <1>0, <1>12 DEF Cleans, Working
<1>13. CASE Ends
  <2>1. pc \notin Working \/ pc' \notin Working \cup {"post"}
    BY <1>13
       DEF Ends, Working, Cleaning, Leaving, Backstopping, Ended, LoadFails, NoProvider,
           PostProcess, PostReturned, Return, NoBackstop, Backstop, ReapChroot,
           BackstopReturned, Leave, PreserveOutput, ReapLoop, Killed, NextRun, Forget,
           ContextForget, Goto, Command
  <2>2. QED
    BY <2>1 DEF Work
<1>14. QED
  BY <1>1, <1>2, <1>3, <1>4, <1>5, <1>6, <1>7, <1>8, <1>9, <1>10, <1>11, <1>12, <1>13,
     CleanStep DEF Next, BuildStep, ImageStep, ChrootStep, Ends

LEMMA LoopStep ==
  TypeOK /\ PhaseInv /\ PostInv /\ LoopInv /\ [Next]_vars => LoopInv'
<1> SUFFICES ASSUME TypeOK, PhaseInv, PostInv, LoopInv, [Next]_vars PROVE LoopInv'
  OBVIOUS
<1> USE DEF Cleaning, Backstopping, Leaving, Ended, Unattached, Early, Holding
<1>a. ASSUME UNCHANGED <<diskVars, entries, residual>>, pc' \notin Holding
      PROVE  Accounted' /\ DeviceKnown'
  BY <1>a DEF diskVars, LoopInv, Accounted, DeviceKnown
<1>1. CASE Work /\ Next
  <2>1. /\ pc' \in Unattached => pc \in Unattached /\ UNCHANGED dev
        /\ DeviceKnown' /\ Accounted'
    BY <1>1, WorkLoop
  <2>2. ~Over' /\ phase' # "backstop" /\ pc' # "reaploop"
    BY <1>1 DEF Work, Working, lateVars, PhaseInv, Over
  <2>3. QED
    BY <2>1, <2>2 DEF LoopInv
<1>2. CASE Cleans
  BY <1>a, <1>2 DEF Cleans, runVars, verdictVars, diskVars, coordinatorVars, LoopInv, Over
<1>3. CASE Quiet \/ UNCHANGED vars
  BY <1>3
     DEF Quiet, vars, envVars, runVars, verdictVars, diskVars, coordinatorVars, LoopInv, Over,
         Accounted, DeviceKnown
<1>4. CASE LoadFails \/ NoProvider
  <2>1. dev = NoDev /\ UNCHANGED <<dev, phase, entries>> /\ phase # "backstop"
    BY <1>4
       DEF LoadFails, NoProvider, Goto, otherVerdicts, diskVars, coordinatorVars, LoopInv,
           PhaseInv
  <2>2. pc' \in {"return", "backstop"}
    BY <1>4 DEF LoadFails, NoProvider, Goto
  <2>3. QED
    BY <2>1, <2>2 DEF LoopInv, Accounted, DeviceKnown
<1>5. CASE PostProcess
  BY <1>a, <1>5 DEF PostProcess, coordinatorVars, LoopInv, Over
<1>6. CASE PostReturned
  BY <1>a, <1>6 DEF PostReturned, coordinatorVars, diskVars, LoopInv, Over
<1>7. CASE Return
  BY <1>a, <1>7 DEF Return, Goto, coordinatorVars, diskVars, LoopInv, Over
<1>8. CASE NoBackstop \/ Backstop
  BY <1>a, <1>8
     DEF NoBackstop, Backstop, Goto, runVars, verdictVars, coordinatorVars, diskVars,
         PhaseInv, LoopInv, Over
<1>9. CASE ReapChroot
  BY <1>9
     DEF ReapChroot, runVars, verdictVars, diskVars, PhaseInv, LoopInv, Over, Accounted,
         DeviceKnown
<1>10. CASE BackstopReturned
  BY <1>10
     DEF BackstopReturned, diskVars, coordinatorVars, PhaseInv, LoopInv, Over, Accounted,
         DeviceKnown
<1>11. CASE Leave
  <2>1. UNCHANGED <<dev, lazy, entries, residual, phase, post>>
    BY <1>11 DEF Leave, coordinatorVars, verdictVars
  <2>2. \A d \in Devices : loops[d] = "free" => loops'[d] = "free"
    BY <1>11 DEF Leave
  <2>3. Accounted'
    BY <2>1, <2>2, DevIsDevice DEF LoopInv, Accounted
  <2>4. pc = "leave" /\ pc' = "exited"
    BY <1>11 DEF Leave, Goto
  <2>5. QED
    BY <2>1, <2>3, <2>4 DEF LoopInv, DeviceKnown, Over
<1>12. ASSUME NEW how \in Endings, PreserveOutput(how) PROVE LoopInv'
  BY <1>a, <1>12 DEF PreserveOutput, Command, coordinatorVars, diskVars, LoopInv, Over
<1>13. ASSUME NEW how \in Endings, ReapLoop(how) PROVE LoopInv'
  <2>1. /\ pc = "reaploop" /\ pc' \in {"reapchroot", "leave"}
        /\ UNCHANGED <<dev, post, phase>> /\ entries' = entries \ {"loop"}
    BY <1>13 DEF ReapLoop, Command
  <2>2. CASE how = "ok"
    <3>1. LetGo({dev})
      BY <1>13, <2>2 DEF ReapLoop
    <3>2. dev # NoDev => loops'[dev] = "free" \/ dev \in lazy'
      BY <3>1, DevIsDevice, LetGoKeeps DEF TypeOK
    <3>3. QED
      BY <2>1, <3>2 DEF Accounted, DeviceKnown, LoopInv, Over
  <2>3. CASE how # "ok"
    <3>1. "loop" \in residual'
      BY <1>13, <2>3 DEF ReapLoop
    <3>2. QED
      BY <2>1, <3>1 DEF Accounted, DeviceKnown, LoopInv, Over
  <2>4. QED
    BY <2>2, <2>3
<1>14. CASE Killed \/ NextRun
  BY <1>14 DEF Killed, NextRun, Forget, ContextForget, LoopInv, Accounted, DeviceKnown
<1>15. QED
  BY <1>1, <1>2, <1>3, <1>4, <1>5, <1>6, <1>7, <1>8, <1>9, <1>10, <1>11, <1>12, <1>13,
     <1>14, StepKinds DEF Ends

-----------------------------------------------------------------------------
(* Type correctness *)

LEMMA ContextTypes ==
  ASSUME ContextType
  PROVE  /\ \A how \in Endings : Shell(how) =>
               ctx' \in {"build", "cleanup"} /\ live' \in BOOLEAN /\ signalled' \in BOOLEAN
         /\ \A c \in {"build", "cleanup"} : Bind(c) =>
               ctx' \in {"build", "cleanup"} /\ live' \in BOOLEAN /\ signalled' \in BOOLEAN
         /\ \A l \in Labels : Register(l) => entries' \subseteq Labels
  BY DEF ContextType, Shell, Bind, Register

LEMMA MountTypes ==
  ASSUME MountType, mounts' \subseteq mounts \cup {"sys", "repo", "rootsys"}
  PROVE  MountType'
  BY CleanupAssumption DEF MountType, Mounts

\* The rootfs and its repository files are only touched in ChrootEnv.
LEMMA ChrootTypes ==
  ASSUME TypeOK, PhaseInv, ChrootStep, UNCHANGED runVars
  PROVE  TypeOK'
<1> USE CleanupAssumption, RepoFiles DEF TypeOK
<1>0. VerdictType' /\ DiskType'
  BY DEF runVars, workVars, verdictVars, diskVars, imageVars, VerdictType, DiskType
<1>1. ASSUME NEW how \in Endings, BuildTarball(how) PROVE TypeOK'
  BY <1>0, <1>1, ContextTypes
     DEF BuildTarball, Command, Endings, PC, coordinatorVars, confVars, ContextType, ChrootType,
         MountType
<1>2. ASSUME NEW how \in Endings, Extract(how) PROVE TypeOK'
  BY <1>0, <1>2, ContextTypes
     DEF Extract, Command, Endings, PC, coordinatorVars, ConfFiles, ContextType, ChrootType,
         MountType
<1>3. ASSUME NEW how \in Endings, MountChrootSysfs(how) PROVE TypeOK'
  BY <1>0, <1>3, ContextTypes
     DEF MountChrootSysfs, Command, Endings, PC, Labels, rootfsVars, confVars, Mounts,
         ContextType, ChrootType, MountType
<1>4. ASSUME NEW how \in Endings, BackUp(how) PROVE TypeOK'
  BY <1>0, <1>4, ContextTypes, ReachedBounds
     DEF BackUp, Command, PC, coordinatorVars, rootfsVars, Held, ContextType, ChrootType,
         MountType
<1>5. ASSUME NEW how \in Endings, Clear(how) \/ CopyLocal(how) PROVE TypeOK'
  BY <1>0, <1>5, ContextTypes, ReachedBounds
     DEF Clear, CopyLocal, Command, PC, coordinatorVars, rootfsVars, ConfFiles, ContextType,
         ChrootType, MountType
<1>6. ASSUME NEW how \in Endings,
             \/ InitChrootLocalRepo(how) \/ UmountChrootSysfs(how) \/ UmountSubPath(how)
      PROVE  TypeOK'
  <2>1. mounts' \subseteq mounts \cup {"sys", "repo", "rootsys"}
    BY <1>6, ReachedBounds DEF InitChrootLocalRepo, UmountChrootSysfs, UmountSubPath
  <2>2. ContextType' /\ ChrootType'
    BY ZenonT(40), <1>6, ContextTypes
       DEF InitChrootLocalRepo, UmountChrootSysfs, UmountSubPath, Command, PC,
           coordinatorVars, rootfsVars, confVars, ContextType, ChrootType
  <2>3. QED
    BY <1>0, <2>1, <2>2, MountTypes
<1>7. ASSUME NEW how \in Endings, StopGPGComponents(how) PROVE TypeOK'
  BY <1>0, <1>7, ContextTypes
     DEF StopGPGComponents, Command, PC, coordinatorVars, rootfsVars, confVars, ContextType,
         ChrootType, MountType
<1>8. ASSUME NEW how \in Endings,
             RemoveLocal(how) \/ CopyBack(how) \/ DropBackup(how)
      PROVE  TypeOK'
  <2>1. ContextType' /\ MountType'
    BY <1>8, ContextTypes
       DEF RemoveLocal, CopyBack, DropBackup, Command, PC, coordinatorVars, ContextType,
           MountType
  <2>2. CASE RemoveLocal(how)
    BY <1>0, <2>1, <2>2, ReachedBounds DEF RemoveLocal, rootfsVars, ChrootType
  <2>3. CASE CopyBack(how)
    <3>1. backup \subseteq ConfFiles
      BY <2>3 DEF CopyBack, Command, PhaseInv, ChrootType
    <3>2. QED
      BY <1>0, <2>1, <2>3, <3>1, ReachedBounds DEF CopyBack, rootfsVars, ChrootType
  <2>4. CASE DropBackup(how)
    <3>1. backup \subseteq ConfFiles
      BY <2>4 DEF DropBackup, Command, PhaseInv, ChrootType
    <3>2. backup' = NoBackup \/ backup' \subseteq backup
      BY <2>4, ReachedBounds DEF DropBackup
    <3>3. QED
      BY <1>0, <2>1, <2>4, <3>1, <3>2 DEF DropBackup, rootfsVars, ChrootType
  <2>5. QED
    BY <1>8, <2>2, <2>3, <2>4
<1>9. CASE ReuseRoot \/ NothingToBackUp \/ NoGPG \/ NothingToRestore
  <2>1. ContextType' /\ MountType'
    BY <1>9
       DEF ReuseRoot, NothingToBackUp, NoGPG, NothingToRestore, Goto, PC, contextVars,
           coordinatorVars, chrootVars, ContextType, MountType
  <2>2. Held(backup) \subseteq ConfFiles
    BY DEF Held, ChrootType
  <2>3. ChrootType'
    BY <1>9, <2>2
       DEF ReuseRoot, NothingToBackUp, NoGPG, NothingToRestore, chrootVars, rootfsVars,
           confVars, ChrootType
  <2>4. QED
    BY <1>0, <2>1, <2>3
<1>10. QED
  BY <1>1, <1>2, <1>3, <1>4, <1>5, <1>6, <1>7, <1>8, <1>9
     DEF ChrootStep, InitChrootEnv, CleanupChrootEnv

LEMMA LetGoTypes == ASSUME DiskType, NEW D \in SUBSET Devices, LetGo(D)
                    PROVE  /\ loops' \in [Devices -> {"free", "image", "final", "deleted"}]
                           /\ lazy' \subseteq Devices
  BY DEF DiskType, LetGo

LEMMA ImageTypes ==
  ASSUME TypeOK, LoopInv, NEW how \in Endings, ImageStep(how)
  PROVE  TypeOK'
<1> USE DEF TypeOK
<1>1. pc' \in PC /\ UNCHANGED lateVars
  BY ImageWork DEF Work, Working, PC
<1>2. Shell(how)
  BY DEF ImageStep, NewRawMaker, CreateRawFile, DetachStaleLoopDevices, LoopSetupCreate,
         DiskPartitionsCreate, LoopSetupDelete, MountDiskToChroot, InstallPackages,
         UmountForFDE, ReencryptPartitionInPlace, RemountForFDE, SealImage,
         UmountDiskFromChroot, CloseLuks, RemoveImage, RenameImageFile, ConvertImageFile,
         RemoveFinal, Stage, Command
<1>3. failed' \in BOOLEAN
  BY DEF ImageStep, NewRawMaker, CreateRawFile, DetachStaleLoopDevices, LoopSetupCreate,
         DiskPartitionsCreate, LoopSetupDelete, MountDiskToChroot, InstallPackages,
         UmountForFDE, ReencryptPartitionInPlace, RemountForFDE, SealImage,
         UmountDiskFromChroot, CloseLuks, RemoveImage, RenameImageFile, ConvertImageFile,
         RemoveFinal, Stage, verdictVars, VerdictType
<1>4. entries' \subseteq Labels
  BY DEF ImageStep, NewRawMaker, CreateRawFile, DetachStaleLoopDevices, LoopSetupCreate,
         DiskPartitionsCreate, LoopSetupDelete, MountDiskToChroot, InstallPackages,
         UmountForFDE, ReencryptPartitionInPlace, RemountForFDE, SealImage,
         UmountDiskFromChroot, CloseLuks, RemoveImage, RenameImageFile, ConvertImageFile,
         RemoveFinal, coordinatorVars, ContextType, Register, Labels
<1>5. ContextType' /\ VerdictType'
  BY <1>1, <1>2, <1>3, <1>4, ContextTypes DEF lateVars, ContextType, VerdictType
<1>6. ChrootType'
  BY DEF ImageStep, NewRawMaker, CreateRawFile, DetachStaleLoopDevices, LoopSetupCreate,
         DiskPartitionsCreate, LoopSetupDelete, MountDiskToChroot, InstallPackages,
         UmountForFDE, ReencryptPartitionInPlace, RemountForFDE, SealImage,
         UmountDiskFromChroot, CloseLuks, RemoveImage, RenameImageFile, ConvertImageFile,
         RemoveFinal, chrootVars, chrootButMounts, rootfsVars, confVars, ChrootType
<1>7. pc \in Holding => dev \in Devices
  BY DevIsDevice DEF LoopInv, DeviceKnown
<1>8. MountType'
  <2>1. CASE MountDiskToChroot(how) \/ RemountForFDE(how)
    <3>1. MountDiskLeaves(how) /\ dev \in Devices
      BY <1>7, <2>1 DEF MountDiskToChroot, RemountForFDE, Stage, Command, Holding
    <3>2. mounts' \subseteq WithDisk \cup mounts
      BY <3>1 DEF MountDiskLeaves, Endings, WithDisk
    <3>3. QED
      BY <3>1, <3>2, CleanupAssumption DEF MountType, WithDisk, Mounts
  <2>2. CASE UmountForFDE(how) \/ UmountDiskFromChroot(how)
    <3>1. mounts' \subseteq mounts
      BY <2>2, ReachedBounds DEF UmountForFDE, UmountDiskFromChroot
    <3>2. QED
      BY <3>1, MountTypes
  <2>3. CASE UNCHANGED mounts
    BY <2>3 DEF MountType
  <2>4. QED
    BY <2>1, <2>2, <2>3
       DEF ImageStep, NewRawMaker, CreateRawFile, DetachStaleLoopDevices, LoopSetupCreate,
           DiskPartitionsCreate, LoopSetupDelete, InstallPackages, ReencryptPartitionInPlace,
           SealImage, CloseLuks, RemoveImage, RenameImageFile, ConvertImageFile, RemoveFinal,
           chrootVars
<1>9. DiskType'
  <2>1. CASE DetachStaleLoopDevices(how)
    <3>1. PICK D \in SUBSET Stale : LetGo(D)
      BY <2>1 DEF DetachStaleLoopDevices
    <3>2. QED
      BY <2>1, <3>1, LetGoTypes DEF DetachStaleLoopDevices, Stale, imageVars, DiskType
  <2>2. CASE LoopSetupCreate(how)
    BY <2>2 DEF LoopSetupCreate, Bound, imageVars, DiskType
  <2>3. CASE LoopSetupDelete(how)
    BY <1>7, <2>3, LetGoTypes DEF LoopSetupDelete, Holding, imageVars, DiskType
  <2>4. CASE ReencryptPartitionInPlace(how) \/ RemountForFDE(how) \/ CloseLuks(how)
    BY <2>4 DEF ReencryptPartitionInPlace, RemountForFDE, CloseLuks, imageVars, DiskType
  <2>5. CASE RemoveImage(how) \/ RenameImageFile(how)
    BY <2>5 DEF RemoveImage, RenameImageFile, DiskType
  <2>6. CASE CreateRawFile(how) \/ RemoveFinal(how)
    BY <2>6 DEF CreateRawFile, RemoveFinal, diskVars, DiskType
  <2>7. CASE UNCHANGED <<diskVars, imageVars>>
    BY <2>7 DEF diskVars, imageVars, DiskType
  <2>8. QED
    BY <2>1, <2>2, <2>3, <2>4, <2>5, <2>6, <2>7
       DEF ImageStep, NewRawMaker, DiskPartitionsCreate, MountDiskToChroot, InstallPackages,
           UmountForFDE, SealImage, UmountDiskFromChroot, ConvertImageFile
<1>10. QED
  BY <1>5, <1>6, <1>8, <1>9

\* What a step leaves alone keeps its type.
LEMMA SameTypes ==
  ASSUME TypeOK
  PROVE  /\ UNCHANGED <<pc, contextVars, coordinatorVars>> => ContextType'
         /\ UNCHANGED <<rootfsVars, confVars, cleanupErr>> => ChrootType'
         /\ UNCHANGED mounts => MountType'
         /\ UNCHANGED <<workVars, verdictVars>> => VerdictType'
         /\ UNCHANGED <<diskVars, imageVars>> => DiskType'
  BY DEF TypeOK, ContextType, contextVars, coordinatorVars, ChrootType, rootfsVars, confVars,
         MountType, VerdictType, workVars, verdictVars, DiskType, diskVars, imageVars

LEMMA EndTypes ==
  ASSUME TypeOK, PhaseInv, LoopInv, Ends
  PROVE  TypeOK'
<1>1. CASE Killed \/ NextRun
  <2>1. ContextType'
    BY <1>1 DEF Killed, NextRun, Forget, ContextForget, ContextType, PC, Ended, Labels
  <2>2. ChrootType' /\ MountType'
    BY <1>1 DEF Killed, NextRun, Forget, confVars, TypeOK, ChrootType, MountType
  <2>3. VerdictType'
    <3>1. run' \in 1..Runs
      BY <1>1, CleanupAssumption DEF Killed, NextRun, TypeOK, VerdictType
    <3>2. QED
      BY <1>1, <3>1 DEF Killed, NextRun, Forget, TypeOK, VerdictType
  <2>4. DiskType'
    BY <1>1 DEF Killed, NextRun, Forget, imageVars, TypeOK, DiskType
  <2>5. QED
    BY <2>1, <2>2, <2>3, <2>4 DEF TypeOK
<1>2. CASE ~(Killed \/ NextRun)
  <2>1. pc' \in PC
    BY <1>2 DEF Ends, LoadFails, NoProvider, PostProcess, PostReturned, Return, NoBackstop, Backstop,
         ReapChroot, BackstopReturned, Leave, PreserveOutput, ReapLoop, Goto, Command, PC, Ended
  <2>2. \/ UNCHANGED contextVars \/ Bind("build") \/ Bind("cleanup")
        \/ \E how \in Endings : Shell(how)
    BY <1>2 DEF Ends, LoadFails, NoProvider, PostProcess, PostReturned, Return, NoBackstop, Backstop,
         ReapChroot, BackstopReturned, Leave, PreserveOutput, ReapLoop, Goto, Command
  <2>3. entries' \subseteq entries /\ fired' \in BOOLEAN
    BY <1>2 DEF Ends, LoadFails, NoProvider, PostProcess, PostReturned, Return, NoBackstop, Backstop,
         ReapChroot, BackstopReturned, Leave, PreserveOutput, ReapLoop, coordinatorVars, runVars, TypeOK, ContextType
  <2>4. ContextType'
    BY <2>1, <2>2, <2>3, ContextTypes DEF TypeOK, ContextType, contextVars
  <2>5. UNCHANGED <<rootfsVars, confVars, mounts>> /\ cleanupErr' \in BOOLEAN
    BY <1>2 DEF Ends, LoadFails, NoProvider, PostProcess, PostReturned, Return, NoBackstop, Backstop,
         ReapChroot, BackstopReturned, Leave, PreserveOutput, ReapLoop, chrootVars, TypeOK, ChrootType
  <2>6. ChrootType' /\ MountType'
    BY <2>5, SameTypes DEF TypeOK, ChrootType, rootfsVars, confVars
  <2>7. VerdictType'
    <3>1. CASE LoadFails \/ NoProvider \/ PostProcess \/ PostReturned \/ Return
      BY <3>1
         DEF LoadFails, NoProvider, PostProcess, PostReturned, Return, workVars,
             otherVerdicts, TypeOK, VerdictType
    <3>2. CASE NoBackstop \/ Backstop \/ ReapChroot \/ BackstopReturned \/ Leave
      BY <3>2
         DEF NoBackstop, Backstop, ReapChroot, BackstopReturned, Leave, runVars, workVars,
             verdictVars, Labels, TypeOK, VerdictType
    <3>3. ASSUME NEW how \in Endings, PreserveOutput(how) PROVE VerdictType'
      <4>1. exit' \in {"none", "ok", "error", "cancelled"}
        BY <3>3 DEF PreserveOutput, Endings
      <4>2. out' \in BOOLEAN /\ keep' \in BOOLEAN
        BY <3>3 DEF PreserveOutput
      <4>3. UNCHANGED <<nocache, ws, run, failed, post, residual, phase>>
        BY <3>3 DEF PreserveOutput
      <4>4. QED
        BY <4>1, <4>2, <4>3 DEF TypeOK, VerdictType
    <3>4. ASSUME NEW how \in Endings, ReapLoop(how) PROVE VerdictType'
      <4>1. residual' \subseteq Labels
        BY <3>4 DEF ReapLoop, Labels, TypeOK, VerdictType
      <4>2. UNCHANGED <<workVars, failed, exit, post, phase>>
        BY <3>4 DEF ReapLoop
      <4>3. QED
        BY <4>1, <4>2 DEF workVars, TypeOK, VerdictType
    <3>5. QED
      BY <1>2, <3>1, <3>2, <3>3, <3>4 DEF Ends
  <2>8. DiskType'
    <3>1. ASSUME NEW how \in Endings, ReapLoop(how) PROVE DiskType'
      <4>1. dev \in Devices
        BY <3>1, DevIsDevice DEF ReapLoop, Command, LoopInv, DeviceKnown
      <4>2. QED
        BY <3>1, <4>1, LetGoTypes DEF ReapLoop, imageVars, TypeOK, DiskType
    <3>2. CASE Leave
      BY <3>2 DEF Leave, TypeOK, DiskType
    <3>3. CASE UNCHANGED <<diskVars, imageVars>>
      BY <3>3, SameTypes
    <3>4. QED
      BY <1>2, <3>1, <3>2, <3>3
         DEF Ends, LoadFails, NoProvider, PostProcess, PostReturned, Return, NoBackstop,
             Backstop, ReapChroot, BackstopReturned, PreserveOutput, runVars
  <2>9. QED
    BY <2>4, <2>6, <2>7, <2>8 DEF TypeOK
<1>3. QED
  BY <1>1, <1>2

LEMMA TypeStep == TypeOK /\ PhaseInv /\ LoopInv /\ [Next]_vars => TypeOK'
<1> SUFFICES ASSUME TypeOK, PhaseInv, LoopInv, [Next]_vars PROVE TypeOK'
  OBVIOUS
<1>1. CASE Loaded \/ BuildErr \/ NoLuks \/ NothingToRemove \/ \E how \in Endings : PreProcess(how)
  <2>1. pc' \in PC /\ UNCHANGED <<workVars, otherVerdicts>>
    BY <1>1, OtherWork
       DEF Work, Working, PC, lateVars, workVars, otherVerdicts
  <2>2. UNCHANGED <<coordinatorVars, chrootVars, diskVars, imageVars>> /\ failed' \in BOOLEAN
    BY <1>1
       DEF Loaded, BuildErr, NoLuks, NothingToRemove, PreProcess, Stage, runVars,
           verdictVars, TypeOK, VerdictType
  <2>3. UNCHANGED contextVars \/ \E how \in Endings : Shell(how)
    BY <1>1
       DEF Loaded, BuildErr, NoLuks, NothingToRemove, PreProcess, Stage, Command, Goto
  <2>4. ContextType'
    BY <2>1, <2>2, <2>3, ContextTypes
       DEF TypeOK, ContextType, contextVars, coordinatorVars
  <2>5. VerdictType'
    BY <2>1, <2>2 DEF TypeOK, VerdictType, workVars, otherVerdicts
  <2>6. QED
    BY <2>2, <2>4, <2>5, SameTypes DEF TypeOK, chrootVars
<1>2. CASE SignalArrives /\ UNCHANGED <<coordinatorVars, chrootVars, runVars>>
  <2>1. ContextType'
    BY <1>2 DEF SignalArrives, coordinatorVars, TypeOK, ContextType
  <2>2. QED
    BY <1>2, <2>1, SameTypes DEF TypeOK, chrootVars, runVars
<1>3. CASE UNCHANGED vars
  BY <1>3, SameTypes DEF vars, envVars, chrootVars, runVars, TypeOK
<1>4. QED
  BY <1>1, <1>2, <1>3, ChrootTypes, ImageTypes, EndTypes DEF Next, BuildStep, Ends

-----------------------------------------------------------------------------
(* The theorems *)

LEMMA InvInit == Init => CleanupInv
<1> SUFFICES ASSUME Init PROVE CleanupInv
  OBVIOUS
<1> USE CleanupAssumption DEF Init, ContextInit, ChrootInit
<1>1. TypeOK
  <2>1. ContextType /\ ChrootType /\ MountType
    BY DEF ContextType, ChrootType, MountType, PC, NoBackup
  <2>2. run \in 1..Runs
    OBVIOUS
  <2>3. VerdictType
    BY <2>2 DEF VerdictType
  <2>4. DiskType
    BY DEF DiskType
  <2>5. QED
    BY <2>1, <2>3, <2>4 DEF TypeOK
<1>2. PhaseInv /\ MountsInv /\ WorkspaceInv
  BY DEF PhaseInv, MountsInv, WorkspaceInv, Cleaning, Unmounted, Over, Leaving, Backstopping
<1>3. ProductInv /\ PostInv /\ LoopInv
  BY DEF ProductInv, PostInv, LoopInv, DeviceKnown, Accounted, Cleaning, Over, Leaving,
         Backstopping, Holding
<1>4. QED
  BY <1>1, <1>2, <1>3 DEF CleanupInv

LEMMA InvStep == CleanupInv /\ [Next]_vars => CleanupInv'
  BY TypeStep, PhaseStep, MountsStep, WorkspaceStep, ProductStep, PostStep, LoopStep
     DEF CleanupInv

THEOREM Invariant == Spec => []CleanupInv
  BY InvInit, InvStep, PTL DEF Spec

\* Type correctness.
THEOREM TypeCorrect == Spec => []TypeOK
<1>1. CleanupInv => TypeOK
  BY DEF CleanupInv
<1>2. QED
  BY <1>1, Invariant, PTL

\* An isolated workspace is removed only when nothing is mounted under it: what
\* resisted CleanupChrootEnv made it report an error, and that keeps the workspace.
THEOREM NothingMountedIsRemoved == Spec => []RemovedOverNothing
<1>1. CleanupInv => RemovedOverNothing
  BY DEF CleanupInv, WorkspaceInv, RemovedOverNothing
<1>2. QED
  BY <1>1, Invariant, PTL

\* The image of a build that did not fail and was not cancelled is there at the end.
THEOREM ImageSurvives == Spec => []FinishedImageSurvives
<1>1. CleanupInv => FinishedImageSurvives
  BY DEF CleanupInv, ProductInv, FinishedImageSurvives, Returned
<1>2. QED
  BY <1>1, Invariant, PTL

\* What a build that returned left mounted is in its error, and the device it had
\* registered is detached, reported, or held by something that is.
THEOREM LeftIsReported == Spec => []ReapedOrReported
<1>1. CleanupInv => ReapedOrReported
  <2> SUFFICES ASSUME CleanupInv, Returned PROVE ReapedOrReported
    BY DEF ReapedOrReported
  <2>1. TypeOK /\ PhaseInv /\ PostInv /\ LoopInv /\ pc = "exited"
    BY DEF CleanupInv, Returned
  <2>2. Posted /\ mounts # {} => post = "error" /\ exit # "ok"
    BY <2>1 DEF PostInv, Posted
  <2>3. ASSUME fired, dev # NoDev, Attached(dev), "loop" \notin residual, mapper # dev
        PROVE  post = "error"
    <3>1. "loop" \notin entries
      BY <2>1, <2>3 DEF PhaseInv, LoopInv
    <3>2. dev \in lazy
      BY <2>1, <2>3, <3>1 DEF LoopInv, Accounted, Attached
    <3>3. dev \in mounts
      BY <2>3, <3>2 DEF Attached, Busy
    <3>4. post # "none"
      BY <2>1, <2>3 DEF LoopInv, Over, Leaving
    <3>5. QED
      BY <2>1, <3>3, <3>4 DEF PostInv
  <2>4. QED
    BY <2>2, <2>3 DEF ReapedOrReported
<1>2. QED
  BY <1>1, Invariant, PTL
=============================================================================
