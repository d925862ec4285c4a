----------------------------- MODULE OverlayProofs -----------------------------
(***************************************************************************)
(* Proofs about OverlayBuild: type correctness, that the copy of the       *)
(* baseline outlives the device and the mounts of the build, that what is  *)
(* moved to the output directory is released, and that the output          *)
(* directory keeps the promise of ArtifactPromise.                         *)
(*                                                                         *)
(* Proofs about OverlayRoot, for any worlds: that what is done to the root *)
(* is what the policy of OverlayPlan let through, that unmet dependencies  *)
(* come from allowed upgrades, that a changed image can boot, and that a   *)
(* resize neither exceeds what was asked nor loses a layer.                *)
(***************************************************************************)
EXTENDS OverlayBuild, OverlayRoot, TLAPS, FiniteSetTheorems

-----------------------------------------------------------------------------
(* The inductive invariant *)

\* Where the build is: before the Builder has the device, and before the layout
\* is mounted.
Acquiring == {"load", "acquire", "convertin", "attach", "partitions", "unattach"}
Mounting == {"probe", "mountroot", "mountesp", "rollback"}
Cleaning == {"umount", "detach"}

\* What the Builder holds at each place.  On the way to the emit nothing has
\* failed, so it holds both the device and the mount of the root.
Holds ==
  /\ pc \in Acquiring => ~loop /\ teardown = NoTeardown
  /\ pc \in Mounting => loop /\ teardown = NoTeardown
  /\ pc = "plan" \/ (pc \in {"build", "post", "sbom"} /\ ~failed) =>
       loop /\ teardown # NoTeardown /\ "root" \in teardown
  /\ pc = "umount" /\ phase = "emit" => loop /\ teardown # NoTeardown /\ "root" \in teardown
  /\ pc = "detach" /\ phase = "emit" => loop
  /\ pc = "detach" /\ ~cerr => teardown = NoTeardown
  /\ pc \in {"emit", "inspect", "convert"} => ~loop /\ teardown = NoTeardown

\* Nothing but the first attempt of Postprocess leads to the emit.
Phases ==
  /\ phase = "unwind" => pc \notin {"finish", "return"}
  /\ pc \in {"emit", "inspect", "convert"} => phase = "emit"
  /\ phase = "emit" => pc \in Cleaning \cup {"emit", "inspect", "convert"} /\ ~failed /\ ~perr
  /\ pc \in Acquiring \cup Mounting \cup {"plan", "build", "post", "sbom"} => phase = "unwind"
  /\ pc \in (Acquiring \cup Mounting \cup {"plan", "sbom"}) \ {"unattach", "rollback"} => ~failed
  /\ pc \in {"unattach", "rollback"} => failed
  /\ pc \in Cleaning /\ phase = "unwind" => failed
  /\ phase = "unwind" => ~perr

\* The copy is there while somebody needs it.
Copied ==
  /\ pc \in {"attach", "partitions", "unattach"} => copy = run
  /\ loop \/ teardown # NoTeardown => copy = run

\* After a cleanup without error nothing of this build is mounted.
Unmounted ==
  /\ pc = "detach" /\ phase = "emit" /\ ~cerr => root = 0 /\ esp = 0
  /\ pc = "emit" => root = 0 /\ esp = 0 /\ run \notin loops

\* What was emitted, and that there is no way back from it.
Emission ==
  /\ \A k \in Kinds : out[k] <= run
  /\ ~emitted /\ pc # "killed" => \A k \in Kinds : out[k] # run
  /\ emitted => /\ ~failed /\ ~loop /\ teardown = NoTeardown
                /\ pc \in Cleaning => ~cerr \/ pc = "umount"
                /\ pc = "finish" => ~cerr
                /\ pc \in Cleaning \cup {"finish"} => phase = "deferred"
  /\ pc \in Acquiring \cup Mounting \cup {"plan", "build", "post", "sbom", "emit"} => ~emitted
  /\ phase = "emit" /\ pc \in Cleaning => ~emitted
  /\ pc \in {"inspect", "convert"} => emitted /\ ~perr

\* An image, its delta, and no description of another image.
WholeSet ==
  /\ out["delta"] = run /\ run \in {out["image"], out["formats"]}
  /\ \A k \in {"image", "complete", "report"} : out[k] \in {0, run}

\* The set that was emitted, as far as it is made.
EmittedSet ==
  /\ pc \in {"inspect", "convert"} =>
       out["image"] = run /\ out["delta"] = run /\ out["complete"] \in {0, run}
  /\ pc = "convert" => out["report"] \in {0, run}
  /\ pc \in Cleaning \cup {"finish"} /\ phase = "deferred" /\ ~failed /\ ~perr =>
       emitted /\ WholeSet
  /\ pc = "return" =>
       /\ post # "ok" \/ failed => \A k \in Kinds : out[k] # run
       /\ post = "ok" /\ ~failed => WholeSet
  /\ pc \notin {"backstop", "reaploop"} \cup Ended => exit = "none"

OverlayInv == Holds /\ Phases /\ Copied /\ Unmounted /\ Emission /\ EmittedSet

-----------------------------------------------------------------------------
(* Type correctness *)

LEMMA TypeInit == Init => TypeOK
<1> SUFFICES ASSUME Init PROVE TypeOK
  OBVIOUS
<1>1. HostType
  <2>1. 1 \in Builds /\ 0 \in 0..Runs
    BY OverlayAssumption DEF Builds
  <2>2. QED
    BY <2>1 DEF Init, HostType
<1>2. ContextType
  BY DEF Init, ContextInit, ContextType, PC
<1>3. BuilderType /\ VerdictType
  BY DEF Init, BuilderInit, BuilderType, VerdictType
<1>4. QED
  BY <1>1, <1>2, <1>3 DEF TypeOK

\* The files, devices, mounts and artifacts.
LEMMA HostTypeStep == TypeOK /\ [Next]_vars => HostType'
<1> SUFFICES ASSUME HostType, [Next]_vars PROVE HostType'
  BY DEF TypeOK
<1>a. 0 \in 0..Runs /\ run \in 0..Runs /\ Builds \subseteq 0..Runs
  BY OverlayAssumption DEF HostType, Builds
<1> USE <1>a DEF HostType, hostVars
<1>1. CASE CopyBaseline
  BY <1>1 DEF CopyBaseline, Goto
<1>2. CASE StageBaseline
  BY <1>2 DEF StageBaseline, Goto
<1>3. ASSUME NEW how \in Endings, ConvertBaseline(how) PROVE HostType'
  BY <1>3 DEF ConvertBaseline, Step, Command, Shell
<1>4. ASSUME NEW how \in Endings, Attach(how) PROVE HostType'
  BY <1>4 DEF Attach, Step, Command, Shell, Register, Detached, Attached
<1>5. ASSUME NEW how \in Endings, Unattach(how) PROVE HostType'
  BY <1>5 DEF Unattach, Command, Shell, LetGo
<1>6. ASSUME NEW how \in Endings, MountRoot(how) PROVE HostType'
  BY <1>6 DEF MountRoot, Step, Command, Shell, Over
<1>7. ASSUME NEW how \in Endings, MountESP(how) PROVE HostType'
  BY <1>7 DEF MountESP, Step, Command, Shell, Over
<1>8. ASSUME NEW how \in Endings, RollbackRoot(how) PROVE HostType'
  BY <1>8 DEF RollbackRoot, Command, Shell, Unmounts
<1>9. ASSUME NEW how \in Endings, UnmountLayout(how) PROVE HostType'
  BY <1>9 DEF UnmountLayout, Command, Shell, Unmounts
<1>10. ASSUME NEW how \in Endings, Detach(how) PROVE HostType'
  BY <1>10 DEF Detach, Shell, LetGo, AfterCleanup
<1>11. CASE EmitOverlayArtifact
  BY <1>11 DEF EmitOverlayArtifact, Emitted, MoveFails, SidecarFails, PostFails
<1>12. CASE InspectArtifact
  BY <1>12 DEF InspectArtifact, PostFails
<1>13. ASSUME NEW how \in Endings, ConvertArtifacts(how) PROVE HostType'
  <2>1. UNCHANGED hostVars
    BY <1>13 DEF ConvertArtifacts
  <2>2. out' \in {out, [out EXCEPT !["formats"] = run],
                   [out EXCEPT !["formats"] = run, !["image"] = 0]}
    BY <1>13 DEF ConvertArtifacts
  <2>3. out' \in [Kinds -> 0..Runs]
    BY <2>2
  <2>4. QED
    BY <2>1, <2>3
<1>14. CASE Finish
  BY <1>14 DEF Finish, Goto, Released
<1>15. ASSUME NEW how \in Endings, ReapLoop(how) PROVE HostType'
  BY <1>15 DEF ReapLoop, Command, Shell, LetGo
<1>16. CASE Killed
  BY <1>16 DEF Killed, Forget
<1>17. CASE NextRun
  BY <1>17, OverlayAssumption DEF NextRun, Forget, Builds
<1>18. CASE UNCHANGED <<hostVars, out>>
  BY <1>18
<1>19. QED
  BY <1>1, <1>2, <1>3, <1>4, <1>5, <1>6, <1>7, <1>8, <1>9, <1>10, <1>11, <1>12, <1>13, <1>14, <1>15, <1>16, <1>17, <1>18
     DEF Next, vars, NoBuilder, NewBuilder, Partitions, Probe, PlanOverlay, BuildStages, GenerateSBOM, NothingMounted, NothingAttached, PostProcess, Return, NoBackstop, Backstop

\* Where the process is and what its commands run under.
LEMMA ContextTypeStep == TypeOK /\ [Next]_vars => ContextType'
<1> SUFFICES ASSUME ContextType, [Next]_vars PROVE ContextType'
  BY DEF TypeOK
<1> USE DEF ContextType, contextVars, coordinatorVars, PC, Ended, Endings
<1>1. CASE NoBuilder
  BY <1>1 DEF NoBuilder, Goto
<1>2. CASE NewBuilder
  BY <1>2 DEF NewBuilder, Goto
<1>3. CASE CopyBaseline
  BY <1>3 DEF CopyBaseline, Goto
<1>4. CASE StageBaseline
  BY <1>4 DEF StageBaseline, Goto
<1>5. ASSUME NEW how \in Endings, ConvertBaseline(how) PROVE ContextType'
  BY <1>5 DEF ConvertBaseline, Step, Command, Shell
<1>6. ASSUME NEW how \in Endings, Attach(how) PROVE ContextType'
  BY <1>6 DEF Attach, Step, Command, Shell, Register, Detached, Attached
<1>7. ASSUME NEW how \in Endings, Partitions(how) PROVE ContextType'
  BY <1>7 DEF Partitions, Step, Command, Shell
<1>8. ASSUME NEW how \in Endings, Unattach(how) PROVE ContextType'
  BY <1>8 DEF Unattach, Command, Shell, LetGo
<1>9. ASSUME NEW how \in Endings, Probe(how) PROVE ContextType'
  BY <1>9 DEF Probe, Step, Command, Shell
<1>10. ASSUME NEW how \in Endings, MountRoot(how) PROVE ContextType'
  BY <1>10 DEF MountRoot, Step, Command, Shell, Over
<1>11. ASSUME NEW how \in Endings, MountESP(how) PROVE ContextType'
  BY <1>11 DEF MountESP, Step, Command, Shell, Over
<1>12. ASSUME NEW how \in Endings, RollbackRoot(how) PROVE ContextType'
  BY <1>12 DEF RollbackRoot, Command, Shell, Unmounts
<1>13. ASSUME NEW how \in Endings, PlanOverlay(how) PROVE ContextType'
  BY <1>13 DEF PlanOverlay, Step, Command, Shell
<1>14. ASSUME NEW how \in Endings, BuildStages(how) PROVE ContextType'
  BY <1>14 DEF BuildStages, Step, Command, Shell
<1>15. ASSUME NEW how \in Endings, UnmountLayout(how) PROVE ContextType'
  BY <1>15 DEF UnmountLayout, Command, Shell, Unmounts
<1>16. ASSUME NEW how \in Endings, Detach(how) PROVE ContextType'
  BY <1>16 DEF Detach, Shell, LetGo, AfterCleanup
<1>17. ASSUME NEW how \in Endings, GenerateSBOM(how) PROVE ContextType'
  BY <1>17 DEF GenerateSBOM, Shell, PostFails
<1>18. ASSUME NEW how \in Endings, ConvertArtifacts(how) PROVE ContextType'
  BY <1>18 DEF ConvertArtifacts, Shell, PostFails
<1>19. ASSUME NEW how \in Endings, ReapLoop(how) PROVE ContextType'
  BY <1>19 DEF ReapLoop, Command, Shell, LetGo
<1>20. CASE NothingMounted
  BY <1>20 DEF NothingMounted, Goto
<1>21. CASE NothingAttached
  BY <1>21 DEF NothingAttached, AfterCleanup
<1>22. CASE PostProcess
  BY <1>22 DEF PostProcess, Bind
<1>23. CASE EmitOverlayArtifact
  BY <1>23 DEF EmitOverlayArtifact, Emitted, MoveFails, SidecarFails, PostFails
<1>24. CASE InspectArtifact
  BY <1>24 DEF InspectArtifact, PostFails
<1>25. CASE Finish
  BY <1>25 DEF Finish, Goto, Released
<1>26. CASE Return
  BY <1>26 DEF Return, Bind
<1>27. CASE NoBackstop
  BY <1>27 DEF NoBackstop, Goto
<1>28. CASE Backstop
  BY <1>28 DEF Backstop, Bind
<1>29. CASE SignalArrives /\ UNCHANGED coordinatorVars
  BY <1>29 DEF SignalArrives
<1>30. CASE Killed
  BY <1>30 DEF Killed, Forget, ContextForget
<1>31. CASE NextRun
  BY <1>31 DEF NextRun, Forget, ContextForget
<1>32. CASE UNCHANGED <<pc, contextVars, coordinatorVars>>
  BY <1>32
<1>33. QED
  BY <1>1, <1>2, <1>3, <1>4, <1>5, <1>6, <1>7, <1>8, <1>9, <1>10, <1>11, <1>12, <1>13, <1>14, <1>15, <1>16, <1>17, <1>18, <1>19, <1>20, <1>21, <1>22, <1>23, <1>24, <1>25, <1>26, <1>27, <1>28, <1>29, <1>30, <1>31, <1>32
     DEF Next, vars

\* What the Builder holds.
LEMMA BuilderTypeStep == TypeOK /\ [Next]_vars => BuilderType'
<1> SUFFICES ASSUME BuilderType, [Next]_vars PROVE BuilderType'
  BY DEF TypeOK
<1> USE DEF BuilderType, builderVars
<1>1. ASSUME NEW how \in Endings, Partitions(how) PROVE BuilderType'
  BY <1>1 DEF Partitions, Step, Command, Shell
<1>2. ASSUME NEW how \in Endings, MountRoot(how) PROVE BuilderType'
  BY <1>2 DEF MountRoot, Step, Command, Shell, Over
<1>3. ASSUME NEW how \in Endings, MountESP(how) PROVE BuilderType'
  BY <1>3 DEF MountESP, Step, Command, Shell, Over
<1>4. ASSUME NEW how \in Endings, UnmountLayout(how) PROVE BuilderType'
  <2>1. /\ teardown \in {{"root"}, {"esp"}, {"root", "esp"}}
        /\ teardown' \in {NoTeardown, teardown} \cup ((SUBSET teardown) \ {{}})
    BY <1>4 DEF UnmountLayout
  <2>2. ASSUME NEW T \in SUBSET {"root", "esp"}, T # {}
        PROVE  T \in {{"root"}, {"esp"}, {"root", "esp"}}
    <3>1. CASE "root" \in T /\ "esp" \in T
      BY <3>1
    <3>2. CASE "root" \notin T
      BY <2>2, <3>2
    <3>3. CASE "esp" \notin T
      BY <2>2, <3>3
    <3>4. QED
      BY <3>1, <3>2, <3>3
  <2>3. teardown' \in {NoTeardown, {"root"}, {"esp"}, {"root", "esp"}}
    <3>1. CASE teardown' \in (SUBSET teardown) \ {{}}
      <4>1. teardown \subseteq {"root", "esp"}
        BY <2>1
      <4>2. teardown' \in SUBSET teardown /\ teardown' \notin {{}}
        BY <3>1
      <4>3. teardown' \subseteq {"root", "esp"} /\ teardown' # {}
        BY <4>1, <4>2
      <4>4. QED
        BY <2>2, <4>3
    <3>2. QED
      BY <2>1, <3>1
  <2>4. QED
    BY <1>4, <2>3 DEF UnmountLayout
<1>5. ASSUME NEW how \in Endings, Detach(how) PROVE BuilderType'
  BY <1>5 DEF Detach, Shell, LetGo, AfterCleanup
<1>6. ASSUME NEW how \in Endings, GenerateSBOM(how) PROVE BuilderType'
  BY <1>6 DEF GenerateSBOM, Shell, PostFails
<1>7. CASE EmitOverlayArtifact
  BY <1>7 DEF EmitOverlayArtifact, Emitted, MoveFails, SidecarFails, PostFails
<1>8. CASE Killed
  BY <1>8 DEF Killed, Forget, ContextForget
<1>9. CASE NextRun
  BY <1>9 DEF NextRun, Forget, ContextForget
<1>10. CASE UNCHANGED builderVars
  BY <1>10
<1>11. QED
  BY <1>1, <1>2, <1>3, <1>4, <1>5, <1>6, <1>7, <1>8, <1>9, <1>10
     DEF Next, vars, NoBuilder, NewBuilder, CopyBaseline, StageBaseline, ConvertBaseline, Attach, Unattach, Probe, RollbackRoot, PlanOverlay, BuildStages, ConvertArtifacts, ReapLoop, NothingMounted, NothingAttached, PostProcess, InspectArtifact, Finish, Return, NoBackstop, Backstop, SignalArrives

\* What went wrong so far, and what is reported.
LEMMA VerdictTypeStep == TypeOK /\ [Next]_vars => VerdictType'
<1> SUFFICES ASSUME VerdictType, [Next]_vars PROVE VerdictType'
  BY DEF TypeOK
<1> USE DEF VerdictType, verdictVars, otherVerdicts
<1>1. CASE NoBuilder
  BY <1>1 DEF NoBuilder, Goto
<1>2. CASE CopyBaseline
  BY <1>2 DEF CopyBaseline, Goto
<1>3. CASE StageBaseline
  BY <1>3 DEF StageBaseline, Goto
<1>4. ASSUME NEW how \in Endings, ConvertBaseline(how) PROVE VerdictType'
  BY <1>4 DEF ConvertBaseline, Step, Command, Shell
<1>5. ASSUME NEW how \in Endings, Attach(how) PROVE VerdictType'
  BY <1>5 DEF Attach, Step, Command, Shell, Register, Detached, Attached
<1>6. ASSUME NEW how \in Endings, Partitions(how) PROVE VerdictType'
  BY <1>6 DEF Partitions, Step, Command, Shell
<1>7. ASSUME NEW how \in Endings, Probe(how) PROVE VerdictType'
  BY <1>7 DEF Probe, Step, Command, Shell
<1>8. ASSUME NEW how \in Endings, MountRoot(how) PROVE VerdictType'
  BY <1>8 DEF MountRoot, Step, Command, Shell, Over
<1>9. ASSUME NEW how \in Endings, MountESP(how) PROVE VerdictType'
  BY <1>9 DEF MountESP, Step, Command, Shell, Over
<1>10. ASSUME NEW how \in Endings, PlanOverlay(how) PROVE VerdictType'
  BY <1>10 DEF PlanOverlay, Step, Command, Shell
<1>11. ASSUME NEW how \in Endings, BuildStages(how) PROVE VerdictType'
  BY <1>11 DEF BuildStages, Step, Command, Shell
<1>12. ASSUME NEW how \in Endings, UnmountLayout(how) PROVE VerdictType'
  BY <1>12 DEF UnmountLayout, Command, Shell, Unmounts
<1>13. CASE NothingMounted
  BY <1>13 DEF NothingMounted, Goto
<1>14. ASSUME NEW how \in Endings, Detach(how) PROVE VerdictType'
  BY <1>14 DEF Detach, Shell, LetGo, AfterCleanup
<1>15. CASE NothingAttached
  BY <1>15 DEF NothingAttached, AfterCleanup
<1>16. CASE PostProcess
  BY <1>16 DEF PostProcess, Bind
<1>17. ASSUME NEW how \in Endings, GenerateSBOM(how) PROVE VerdictType'
  BY <1>17 DEF GenerateSBOM, Shell, PostFails
<1>18. CASE EmitOverlayArtifact
  BY <1>18 DEF EmitOverlayArtifact, Emitted, MoveFails, SidecarFails, PostFails
<1>19. CASE InspectArtifact
  BY <1>19 DEF InspectArtifact, PostFails
<1>20. ASSUME NEW how \in Endings, ConvertArtifacts(how) PROVE VerdictType'
  BY <1>20 DEF ConvertArtifacts, Shell, PostFails
<1>21. CASE Finish
  BY <1>21 DEF Finish, Goto, Released
<1>22. CASE Return
  BY <1>22 DEF Return, Bind
<1>23. ASSUME NEW how \in Endings, ReapLoop(how) PROVE VerdictType'
  BY <1>23 DEF ReapLoop, Command, Shell, LetGo
<1>24. CASE Killed
  BY <1>24 DEF Killed, Forget, ContextForget
<1>25. CASE NextRun
  BY <1>25 DEF NextRun, Forget, ContextForget
<1>26. CASE UNCHANGED verdictVars
  BY <1>26
<1>27. QED
  BY <1>1, <1>2, <1>3, <1>4, <1>5, <1>6, <1>7, <1>8, <1>9, <1>10, <1>11, <1>12, <1>13, <1>14, <1>15, <1>16, <1>17, <1>18, <1>19, <1>20, <1>21, <1>22, <1>23, <1>24, <1>25, <1>26
     DEF Next, vars, NewBuilder, Unattach, RollbackRoot, NoBackstop, Backstop, SignalArrives

LEMMA TypeStep == TypeOK /\ [Next]_vars => TypeOK'
  BY HostTypeStep, ContextTypeStep, BuilderTypeStep, VerdictTypeStep DEF TypeOK

LEMMA OverlayStep == TypeOK /\ OverlayInv /\ [Next]_vars => OverlayInv'
<1> SUFFICES ASSUME TypeOK, OverlayInv, [Next]_vars PROVE OverlayInv'
  OBVIOUS
<1> USE OverlayAssumption DEF contextVars, coordinatorVars, hostVars, builderVars, verdictVars, otherVerdicts, Builds, Kinds, Ended, Endings, NoTeardown,
            TypeOK, HostType, ContextType, BuilderType, VerdictType, PC,
            OverlayInv, Holds, Phases, Copied, Unmounted, Emission, EmittedSet, WholeSet,
            Acquiring, Mounting, Cleaning
<1>1. CASE NoBuilder
  BY <1>1 DEF NoBuilder, Goto
<1>2. CASE NewBuilder
  BY <1>2 DEF NewBuilder, Goto
<1>3. CASE CopyBaseline
  BY <1>3 DEF CopyBaseline, Goto
<1>4. CASE StageBaseline
  BY <1>4 DEF StageBaseline, Goto
<1>5. ASSUME NEW how \in Endings, ConvertBaseline(how) PROVE OverlayInv'
  BY <1>5 DEF ConvertBaseline, Step, Command, Shell
<1>6. ASSUME NEW how \in Endings, Attach(how) PROVE OverlayInv'
  BY <1>6 DEF Attach, Step, Command, Shell, Register, Detached, Attached
<1>7. ASSUME NEW how \in Endings, Partitions(how) PROVE OverlayInv'
  BY <1>7 DEF Partitions, Step, Command, Shell
<1>8. ASSUME NEW how \in Endings, Unattach(how) PROVE OverlayInv'
  BY <1>8 DEF Unattach, Command, Shell, LetGo
<1>9. ASSUME NEW how \in Endings, Probe(how) PROVE OverlayInv'
  BY <1>9 DEF Probe, Step, Command, Shell
<1>10. ASSUME NEW how \in Endings, MountRoot(how) PROVE OverlayInv'
  BY <1>10 DEF MountRoot, Step, Command, Shell, Over
<1>11. ASSUME NEW how \in Endings, MountESP(how) PROVE OverlayInv'
  BY <1>11 DEF MountESP, Step, Command, Shell, Over
<1>12. ASSUME NEW how \in Endings, RollbackRoot(how) PROVE OverlayInv'
  BY <1>12 DEF RollbackRoot, Command, Shell, Unmounts
<1>13. ASSUME NEW how \in Endings, PlanOverlay(how) PROVE OverlayInv'
  BY <1>13 DEF PlanOverlay, Step, Command, Shell
<1>14. ASSUME NEW how \in Endings, BuildStages(how) PROVE OverlayInv'
  BY <1>14 DEF BuildStages, Step, Command, Shell
<1>15. ASSUME NEW how \in Endings, UnmountLayout(how) PROVE OverlayInv'
  BY <1>15 DEF UnmountLayout, Command, Shell, Unmounts
<1>16. ASSUME NEW how \in Endings, Detach(how) PROVE OverlayInv'
  <2> USE <1>16 DEF Detach, LetGo, AfterCleanup, Busy
  <2>1. Holds'
    OBVIOUS
  <2>2. Phases' /\ Copied'
    OBVIOUS
  <2>3. Unmounted'
    <3>1. SUFFICES ASSUME pc' = "emit" PROVE root = 0 /\ esp = 0 /\ run \notin loops'
      OBVIOUS
    <3>2. phase = "emit" /\ ~cerr /\ how = "ok"
      BY <3>1
    <3>3. root = 0 /\ esp = 0
      BY <3>2
    <3>4. loops' = loops \ {run}
      BY <3>2, <3>3
    <3>5. QED
      BY <3>3, <3>4
  <2>4. Emission'
    OBVIOUS
  <2>5. EmittedSet'
    OBVIOUS
  <2>6. QED
    BY <2>1, <2>2, <2>3, <2>4, <2>5
<1>17. ASSUME NEW how \in Endings, GenerateSBOM(how) PROVE OverlayInv'
  BY <1>17 DEF GenerateSBOM, Shell, PostFails
<1>18. ASSUME NEW how \in Endings, ConvertArtifacts(how) PROVE OverlayInv'
  BY <1>18 DEF ConvertArtifacts, Shell, PostFails
<1>19. ASSUME NEW how \in Endings, ReapLoop(how) PROVE OverlayInv'
  BY <1>19 DEF ReapLoop, Command, Shell, LetGo
<1>20. CASE NothingMounted
  BY <1>20 DEF NothingMounted, Goto
<1>21. CASE NothingAttached
  BY <1>21 DEF NothingAttached, AfterCleanup
<1>22. CASE PostProcess
  BY <1>22 DEF PostProcess, Bind
<1>23. CASE EmitOverlayArtifact
  <2> USE <1>23 DEF EmitOverlayArtifact
  <2>1. CASE Emitted
    <3> USE <2>1 DEF Emitted
    <3>1. /\ out'["image"] = run /\ out'["delta"] = run /\ out'["complete"] \in {0, run}
          /\ \A k \in Kinds : out'[k] \in {0, run, out[k]}
      OBVIOUS
    <3>2. Holds' /\ Phases' /\ Copied' /\ Unmounted'
      OBVIOUS
    <3>3. Emission'
      <4>1. \A k \in Kinds : out'[k] <= run'
        BY <3>1
      <4>2. pc' = "inspect" /\ emitted' /\ ~failed' /\ ~loop' /\ teardown' = NoTeardown /\ ~perr'
        OBVIOUS
      <4>3. QED
        BY <4>1, <4>2
    <3>4. EmittedSet'
      BY <3>1
    <3>5. QED
      BY <3>2, <3>3, <3>4
  <2>2. CASE MoveFails
    BY <2>2 DEF MoveFails, PostFails
  <2>3. CASE SidecarFails
    BY <2>3 DEF SidecarFails, PostFails
  <2>4. QED
    BY <2>1, <2>2, <2>3
<1>24. CASE InspectArtifact
  BY <1>24 DEF InspectArtifact, PostFails
<1>25. CASE Finish
  BY <1>25 DEF Finish, Goto, Released
<1>26. CASE Return
  BY <1>26 DEF Return, Bind
<1>27. CASE NoBackstop
  BY <1>27 DEF NoBackstop, Goto
<1>28. CASE Backstop
  BY <1>28 DEF Backstop, Bind
<1>29. CASE SignalArrives /\ UNCHANGED <<coordinatorVars, hostVars, out, builderVars, verdictVars>>
  BY <1>29 DEF SignalArrives
<1>30. CASE Killed
  BY <1>30 DEF Killed, Forget, ContextForget
<1>31. CASE NextRun
  BY <1>31 DEF NextRun, Forget, ContextForget
<1>32. CASE UNCHANGED vars
  BY <1>32 DEF vars
<1>33. QED
  BY <1>1, <1>2, <1>3, <1>4, <1>5, <1>6, <1>7, <1>8, <1>9, <1>10, <1>11, <1>12, <1>13, <1>14, <1>15, <1>16, <1>17, <1>18, <1>19, <1>20, <1>21, <1>22, <1>23, <1>24, <1>25, <1>26, <1>27, <1>28, <1>29, <1>30, <1>31, <1>32 DEF Next

LEMMA OverlayInvInit == Init => OverlayInv
  BY OverlayAssumption
     DEF Init, ContextInit, BuilderInit, OverlayInv, Holds, Phases, Copied, Unmounted,
         Emission, EmittedSet, Acquiring, Mounting, Cleaning, Ended

LEMMA OverlayInvariant == Spec => [](TypeOK /\ OverlayInv)
  BY TypeInit, TypeStep, OverlayInvInit, OverlayStep, PTL DEF Spec

-----------------------------------------------------------------------------
(* Theorems *)

\* The host and the process keep their types, whatever is cut, refused or killed
\* in the overlay lifecycle.
THEOREM TypeCorrect == Spec => []TypeOK
  BY OverlayInvariant, PTL

\* The copy of the baseline is never unlinked or moved away below a device or a
\* mount the Builder knows of, in any number of builds in one workspace.
THEOREM CopyOutlives == Spec => []CopyOutlivesItsUsers
<1>1. OverlayInv => CopyOutlivesItsUsers
  BY DEF OverlayInv, Copied, CopyOutlivesItsUsers
<1>2. QED
  BY <1>1, OverlayInvariant, PTL

\* Only the emit puts an image into the output directory.
LEMMA OutputWritten ==
  TypeOK /\ Next /\ run # 0 /\ out'["image"] = run /\ out["image"] # run => pc = "emit"
<1> SUFFICES ASSUME TypeOK, Next, run # 0, out'["image"] = run, out["image"] # run
             PROVE  pc = "emit"
  OBVIOUS
<1> USE DEF TypeOK, HostType, Kinds, hostVars
<1>1. CASE EmitOverlayArtifact
  BY <1>1 DEF EmitOverlayArtifact
<1>2. ~InspectArtifact
  BY DEF InspectArtifact
<1>3. ASSUME NEW how \in Endings PROVE ~ConvertArtifacts(how)
  BY DEF ConvertArtifacts
<1>4. ~Finish
  BY DEF Finish
<1>5. out' # out
  OBVIOUS
<1>6. QED
  BY <1>1, <1>2, <1>3, <1>4, <1>5
     DEF Next, NoBuilder, NewBuilder, CopyBaseline, StageBaseline, ConvertBaseline,
         Attach, Partitions, Unattach, Probe, MountRoot, MountESP, RollbackRoot,
         PlanOverlay, BuildStages, UnmountLayout, Detach, GenerateSBOM, ReapLoop,
         NothingMounted, NothingAttached, PostProcess, Return, NoBackstop, Backstop,
         Killed, NextRun, Forget

\* An image appears in the output directory only when neither a mount nor a loop
\* device still holds it.
THEOREM EmittedIsReleased == Spec => EmitsReleased
<1>1. TypeOK /\ OverlayInv /\ [Next]_vars =>
        [out'["image"] = run /\ out["image"] # run => root # run /\ esp # run /\ ~Attached(run)]_vars
  <2> SUFFICES ASSUME TypeOK, OverlayInv, Next, out'["image"] = run, out["image"] # run
               PROVE  root # run /\ esp # run /\ ~Attached(run)
    BY DEF vars
  <2>1. run # 0
    BY OverlayAssumption DEF TypeOK, HostType, Builds
  <2>2. pc = "emit"
    BY <2>1, OutputWritten
  <2>3. QED
    BY <2>1, <2>2 DEF OverlayInv, Unmounted, Attached
<1>2. QED
  BY <1>1, OverlayInvariant, PTL DEF Spec, EmitsReleased

-----------------------------------------------------------------------------
(* The refinement *)

LEMMA PromiseInit == Init => Promise!Init
  BY DEF Init, BuilderInit, ContextInit, Promise!Init, Kinds

\* A step that changes no artifact, no verdict and not the build it is of.
LEMMA PromiseStutter ==
  UNCHANGED <<out, run, exit>> /\ pc # "killed" /\ pc' # "killed" => UNCHANGED Promise!vars
  BY DEF Promise!vars

\* A step of the build at work: it writes its own artifacts and removes others.
LEMMA PromiseWork ==
  ASSUME TypeOK, exit = "none", exit' = exit, run' = run, pc # "killed", pc' # "killed",
         \A k \in Kinds : out'[k] \in {0, run, out[k]}
  PROVE  Promise!Work
<1>1. run # 0
  BY OverlayAssumption DEF TypeOK, HostType, Builds
<1>2. QED
  BY <1>1 DEF Promise!Work, Promise!Kinds, Kinds

\* The next build takes what is there for an earlier one's.
LEMMA PromiseRestart ==
  ASSUME TypeOK, exit' = "none", out' = out,
         \A k \in Kinds : out[k] # run' \/ pc' = "killed"
  PROVE  Promise!Restart
<1>1. run # 0
  BY OverlayAssumption DEF TypeOK, HostType, Builds
<1>2. QED
  BY <1>1 DEF Promise!Restart

\* Every step of the build is a step of ArtifactPromise, or none.
LEMMA PromiseStep ==
  TypeOK /\ OverlayInv /\ [Next]_vars => [Promise!Next]_(Promise!vars)
<1> SUFFICES ASSUME TypeOK, OverlayInv, [Next]_vars
             PROVE  [Promise!Next]_(Promise!vars)
  OBVIOUS
<1> USE DEF hostVars, verdictVars, otherVerdicts
<1>1. exit = "none" \/ pc \in {"backstop", "reaploop"} \cup Ended
  BY DEF OverlayInv, EmittedSet
<1>2. CASE EmitOverlayArtifact
  <2>1. /\ pc = "emit" /\ pc' # "killed" /\ exit' = exit /\ run' = run
        /\ \A k \in Kinds : out'[k] \in {0, run, out[k]}
    BY <1>2 DEF EmitOverlayArtifact, Emitted, MoveFails, SidecarFails, PostFails,
                TypeOK, HostType, Kinds
  <2>2. QED
    BY <1>1, <2>1, PromiseWork DEF Promise!Next, Ended
<1>3. CASE InspectArtifact
  <2>1. /\ pc = "inspect" /\ pc' # "killed" /\ exit' = exit /\ run' = run
        /\ \A k \in Kinds : out'[k] \in {0, run, out[k]}
    BY <1>3 DEF InspectArtifact, PostFails, TypeOK, HostType, Kinds
  <2>2. QED
    BY <1>1, <2>1, PromiseWork DEF Promise!Next, Ended
<1>4. ASSUME NEW how \in Endings, ConvertArtifacts(how)
      PROVE  [Promise!Next]_(Promise!vars)
  <2>1. /\ pc = "convert" /\ pc' # "killed" /\ exit' = exit /\ run' = run
    BY <1>4 DEF ConvertArtifacts, PostFails
  <2>2. \A k \in Kinds : out'[k] \in {0, run, out[k]}
    BY <1>4 DEF ConvertArtifacts, TypeOK, HostType, Kinds
  <2>3. QED
    BY <1>1, <2>1, <2>2, PromiseWork DEF Promise!Next, Ended
<1>5. CASE Finish
  <2>1. /\ pc = "finish" /\ pc' # "killed" /\ exit' = exit /\ run' = run
        /\ \A k \in Kinds : out'[k] \in {0, run, out[k]}
    BY <1>5 DEF Finish, Goto, TypeOK, HostType, Kinds
  <2>2. QED
    BY <1>1, <2>1, PromiseWork DEF Promise!Next, Ended
<1>6. CASE Return
  <2>1. /\ pc = "return" /\ pc' = "backstop" /\ exit = "none" /\ run' = run /\ out' = out
    BY <1>1, <1>6 DEF Return, Ended
  <2>2. /\ post # "ok" \/ failed => \A k \in Kinds : out[k] # run
        /\ post = "ok" /\ ~failed => WholeSet
    BY <2>1 DEF OverlayInv, EmittedSet
  <2>3. /\ exit' = "ok" => post = "ok" /\ ~failed
        /\ exit' = "error" => post # "ok" \/ failed
        /\ exit' \in {"ok", "error", "cancelled"}
    BY <1>6 DEF Return
  <2>4. WholeSet => Promise!Whole
    BY <2>1 DEF WholeSet, Promise!Whole, Kinds
  <2>5. Promise!Conclude
    BY <2>1, <2>2, <2>3, <2>4 DEF Promise!Conclude
  <2>6. QED
    BY <2>5 DEF Promise!Next
<1>7. CASE Killed
  BY <1>7, PromiseRestart DEF Killed, Forget, ContextForget, Promise!Next
<1>8. CASE NextRun
  <2>1. \A k \in Kinds : out[k] # run + 1
    BY DEF OverlayInv, Emission, TypeOK, HostType, Builds
  <2>2. QED
    BY <1>8, <2>1, PromiseRestart DEF NextRun, Forget, ContextForget, Promise!Next
<1>9. CASE \/ NoBuilder \/ NewBuilder \/ CopyBaseline \/ StageBaseline \/ NothingMounted
           \/ NothingAttached \/ PostProcess \/ NoBackstop \/ Backstop
           \/ SignalArrives /\ UNCHANGED <<coordinatorVars, hostVars, out, builderVars, verdictVars>>
  <2>1. UNCHANGED <<out, run, exit>> /\ pc # "killed" /\ pc' # "killed"
    BY <1>9 DEF NoBuilder, NewBuilder, CopyBaseline, StageBaseline, NothingMounted,
       NothingAttached, PostProcess, NoBackstop, Backstop, SignalArrives, Goto,
       AfterCleanup, Ended
  <2>2. QED
    BY <2>1, PromiseStutter
<1>10. ASSUME NEW how \in Endings,
              \/ ConvertBaseline(how) \/ Attach(how) \/ Partitions(how) \/ Unattach(how)
              \/ Probe(how) \/ MountRoot(how) \/ MountESP(how) \/ RollbackRoot(how)
              \/ PlanOverlay(how) \/ BuildStages(how) \/ UnmountLayout(how) \/ Detach(how)
              \/ GenerateSBOM(how) \/ ReapLoop(how)
       PROVE  [Promise!Next]_(Promise!vars)
  <2>1. UNCHANGED <<out, run, exit>> /\ pc # "killed" /\ pc' # "killed"
    BY <1>10 DEF ConvertBaseline, Attach, Partitions, Unattach, Probe, MountRoot,
       MountESP, RollbackRoot, PlanOverlay, BuildStages, UnmountLayout, Detach,
       GenerateSBOM, ReapLoop, Step, Command, AfterCleanup, PostFails
  <2>2. QED
    BY <2>1, PromiseStutter
<1>11. CASE UNCHANGED vars
  BY <1>11 DEF vars, Promise!vars
<1>12. QED
  BY <1>2, <1>3, <1>4, <1>5, <1>6, <1>7, <1>8, <1>9, <1>10, <1>11 DEF Next

\* The output directory keeps the promise of ArtifactPromise for any number of
\* builds, killed or cut wherever they are: a success is a whole set with nothing
\* stale beside it, and a failure leaves nothing of its own.
THEOREM PromiseKept == Spec => KeepsPromise
<1>1. Init /\ [][Next]_vars /\ [](TypeOK /\ OverlayInv) =>
        Promise!Init /\ [][Promise!Next]_(Promise!vars)
  BY PromiseInit, PromiseStep, PTL
<1>2. QED
  BY <1>1, OverlayInvariant, PTL DEF Spec, KeepsPromise, Promise!Spec

-----------------------------------------------------------------------------
(* What is done to the root file system *)

LEMMA InstallChanges ==
  ASSUME NEW x, NEW p \in Resolution(x).install, p \in Names(x.base)
  PROVE  Upgrading(x) /\ Newer(x, p)
  BY DEF Resolution, SinglePass, UpgradeEligible, Present, Names

LEMMA InstallInClosure ==
  ASSUME NEW x PROVE Resolution(x).install \subseteq Resolution(x).closure
  BY DEF Resolution, SinglePass, UpgradeEligible

LEMMA AbsentIsInstalled ==
  ASSUME NEW x PROVE Resolution(x).closure \ Present(x) \subseteq Resolution(x).install
  BY DEF Resolution, SinglePass

LEMMA UpgradeIsAction ==
  ASSUME NEW x, NEW p \in Resolution(x).install, p \in Names(x.base)
  PROVE  Action("upgrade", p, p) \in Actions(x, Resolution(x))
<1>1. Newer(x, p)
  BY InstallChanges
<1>2. x.repo[p] > x.base[p]
  BY <1>1 DEF Newer
<1>3. Action("upgrade", p, p) \in VersionActions(x, Resolution(x))
  BY <1>2 DEF VersionActions
<1> QED
  BY <1>3 DEF Actions

\* What preflight lets through.
LEMMA Unblocked ==
  ASSUME NEW x, Preflight(x).ok, NEW a \in Actions(x, Resolution(x))
  PROVE  ~Violates(x, Resolution(x), a)
  BY DEF Preflight, EvaluatePreflight

LEMMA PlanFields ==
  ASSUME NEW x
  PROVE  /\ Preflight(x).install = Resolution(x).install
         /\ Preflight(x).closure = Resolution(x).closure
         /\ Preflight(x).toRemove \subseteq Preflight(x).approved
  BY DEF Preflight, EvaluatePreflight

\* An image or a bootloader of the baseline is not upgraded, but by a kernel swap.
LEMMA BootPackagesStay ==
  ASSUME NEW x, Preflight(x).ok, NEW p \in Resolution(x).install, p \in Names(x.base)
  PROVE  p \notin Bootloaders /\ (p \in Images => Swapping(x))
<1> DEFINE a == Action("upgrade", p, p)
<1>1. ~Violates(x, Resolution(x), a)
  BY UpgradeIsAction, Unblocked
<1>2. a.type = "upgrade" /\ a.pkg = p
  BY DEF Action
<1> HIDE DEF a
<1> QED
  BY <1>1, <1>2 DEF Violates, PartOfSwap

\* A removal that preflight approved is one the policy permits.
LEMMA ApprovedIsAllowed ==
  ASSUME NEW x, Preflight(x).ok, NEW p \in Preflight(x).approved
  PROVE  /\ p \notin Bootloaders
         /\ "removal" \in x.allow \/ (Swapping(x) /\ p \in KernelFamily)
         /\ p \in Images => Swapping(x)
<1>1. PICK a \in Actions(x, Resolution(x)) :
        /\ a.type \in Removing /\ a.pkg = p
        /\ "removal" \in x.allow \/ PartOfSwap(x, Resolution(x), a)
  BY DEF Preflight, EvaluatePreflight
<1>2. ~Violates(x, Resolution(x), a)
  BY Unblocked
<1>3. a.type # "unsatisfied-dep" /\ a.type # "add" /\ a.type # "upgrade"
  BY <1>1 DEF Removing
<1>4. p \notin Bootloaders /\ (p \in Images => PartOfSwap(x, Resolution(x), a))
  BY <1>1, <1>2, <1>3 DEF Violates
<1>5. PartOfSwap(x, Resolution(x), a) => a.type = "swapped"
  BY <1>3 DEF PartOfSwap
<1>6. a.type = "swapped" => Swapping(x) /\ p \in KernelFamily
  <2> SUFFICES ASSUME a.type = "swapped" PROVE Swapping(x) /\ p \in KernelFamily
    OBVIOUS
  <2>1. a \in KernelRemovals(x, Resolution(x))
    BY <1>1 DEF Actions, VersionActions, ConflictActions, ResolvedByRemoval, UnsatisfiedDeps,
                Obsoletions, Action
  <2> QED
    BY <2>1, <1>1 DEF KernelRemovals, Action
<1> QED
  BY <1>1, <1>4, <1>5, <1>6

\* What rpm -U erases, preflight has seen where it could read the artifact.
LEMMA ObsoleteIsApproved ==
  ASSUME NEW x, Preflight(x).ok, x.family = "rpm",
         NEW o \in x.gone, o.pkg \in Resolution(x).install, o.pkg \notin x.unread,
         o.on \in Names(x.base), x.base[o.on] \in o.in
  PROVE  o.on \in Preflight(x).approved
<1> DEFINE a == Action("obsolete", o.on, o.pkg)
<1>1. o \in Readable(x, x.gone)
  BY DEF Readable
<1>2. a \in Actions(x, Resolution(x))
  BY <1>1 DEF Actions, Obsoletions
<1>3. a.type = "obsolete" /\ a.pkg = o.on
  BY DEF Action
<1> HIDE DEF a
<1>4. "removal" \in x.allow
  BY <1>2, <1>3, Unblocked DEF Violates, PartOfSwap, Removing
<1> QED
  BY <1>2, <1>3, <1>4 DEF Preflight, EvaluatePreflight, Removing

-----------------------------------------------------------------------------
LEMMA ImagesFinite ==
  ASSUME NEW x, NEW r PROVE IsFiniteSet(ReplacementImages(x, r))
<1>1. IsFiniteSet(Images)
  BY PlanAssumption, FS_Subset
<1>2. \A S : IsFiniteSet(S \cap Images) /\ IsFiniteSet(S \cap (Images \ Aliases))
             /\ IsFiniteSet(KernelImagesIn(S))
  BY <1>1, FS_Subset, PlanAssumption DEF KernelImagesIn
<1>3. \A e : IsFiniteSet({e})
  BY FS_Singleton
<1>4. IsFiniteSet({})
  BY FS_EmptySet
<1>5. \A S, T : (S \cap T) \cap Images = (S \cap T) \cap Images
  OBVIOUS
<1> QED
  BY <1>2, <1>3, <1>4 DEF ReplacementImages

\* A swap that is let through is for one image, and no other rides in with it.
LEMMA SwapHasOneImage ==
  ASSUME NEW x, Preflight(x).ok, Swapping(x)
  PROVE  \E k : /\ ReplacementImages(x, Resolution(x)) = {k}
                /\ \A q \in KernelImagesIn(Resolution(x).install \cup Resolution(x).closure) :
                     q = k \/ (k \in Names(x.repo) /\ SameKernelBuild(x, k, q))
<1> DEFINE images == ReplacementImages(x, Resolution(x))
<1>1. ~SwapInvalid(x, Resolution(x))
  BY DEF Preflight, EvaluatePreflight
<1>2. Cardinality(images) = 1
  BY <1>1 DEF SwapInvalid
<1>3. PICK k : images = {k}
  BY <1>2, ImagesFinite, FS_Singleton
<1> QED
  BY <1>1, <1>3 DEF SwapInvalid

\* The kernels of before that the new one does not bring are to be removed.
LEMMA SwapRemoves ==
  ASSUME NEW x, Preflight(x).ok, Swapping(x),
         NEW k, ReplacementImages(x, Resolution(x)) = {k},
         NEW p \in Names(x.base) \cap KernelFamily,
         p \notin Resolution(x).install, p \notin Resolution(x).closure, p # k
  PROVE  p \in Preflight(x).toRemove
<1> DEFINE a == Action("swapped", p, p)
<1>1. Cardinality({k}) = 1
  BY FS_Singleton
<1>2. a \in KernelRemovals(x, Resolution(x))
  BY <1>1 DEF KernelRemovals
<1>3. a \in Actions(x, Resolution(x))
  BY <1>2 DEF Actions
<1>4. a.type = "swapped" /\ a.pkg = p
  BY DEF Action
<1>5. PartOfSwap(x, Resolution(x), a)
  BY <1>4 DEF PartOfSwap
<1> HIDE DEF a
<1> QED
  BY <1>3, <1>4, <1>5 DEF Preflight, EvaluatePreflight, Removing

LEMMA RequestIsInClosure ==
  ASSUME NEW x, Upgrading(x)
  PROVE  Requested(x) \subseteq Resolution(x).closure
<1>1. Requested(x) \subseteq Asked(x)
  BY DEF Asked
<1>2. Asked(x) \subseteq Seed(x, Asked(x))
  BY DEF Seed
<1>3. \A S : S \subseteq Closure(x, S)
  BY DEF Closure, Fixpoint
<1> QED
  BY <1>1, <1>2, <1>3 DEF Resolution, SinglePass

\* The image a swap is for is in the baseline or comes with the install.
LEMMA SwapImageIsReal ==
  ASSUME NEW x \in Worlds, Preflight(x).ok, Swapping(x),
         NEW k, ReplacementImages(x, Resolution(x)) = {k},
         x.virtual \cap Images = {}, k \notin Aliases
  PROVE  k \in Images /\ k \in Resolution(x).install \cup Names(x.base)
<1> DEFINE r == Resolution(x)
           supplied == r.install \cup r.closure
           only == CHOOSE p \in x.swap.names : TRUE
<1>1. Upgrading(x)
  BY WorldsAssumption DEF Swapping, Upgrading
<1>2. ASSUME k \in r.closure, k \in Images
      PROVE  k \in r.install \cup Names(x.base)
  BY <1>2, AbsentIsInstalled DEF Present
<1>3. CASE k \in KernelImagesIn(supplied)
  <2>1. k \in supplied /\ k \in Images
    BY <1>3, PlanAssumption DEF KernelImagesIn
  <2> QED
    BY <2>1, <1>2, InstallInClosure
<1>4. CASE k \in x.swap.names \cap Names(x.base) \cap Images
  BY <1>4
<1>5. CASE k \in x.swap.names \cap supplied \cap (Images \ Aliases)
  BY <1>5, <1>2, InstallInClosure
<1>6. CASE ~x.swap.glob /\ k = only /\ only \in Images
  <2>1. x.swap.names # {}
    BY <1>6, WorldsAssumption DEF Swapping, NoSwap
  <2>2. only \in x.swap.names
    BY <2>1
  <2>3. only \in Requested(x)
    BY <1>6, <2>2 DEF Requested
  <2> QED
    BY <1>1, <1>2, <1>6, <2>3, RequestIsInClosure
<1> HIDE DEF r, supplied, only
<1> QED
  BY <1>3, <1>4, <1>5, <1>6 DEF ReplacementImages, r, supplied, only

\* No image that was approved for removal is one the new kernel brings.
LEMMA ApprovedImageIsOld ==
  ASSUME NEW x, Preflight(x).ok, NEW p \in Preflight(x).approved, p \in Images
  PROVE  p \notin Resolution(x).install \cup ReplacementImages(x, Resolution(x))
<1>1. PICK a \in Actions(x, Resolution(x)) :
        /\ a.type \in Removing /\ a.pkg = p
        /\ "removal" \in x.allow \/ PartOfSwap(x, Resolution(x), a)
  BY DEF Preflight, EvaluatePreflight
<1>2. ~Violates(x, Resolution(x), a)
  BY Unblocked
<1>3. a.type # "unsatisfied-dep" /\ a.type # "add" /\ a.type # "upgrade"
  BY <1>1 DEF Removing
<1>4. a.type = "swapped"
  BY <1>1, <1>2, <1>3 DEF Violates, PartOfSwap
<1>5. a \in KernelRemovals(x, Resolution(x))
  BY <1>1, <1>4 DEF Actions, VersionActions, ConflictActions, ResolvedByRemoval,
                    UnsatisfiedDeps, Obsoletions, Action
<1> QED
  BY <1>1, <1>5 DEF KernelRemovals, Action

-----------------------------------------------------------------------------
(* The invariant *)

Untouched == {"resize", "truncate", "losetup", "sgdisk", "growpart", "partx", "growfs",
              "install", "audit", "remove", "refused"}
Filled == {"cascade", "unmount", "users", "configure", "prefiles", "initramfs", "grub",
           "files", "done"}

PlanInv ==
  /\ w \in Worlds /\ plan = Preflight(w) /\ due \in Stages
  /\ due # "refused" => plan.ok

\* Where the packages of the root come from, and where those of the baseline went.
RootInv ==
  /\ \A p \in Names(installed) :
       \/ p \in plan.install /\ installed[p] = w.repo[p]
       \/ p \in Names(w.base) /\ installed[p] = w.base[p]
  /\ Names(w.base) \ Names(installed) \subseteq approved \cup ErasedUnread
  /\ plan.approved \subseteq approved
  /\ \A p \in approved \ plan.approved :
       "removal" \in w.allow /\ p \notin Bootloaders \cup Images \cup plan.install

StageInv ==
  /\ due \in Untouched => installed = w.base
  /\ due = "unpack" /\ plan.toRemove = {} => installed = w.base
  /\ due = "unpack" => \A p \in Names(installed) : p \in Names(w.base) \ plan.toRemove /\ installed[p] = w.base[p]
  /\ due \in Filled =>
       /\ \A p \in plan.install : p \in Names(installed) /\ installed[p] = w.repo[p]
       /\ Names(installed) \cap plan.toRemove \subseteq plan.install

\* What the audits know.
UnmetAreUpgrades ==
  \A d \in Audit(w, installed) \ Audit(w, w.base) :
    /\ plan.toRemove = {} /\ d.pkg \notin plan.install
    /\ \E i \in DOMAIN d.alts : Versioned(d.alts[i]) /\ d.alts[i].on \in plan.install \cap Names(w.base)

AuditInv ==
  /\ due \in {"audit", "remove", "cascade"} => plan.toRemove # {}
  /\ due \in {"remove", "unpack", "cascade"} /\ plan.toRemove # {} => broken = Audit(w, w.base)
  /\ due \in Filled \ {"cascade"} => UnmetAreUpgrades

\* What an initramfs should hold.
Content ==
  (w.ships \cap plan.install) \cup (IF w.prefile THEN {"file"} ELSE {})
                              \cup (IF w.modules THEN {"module"} ELSE {})

ContentInv ==
  /\ matter \ {"config"} \subseteq Content
  /\ due = "initramfs" /\ w.prefile => "file" \in matter
  /\ due \in {"grub", "files", "done"} => InitramfsHoldsContent

MenuInv ==
  /\ due \in Stages \ {"files", "done", "failed"} => menu = Kernels(w.base)
  /\ due \in {"files", "done"} => MenuListsKernels /\ (Swapping(w) => args)

\* Who has the new size already.
SizeInv ==
  /\ size \in [Layers -> Nat]
  /\ size.fs <= size.seen /\ size.seen <= size.part /\ size.part <= size.usable
  /\ size.usable <= size.loop /\ size.loop <= size.file
  /\ w.disk.cur <= size.file
  /\ size.file <= AtLeast(w.disk.cur, AtLeast(w.disk.size, w.disk.max))
  /\ due \in {"resize", "truncate"} => \A l \in Layers : size[l] = w.disk.cur
  /\ due = "truncate" => Target > w.disk.cur
  /\ due \in {"sgdisk", "growpart", "partx", "growfs"} => size.loop = size.file
  /\ due \in {"growpart", "partx", "growfs"} => size.usable = size.file
  /\ due \in {"partx", "growfs"} => size.part = size.file
  /\ due = "growfs" => size.seen = size.file
  /\ due = "install" => size.fs = size.file

RootChangeInv == PlanInv /\ RootInv /\ StageInv /\ AuditInv /\ ContentInv /\ MenuInv /\ SizeInv

-----------------------------------------------------------------------------
(* The plan *)

LEMMA PlanStep == PlanInv /\ [RootNext]_rootVars => PlanInv'
<1> SUFFICES ASSUME PlanInv, [RootNext]_rootVars PROVE PlanInv'
  OBVIOUS
<1> USE DEF PlanInv, Stages, RootGoto
<1>1. CASE ResizeBaseline
  BY <1>1 DEF ResizeBaseline, NothingToGrow, MayGrow, Grow, RefreshLoop
<1>2. CASE InstallOverlayPackages
  BY <1>2 DEF InstallOverlayPackages, SkipInstall, MountChroot, AuditBaseline, RemovePackages,
              InstallPackages, CascadeRemove, CascadeDone, Unmount
<1>3. CASE RunOverlayUsers \/ RunOverlayConfigurations \/ CopyPreInitramfsFiles
           \/ NoBootRegeneration \/ RegenerateBoot
  BY <1>3 DEF RunOverlayUsers, RunOverlayConfigurations, CopyPreInitramfsFiles,
              NoBootRegeneration, RegenerateBoot, Chrooted
<1>4. CASE NoGrubRegeneration \/ RegenerateGrub \/ CopyAdditionalFiles
  BY <1>4 DEF NoGrubRegeneration, RegenerateGrub, CopyAdditionalFiles, Chrooted
<1>5. CASE StageFails \/ UNCHANGED rootVars
  BY <1>5 DEF StageFails, rootVars, Working
<1> QED
  BY <1>1, <1>2, <1>3, <1>4, <1>5 DEF RootNext, Build

-----------------------------------------------------------------------------
(* The size *)

LEMMA TargetBound ==
  ASSUME w \in Worlds, Target > w.disk.cur
  PROVE  Target \in Nat /\ Target <= AtLeast(w.disk.cur, AtLeast(w.disk.size, w.disk.max))
<1> DEFINE s == w.disk.sum
<1>1. w.disk.cur \in Nat /\ w.disk.size \in Nat /\ w.disk.max \in Nat /\ w.disk.free \in Nat /\ s \in Nat
  BY WorldsAssumption
<1>2. Required(s) \in Int
  BY <1>1 DEF Required
<1> HIDE DEF s
<1> QED
  BY <1>1, <1>2 DEF Target, NoTarget, AtLeast, AtMost, s

LEMMA SizeKept ==
  ASSUME SizeInv, UNCHANGED <<w, plan, size>>,
         due' \in Stages \ {"resize", "truncate", "sgdisk", "growpart", "partx", "growfs"},
         due' = "install" => due = "install"
  PROVE  SizeInv'
  BY DEF SizeInv, Target, Stages

LEMMA SizeStep == PlanInv /\ SizeInv /\ [RootNext]_rootVars => SizeInv'
<1> SUFFICES ASSUME PlanInv, SizeInv, [RootNext]_rootVars PROVE SizeInv'
  OBVIOUS
<1> USE DEF RootGoto
<1>0. w \in Worlds
  BY DEF PlanInv
<1>1. CASE ResizeBaseline
  <2>0. Target' = Target /\ w' = w /\ plan' = plan
    BY <1>1 DEF ResizeBaseline, NothingToGrow, MayGrow, Grow, RefreshLoop, Target
  <2>1. CASE NothingToGrow
    BY <2>1, <2>0 DEF NothingToGrow, SizeInv, Layers
  <2>2. CASE MayGrow
    BY <2>2, <2>0 DEF MayGrow, SizeInv, Layers
  <2>3. CASE Grow("truncate", {"file"}, Target, "losetup")
    <3>1. Target > w.disk.cur /\ \A l \in Layers : size[l] = w.disk.cur
      BY <2>3 DEF Grow, SizeInv
    <3>2. Target \in Nat /\ Target <= AtLeast(w.disk.cur, AtLeast(w.disk.size, w.disk.max))
      BY <1>0, <3>1, TargetBound
    <3>3. size'.file = Target /\ \A l \in Layers \ {"file"} : size'[l] = w.disk.cur
      BY <2>3, <3>1 DEF Grow, Layers
    <3>4. size' \in [Layers -> Nat]
      BY <2>3, <3>2 DEF Grow, SizeInv
    <3>5. w.disk.cur \in Nat
      BY <1>0, WorldsAssumption
    <3> QED
      BY <2>3, <2>0, <3>1, <3>2, <3>3, <3>4, <3>5 DEF Grow, SizeInv, Layers
  <2>4. CASE RefreshLoop
    BY <2>4, <2>0 DEF RefreshLoop, Grow, SizeInv, Layers
  <2>5. CASE Grow("sgdisk", {"usable"}, size.loop, "growpart")
    BY <2>5, <2>0 DEF Grow, SizeInv, Layers
  <2>6. CASE Grow("growpart", {"part"}, size.usable, "partx")
    BY <2>6, <2>0 DEF Grow, SizeInv, Layers
  <2>7. CASE Grow("partx", {"seen"}, size.part, "growfs")
    BY <2>7, <2>0 DEF Grow, SizeInv, Layers
  <2>8. CASE Grow("growfs", {"fs"}, size.seen, "install")
    BY <2>8, <2>0 DEF Grow, SizeInv, Layers
  <2> QED
    BY <1>1, <2>1, <2>2, <2>3, <2>4, <2>5, <2>6, <2>7, <2>8 DEF ResizeBaseline
<1> USE DEF Stages
<1>2. CASE InstallOverlayPackages
  BY <1>2, SizeKept DEF InstallOverlayPackages, SkipInstall, MountChroot, AuditBaseline, RemovePackages,
              InstallPackages, CascadeRemove, CascadeDone, Unmount
<1>3. CASE RunOverlayUsers \/ RunOverlayConfigurations \/ CopyPreInitramfsFiles
           \/ NoBootRegeneration \/ RegenerateBoot
  BY <1>3, SizeKept DEF RunOverlayUsers, RunOverlayConfigurations, CopyPreInitramfsFiles,
              NoBootRegeneration, RegenerateBoot, Chrooted
<1>4. CASE NoGrubRegeneration \/ RegenerateGrub \/ CopyAdditionalFiles
  BY <1>4, SizeKept DEF NoGrubRegeneration, RegenerateGrub, CopyAdditionalFiles, Chrooted
<1>5. CASE StageFails
  BY <1>5, SizeKept DEF StageFails
<1>6. CASE UNCHANGED rootVars
  BY <1>6 DEF rootVars, SizeInv, Target
<1> QED
  BY <1>1, <1>2, <1>3, <1>4, <1>5, <1>6 DEF RootNext, Build

-----------------------------------------------------------------------------
(* The packages of the root *)

LEMMA ErasedUnreadStays ==
  ASSUME UNCHANGED <<w, plan>> PROVE ErasedUnread' = ErasedUnread
  BY DEF ErasedUnread, UpgradeMode

LEMMA RootKept ==
  ASSUME RootInv, StageInv, UNCHANGED <<w, plan, installed, approved>>,
         due' \in Untouched => due \in Untouched,
         due' = "unpack" => due \in Untouched /\ plan.toRemove = {},
         due' \in Filled => due \in Filled \/ (due \in Untouched /\ plan.install \cup plan.toRemove = {})
  PROVE  RootInv' /\ StageInv'
<1>1. RootInv'
  BY ErasedUnreadStays DEF RootInv
<1>2. StageInv'
  BY DEF StageInv, Untouched, Filled
<1> QED
  BY <1>1, <1>2

LEMMA RemoveStep ==
  ASSUME PlanInv, RootInv, StageInv, AuditInv, RemovePackages
  PROVE  RootInv' /\ StageInv'
<1>1. /\ installed = w.base /\ installed' = Without(w.base, plan.toRemove)
      /\ UNCHANGED <<w, plan, approved>>
      /\ due' = IF plan.install # {} THEN "unpack" ELSE "cascade"
      /\ plan.toRemove # {}
  BY DEF RemovePackages, RootGoto, StageInv, Untouched, AuditInv
<1>2. plan.toRemove \subseteq plan.approved
  BY PlanFields DEF PlanInv
<1>3. /\ Names(installed') = Names(w.base) \ plan.toRemove
      /\ \A p \in Names(installed') : installed'[p] = w.base[p]
  BY <1>1 DEF Without, Names
<1>4. RootInv'
  BY <1>1, <1>2, <1>3, ErasedUnreadStays DEF RootInv
<1>5. StageInv'
  BY <1>1, <1>3 DEF StageInv, Untouched, Filled
<1> QED
  BY <1>4, <1>5

\* What the package manager has put in the root.
LEMMA UnpackedIs ==
  ASSUME PlanInv, RootInv, StageInv, InstallPackages
  PROVE  /\ Names(installed') \subseteq Names(installed) \cup plan.install
         /\ \A p \in plan.install : p \in Names(installed') /\ installed'[p] = w.repo[p]
         /\ \A p \in Names(installed') \ plan.install : installed'[p] = installed[p]
         /\ w.family # "rpm" => Names(installed') = Names(installed) \cup plan.install
         /\ Names(installed) \ Names(installed') \subseteq plan.approved \cup ErasedUnread
<1> DEFINE erased == {o.on : o \in {g \in w.gone : /\ g.pkg \in plan.install /\ g.on \in Names(installed)
                                                   /\ installed[g.on] \in g.in}}
<1>0. installed' = Unpacked /\ due = "unpack"
  BY DEF InstallPackages, RootGoto
<1>1. PICK gone : /\ gone \subseteq erased \ plan.install
                  /\ gone # {} => w.family = "rpm" /\ UpgradeMode
                  /\ installed' = [p \in (Names(installed) \ gone) \cup plan.install |->
                                IF p \in plan.install THEN w.repo[p] ELSE installed[p]]
  <2>1. CASE w.family = "rpm" /\ UpgradeMode
    BY <1>0, <2>1 DEF Unpacked
  <2>2. CASE ~(w.family = "rpm" /\ UpgradeMode)
    BY <1>0, <2>2 DEF Unpacked
  <2> QED
    BY <2>1, <2>2
<1>2. w.family = "rpm" /\ UpgradeMode => erased \subseteq plan.approved \cup ErasedUnread
  <2> SUFFICES ASSUME w.family = "rpm", UpgradeMode,
                      NEW o \in w.gone, o.pkg \in plan.install, o.on \in Names(installed), installed[o.on] \in o.in
               PROVE  o.on \in plan.approved \cup ErasedUnread
    OBVIOUS
  <2>1. o.on \in Names(w.base) /\ w.base[o.on] \in o.in
    BY <1>0 DEF StageInv
  <2>2. w \in Worlds /\ Preflight(w).ok /\ plan = Preflight(w)
    BY <1>0 DEF PlanInv
  <2>3. o.pkg \in Resolution(w).install
    BY <2>2, PlanFields
  <2>4. CASE o.pkg \in w.unread
    BY <2>1, <2>4 DEF ErasedUnread
  <2>5. CASE o.pkg \notin w.unread
    BY <2>1, <2>2, <2>3, <2>5, ObsoleteIsApproved
  <2> QED
    BY <2>4, <2>5
<1> HIDE DEF erased
<1>3. Names(installed') = (Names(installed) \ gone) \cup plan.install
  BY <1>1 DEF Names
<1> QED
  BY <1>1, <1>2, <1>3 DEF Names

LEMMA InstallStep ==
  ASSUME PlanInv, RootInv, StageInv, InstallPackages
  PROVE  RootInv' /\ StageInv'
<1>1. UNCHANGED <<w, plan, approved>> /\ due = "unpack" /\ due' \in {"cascade", "unmount"}
  BY DEF InstallPackages, RootGoto
<1>2. RootInv'
  BY <1>1, UnpackedIs, ErasedUnreadStays DEF RootInv
<1>3. StageInv'
  BY <1>1, UnpackedIs DEF StageInv, Untouched, Filled
<1> QED
  BY <1>2, <1>3

LEMMA CascadeStep ==
  ASSUME PlanInv, RootInv, StageInv, CascadeRemove
  PROVE  RootInv' /\ StageInv'
<1>1. /\ UNCHANGED <<w, plan>> /\ due = "cascade" /\ due' = "cascade"
      /\ installed' = Without(installed, NewlyBroken) /\ approved' = approved \cup NewlyBroken
      /\ "removal" \in w.allow /\ NewlyBroken \cap (Bootloaders \cup Images \cup plan.install) = {}
  BY DEF CascadeRemove, RootGoto
<1>2. /\ Names(installed') = Names(installed) \ NewlyBroken
      /\ \A p \in Names(installed') : installed'[p] = installed[p]
  BY <1>1 DEF Without, Names
<1>3. RootInv'
  BY <1>1, <1>2, ErasedUnreadStays DEF RootInv
<1>4. StageInv'
  BY <1>1, <1>2 DEF StageInv, Untouched, Filled
<1> QED
  BY <1>3, <1>4

LEMMA RootStep == PlanInv /\ RootInv /\ StageInv /\ AuditInv /\ [RootNext]_rootVars => RootInv' /\ StageInv'
<1> SUFFICES ASSUME PlanInv, RootInv, StageInv, AuditInv, [RootNext]_rootVars PROVE RootInv' /\ StageInv'
  OBVIOUS
<1> USE DEF RootGoto, packageVars
<1>1. CASE ResizeBaseline
  BY <1>1, RootKept DEF ResizeBaseline, NothingToGrow, MayGrow, Grow, RefreshLoop, Untouched, Filled
<1>2. CASE RemovePackages
  BY <1>2, RemoveStep
<1>3. CASE InstallPackages
  BY <1>3, InstallStep
<1>4. CASE CascadeRemove
  BY <1>4, CascadeStep
<1>5. CASE SkipInstall \/ MountChroot \/ AuditBaseline \/ CascadeDone \/ Unmount
  BY <1>5, RootKept DEF SkipInstall, MountChroot, AuditBaseline, CascadeDone, Unmount, Untouched, Filled
<1>6. CASE RunOverlayUsers \/ RunOverlayConfigurations \/ CopyPreInitramfsFiles
           \/ NoBootRegeneration \/ RegenerateBoot
  BY <1>6, RootKept DEF RunOverlayUsers, RunOverlayConfigurations, CopyPreInitramfsFiles,
              NoBootRegeneration, RegenerateBoot, Chrooted, Untouched, Filled
<1>7. CASE NoGrubRegeneration \/ RegenerateGrub \/ CopyAdditionalFiles
  BY <1>7, RootKept DEF NoGrubRegeneration, RegenerateGrub, CopyAdditionalFiles, Chrooted, Untouched, Filled
<1>8. CASE StageFails
  BY <1>8, RootKept DEF StageFails, Untouched, Filled
<1>9. CASE UNCHANGED rootVars
  BY <1>9, ErasedUnreadStays DEF rootVars, StageInv, RootInv
<1> QED
  BY <1>1, <1>2, <1>3, <1>4, <1>5, <1>6, <1>7, <1>8, <1>9 DEF RootNext, Build, InstallOverlayPackages

-----------------------------------------------------------------------------
(* The audits *)

\* Apart from the packages, what a root lacks is what it lacked before: a dependency
\* dpkg finds newly unmet is on a version the transaction replaced.
LEMMA UnmetAfterInstall ==
  ASSUME PlanInv, RootInv, StageInv, InstallPackages, plan.toRemove = {},
         NEW d \in Audit(w, installed') \ Audit(w, w.base)
  PROVE  /\ d.pkg \notin plan.install
         /\ \E i \in DOMAIN d.alts : Versioned(d.alts[i]) /\ d.alts[i].on \in plan.install \cap Names(w.base)
<1>1. installed = w.base /\ w \in Worlds /\ plan = Preflight(w)
  BY DEF InstallPackages, RootGoto, StageInv, PlanInv
<1>2. d.pkg \notin plan.install /\ w.family # "rpm"
  BY <1>1 DEF InstallPackages, Accepted
<1>3. /\ Names(installed') = Names(w.base) \cup plan.install
      /\ \A p \in plan.install : installed'[p] = w.repo[p]
      /\ \A p \in Names(installed') \ plan.install : installed'[p] = w.base[p]
  BY <1>1, <1>2, UnpackedIs
<1>4. ~Met(w, installed', d) /\ d \in Needs(w, installed')
  BY DEF Audit
<1>5. d \in w.needs /\ d.pkg \in Names(w.base)
  BY <1>2, <1>3, <1>4 DEF Needs, New
<1>6. New(w, w.base) = {}
  BY DEF New
<1>7. Met(w, w.base, d)
  BY <1>5, <1>6 DEF Audit, Needs
<1>8. PICK i \in DOMAIN d.alts :
         \/ d.alts[i].on \in Names(w.base) /\ w.base[d.alts[i].on] \in d.alts[i].in
         \/ ~Versioned(d.alts[i]) /\ d.alts[i].on \in w.virtual
  BY <1>6, <1>7 DEF Met
<1> DEFINE a == d.alts[i]
<1>9. /\ ~(~Versioned(a) /\ a.on \in w.virtual)
      /\ ~(a.on \in Names(installed') /\ installed'[a.on] \in a.in)
  BY <1>4 DEF Met
<1>10. a.on \in Names(w.base) /\ w.base[a.on] \in a.in
  BY <1>8, <1>9
<1>11. a.on \in plan.install
  BY <1>3, <1>9, <1>10
<1>12. installed'[a.on] \in Versions
  <2>1. a.on \in Names(w.repo)
    BY <1>1, <1>10, <1>11, PlanFields, InstallChanges DEF Newer
  <2> QED
    BY <1>1, <1>3, <1>11, <2>1, WorldsAssumption
<1>13. Versioned(a)
  BY <1>3, <1>9, <1>10, <1>12 DEF Versioned
<1> QED
  BY <1>2, <1>10, <1>11, <1>13

LEMMA AuditKept ==
  ASSUME AuditInv, UNCHANGED <<w, plan, installed, broken>>,
         due' \in {"audit", "remove", "cascade"} => plan.toRemove # {},
         due' \in {"remove", "cascade"} => due = due',
         due' = "unpack" => plan.toRemove = {} \/ due \in {"remove", "unpack"},
         due' \in Filled \ {"cascade"} => due \in Filled \ {"cascade"} \/ UnmetAreUpgrades
  PROVE  AuditInv'
<1>1. UnmetAreUpgrades' = UnmetAreUpgrades
  BY DEF UnmetAreUpgrades
<1> QED
  BY <1>1 DEF AuditInv

LEMMA AuditStep == PlanInv /\ RootInv /\ StageInv /\ AuditInv /\ [RootNext]_rootVars => AuditInv'
<1> SUFFICES ASSUME PlanInv, RootInv, StageInv, AuditInv, [RootNext]_rootVars PROVE AuditInv'
  OBVIOUS
<1> USE DEF RootGoto, packageVars
<1>1. CASE ResizeBaseline
  BY <1>1, AuditKept DEF ResizeBaseline, NothingToGrow, MayGrow, Grow, RefreshLoop, Filled
<1>2. CASE SkipInstall
  <2>1. UnmetAreUpgrades
    BY <1>2 DEF SkipInstall, StageInv, Untouched, UnmetAreUpgrades
  <2> QED
    BY <1>2, <2>1, AuditKept DEF SkipInstall
<1>3. CASE MountChroot \/ Unmount
  BY <1>3, AuditKept DEF MountChroot, Unmount, Filled
<1>4. CASE AuditBaseline
  <2>1. installed = w.base /\ installed' = w.base /\ UNCHANGED <<w, plan>> /\ due = "audit" /\ due' = "remove"
        /\ broken' = Audit(w, w.base)
    BY <1>4 DEF AuditBaseline, StageInv, Untouched
  <2> QED
    BY <2>1 DEF AuditInv, Filled
<1>5. CASE RemovePackages
  BY <1>5 DEF RemovePackages, AuditInv, Filled
<1>6. CASE InstallPackages
  <2>1. UNCHANGED <<w, plan, broken>> /\ due = "unpack"
        /\ due' = IF plan.toRemove # {} THEN "cascade" ELSE "unmount"
    BY <1>6 DEF InstallPackages
  <2>2. ASSUME plan.toRemove = {} PROVE UnmetAreUpgrades'
    BY <1>6, <2>1, <2>2, UnmetAfterInstall DEF UnmetAreUpgrades
  <2> QED
    BY <2>1, <2>2 DEF AuditInv, Filled
<1>7. CASE CascadeRemove
  BY <1>7 DEF CascadeRemove, AuditInv, Filled
<1>8. CASE CascadeDone
  <2>1. broken = Audit(w, w.base) /\ NewlyBroken = {}
    BY <1>8 DEF CascadeDone, AuditInv
  <2>2. Audit(w, installed) \ Audit(w, w.base) = {}
    BY <2>1 DEF NewlyBroken
  <2>3. UnmetAreUpgrades
    BY <2>2 DEF UnmetAreUpgrades
  <2> QED
    BY <1>8, <2>3, AuditKept DEF CascadeDone
<1>9. CASE RunOverlayUsers \/ RunOverlayConfigurations \/ CopyPreInitramfsFiles
           \/ NoBootRegeneration \/ RegenerateBoot
  BY <1>9, AuditKept DEF RunOverlayUsers, RunOverlayConfigurations, CopyPreInitramfsFiles,
              NoBootRegeneration, RegenerateBoot, Chrooted, Filled
<1>10. CASE NoGrubRegeneration \/ RegenerateGrub \/ CopyAdditionalFiles
  BY <1>10, AuditKept DEF NoGrubRegeneration, RegenerateGrub, CopyAdditionalFiles, Chrooted, Filled
<1>11. CASE StageFails
  BY <1>11, AuditKept DEF StageFails, Filled
<1>12. CASE UNCHANGED rootVars
  BY <1>12, AuditKept DEF rootVars, AuditInv
<1> QED
  BY <1>1, <1>2, <1>3, <1>4, <1>5, <1>6, <1>7, <1>8, <1>9, <1>10, <1>11, <1>12
     DEF RootNext, Build, InstallOverlayPackages

-----------------------------------------------------------------------------
(* The initramfs *)

LEMMA ContentStep == PlanInv /\ ContentInv /\ [RootNext]_rootVars => ContentInv'
<1> SUFFICES ASSUME PlanInv, ContentInv, [RootNext]_rootVars PROVE ContentInv'
  OBVIOUS
<1> USE DEF RootGoto, packageVars, bootVars
<1>0. UNCHANGED <<w, plan>>
  BY DEF RootNext, Build, ResizeBaseline, NothingToGrow, MayGrow, Grow, RefreshLoop,
         InstallOverlayPackages, SkipInstall, MountChroot, AuditBaseline, RemovePackages, InstallPackages,
         CascadeRemove, CascadeDone, Unmount, RunOverlayUsers, RunOverlayConfigurations,
         CopyPreInitramfsFiles, NoBootRegeneration, RegenerateBoot, NoGrubRegeneration, RegenerateGrub,
         CopyAdditionalFiles, Chrooted, StageFails, rootVars
<1>1. Content' = Content /\ Forced' = Forced /\ Wanted' = Wanted
  BY <1>0 DEF Content, Forced, Wanted, AddedBootContent
<1>2. ASSUME UNCHANGED <<matter, baked>>, due' # "initramfs",
             due' \in {"grub", "files", "done"} => due \in {"grub", "files", "done"}
      PROVE  ContentInv'
  BY <1>0, <1>1, <1>2 DEF ContentInv, InitramfsHoldsContent
<1>3. CASE ResizeBaseline
  BY <1>2, <1>3 DEF ResizeBaseline, NothingToGrow, MayGrow, Grow, RefreshLoop
<1>4. CASE SkipInstall \/ MountChroot \/ AuditBaseline \/ RemovePackages \/ CascadeRemove
           \/ CascadeDone \/ Unmount
  BY <1>2, <1>4 DEF SkipInstall, MountChroot, AuditBaseline, RemovePackages, CascadeRemove,
              CascadeDone, Unmount
<1>5. CASE InstallPackages
  BY <1>0, <1>1, <1>5 DEF InstallPackages, ContentInv, Content
<1>6. CASE RunOverlayUsers
  BY <1>2, <1>6 DEF RunOverlayUsers, Chrooted
<1>7. CASE RunOverlayConfigurations
  BY <1>0, <1>1, <1>7 DEF RunOverlayConfigurations, Chrooted, ContentInv
<1>8. CASE CopyPreInitramfsFiles
  BY <1>0, <1>1, <1>8 DEF CopyPreInitramfsFiles, ContentInv, Content
<1>9. CASE NoBootRegeneration
  BY <1>0, <1>1, <1>9 DEF NoBootRegeneration, ContentInv, Content, InitramfsHoldsContent, Wanted,
              Forced, AddedBootContent
<1>10. CASE RegenerateBoot
  BY <1>0, <1>1, <1>10 DEF RegenerateBoot, Chrooted, ContentInv, Content, InitramfsHoldsContent, Forced
<1>11. CASE NoGrubRegeneration \/ RegenerateGrub \/ CopyAdditionalFiles
  BY <1>2, <1>11 DEF NoGrubRegeneration, RegenerateGrub, CopyAdditionalFiles, Chrooted
<1>12. CASE StageFails
  BY <1>2, <1>12 DEF StageFails
<1>13. CASE UNCHANGED rootVars
  BY <1>0, <1>1, <1>13 DEF rootVars, ContentInv, InitramfsHoldsContent
<1> QED
  BY <1>3, <1>4, <1>5, <1>6, <1>7, <1>8, <1>9, <1>10, <1>11, <1>12, <1>13
     DEF RootNext, Build, InstallOverlayPackages

-----------------------------------------------------------------------------
(* The menu *)

LEMMA MenuKept ==
  ASSUME MenuInv, UNCHANGED <<w, plan, menu, args>>,
         due' \in Stages \ {"files", "done", "failed"} => due \in Stages \ {"files", "done", "failed"},
         due' \in {"files", "done"} => due \in {"files", "done"} /\ UNCHANGED installed
  PROVE  MenuInv'
  BY ErasedUnreadStays DEF MenuInv, MenuListsKernels, Kernels, Names

\* Without a kernel swap no image of the baseline is lost, but by unread Obsoletes.
LEMMA ImagesRemain ==
  ASSUME PlanInv, RootInv, ~Swapping(w), due # "refused", NEW p \in Names(w.base) \cap Images,
         p \notin ErasedUnread
  PROVE  p \in Names(installed)
<1>1. Preflight(w).ok /\ plan = Preflight(w)
  BY DEF PlanInv
<1>2. p \notin plan.approved
  BY <1>1, ApprovedIsAllowed
<1>3. p \notin approved
  BY <1>2 DEF RootInv
<1> QED
  BY <1>3 DEF RootInv

LEMMA MenuStep == PlanInv /\ RootInv /\ MenuInv /\ [RootNext]_rootVars => MenuInv'
<1> SUFFICES ASSUME PlanInv, RootInv, MenuInv, [RootNext]_rootVars PROVE MenuInv'
  OBVIOUS
<1> USE DEF RootGoto, packageVars, bootVars, Stages
<1>1. CASE ResizeBaseline
  BY <1>1, MenuKept DEF ResizeBaseline, NothingToGrow, MayGrow, Grow, RefreshLoop
<1>2. CASE InstallOverlayPackages
  BY <1>2, MenuKept DEF InstallOverlayPackages, SkipInstall, MountChroot, AuditBaseline, RemovePackages,
              InstallPackages, CascadeRemove, CascadeDone, Unmount
<1>3. CASE RunOverlayUsers \/ RunOverlayConfigurations \/ CopyPreInitramfsFiles
           \/ NoBootRegeneration \/ RegenerateBoot
  BY <1>3, MenuKept DEF RunOverlayUsers, RunOverlayConfigurations, CopyPreInitramfsFiles,
              NoBootRegeneration, RegenerateBoot, Chrooted
<1>4. CASE NoGrubRegeneration
  <2>1. ~Swapping(w) /\ due = "grub" /\ due' = "files" /\ UNCHANGED <<w, plan, installed, menu>>
        /\ (w.bootloader = "grub2" => NewKernels = {})
    BY <1>4 DEF NoGrubRegeneration, GrubOptions
  <2>2. menu = Kernels(w.base)
    BY <2>1 DEF MenuInv
  <2>3. Kernels(w.base) \ Kernels(installed) \subseteq ErasedUnread
    BY <2>1, ImagesRemain DEF Kernels
  <2>4. w.bootloader = "grub2" => Kernels(installed) \subseteq Kernels(w.base)
    BY <2>1 DEF NewKernels
  <2>5. /\ Kernels(installed)' = Kernels(installed) /\ Swapping(w)' = Swapping(w)
        /\ ErasedUnread' = ErasedUnread
    BY <2>1, ErasedUnreadStays DEF Kernels, Names
  <2> QED
    BY <2>1, <2>2, <2>3, <2>4, <2>5 DEF MenuInv, MenuListsKernels
<1>5. CASE RegenerateGrub
  BY <1>5, MenuKept DEF RegenerateGrub, Chrooted, MenuInv, MenuListsKernels, Kernels, Names, GrubOptions
<1>6. CASE CopyAdditionalFiles
  BY <1>6, MenuKept DEF CopyAdditionalFiles
<1>7. CASE StageFails
  BY <1>7 DEF StageFails, MenuInv
<1>8. CASE UNCHANGED rootVars
  BY <1>8, MenuKept DEF rootVars, MenuInv
<1> QED
  BY <1>1, <1>2, <1>3, <1>4, <1>5, <1>6, <1>7, <1>8 DEF RootNext, Build

-----------------------------------------------------------------------------
LEMMA InitEstablishes == RootInit => RootChangeInv
<1> SUFFICES ASSUME RootInit PROVE RootChangeInv
  OBVIOUS
<1> USE DEF RootInit
<1>1. PlanInv /\ due \in {"resize", "refused"}
  BY DEF PlanInv, Stages
<1>2. RootInv /\ StageInv /\ AuditInv
  BY <1>1 DEF RootInv, StageInv, AuditInv, Untouched, Filled
<1>3. ContentInv /\ MenuInv
  BY <1>1 DEF ContentInv, MenuInv, Stages
<1>4. SizeInv
  <2>1. {w.disk.cur, w.disk.size, w.disk.max} \subseteq Nat
    BY WorldsAssumption
  <2> QED
    BY <1>1, <2>1 DEF SizeInv, Layers, AtLeast
<1> QED
  BY <1>1, <1>2, <1>3, <1>4 DEF RootChangeInv

THEOREM RootInvariant == RootSpec => []RootChangeInv
<1>1. RootChangeInv /\ [RootNext]_rootVars => RootChangeInv'
  BY PlanStep, RootStep, AuditStep, ContentStep, MenuStep, SizeStep DEF RootChangeInv
<1> QED
  BY InitEstablishes, <1>1, PTL DEF RootSpec


-----------------------------------------------------------------------------
(* The theorems *)

\* Whatever the stages have done to the root so far, what is lost or changed of the
\* baseline is what the policy permits, or what Obsoletes that could not be read have
\* erased (preflight.go's decision against what install.go, rpm -U and the cascade
\* carry out).
THEOREM Preserved == RootSpec => []BaselinePreservedUnlessUnread
<1>1. RootChangeInv => BaselinePreservedUnlessUnread
  <2> SUFFICES ASSUME RootChangeInv PROVE BaselinePreservedUnlessUnread
    OBVIOUS
  <2> USE DEF RootChangeInv
  <2>0. CASE due = "refused"
    BY <2>0 DEF StageInv, Untouched, BaselinePreservedUnlessUnread, Lost, Changed, Kept
  <2>1. CASE due # "refused"
    <3>1. /\ Preflight(w).ok /\ plan = Preflight(w) /\ plan.install = Resolution(w).install
          /\ w \in Worlds
      BY <2>1, PlanFields DEF PlanInv
    <3>2. ASSUME NEW p \in Lost \ ErasedUnread
          PROVE  /\ p \in approved /\ p \notin Bootloaders
                 /\ "removal" \in w.allow \/ (Swapping(w) /\ p \in KernelFamily)
                 /\ p \in Images => Swapping(w)
      <4>1. p \in approved
        BY DEF RootInv, Lost
      <4>2. CASE p \in plan.approved
        BY <3>1, <4>1, <4>2, ApprovedIsAllowed
      <4>3. CASE p \notin plan.approved
        BY <4>1, <4>3 DEF RootInv
      <4> QED
        BY <4>2, <4>3
    <3>3. ASSUME NEW p \in Changed
          PROVE  /\ p \in plan.install /\ installed[p] = w.repo[p]
                 /\ Upgrading(w) /\ installed[p] > w.base[p]
                 /\ p \notin Bootloaders /\ (p \in Images => Swapping(w))
      <4>1. p \in plan.install /\ installed[p] = w.repo[p] /\ p \in Names(w.base)
        BY DEF RootInv, Changed
      <4> QED
        BY <3>1, <4>1, InstallChanges, BootPackagesStay DEF Newer
    <3>4. ASSUME NEW p \in Names(w.base), p \notin Lost \cup Changed
          PROVE  Kept(p)
      BY <3>4 DEF Lost, Changed, Kept
    <3>5. due = "done" => /\ Lost \ ErasedUnread \subseteq Statistics.removed
                         /\ Changed \subseteq Statistics.upgraded
                         /\ Statistics.unchanged \cap (Lost \cup Changed) \subseteq ErasedUnread
      <4> SUFFICES ASSUME due = "done"
                   PROVE  /\ Lost \ ErasedUnread \subseteq Statistics.removed
                          /\ Changed \subseteq Statistics.upgraded
                          /\ Statistics.unchanged \cap (Lost \cup Changed) \subseteq ErasedUnread
        OBVIOUS
      <4>1. \A p \in plan.install : p \in Names(installed) /\ installed[p] = w.repo[p]
        BY DEF StageInv, Filled
      <4>2. Lost \cap plan.install = {}
        BY <4>1 DEF Lost
      <4>3. \A p \in Changed : p \in Names(w.base) /\ installed[p] # w.base[p]
        BY DEF Changed
      <4> QED
        BY <3>2, <3>3, <4>2, <4>3 DEF Statistics
    <3> QED
      BY <3>2, <3>3, <3>4, <3>5 DEF BaselinePreservedUnlessUnread
  <2> QED
    BY <2>0, <2>1
<1> QED
  BY RootInvariant, <1>1, PTL

\* A finished overlay leaves no dependency newly unmet but one of the baseline on a
\* package the build has upgraded (install.go's audits and what dpkg and rpm refuse).
THEOREM UnmetDependencies == RootSpec => []UnmetOnlyByUpgrade
<1>1. RootChangeInv => UnmetOnlyByUpgrade
  BY DEF RootChangeInv, AuditInv, Filled, UnmetAreUpgrades, UnmetOnlyByUpgrade
<1> QED
  BY RootInvariant, <1>1, PTL

\* The images a finished kernel swap leaves.
LEMMA SwappedKernels ==
  ASSUME RootChangeInv, due = "done", Swapping(w)
  PROVE  /\ \A p, q \in Kernels(installed) : p = q \/ SameKernelBuild(w, p, q)
         /\ Names(installed) \cap Family \cap Names(w.base) \subseteq plan.closure
         /\ KernelOffered => Kernels(installed) # {} \/ ErasedUnread \cap Images # {}
<1>1. /\ Preflight(w).ok /\ plan = Preflight(w) /\ w \in Worlds
      /\ plan.install = Resolution(w).install /\ plan.closure = Resolution(w).closure
  BY PlanFields DEF RootChangeInv, PlanInv
<1>2. PICK k : /\ ReplacementImages(w, Resolution(w)) = {k}
               /\ \A q \in KernelImagesIn(Resolution(w).install \cup Resolution(w).closure) :
                    q = k \/ (k \in Names(w.repo) /\ SameKernelBuild(w, k, q))
  BY <1>1, SwapHasOneImage
<1>3. ASSUME NEW p \in Names(installed) \cap KernelFamily
      PROVE  p \in plan.install \cup plan.closure \/ p = k
  <2>1. CASE p \in plan.install
    BY <2>1
  <2>2. CASE p \notin plan.install
    <3>1. p \in Names(w.base)
      BY <2>2 DEF RootChangeInv, RootInv
    <3>2. p \notin plan.toRemove
      BY <2>2 DEF RootChangeInv, StageInv, Filled
    <3> QED
      BY <1>1, <1>2, <2>2, <3>1, <3>2, SwapRemoves
  <2> QED
    BY <2>1, <2>2
<1>4. ASSUME NEW p \in Kernels(installed)
      PROVE  p = k \/ SameKernelBuild(w, k, p)
  <2>1. p \in Images \ Aliases /\ p \in Names(installed) \cap KernelFamily
    BY DEF Kernels, KernelFamily
  <2>2. CASE p \in plan.install \cup plan.closure
    BY <1>1, <1>2, <2>1, <2>2 DEF KernelImagesIn
  <2> QED
    BY <1>3, <2>1, <2>2
<1>5. \A p, q \in Kernels(installed) : p = q \/ SameKernelBuild(w, p, q)
  BY <1>4 DEF SameKernelBuild
<1>6. Names(installed) \cap Family \cap Names(w.base) \subseteq plan.closure
  <2> SUFFICES ASSUME NEW p \in Names(installed) \cap Family \cap Names(w.base) PROVE p \in plan.closure
    OBVIOUS
  <2>1. p \in plan.install \cup plan.closure \/ p = k
    BY <1>3 DEF KernelFamily
  <2>2. k \in Images \/ k \in plan.closure
    BY <1>1, <1>2, InstallInClosure DEF ReplacementImages, KernelImagesIn
  <2> QED
    BY <1>1, <2>1, <2>2, InstallInClosure, PlanAssumption
<1>7. KernelOffered => k \in Kernels(installed) \cup (ErasedUnread \cap Images)
  <2> SUFFICES ASSUME KernelOffered PROVE k \in Kernels(installed) \cup (ErasedUnread \cap Images)
    OBVIOUS
  <2>1. k \notin Aliases /\ w.virtual \cap Images = {}
    BY <1>2 DEF KernelOffered
  <2>2. k \in Images /\ k \in plan.install \cup Names(w.base)
    BY <1>1, <1>2, <2>1, SwapImageIsReal
  <2>3. k \in Names(installed) \cup ErasedUnread
    <3>1. CASE k \in plan.install
      BY <3>1 DEF RootChangeInv, StageInv, Filled
    <3>2. CASE k \notin plan.install
      <4>1. k \notin plan.approved
        BY <1>1, <1>2, <2>2, ApprovedImageIsOld
      <4>2. k \notin approved
        BY <2>2, <4>1 DEF RootChangeInv, RootInv
      <4> QED
        BY <2>2, <3>2, <4>2 DEF RootChangeInv, RootInv
    <3> QED
      BY <3>1, <3>2
  <2> QED
    BY <2>1, <2>2, <2>3 DEF Kernels
<1> QED
  BY <1>5, <1>6, <1>7

\* The boot set-up of a finished overlay fits its root: one kernel after a swap, a
\* menu of what is installed, an initramfs with what was brought for it
\* (preflight.go, grubupdate.go, bootupdate.go).
THEOREM BootFits == RootSpec => []BootMatchesRoot
<1>1. RootChangeInv => BootMatchesRoot
  <2> SUFFICES ASSUME RootChangeInv, due = "done" PROVE BootMatchesRoot
    BY DEF BootMatchesRoot
  <2>1. MenuListsKernels /\ (Swapping(w) => args)
    BY DEF RootChangeInv, MenuInv
  <2>2. InitramfsHoldsContent
    BY DEF RootChangeInv, ContentInv
  <2> QED
    BY <2>1, <2>2, SwappedKernels DEF BootMatchesRoot, OneKernelBuild, KernelLeft
<1> QED
  BY RootInvariant, <1>1, PTL

\* No layer of the enlarged image outgrows the one below it, and packages are
\* unpacked only into a file system of the size aimed at (resize.go).
THEOREM Resize == RootSpec => []ResizeIsSafe
<1>1. RootChangeInv => ResizeIsSafe
  BY DEF RootChangeInv, SizeInv, ResizeIsSafe
<1> QED
  BY RootInvariant, <1>1, PTL
=============================================================================
