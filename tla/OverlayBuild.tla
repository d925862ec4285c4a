----------------------------- MODULE OverlayBuild -----------------------------
(***************************************************************************)
(* An overlay-mode build: one baseline lifecycle kept open across the      *)
(* provider's three phases (internal/image/overlay/session.go, overlay.go, *)
(* layout.go, imagedisc/loopdev.go, provider/ubuntu/ubuntu.go,             *)
(* cmd/image-composer-tool/build.go).  Preprocess copies the baseline into *)
(* the workspace, attaches and mounts it; Build changes it; Postprocess    *)
(* releases it, moves it to the output directory and finishes it there,    *)
(* and always runs the cleanup chain, which keeps what it could not        *)
(* release for the next attempt.                                           *)
(*                                                                         *)
(* A build is numbered; its number also stands for its copy of the         *)
(* baseline, for the loop device bound to that file and for the artifacts  *)
(* it writes.  What Go does itself (copying, moving, removing files) is    *)
(* not cut by a signal.                                                    *)
(***************************************************************************)
EXTENDS ShellContext

CONSTANT Runs  \* bound: builds in a row, in one workspace

ASSUME OverlayAssumption == Runs \in Nat \ {0}

VARIABLES
  run,       \* the number of this build
  copy,      \* whose file is baseline.raw; 0: there is none
  stage,     \* the staging file baseline.src exists
  loops,     \* the copies a loop device is bound to
  lazy,      \* those the kernel detaches as soon as they are not mounted
  root,      \* whose root file system is mounted at mnt/root; 0: none
  esp,       \* whose ESP is mounted below it
  out,       \* [kind of artifact -> who wrote the one in the output directory]
  acquired,  \* b.ctx # nil
  loop,      \* b.ctx.LoopDevPath # ""
  teardown,  \* what b.mountTeardown still has to unmount; NoTeardown: nil
  union,     \* the complete SBOM is more than the delta
  emitted,   \* b.emittedArtifact # ""
  failed,    \* buildErr # nil
  perr,      \* Postprocess has an error of its own
  cerr,      \* what the last cleanupOnce returned
  phase,     \* whose cleanupOnce runs: the unwind's, the emit's, the deferred one
  post,      \* PostProcess's result: none, ok, error, or masked (error, with a
             \* failed cleanup that is only logged)
  exit,      \* executeBuild's result
  residual   \* what Coordinator.Run reports

hostVars == <<run, copy, stage, loops, lazy, root, esp>>
builderVars == <<acquired, loop, teardown, union, emitted>>
verdictVars == <<failed, perr, cerr, phase, post, exit, residual>>
vars == <<pc, contextVars, coordinatorVars, hostVars, out, builderVars, verdictVars>>

NoTeardown == {"none"}
Builds == 1..Runs
Kinds == {"image", "formats", "delta", "complete", "report"}

PC == {"load", "acquire", "convertin", "attach", "partitions", "unattach", "probe",
       "mountroot", "mountesp", "rollback", "plan", "build", "post", "sbom", "umount",
       "detach", "emit", "inspect", "convert", "finish", "return", "backstop",
       "reaploop"} \cup Ended

HostType ==
  /\ run \in Builds /\ copy \in 0..Runs /\ stage \in BOOLEAN
  /\ loops \subseteq Builds /\ lazy \subseteq Builds
  /\ root \in 0..Runs /\ esp \in 0..Runs
  /\ out \in [Kinds -> 0..Runs]

ContextType ==
  /\ pc \in PC
  /\ ctx \in {"build", "cleanup"} /\ live \in BOOLEAN /\ signalled \in BOOLEAN
  /\ entries \subseteq {"loop"} /\ fired \in BOOLEAN

BuilderType ==
  /\ acquired \in BOOLEAN /\ loop \in BOOLEAN
  /\ teardown \in {NoTeardown, {"root"}, {"esp"}, {"root", "esp"}}
  /\ union \in BOOLEAN /\ emitted \in BOOLEAN

VerdictType ==
  /\ failed \in BOOLEAN /\ perr \in BOOLEAN /\ cerr \in BOOLEAN
  /\ phase \in {"unwind", "emit", "deferred"}
  /\ post \in {"none", "ok", "error", "masked"}
  /\ exit \in {"none", "ok", "error", "cancelled"}
  /\ residual \subseteq {"loop"}

TypeOK == HostType /\ ContextType /\ BuilderType /\ VerdictType

\* What a process knows when it starts.
BuilderInit ==
  /\ acquired = FALSE /\ loop = FALSE /\ teardown = NoTeardown
  /\ union = FALSE /\ emitted = FALSE
  /\ failed = FALSE /\ perr = FALSE /\ cerr = FALSE /\ phase = "unwind"
  /\ post = "none" /\ exit = "none" /\ residual = {}

Init ==
  /\ ContextInit /\ BuilderInit
  /\ run = 1 /\ copy = 0 /\ stage = FALSE
  /\ loops = {} /\ lazy = {} /\ root = 0 /\ esp = 0
  /\ out = [k \in Kinds |-> 0]

Busy(d) == root = d \/ esp = d
Attached(d) == d \in loops /\ (d \in lazy => Busy(d))

\* losetup -d: the kernel keeps a busy device until it is free.
LetGo(D) ==
  /\ loops' = loops \ {d \in D : ~Busy(d)}
  /\ lazy' = lazy \cup {d \in D : Busy(d)}

\* A step of Preprocess or Build, and whether its error is on the way out.
Step(from, how, next, onError) ==
  Command(from, how, next, onError) /\ failed' = (failed \/ how # "ok")

otherVerdicts == <<perr, cerr, phase, post, exit, residual>>

-----------------------------------------------------------------------------
(* Preprocess: acquire *)

\* The provider, NewBuilder or the workspace directory is refused.
NoBuilder ==
  /\ Goto("load", "post")
  /\ failed' = TRUE
  /\ UNCHANGED <<coordinatorVars, hostVars, out, builderVars, otherVerdicts>>

NewBuilder ==
  /\ Goto("load", "acquire")
  /\ UNCHANGED <<coordinatorVars, hostVars, out, builderVars, verdictVars>>

\* normalizeBaseline of a raw baseline: whatever has the name goes first; a copy
\* that fails or turns out not to be raw is removed.
CopyBaseline ==
  /\ \/ Goto("acquire", "attach") /\ copy' = run /\ UNCHANGED failed
     \/ Goto("acquire", "umount") /\ copy' = 0 /\ failed' = TRUE
  /\ UNCHANGED <<coordinatorVars, run, stage, loops, lazy, root, esp, out, builderVars,
                 otherVerdicts>>

\* Any other format is staged first.
StageBaseline ==
  /\ \/ Goto("acquire", "convertin") /\ stage' = TRUE /\ UNCHANGED <<copy, failed>>
     \/ Goto("acquire", "umount") /\ stage' = FALSE /\ copy' = 0 /\ failed' = TRUE
  /\ UNCHANGED <<coordinatorVars, run, loops, lazy, root, esp, out, builderVars,
                 otherVerdicts>>

ConvertBaseline(how) ==
  /\ Step("convertin", how, "attach", "umount")
  /\ stage' = FALSE
  /\ copy' = (IF how = "ok" THEN run ELSE 0)
  /\ UNCHANGED <<coordinatorVars, run, loops, lazy, root, esp, out, builderVars,
                 otherVerdicts>>

\* Devices left on a file of that name that are not mounted, in this attempt.
Detached(how) ==
  {D \in SUBSET {d \in Builds : Attached(d) /\ ~Busy(d)} :
     how = "ok" => D = {d \in Builds : Attached(d) /\ ~Busy(d)}}

\* losetup -f, its registration, and the removal of the copy when it fails.  A
\* losetup that was cut may have bound a device whose name nobody read.
Attach(how) ==
  /\ Step("attach", how, "partitions", "umount")
  /\ \E D \in Detached(how), bound \in {{}, {run}} :
       /\ how = "ok" => bound = {run}
       /\ how = "fail" => bound = {}
       /\ how = "refused" => D = {} /\ bound = {}
       /\ loops' = (loops \ D) \cup bound
  /\ IF how = "ok" THEN Register("loop") /\ UNCHANGED copy
                   ELSE copy' = 0 /\ UNCHANGED entries
  /\ UNCHANGED <<fired, run, stage, lazy, root, esp, out, builderVars, otherVerdicts>>

\* The partitions are listed and the Builder takes the device over ...
Partitions(how) ==
  /\ Step("partitions", how, "probe", "unattach")
  /\ acquired' = (how = "ok") /\ loop' = (how = "ok")
  /\ UNCHANGED <<coordinatorVars, hostVars, out, teardown, union, emitted, otherVerdicts>>

\* ... or it is detached again; when that fails the copy and the registration stay.
Unattach(how) ==
  /\ Command("unattach", how, "umount", "umount")
  /\ \/ how \in {"ok", "cut"} /\ LetGo({run})
     \/ how # "ok" /\ UNCHANGED <<loops, lazy>>
  /\ IF how = "ok" THEN copy' = 0 /\ entries' = {} ELSE UNCHANGED <<copy, entries>>
  /\ UNCHANGED <<fired, run, stage, root, esp, out, builderVars, verdictVars>>

-----------------------------------------------------------------------------
(* Preprocess: mount, inspect, resolve, check *)

\* detectPartitionTable, probePartitions and analyzeLayout.
Probe(how) ==
  /\ Step("probe", how, "mountroot", "umount")
  /\ UNCHANGED <<coordinatorVars, hostVars, out, builderVars, otherVerdicts>>

\* MountPath leaves a mount point alone on which something is mounted.
Over(now) == IF now = 0 THEN run ELSE now

MountRoot(how) ==
  /\ \E next \in {"plan", "mountesp"} : Step("mountroot", how, next, "umount")
  /\ root' \in CASE how = "ok" -> {Over(root)}
                 [] how = "cut" -> {root, Over(root)}
                 [] OTHER -> {root}
  /\ teardown' = IF pc' = "plan" THEN {"root"} ELSE teardown
  /\ UNCHANGED <<coordinatorVars, run, copy, stage, loops, lazy, esp, out, acquired,
                 loop, union, emitted, otherVerdicts>>

MountESP(how) ==
  /\ Step("mountesp", how, "plan", "rollback")
  /\ esp' \in CASE how = "ok" -> {Over(esp)}
                [] how = "cut" -> {esp, Over(esp)}
                [] OTHER -> {esp}
  /\ teardown' = IF how = "ok" THEN {"root", "esp"} ELSE teardown
  /\ UNCHANGED <<coordinatorVars, run, copy, stage, loops, lazy, root, out, acquired,
                 loop, union, emitted, otherVerdicts>>

\* Unmounting what `points` names, as far as it works; a lazy unmount of the root
\* takes what is mounted below it along.
Unmounts(how, points) ==
  \E gone \in SUBSET points :
    /\ how = "ok" => gone = points
    /\ how = "refused" => gone = {}
    /\ root' = (IF "root" \in gone THEN 0 ELSE root)
    /\ esp' = (IF gone # {} THEN 0 ELSE esp)

\* MountLayout undoes the mount of the root, and drops the error of doing so.
RollbackRoot(how) ==
  /\ Command("rollback", how, "umount", "umount")
  /\ Unmounts(how, {"root"})
  /\ UNCHANGED <<coordinatorVars, run, copy, stage, loops, lazy, out, builderVars,
                 verdictVars>>

\* DetectBaseline, ValidateOverlayUsers, ResolveOverlayPackages, Preflight.
PlanOverlay(how) ==
  /\ Step("plan", how, "build", "umount")
  /\ UNCHANGED <<coordinatorVars, hostVars, out, builderVars, otherVerdicts>>

\* The stages of Build; what they leave in the image is OverlayRoot's matter.
BuildStages(how) ==
  /\ Step("build", how, "post", "post")
  /\ UNCHANGED <<coordinatorVars, hostVars, out, builderVars, otherVerdicts>>

-----------------------------------------------------------------------------
(* cleanupOnce *)

\* Only the points that could not be unmounted are kept for the next attempt.
UnmountLayout(how) ==
  /\ teardown # NoTeardown
  /\ Command("umount", how, "detach", "detach")
  /\ Unmounts(how, teardown)
  /\ teardown' \in CASE how = "ok" -> {NoTeardown}
                     [] how = "refused" -> {teardown}
                     [] OTHER -> (SUBSET teardown) \ {{}}
  /\ "root" \notin teardown' => root' = 0
  /\ cerr' = (how # "ok")
  /\ UNCHANGED <<coordinatorVars, run, copy, stage, loops, lazy, out, acquired, loop,
                 union, emitted, failed, perr, phase, post, exit, residual>>

NothingMounted ==
  /\ teardown = NoTeardown
  /\ Goto("umount", "detach")
  /\ cerr' = FALSE
  /\ UNCHANGED <<coordinatorVars, hostVars, out, builderVars, failed, perr, phase, post,
                 exit, residual>>

\* Mutation of AfterCleanup: the artifact is emitted although the release failed.
AfterCleanupAnyway(err) ==
  IF phase = "unwind" THEN pc' = "post" /\ UNCHANGED <<perr, phase>>
  ELSE IF phase = "deferred" THEN pc' = "finish" /\ UNCHANGED <<perr, phase>>
  ELSE pc' = "emit" /\ UNCHANGED <<perr, phase>>

\* Where the caller of cleanupOnce goes on.  Before the emit an error of it is one
\* of Postprocess, whose deferred cleanup then tries again.
AfterCleanup(err) ==
  IF phase = "unwind" THEN pc' = "post" /\ UNCHANGED <<perr, phase>>
  ELSE IF phase = "deferred" THEN pc' = "finish" /\ UNCHANGED <<perr, phase>>
  ELSE IF err THEN pc' = "umount" /\ perr' = TRUE /\ phase' = "deferred"
  ELSE pc' = "emit" /\ UNCHANGED <<perr, phase>>

\* The device path and the registration go only with the device.
Detach(how) ==
  /\ pc = "detach" /\ loop
  /\ Shell(how)
  /\ \/ how \in {"ok", "cut"} /\ LetGo({run})
     \/ how # "ok" /\ UNCHANGED <<loops, lazy>>
  /\ loop' = (how # "ok")
  /\ entries' = (IF how = "ok" THEN {} ELSE entries)
  /\ cerr' = (cerr \/ how # "ok")
  /\ AfterCleanup(cerr')
  /\ UNCHANGED <<fired, run, copy, stage, root, esp, out, acquired, teardown, union,
                 emitted, failed, post, exit, residual>>

NothingAttached ==
  /\ pc = "detach" /\ ~loop
  /\ AfterCleanup(cerr)
  /\ UNCHANGED <<contextVars, coordinatorVars, hostVars, out, builderVars, failed, cerr,
                 post, exit, residual>>

-----------------------------------------------------------------------------
(* Postprocess *)

\* After a signal PostProcess is given a context of its own.  A failed build has
\* nothing to finish.
PostProcess ==
  /\ pc = "post"
  /\ Bind(IF signalled THEN "cleanup" ELSE "build")
  /\ IF failed THEN pc' = "umount" /\ phase' = "deferred"
               ELSE pc' = "sbom" /\ UNCHANGED phase
  /\ UNCHANGED <<coordinatorVars, hostVars, out, builderVars, failed, perr, cerr, post,
                 exit, residual>>

\* A stage of Postprocess fails, or panics: the deferred cleanup runs.
PostFails == pc' = "umount" /\ perr' = TRUE /\ phase' = "deferred"

\* What the complete SBOM is merged into: an external document that is readable
\* and well formed, else the inherited one, else nothing.
BaseSBOM(external, inherited) ==
  IF external = "good" THEN "external"
  ELSE IF inherited = "good" THEN "inherited"
  ELSE "none"

GenerateSBOM(how) ==
  /\ pc = "sbom"
  /\ Shell(how)
  /\ \E external, inherited \in {"absent", "malformed", "good"} :
       union' = (BaseSBOM(external, inherited) # "none")
  /\ IF how = "ok" THEN pc' = "umount" /\ phase' = "emit" /\ UNCHANGED perr
                   ELSE PostFails
  /\ UNCHANGED <<coordinatorVars, hostVars, out, acquired, loop, teardown, emitted,
                 failed, cerr, post, exit, residual>>

\* moveFile across file systems removes the destination when it fails.
MoveFails ==
  /\ PostFails
  /\ out' \in {out, [out EXCEPT !["image"] = 0]}
  /\ UNCHANGED <<copy, emitted>>

\* A sidecar cannot be written: the image just moved and the sidecars go again.
SidecarFails ==
  /\ PostFails
  /\ copy' = 0
  /\ out' \in {[out EXCEPT !["image"] = 0, !["delta"] = 0]} \cup
       (IF union THEN {[out EXCEPT !["image"] = 0, !["delta"] = 0, !["complete"] = 0]}
                 ELSE {})
  /\ UNCHANGED emitted

\* The copy becomes the image; an earlier complete SBOM is replaced or removed.
Emitted ==
  /\ pc' = "inspect" /\ emitted' = TRUE /\ copy' = 0
  /\ out' = [out EXCEPT !["image"] = run, !["delta"] = run,
                        !["complete"] = IF union THEN run ELSE 0]
  /\ UNCHANGED <<perr, phase>>

EmitOverlayArtifact ==
  /\ pc = "emit"
  /\ Emitted \/ MoveFails \/ SidecarFails
  /\ UNCHANGED <<contextVars, coordinatorVars, run, stage, loops, lazy, root, esp,
                 acquired, loop, teardown, union, failed, cerr, post, exit, residual>>

\* --inspect writes a report; without it an earlier report goes.
InspectArtifact ==
  /\ pc = "inspect"
  /\ \/ pc' = "convert" /\ out' = [out EXCEPT !["report"] = run] /\ UNCHANGED <<perr, phase>>
     \/ pc' = "convert" /\ out' = [out EXCEPT !["report"] = 0] /\ UNCHANGED <<perr, phase>>
     \/ PostFails /\ UNCHANGED out
  /\ UNCHANGED <<contextVars, coordinatorVars, hostVars, builderVars, failed, cerr, post,
                 exit, residual>>

\* The formats disk.artifacts lists besides raw, if any; without raw in the list
\* the raw file goes.
ConvertArtifacts(how) ==
  /\ pc = "convert"
  /\ Shell(how)
  /\ IF how = "ok"
     THEN /\ pc' = "umount" /\ phase' = "deferred" /\ UNCHANGED perr
          /\ out' \in {out, [out EXCEPT !["formats"] = run],
                       [out EXCEPT !["formats"] = run, !["image"] = 0]}
     ELSE /\ PostFails
          /\ out' \in IF how = "refused" THEN {out}
                      ELSE {out, [out EXCEPT !["formats"] = run]}
  /\ UNCHANGED <<coordinatorVars, hostVars, builderVars, failed, cerr, post, exit, residual>>

\* Mutation of Released: the mounts are not asked about.
ReleasedLoopOnly == acquired /\ ~loop

\* Neither the device nor a mount holds the copy any more.
Released == acquired /\ ~loop /\ teardown = NoTeardown

\* Mutation of Finish: what was emitted stays after a later stage failed.
FinishKeepsOutput ==
  /\ Goto("finish", "return")
  /\ copy' = (IF (failed \/ perr) /\ Released THEN 0 ELSE copy)
  /\ post' = IF perr /\ cerr THEN "masked" ELSE IF perr \/ cerr THEN "error" ELSE "ok"
  /\ UNCHANGED <<coordinatorVars, run, stage, loops, lazy, root, esp, out, builderVars,
                 failed, perr, cerr, phase, exit, residual>>

\* The end of the deferred function: an unsuccessful build removes its copy, if
\* nothing holds it, and everything it emitted.
Finish ==
  /\ Goto("finish", "return")
  /\ copy' = (IF (failed \/ perr) /\ Released THEN 0 ELSE copy)
  /\ out' = (IF perr /\ emitted THEN [k \in Kinds |-> 0] ELSE out)
  /\ post' = IF perr /\ cerr THEN "masked" ELSE IF perr \/ cerr THEN "error" ELSE "ok"
  /\ UNCHANGED <<coordinatorVars, run, stage, loops, lazy, root, esp, builderVars,
                 failed, perr, cerr, phase, exit, residual>>

-----------------------------------------------------------------------------
(* executeBuild after PostProcess *)

Return ==
  /\ pc = "return" /\ pc' = "backstop"
  /\ Bind("build")
  /\ exit' = IF post # "ok" THEN "error"
             ELSE IF signalled THEN "cancelled"
             ELSE IF failed THEN "error"
             ELSE "ok"
  /\ UNCHANGED <<coordinatorVars, hostVars, out, builderVars, failed, perr, cerr, phase,
                 post, residual>>

NoBackstop ==
  /\ ~signalled
  /\ Goto("backstop", "exited")
  /\ UNCHANGED <<coordinatorVars, hostVars, out, builderVars, verdictVars>>

Backstop ==
  /\ signalled
  /\ pc = "backstop" /\ pc' = IF entries # {} THEN "reaploop" ELSE "exited"
  /\ Bind("cleanup")
  /\ fired' = TRUE
  /\ UNCHANGED <<entries, hostVars, out, builderVars, verdictVars>>

\* The callback loopSetupCreate registered.
ReapLoop(how) ==
  /\ Command("reaploop", how, "exited", "exited")
  /\ \/ how \in {"ok", "cut"} /\ LetGo({run})
     \/ how # "ok" /\ UNCHANGED <<loops, lazy>>
  /\ residual' = (IF how = "ok" THEN {} ELSE {"loop"})
  /\ entries' = {}
  /\ UNCHANGED <<fired, run, copy, stage, root, esp, out, builderVars, failed, perr, cerr,
                 phase, post, exit>>

\* What the process knew is gone when it is.
Forget(p) ==
  /\ ContextForget(p)
  /\ acquired' = FALSE /\ loop' = FALSE /\ teardown' = NoTeardown
  /\ union' = FALSE /\ emitted' = FALSE
  /\ failed' = FALSE /\ perr' = FALSE /\ cerr' = FALSE /\ phase' = "unwind"
  /\ post' = "none" /\ exit' = "none" /\ residual' = {}
  /\ UNCHANGED <<copy, stage, loops, lazy, root, esp, out>>

Killed == pc \notin Ended /\ run < Runs /\ Forget("killed") /\ UNCHANGED run

NextRun == pc \in Ended /\ run < Runs /\ Forget("load") /\ run' = run + 1

Next ==
  \/ NoBuilder \/ NewBuilder \/ CopyBaseline \/ StageBaseline
  \/ \E how \in Endings :
       \/ ConvertBaseline(how) \/ Attach(how) \/ Partitions(how) \/ Unattach(how)
       \/ Probe(how) \/ MountRoot(how) \/ MountESP(how) \/ RollbackRoot(how)
       \/ PlanOverlay(how) \/ BuildStages(how) \/ UnmountLayout(how) \/ Detach(how)
       \/ GenerateSBOM(how) \/ ConvertArtifacts(how) \/ ReapLoop(how)
  \/ NothingMounted \/ NothingAttached \/ PostProcess \/ EmitOverlayArtifact
  \/ InspectArtifact \/ Finish \/ Return \/ NoBackstop \/ Backstop
  \/ SignalArrives /\ UNCHANGED <<coordinatorVars, hostVars, out, builderVars, verdictVars>>
  \/ Killed \/ NextRun

Spec == Init /\ [][Next]_vars

-----------------------------------------------------------------------------
(* Properties *)

\* The copy is never unlinked, or moved away, below a device or a mount the build
\* knows of: it would leave a live mount backed by a deleted file (the deferred
\* cleanup of Postprocess, session.go).
CopyOutlivesItsUsers == loop \/ teardown # NoTeardown => copy = run

\* The image that is moved to the output directory is not attached or mounted any
\* more, so it is whole (session.go, "Release the mounts and loop device before").
EmitsReleased ==
  [][out'["image"] = run /\ out["image"] # run => root # run /\ esp # run /\ ~Attached(run)]_vars

\* Seen through the promise, an artifact is of this build or of an earlier one.
Promise == INSTANCE ArtifactPromise WITH
  Images <- {"image", "formats"}, Manifest <- "delta",
  Describing <- {"image", "delta", "complete", "report"},
  mine <- {k \in Kinds : out[k] = run /\ pc # "killed"},
  foreign <- {k \in Kinds : out[k] # 0 /\ (out[k] # run \/ pc = "killed")},
  verdict <- exit

\* The output directory keeps the promise of ArtifactPromise.
KeepsPromise == Promise!Spec

=============================================================================
