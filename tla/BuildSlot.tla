------------------------------ MODULE BuildSlot ------------------------------
(***************************************************************************)
(* The single-build slot of the web UI's build service, and the shutdown   *)
(* path that must not miss a build (internal/api/service/service.go,       *)
(* builds.go, internal/api/server.go).                                     *)
(*                                                                         *)
(* Every POST /builds is one member of Builds.  Its handler (StartBuild)   *)
(* claims the slot, prepares the build, registers it with the tracker and  *)
(* launches runBuild, the goroutine that owns the ICT child process.  A    *)
(* user cancel arms a watchdog.  The server's shutdown closes admission,   *)
(* drains handlers, waits out a start that is mid-setup, cancels and waits *)
(* for the tracked builds, and exits.  Timers carry no time here: a        *)
(* timeout is a step that may be taken whenever its wait is in progress.   *)
(* The record a build keeps, and what reaches the disk, is BuildLife.      *)
(***************************************************************************)
EXTENDS FiniteSets

CONSTANTS Builds,    \* the ids of all POST /builds requests
          NoBuild    \* the empty slot, the nil setup channel

ASSUME NoBuildAssumption == NoBuild \notin Builds

VARIABLES
  starter,          \* [Builds -> where its StartBuild handler is]
  activeBuildID,    \* Service.activeBuildID: the slot's holder
  admissionClosed,  \* Service.admissionClosed
  setupDone,        \* Service.setupDone, a channel named by the start that made it
  closedChans,      \* the setup channels that have been closed
  tracker,          \* the builds buildTracker holds
  runner,           \* [Builds -> where its runBuild goroutine is]
  child,            \* [Builds -> the ICT process group]
  outcome,          \* [Builds -> who recorded the terminal status (finish)]
  cancelRequested,  \* [Builds -> a cancel moved it to cancelling]
  watchdog,         \* [Builds -> where its watchCancel goroutine is]
  done,             \* the builds whose done channel is closed
  server,           \* where Server.Start is
  pending,          \* the setup channel the shutdown path is waiting for
  setupTimedOut,    \* that wait gave up
  toCancel, toAwait \* what is left of the two tracker snapshots

startVars == <<starter, setupDone, closedChans, tracker>>
slotVars  == <<activeBuildID, admissionClosed>>
runVars   == <<runner, child, done>>
stopVars  == <<outcome, cancelRequested, watchdog>>
downVars  == <<server, pending, setupTimedOut, toCancel, toAwait>>
serviceVars == <<startVars, slotVars, runVars, stopVars, downVars>>

Starter == {"idle", "decoding", "refused", "preparing", "tracked",
            "bailed", "spawned", "returned"}
Runner == {"none", "starting", "waiting", "concluding", "closing", "ended"}
Child == {"none", "alive", "gone"}
Outcome == {"none", "exit", "stalled"}
Watchdog == {"off", "armed", "releasing", "closing"}
Phase == {"serving", "draining", "drained", "settling", "cancelling",
          "waiting", "exited"}

ServiceTypeOK ==
  /\ starter \in [Builds -> Starter]
  /\ activeBuildID \in Builds \cup {NoBuild}
  /\ admissionClosed \in BOOLEAN
  /\ setupDone \in Builds \cup {NoBuild}
  /\ closedChans \subseteq Builds
  /\ tracker \subseteq Builds
  /\ runner \in [Builds -> Runner]
  /\ child \in [Builds -> Child]
  /\ outcome \in [Builds -> Outcome]
  /\ cancelRequested \in [Builds -> BOOLEAN]
  /\ watchdog \in [Builds -> Watchdog]
  /\ done \subseteq Builds
  /\ server \in Phase
  /\ pending \in Builds \cup {NoBuild}
  /\ setupTimedOut \in BOOLEAN
  /\ toCancel \subseteq Builds
  /\ toAwait \subseteq Builds

ServiceInit ==
  /\ starter = [b \in Builds |-> "idle"]
  /\ activeBuildID = NoBuild
  /\ admissionClosed = FALSE
  /\ setupDone = NoBuild
  /\ closedChans = {}
  /\ tracker = {}
  /\ runner = [b \in Builds |-> "none"]
  /\ child = [b \in Builds |-> "none"]
  /\ outcome = [b \in Builds |-> "none"]
  /\ cancelRequested = [b \in Builds |-> FALSE]
  /\ watchdog = [b \in Builds |-> "off"]
  /\ done = {}
  /\ server = "serving"
  /\ pending = NoBuild
  /\ setupTimedOut = FALSE
  /\ toCancel = {}
  /\ toAwait = {}

\* Mutation of SlotAfterRelease: any caller frees the slot, holder or not.
SlotFreedByAnyone(b) == NoBuild

(***************************************************************************)
(* The slot: what releaseBuildSlot(b) leaves in it.  Only the holder frees *)
(* it.                                                                     *)
(***************************************************************************)
SlotAfterRelease(b) == IF activeBuildID = b THEN NoBuild ELSE activeBuildID

Up == server # "exited"

-----------------------------------------------------------------------------
(* StartBuild *)

\* POST /builds reaches its handler: only while the listener accepts.
Arrive(b) ==
  /\ server = "serving"
  /\ starter[b] = "idle"
  /\ starter' = [starter EXCEPT ![b] = "decoding"]
  /\ UNCHANGED <<setupDone, closedChans, tracker, slotVars, runVars, stopVars,
                 downVars>>

\* tryAcquireBuildSlot succeeds: the claim opens the setup window.
AcquireBuildSlot(b) ==
  /\ Up
  /\ starter[b] = "decoding"
  /\ ~admissionClosed
  /\ activeBuildID = NoBuild
  /\ activeBuildID' = b
  /\ setupDone' = b
  /\ starter' = [starter EXCEPT ![b] = "preparing"]
  /\ UNCHANGED <<closedChans, tracker, admissionClosed, runVars, stopVars,
                 downVars>>

\* ... or is refused: 503 once admission is closed, 409 while a build holds it.
RefuseStart(b) ==
  /\ Up
  /\ starter[b] = "decoding"
  /\ admissionClosed \/ activeBuildID # NoBuild
  /\ starter' = [starter EXCEPT ![b] = "refused"]
  /\ UNCHANGED <<setupDone, closedChans, tracker, slotVars, runVars, stopVars,
                 downVars>>

\* MkdirAll or resolveBuildTemplate fails: the slot is released here, the setup
\* window only by the deferred endBuildSetup, a later step.
PrepareFails(b) ==
  /\ Up
  /\ starter[b] = "preparing"
  /\ activeBuildID' = SlotAfterRelease(b)
  /\ starter' = [starter EXCEPT ![b] = "bailed"]
  /\ UNCHANGED <<setupDone, closedChans, tracker, admissionClosed, runVars,
                 stopVars, downVars>>

\* The template is resolved and archived; tracker.add makes the build visible.
Track(b) ==
  /\ Up
  /\ starter[b] = "preparing"
  /\ tracker' = tracker \cup {b}
  /\ starter' = [starter EXCEPT ![b] = "tracked"]
  /\ UNCHANGED <<setupDone, closedChans, slotVars, runVars, stopVars, downVars>>

\* The initial record is written, then go s.runBuild(b, ...).
Spawn(b) ==
  /\ Up
  /\ starter[b] = "tracked"
  /\ runner' = [runner EXCEPT ![b] = "starting"]
  /\ starter' = [starter EXCEPT ![b] = "spawned"]
  /\ UNCHANGED <<setupDone, closedChans, tracker, slotVars, child, done,
                 stopVars, downVars>>

\* Mutation of EndBuildSetup: the channel is closed but not cleared.
EndBuildSetupKeepsChannel(b) ==
  /\ Up
  /\ starter[b] \in {"bailed", "spawned"}
  /\ starter' = [starter EXCEPT ![b] = "returned"]
  /\ closedChans' = closedChans \cup ({setupDone} \ {NoBuild})
  /\ UNCHANGED <<setupDone, tracker, slotVars, runVars, stopVars, downVars>>

\* The deferred endBuildSetup: closes whatever channel is there, and clears it.
EndBuildSetup(b) ==
  /\ Up
  /\ starter[b] \in {"bailed", "spawned"}
  /\ starter' = [starter EXCEPT ![b] = "returned"]
  /\ closedChans' = closedChans \cup ({setupDone} \ {NoBuild})
  /\ setupDone' = NoBuild
  /\ UNCHANGED <<tracker, slotVars, runVars, stopVars, downVars>>

-----------------------------------------------------------------------------
(* runBuild and the child *)

\* finish is single-shot: the first path to record an outcome owns it.
Finish(b, how) ==
  outcome' = IF outcome[b] = "none" THEN [outcome EXCEPT ![b] = how]
                                    ELSE outcome

\* cmd.Start fails: no child, the build is finished as failed.
StartFails(b) ==
  /\ Up
  /\ runner[b] = "starting"
  /\ runner' = [runner EXCEPT ![b] = "concluding"]
  /\ Finish(b, "exit")
  /\ UNCHANGED <<startVars, slotVars, child, done, cancelRequested, watchdog,
                 downVars>>

\* cmd.Start succeeds: the child runs in a process group of its own.
ChildStarts(b) ==
  /\ Up
  /\ runner[b] = "starting"
  /\ runner' = [runner EXCEPT ![b] = "waiting"]
  /\ child' = [child EXCEPT ![b] = "alive"]
  /\ UNCHANGED <<startVars, slotVars, done, stopVars, downVars>>

\* The child exits, whether or not the server is still there to see it.
ChildExits(b) ==
  /\ child[b] = "alive"
  /\ child' = [child EXCEPT ![b] = "gone"]
  /\ UNCHANGED <<startVars, slotVars, runner, done, stopVars, downVars>>

\* cmd.Wait returns: the exit is classified and finish records it.
Reap(b) ==
  /\ Up
  /\ runner[b] = "waiting"
  /\ child[b] = "gone"
  /\ runner' = [runner EXCEPT ![b] = "concluding"]
  /\ Finish(b, "exit")
  /\ UNCHANGED <<startVars, slotVars, child, done, cancelRequested, watchdog,
                 downVars>>

\* The deferred closeDone, which runs before the deferred releaseBuildSlot.
CloseDone(b) ==
  /\ Up
  /\ runner[b] = "concluding"
  /\ runner' = [runner EXCEPT ![b] = "closing"]
  /\ done' = done \cup {b}
  /\ UNCHANGED <<startVars, slotVars, child, stopVars, downVars>>

\* The deferred releaseBuildSlot: runBuild returns.
ReleaseBuildSlot(b) ==
  /\ Up
  /\ runner[b] = "closing"
  /\ runner' = [runner EXCEPT ![b] = "ended"]
  /\ activeBuildID' = SlotAfterRelease(b)
  /\ UNCHANGED <<startVars, admissionClosed, child, done, stopVars, downVars>>

-----------------------------------------------------------------------------
(* CancelBuild and its watchdog *)

\* beginCancel: only a tracked build that is neither terminal nor cancelling.
Cancellable(b) == b \in tracker /\ outcome[b] = "none" /\ ~cancelRequested[b]

CancelBuild(b) ==
  /\ Up
  /\ Cancellable(b)
  /\ cancelRequested' = [cancelRequested EXCEPT ![b] = TRUE]
  /\ watchdog' = [watchdog EXCEPT ![b] = "armed"]
  /\ UNCHANGED <<startVars, slotVars, runVars, outcome, downVars>>

\* watchCancel's select takes the done case.
WatchdogSeesDone(b) ==
  /\ Up
  /\ watchdog[b] = "armed"
  /\ b \in done
  /\ watchdog' = [watchdog EXCEPT ![b] = "off"]
  /\ UNCHANGED <<startVars, slotVars, runVars, outcome, cancelRequested, downVars>>

\* ... or the hard deadline: concludeStalledCancel.  When both are ready the
\* select may take either.
DeadlineFires(b) ==
  /\ Up
  /\ watchdog[b] = "armed"
  /\ Finish(b, "stalled")
  /\ watchdog' = [watchdog EXCEPT ![b] =
                    IF outcome[b] = "none" THEN "releasing" ELSE "off"]
  /\ UNCHANGED <<startVars, slotVars, runVars, cancelRequested, downVars>>

WatchdogReleasesSlot(b) ==
  /\ Up
  /\ watchdog[b] = "releasing"
  /\ activeBuildID' = SlotAfterRelease(b)
  /\ watchdog' = [watchdog EXCEPT ![b] = "closing"]
  /\ UNCHANGED <<startVars, admissionClosed, runVars, outcome, cancelRequested,
                 downVars>>

WatchdogClosesDone(b) ==
  /\ Up
  /\ watchdog[b] = "closing"
  /\ done' = done \cup {b}
  /\ watchdog' = [watchdog EXCEPT ![b] = "off"]
  /\ UNCHANGED <<startVars, slotVars, runner, child, outcome, cancelRequested,
                 downVars>>

-----------------------------------------------------------------------------
(* Server.Start after the shutdown signal *)

CloseBuildAdmission ==
  /\ server = "serving"
  /\ server' = "draining"
  /\ admissionClosed' = TRUE
  /\ UNCHANGED <<startVars, activeBuildID, runVars, stopVars, pending,
                 setupTimedOut, toCancel, toAwait>>

\* srv.Shutdown returns: every handler has, or its timeout expired.
HTTPShutdown ==
  /\ server = "draining"
  /\ server' = "drained"
  /\ UNCHANGED <<startVars, slotVars, runVars, stopVars, pending, setupTimedOut,
                 toCancel, toAwait>>

\* Mutation of ReadSetupDone: the snapshot is taken without the wait.
SkipSetupWait ==
  /\ server = "drained"
  /\ server' = "settling"
  /\ pending' = NoBuild
  /\ UNCHANGED <<startVars, slotVars, runVars, stopVars, setupTimedOut,
                 toCancel, toAwait>>

\* waitForBuildSetup reads the channel under buildMu, then waits without it.
ReadSetupDone ==
  /\ server = "drained"
  /\ server' = "settling"
  /\ pending' = setupDone
  /\ UNCHANGED <<startVars, slotVars, runVars, stopVars, setupTimedOut,
                 toCancel, toAwait>>

\* CancelInFlightBuilds snapshots the tracker when the wait is over.
SetupSettled ==
  /\ server = "settling"
  /\ pending = NoBuild \/ pending \in closedChans
  /\ server' = "cancelling"
  /\ toCancel' = tracker
  /\ UNCHANGED <<startVars, slotVars, runVars, stopVars, pending, setupTimedOut,
                 toAwait>>

\* Mutation of SetupGraceExpires: the wait has no timer.
SetupWaitUnbounded == FALSE

\* The wait's timer fires first: the snapshot is taken regardless.
SetupGraceExpires ==
  /\ server = "settling"
  /\ pending # NoBuild
  /\ server' = "cancelling"
  /\ setupTimedOut' = TRUE
  /\ toCancel' = tracker
  /\ UNCHANGED <<startVars, slotVars, runVars, stopVars, pending, toAwait>>

\* One round of CancelInFlightBuilds' loop: no watchdog is armed here.
CancelInFlight(b) ==
  /\ server = "cancelling"
  /\ b \in toCancel
  /\ toCancel' = toCancel \ {b}
  /\ cancelRequested' =
       IF Cancellable(b) THEN [cancelRequested EXCEPT ![b] = TRUE]
                         ELSE cancelRequested
  /\ UNCHANGED <<startVars, slotVars, runVars, outcome, watchdog, server,
                 pending, setupTimedOut, toAwait>>

\* WaitForInFlightBuilds takes a snapshot of its own.
BeginAwait ==
  /\ server = "cancelling"
  /\ toCancel = {}
  /\ server' = "waiting"
  /\ toAwait' = tracker
  /\ UNCHANGED <<startVars, slotVars, runVars, stopVars, pending, setupTimedOut,
                 toCancel>>

AwaitDone(b) ==
  /\ server = "waiting"
  /\ b \in toAwait \cap done
  /\ toAwait' = toAwait \ {b}
  /\ UNCHANGED <<startVars, slotVars, runVars, stopVars, server, pending,
                 setupTimedOut, toCancel>>

\* Every build is done, or the drain deadline passed: Start returns.
Exit ==
  /\ server = "waiting"
  /\ server' = "exited"
  /\ UNCHANGED <<startVars, slotVars, runVars, stopVars, pending, setupTimedOut,
                 toCancel, toAwait>>

-----------------------------------------------------------------------------
StartStep(b) ==
  \/ Arrive(b) \/ AcquireBuildSlot(b) \/ RefuseStart(b) \/ PrepareFails(b)
  \/ Track(b) \/ Spawn(b) \/ EndBuildSetup(b)

RunStep(b) ==
  \/ StartFails(b) \/ ChildStarts(b) \/ Reap(b) \/ CloseDone(b)
  \/ ReleaseBuildSlot(b)

WatchStep(b) ==
  \/ WatchdogSeesDone(b) \/ DeadlineFires(b) \/ WatchdogReleasesSlot(b)
  \/ WatchdogClosesDone(b)

ShutdownStep ==
  \/ HTTPShutdown \/ ReadSetupDone \/ SetupSettled \/ SetupGraceExpires
  \/ BeginAwait \/ Exit
  \/ \E b \in Builds : CancelInFlight(b) \/ AwaitDone(b)

ServiceNext ==
  \/ \E b \in Builds :
       \/ StartStep(b) \/ RunStep(b) \/ ChildExits(b) \/ CancelBuild(b)
       \/ WatchStep(b)
  \/ CloseBuildAdmission
  \/ ShutdownStep

(***************************************************************************)
(* Fairness: the Go scheduler runs every ready goroutine, and a timer that *)
(* was set fires.  Nothing obliges a child to exit, a setup to finish, a   *)
(* user to cancel or a signal to arrive.                                   *)
(***************************************************************************)
Fairness ==
  /\ \A b \in Builds : WF_serviceVars(RunStep(b)) /\ WF_serviceVars(WatchStep(b))
                       /\ WF_serviceVars(EndBuildSetup(b))
  /\ WF_serviceVars(ShutdownStep)

ServiceSpec == ServiceInit /\ [][ServiceNext]_serviceVars
FairSpec == ServiceSpec /\ Fairness

-----------------------------------------------------------------------------
(* Properties *)

\* The build may be touching the host: it is being prepared, or its goroutine
\* has not returned.  The watchdog's verdict abandons it.
Building(b) ==
  /\ \/ starter[b] \in {"preparing", "tracked"}
     \/ runner[b] \in {"starting", "waiting", "concluding", "closing"}
  /\ outcome[b] # "stalled"

\* A build that has not been abandoned holds the slot from the claim until its
\* goroutine returns, so no second build overlaps it (the comment that opens
\* StartBuild).
SlotHeldWhileBuilding == \A b \in Builds : Building(b) => activeBuildID = b

\* endBuildSetup never closes a setup channel twice, which would panic the
\* server, although a start may close the channel another start made.
NoDoubleClose == setupDone # NoBuild => setupDone \notin closedChans

\* done is closed before the slot is freed, so whoever wakes on it and posts
\* again still finds the slot taken (the comment that opens runBuild).
DoneBeforeRelease ==
  \A b \in Builds :
    runner[b] # "none" /\ outcome[b] # "stalled" /\ activeBuildID # b => b \in done

Snapshotted == server \in {"cancelling", "waiting", "exited"}

\* A start still invisible when shutdown took its snapshot, though the grace
\* did not expire, is one whose setup window another start closed.
ShutdownMissesOnlyStolenWindows ==
  Snapshotted /\ ~setupTimedOut =>
    \A b \in Builds : starter[b] = "preparing" => b \in closedChans

\* A user cancel frees the slot even when the child ignores it and never exits,
\* and shutdown never hangs: not on a setup that blocks, not on a build.
CancelAndShutdownEnd ==
  /\ \A b \in Builds : (watchdog[b] = "armed") ~> (activeBuildID # b \/ ~Up)
  /\ admissionClosed ~> ~Up

=============================================================================
