------------------------------ MODULE BuildLife ------------------------------
(***************************************************************************)
(* The record of one build from the moment it is tracked                   *)
(* (internal/api/service/builds.go, history.go), and the four threads that *)
(* write it: runBuild, the CancelBuild handler, the cancel watchdog and    *)
(* the shutdown path.  mu makes each access to the record one step;        *)
(* persistMu, the child, the pipe its output comes through, the signals    *)
(* and the two files on disk are modelled.  The server may be killed       *)
(* between any two steps, and a later server shows what the disk says.     *)
(* Slots and setup windows are BuildSlot's.                                *)
(***************************************************************************)
EXTENDS Naturals

CONSTANTS Overlong    \* may the child print a line longer than the scanner takes?

ASSUME OverlongAssumption == Overlong \in BOOLEAN

VARIABLES
  status, cancelRequested, pgid, residual, template,  \* the build's fields
  logFile,        \* build.LogFile is set
  delta,          \* the generated delta template is in TemplatesDir
  done,           \* the done channel is closed
  owner,          \* which thread's finish recorded the outcome
  child, exit,    \* the ICT process group, and how it exited
  residue,        \* its log holds a residual-cleanup report
  scanErr,        \* the scanner gave up on an overlong line
  blocked,        \* ... and output it never read blocks cmd.Wait's copier
  signalled,      \* a SIGTERM was attempted at a recorded group
  verdict,        \* what runBuild's wait path will pass to finish
  seen,           \* [thread -> the pgid beginCancel handed it]
  pc,             \* [thread -> where it is]
  persistMu,      \* who holds it
  snap,           \* [thread -> the record writeMetaLocked snapshotted]
  meta, composeLog, \* the two files: meta.json, compose.log
  unsaved,        \* those the owner failed to write, which is only warned about
  server          \* live, down, or a later server reading the disk

record  == <<status, cancelRequested, pgid, residual, template, logFile>>
childVars == <<child, exit, residue>>
streamVars == <<scanErr, blocked>>
diskVars == <<persistMu, snap, meta, composeLog, unsaved>>
vars == <<record, delta, done, owner, childVars, streamVars, signalled,
          verdict, seen, pc, diskVars, server>>

Terminal == {"success", "failed", "cancelled"}
Status == {"not-started", "running", "cancelling"} \cup Terminal
isTerminal(s) == s \in Terminal

Threads == {"runner", "canceller", "watchdog", "shutdown"}
Residuals == {"none", "cancellation", "cleanup"}
Templates == {"curated", "delta", "archive"}
Meta == [status : Status \cup {"none"}, residual : Residuals, template : Templates,
         log : BOOLEAN]
MetaNow == [status |-> status, residual |-> residual, template |-> template,
            log |-> logFile]
\* No meta.json, no snapshot.
NoMeta == [status |-> "none", residual |-> "none", template |-> "curated", log |-> FALSE]

PC == {"idle", "start", "record", "signal", "refused", "scan", "wait", "classify",
       "archive", "remove", "residue", "finish", "lockmeta", "snapmeta", "writemeta",
       "lock", "log", "snap", "write", "close", "watch", "grace", "resignal",
       "deadline", "await", "over"}

TypeOK ==
  /\ status \in Status
  /\ cancelRequested \in BOOLEAN
  /\ pgid \in BOOLEAN
  /\ residual \in Residuals
  /\ template \in Templates
  /\ logFile \in BOOLEAN
  /\ delta \in BOOLEAN
  /\ done \in BOOLEAN
  /\ owner \in {"none", "runner", "watchdog"}
  /\ child \in {"none", "running", "exited"}
  /\ exit \in {"none", "zero", "signal", "error"}
  /\ residue \in BOOLEAN
  /\ scanErr \in BOOLEAN
  /\ blocked \in BOOLEAN
  /\ signalled \in BOOLEAN
  /\ verdict \in Terminal \cup {"none"}
  /\ seen \in [Threads -> BOOLEAN]
  /\ pc \in [Threads -> PC]
  /\ persistMu \in Threads \cup {"free"}
  /\ snap \in [Threads -> Meta]
  /\ meta \in Meta
  /\ composeLog \in {"none", "partial", "full"}
  /\ unsaved \subseteq {"log", "meta"}
  /\ server \in {"live", "down", "restarted"}

\* What StartBuild leaves: the build tracked, its initial record on disk unless
\* that write failed, runBuild launched.  With an override the template is a generated delta, and
\* its first archive may have failed.
Init ==
  /\ status = "not-started"
  /\ cancelRequested = FALSE
  /\ pgid = FALSE
  /\ residual = "none"
  /\ \/ delta = TRUE /\ template \in {"delta", "archive"}
     \/ delta = FALSE /\ template = "curated"
  /\ logFile = FALSE
  /\ done = FALSE
  /\ owner = "none"
  /\ child = "none"
  /\ exit = "none"
  /\ residue = FALSE
  /\ scanErr = FALSE
  /\ blocked = FALSE
  /\ signalled = FALSE
  /\ verdict = "none"
  /\ seen = [t \in Threads |-> FALSE]
  /\ pc = [t \in Threads |-> IF t = "runner" THEN "start" ELSE "idle"]
  /\ persistMu = "free"
  /\ meta \in {MetaNow, NoMeta}
  /\ unsaved = {}
  /\ snap = [t \in Threads |-> NoMeta]
  /\ composeLog = "none"
  /\ server = "live"

\* Thread t of the live server moves from one place to another.
Goto(t, from, to) ==
  /\ server = "live"
  /\ pc[t] = from
  /\ pc' = [pc EXCEPT ![t] = to]

\* setResidual: the first issue recorded wins.
SetResidual(kind) == residual' = IF residual = "none" THEN kind ELSE residual

\* beginCancel's condition.
CanCancel == status \in {"running", "not-started"}

-----------------------------------------------------------------------------
(* persist and writeMeta, for whichever thread calls them *)

\* Where a thread goes when its finish (or shutdown persist) is through.
AfterPersist(t) == IF t = "shutdown" THEN "await" ELSE "close"

\* ... and when the record that follows a template archive is.
AfterMeta(t) == IF t = "runner" THEN "remove" ELSE "finish"

\* Mutation of Lock: the mutex is taken without waiting for its holder.
LockWithoutWaiting(t) ==
  /\ persistMu' = t
  /\ Goto(t, "lock", "log") \/ Goto(t, "lockmeta", "snapmeta")
  /\ UNCHANGED <<record, delta, done, owner, childVars, streamVars, signalled,
                 verdict, seen, snap, meta, composeLog, unsaved, server>>

Lock(t) ==
  /\ persistMu = "free"
  /\ persistMu' = t
  /\ Goto(t, "lock", "log") \/ Goto(t, "lockmeta", "snapmeta")
  /\ UNCHANGED <<record, delta, done, owner, childVars, streamVars, signalled,
                 verdict, seen, snap, meta, composeLog, unsaved, server>>

\* Thread t failed to write a file.
WriteFails(t, file) == unsaved' = IF t = owner THEN unsaved \cup {file} ELSE unsaved

\* writeLogLocked: all the lines buffered so far, published by a rename; a
\* failure is logged, and the record that follows is written all the same.
WriteLog(t) ==
  /\ Goto(t, "log", "snap")
  /\ \/ /\ composeLog' = IF pc["runner"] \in {"start", "record", "signal", "scan"}
                         THEN "partial" ELSE "full"
        /\ logFile' = TRUE
        /\ unsaved' = unsaved \ {"log"}
     \/ /\ WriteFails(t, "log")
        /\ UNCHANGED <<composeLog, logFile>>
  /\ UNCHANGED <<status, cancelRequested, pgid, residual, template, delta, done,
                 owner, childVars, streamVars, signalled, verdict, seen,
                 persistMu, snap, meta, server>>

\* writeMetaLocked snapshots under the lock ...
Snapshot(t) ==
  /\ Goto(t, "snap", "write") \/ Goto(t, "snapmeta", "writemeta")
  /\ snap' = [snap EXCEPT ![t] = MetaNow]
  /\ UNCHANGED <<record, delta, done, owner, childVars, streamVars, signalled,
                 verdict, seen, persistMu, meta, composeLog, unsaved, server>>

\* ... and publishes that snapshot by a rename, or fails and leaves the file as
\* it was; the callers only log that.  Then the lock is released.
WriteMeta(t) ==
  /\ Goto(t, "write", AfterPersist(t)) \/ Goto(t, "writemeta", AfterMeta(t))
  /\ \/ meta' = snap[t] /\ unsaved' = unsaved \ {"meta"}
     \/ WriteFails(t, "meta") /\ UNCHANGED meta
  /\ snap' = [snap EXCEPT ![t] = NoMeta]
  /\ persistMu' = "free"
  /\ UNCHANGED <<record, delta, done, owner, childVars, streamVars, signalled,
                 verdict, seen, composeLog, server>>

\* Mutation of Archive: the delta is removed here, for every caller.
ArchiveRemovesDelta(t) ==
  /\ Goto(t, "archive", AfterMeta(t))
  /\ delta' = FALSE
  /\ template' = IF delta THEN "archive" ELSE template
  /\ UNCHANGED <<status, cancelRequested, pgid, residual, logFile, done, owner,
                 childVars, streamVars, signalled, verdict, seen, diskVars, server>>

\* archiveMergedTemplate: nothing without a delta; the merge fails once the
\* delta is gone and may fail anyway; a terminal build's record is rewritten.
Archive(t) ==
  /\ \/ /\ Goto(t, "archive", AfterMeta(t))
        /\ UNCHANGED template
     \/ /\ delta
        /\ template' = "archive"
        /\ Goto(t, "archive", IF isTerminal(status) THEN "lockmeta" ELSE AfterMeta(t))
  /\ UNCHANGED <<status, cancelRequested, pgid, residual, logFile, delta, done,
                 owner, childVars, streamVars, signalled, verdict, seen, diskVars,
                 server>>

\* finish: single-shot; the thread that records the outcome persists it.
Finish(t, outcome, loser) ==
  /\ pc[t] = "finish"
  /\ \/ /\ isTerminal(status)
        /\ Goto(t, "finish", loser)
        /\ UNCHANGED <<status, owner>>
     \/ /\ ~isTerminal(status)
        /\ Goto(t, "finish", "lock")
        /\ status' = outcome
        /\ owner' = t
  /\ UNCHANGED <<cancelRequested, pgid, residual, template, logFile, delta, done,
                 childVars, streamVars, signalled, verdict, seen, diskVars, server>>

\* closeDone.
CloseDone(t) ==
  /\ Goto(t, "close", "over")
  /\ done' = TRUE
  /\ UNCHANGED <<record, delta, owner, childVars, streamVars, signalled, verdict,
                 seen, diskVars, server>>

-----------------------------------------------------------------------------
(* runBuild *)

StartFails ==
  /\ Goto("runner", "start", "archive")
  /\ verdict' = "failed"
  /\ UNCHANGED <<record, delta, done, owner, childVars, streamVars, signalled,
                 seen, diskVars, server>>

ChildStarts ==
  /\ Goto("runner", "start", "record")
  /\ child' = "running"
  /\ UNCHANGED <<record, delta, done, owner, exit, residue, streamVars, signalled,
                 verdict, seen, diskVars, server>>

\* Mutation of SetPgidCheckCancel: the group is recorded, the cancel not seen.
SetPgidOnly ==
  /\ pgid' = TRUE
  /\ status' = IF status = "not-started" THEN "running" ELSE status
  /\ Goto("runner", "record", "scan")
  /\ UNCHANGED <<cancelRequested, residual, template, logFile, delta, done, owner,
                 childVars, streamVars, signalled, verdict, seen, diskVars, server>>

\* setPgidCheckCancel: record the group, and learn of a cancel that came before.
SetPgidCheckCancel ==
  /\ pgid' = TRUE
  /\ status' = IF status = "not-started" THEN "running" ELSE status
  /\ Goto("runner", "record",
          IF cancelRequested /\ status = "cancelling" THEN "signal" ELSE "scan")
  /\ UNCHANGED <<cancelRequested, residual, template, logFile, delta, done, owner,
                 childVars, streamVars, signalled, verdict, seen, diskVars, server>>

\* The child prints a line the scanner cannot hold; what it prints after that
\* stays unread and blocks the goroutine cmd.Wait waits for.
ScanFails ==
  /\ Overlong
  /\ Goto("runner", "scan", "wait")
  /\ scanErr' = TRUE
  /\ blocked' \in BOOLEAN
  /\ UNCHANGED <<record, delta, done, owner, childVars, signalled, verdict, seen,
                 diskVars, server>>

\* Mutation of WaitReturns: a broken stream is never waited out.
WaitReturnsAtEOF ==
  /\ child = "exited"
  /\ Goto("runner", "scan", "archive")
  /\ UNCHANGED <<record, delta, done, owner, childVars, streamVars, signalled,
                 verdict, seen, diskVars, server>>

\* The child exited and its output is drained: cmd.Wait returns.
WaitReturns ==
  /\ child = "exited"
  /\ ~blocked
  /\ Goto("runner", "scan", "archive") \/ Goto("runner", "wait", "archive")
  /\ UNCHANGED <<record, delta, done, owner, childVars, streamVars, signalled,
                 verdict, seen, diskVars, server>>

\* archiveAndCleanupDelta ends by removing the delta.
RemoveDelta ==
  /\ Goto("runner", "remove", IF child = "none" THEN "finish" ELSE "classify")
  /\ delta' = FALSE
  /\ UNCHANGED <<record, done, owner, childVars, streamVars, signalled, verdict,
                 seen, diskVars, server>>

\* classifyExit, and what runBuild makes of a clean exit.
Classified ==
  CASE exit = "zero" /\ ~scanErr -> "success"
    [] exit = "signal" /\ cancelRequested -> "cancelled"
    [] OTHER -> "failed"

Classify ==
  /\ Goto("runner", "classify",
          IF exit # "zero" /\ residue THEN "residue" ELSE "finish")
  /\ verdict' = Classified
  /\ UNCHANGED <<record, delta, done, owner, childVars, streamVars, signalled,
                 seen, diskVars, server>>

\* scanResidualCleanup found a report in the log.
RecordResidue ==
  /\ Goto("runner", "residue", "finish")
  /\ SetResidual("cleanup")
  /\ UNCHANGED <<status, cancelRequested, pgid, template, logFile, delta, done,
                 owner, childVars, streamVars, signalled, verdict, seen, diskVars,
                 server>>

-----------------------------------------------------------------------------
(* Cancelling: the user's handler, the shutdown path, the watchdog *)

\* beginCancel, by the CancelBuild handler or by CancelInFlightBuilds.
BeginCancel(t) ==
  /\ CanCancel
  /\ Goto(t, "idle", "signal")
  /\ cancelRequested' = TRUE
  /\ status' = "cancelling"
  /\ seen' = [seen EXCEPT ![t] = pgid]
  /\ UNCHANGED <<pgid, residual, template, logFile, delta, done, owner, childVars,
                 streamVars, signalled, verdict, diskVars, server>>

\* The shutdown path leaves a build alone that is over or being cancelled.
NothingToCancel ==
  /\ ~CanCancel
  /\ Goto("shutdown", "idle", "await")
  /\ UNCHANGED <<record, delta, done, owner, childVars, streamVars, signalled,
                 verdict, seen, diskVars, server>>

\* Where a thread goes once its signal is out, or there was no group to signal.
AfterSignal(t) ==
  CASE t = "runner" -> "scan" [] t = "canceller" -> "watch" [] t = "shutdown" -> "lock"

\* signalGroup: delivered (or the group is already gone), or refused.
Signal(t) ==
  /\ pc[t] = "signal"
  /\ IF t = "runner" \/ seen[t]
     THEN /\ signalled' = TRUE
          /\ Goto(t, "signal", AfterSignal(t)) \/ Goto(t, "signal", "refused")
     ELSE /\ Goto(t, "signal", AfterSignal(t))
          /\ UNCHANGED signalled
  /\ UNCHANGED <<record, delta, done, owner, childVars, streamVars, verdict, seen,
                 diskVars, server>>

\* A refused signal is recorded as a cancellation-failure.
SignalRefused(t) ==
  /\ Goto(t, "refused", AfterSignal(t))
  /\ SetResidual("cancellation")
  /\ UNCHANGED <<status, cancelRequested, pgid, template, logFile, delta, done,
                 owner, childVars, streamVars, signalled, verdict, seen, diskVars,
                 server>>

\* watchCancel: the handler starts the watchdog and returns.
WatchCancel ==
  /\ server = "live"
  /\ pc["canceller"] = "watch"
  /\ pc' = [pc EXCEPT !["canceller"] = "over", !["watchdog"] = "grace"]
  /\ UNCHANGED <<record, delta, done, owner, childVars, streamVars, signalled,
                 verdict, seen, diskVars, server>>

WatchdogSeesDone ==
  /\ done
  /\ Goto("watchdog", "grace", "over") \/ Goto("watchdog", "deadline", "over")
  /\ UNCHANGED <<record, delta, done, owner, childVars, streamVars, signalled,
                 verdict, seen, diskVars, server>>

GraceExpires ==
  /\ Goto("watchdog", "grace", IF pgid THEN "resignal" ELSE "deadline")
  /\ UNCHANGED <<record, delta, done, owner, childVars, streamVars, signalled,
                 verdict, seen, diskVars, server>>

\* The second SIGTERM; whether it was refused only reaches the server's log.
Resignal ==
  /\ Goto("watchdog", "resignal", "deadline")
  /\ signalled' = TRUE
  /\ UNCHANGED <<record, delta, done, owner, childVars, streamVars, verdict, seen,
                 diskVars, server>>

\* concludeStalledCancel records the residual before anything else.
DeadlineFires ==
  /\ Goto("watchdog", "deadline", "archive")
  /\ SetResidual("cancellation")
  /\ UNCHANGED <<status, cancelRequested, pgid, template, logFile, delta, done,
                 owner, childVars, streamVars, signalled, verdict, seen, diskVars,
                 server>>

-----------------------------------------------------------------------------
(* The environment *)

ChildExits ==
  /\ child = "running"
  /\ child' = "exited"
  /\ exit' \in {"zero", "signal", "error"}
  /\ residue' \in BOOLEAN
  /\ UNCHANGED <<record, delta, done, owner, streamVars, signalled, verdict, seen,
                 pc, diskVars, server>>

\* Server.Start returns after WaitForInFlightBuilds: on done or its deadline.
Exit ==
  /\ Goto("shutdown", "await", "over")
  /\ server' = "down"
  /\ UNCHANGED <<record, delta, done, owner, childVars, streamVars, signalled,
                 verdict, seen, diskVars>>

\* The server is killed: every thread stops where it is.
Crash ==
  /\ server = "live"
  /\ server' = "down"
  /\ UNCHANGED <<record, delta, done, owner, childVars, streamVars, signalled,
                 verdict, seen, pc, diskVars>>

\* A new server knows the build by its meta.json alone.
Restart ==
  /\ server = "down"
  /\ server' = "restarted"
  /\ UNCHANGED <<record, delta, done, owner, childVars, streamVars, signalled,
                 verdict, seen, pc, diskVars>>

-----------------------------------------------------------------------------
Persisting(t) == Lock(t) \/ WriteLog(t) \/ Snapshot(t) \/ WriteMeta(t)

RunnerStep ==
  \/ StartFails \/ ChildStarts \/ SetPgidCheckCancel \/ Signal("runner")
  \/ SignalRefused("runner") \/ WaitReturns \/ Archive("runner")
  \/ RemoveDelta \/ Classify \/ RecordResidue \/ Finish("runner", verdict, "close")
  \/ Persisting("runner") \/ CloseDone("runner")

CancellerStep ==
  Signal("canceller") \/ SignalRefused("canceller") \/ WatchCancel

WatchdogStep ==
  \/ WatchdogSeesDone \/ GraceExpires \/ Resignal \/ DeadlineFires
  \/ Archive("watchdog") \/ Finish("watchdog", "cancelled", "over")
  \/ Persisting("watchdog") \/ CloseDone("watchdog")

ShutdownStep ==
  \/ Signal("shutdown") \/ SignalRefused("shutdown") \/ Persisting("shutdown")
  \/ Exit

Next ==
  \/ RunnerStep \/ ScanFails \/ CancellerStep \/ WatchdogStep \/ ShutdownStep
  \/ BeginCancel("canceller") \/ BeginCancel("shutdown") \/ NothingToCancel
  \/ ChildExits \/ Crash \/ Restart

(***************************************************************************)
(* Fairness: goroutines that can run do, and timers fire.  The child need  *)
(* not exit, the user need not cancel, the server need not shut down, but  *)
(* a shutdown that began goes on.                                          *)
(***************************************************************************)
Fairness ==
  /\ WF_vars(RunnerStep) /\ WF_vars(CancellerStep)
  /\ WF_vars(WatchdogStep) /\ WF_vars(ShutdownStep)

Spec == Init /\ [][Next]_vars
FairSpec == Spec /\ Fairness

-----------------------------------------------------------------------------
(* The refinement of BuildOutcome *)

\* reconcileInterrupted: a record still in flight belongs to a dead server.
Reconciled(s) == IF isTerminal(s) THEN s ELSE "failed"

\* What GET /builds/{id} shows, or will show once a server is up again: a build
\* without a record is not found.
View ==
  CASE server = "live" -> status
    [] server # "live" /\ meta.status = "none" -> "unknown"
    [] OTHER -> Reconciled(meta.status)

Outcome == INSTANCE BuildOutcome WITH
  view <- View,
  saved <- CASE meta.status = "none" -> "none"
             [] isTerminal(meta.status) -> "final"
             [] OTHER -> "open",
  lost <- server # "live"

\* The build's record implements what clients are promised (BuildOutcome).
ImplementsOutcome == Outcome!Spec

-----------------------------------------------------------------------------
(* Properties *)

\* A cancel that came before the child had a group is not lost: once every
\* thread that could still signal has passed, a signal was attempted.
CancelReachesChild ==
  status = "cancelling" /\ pgid /\ pc["canceller"] # "signal"
    /\ pc["shutdown"] # "signal" /\ pc["runner"] # "signal" => signalled

\* The delta stays as long as the child may read it (archiveAndCleanupDelta).
DeltaOutlivesChild == child = "running" /\ template # "curated" => delta

\* done is closed on an outcome only, and on the wait path after the whole log
\* and the final record are on disk, except a file it could not write.
DoneMeansConcluded ==
  done => /\ isTerminal(status)
          /\ owner = "runner" /\ "meta" \notin unsaved => meta.status = status
          /\ owner = "runner" /\ "log" \notin unsaved => composeLog = "full"

\* A cancelled build concludes even if its child never exits, is never
\* signalled or has stopped being read; a build whose child exits concludes,
\* unless its output is stuck.
BuildsConclude ==
  /\ (status = "cancelling" /\ server = "live") ~> (isTerminal(status) \/ server # "live")
  /\ (child = "exited" /\ ~blocked) ~> (done \/ blocked \/ server # "live")

=============================================================================
