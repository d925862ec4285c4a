--------------------------- MODULE BuildLifeProofs ---------------------------
(***************************************************************************)
(* Proofs about BuildLife: type correctness, that the record on disk never *)
(* disagrees with an outcome, that done is closed on a saved one, that the *)
(* delta outlives the child, and that the record implements BuildOutcome.  *)
(***************************************************************************)
EXTENDS BuildLife, TLAPS

-----------------------------------------------------------------------------
(* The inductive invariant *)

\* Places where a thread holds persistMu, and where its snapshot is waiting to
\* be published.
Holding == {"log", "snap", "write", "snapmeta", "writemeta"}
Publishing == {"write", "writemeta"}

\* Which places a thread can be at.
RunnerPC == {"start", "record", "signal", "refused", "scan", "wait", "classify",
             "archive", "remove", "residue", "finish", "lockmeta", "snapmeta",
             "writemeta", "lock", "log", "snap", "write", "close", "over"}
WatchdogPC == {"idle", "grace", "resignal", "deadline", "archive", "finish",
               "lockmeta", "snapmeta", "writemeta", "lock", "log", "snap", "write",
               "close", "over"}
CancellerPC == {"idle", "signal", "refused", "watch", "over"}
ShutdownPC == {"idle", "signal", "refused", "lock", "log", "snap", "write",
               "await", "over"}

Places ==
  /\ pc["runner"] \in RunnerPC
  /\ pc["watchdog"] \in WatchdogPC
  /\ pc["canceller"] \in CancellerPC
  /\ pc["shutdown"] \in ShutdownPC
  /\ pc["canceller"] # "over" => pc["watchdog"] = "idle"

\* persistMu is held by the thread that is writing, and by no other.
MutexInv == \A t \in Threads : pc[t] \in Holding <=> persistMu = t

\* The record on disk, and the one about to be published, agree with an outcome.
DiskInv ==
  /\ isTerminal(meta.status) => meta.status = status
  /\ \A t \in Threads : pc[t] \in Publishing =>
       /\ isTerminal(snap[t].status) => snap[t].status = status
       /\ isTerminal(meta.status) => isTerminal(snap[t].status)

\* Before the runner has an outcome it has no verdict, and before it has a group
\* it has nothing to wait for.
Early == {"start", "record"}
Running == {"record", "signal", "refused", "scan", "wait"}
Concluding == {"lock", "log", "snap", "write", "close"}

RunnerInv ==
  /\ pc["runner"] = "start" => child = "none"
  /\ pc["runner"] \in Running => child # "none"
  /\ child = "running" => pc["runner"] \in Running
  /\ child = "exited" /\ pc["runner"] \notin Early => pgid
  /\ pc["runner"] \in {"signal", "refused", "scan", "wait", "classify"} => pgid
  /\ pgid => status # "not-started"
  /\ cancelRequested => status \in {"cancelling"} \cup Terminal
  /\ verdict = "success" => pgid
  /\ verdict = "cancelled" => cancelRequested
  /\ pc["runner"] \in {"residue", "finish"} => verdict # "none"
  /\ pc["runner"] \in {"archive", "remove", "lockmeta", "snapmeta", "writemeta"} =>
       IF child = "none" THEN verdict # "none" ELSE child = "exited"
  /\ child = "exited" => exit # "none"

CancelInv ==
  /\ pc["canceller"] # "idle" => cancelRequested
  /\ pc["watchdog"] # "idle" => cancelRequested
  /\ pc["shutdown"] \notin {"idle", "await", "over"} => cancelRequested

\* Who recorded the outcome, and how far its thread is.
OwnerInv ==
  /\ isTerminal(status) <=> owner # "none"
  /\ owner = "runner" => pc["runner"] \in Concluding \cup {"over"}
  /\ pc["watchdog"] \in Concluding => owner = "watchdog"
  /\ pc["runner"] \in {"lock", "log", "snap", "write"} => owner = "runner"
  /\ pc["runner"] \in {"close", "over"} => owner # "none"

\* The runner's own persist, step by step.
SavedInv ==
  /\ pc["runner"] \in {"snap", "write", "close", "over"} /\ owner = "runner" =>
       "log" \in unsaved \/ composeLog = "full"
  /\ \A t \in Threads : pc[t] \in Publishing => snap[t].status # "none"
  /\ pc["runner"] = "write" => snap["runner"].status = status
  /\ pc["runner"] \in {"close", "over"} /\ owner = "runner" =>
       /\ "meta" \in unsaved \/ meta.status = status
       /\ \A t \in Threads : pc[t] \in Publishing => snap[t].status = status

DoneInv ==
  /\ done => isTerminal(status)
  /\ done /\ owner = "runner" => pc["runner"] = "over"

DeltaInv ==
  /\ template # "curated" /\ pc["runner"] \in Running \cup {"start"} => delta

LifeInv ==
  /\ Places /\ MutexInv /\ DiskInv /\ RunnerInv /\ CancelInv /\ OwnerInv
  /\ SavedInv /\ DoneInv /\ DeltaInv

-----------------------------------------------------------------------------
(* Type correctness *)

LEMMA TypeInit == Init => TypeOK
<1> SUFFICES ASSUME Init PROVE TypeOK
  OBVIOUS
<1> USE DEF Init, Threads
<1>1. seen \in [Threads -> BOOLEAN] /\ pc \in [Threads -> PC]
  BY DEF PC
<1>2. MetaNow \in Meta /\ NoMeta \in Meta
  BY DEF Meta, MetaNow, NoMeta, Status, Residuals, Templates
<1>3. meta \in Meta /\ snap \in [Threads -> Meta]
  BY <1>2
<1>4. /\ status \in Status /\ residual \in Residuals /\ template \in Templates
      /\ delta \in BOOLEAN
  BY DEF Status, Residuals, Templates
<1>5. QED
  BY <1>1, <1>2, <1>3, <1>4 DEF TypeOK

\* One step per action; an outcome is recorded only with a verdict.
LEMMA TypeStep == TypeOK /\ RunnerInv /\ [Next]_vars => TypeOK'
<1> SUFFICES ASSUME TypeOK, RunnerInv, [Next]_vars PROVE TypeOK'
  OBVIOUS
<1> USE DEF TypeOK, record, childVars, streamVars, diskVars, Threads,
            Residuals, Templates, Meta, PC, Status, Terminal, isTerminal,
            RunnerInv
<1>1. ASSUME NEW t \in {"runner", "watchdog", "shutdown"}, Lock(t) PROVE TypeOK'
  BY <1>1 DEF Lock, Goto
<1>2. ASSUME NEW t \in {"runner", "watchdog", "shutdown"}, WriteLog(t) PROVE TypeOK'
  <2>1. pc' = [pc EXCEPT ![t] = "snap"]
    BY <1>2 DEF WriteLog, WriteFails, Goto
  <2>2. /\ composeLog' \in {"none", "partial", "full"} /\ logFile' \in BOOLEAN
        /\ unsaved' \subseteq {"log", "meta"}
    BY <1>2 DEF WriteLog, WriteFails
  <2>3. QED
    BY <1>2, <2>1, <2>2 DEF WriteLog
<1>3. ASSUME NEW t \in {"runner", "watchdog", "shutdown"}, Snapshot(t) PROVE TypeOK'
  BY <1>3 DEF Snapshot, Goto, MetaNow
<1>4. ASSUME NEW t \in {"runner", "watchdog", "shutdown"}, WriteMeta(t) PROVE TypeOK'
  <2>1. NoMeta \in Meta
    BY DEF NoMeta
  <2>2. meta' \in {meta, snap[t]} /\ snap' = [snap EXCEPT ![t] = NoMeta]
    BY <1>4 DEF WriteMeta
  <2>3. meta' \in Meta /\ snap' \in [Threads -> Meta]
    <3> HIDE DEF Meta
    <3>1. QED
      BY <2>1, <2>2
  <2>4. unsaved' \subseteq {"log", "meta"} /\ persistMu' = "free"
    BY <1>4 DEF WriteMeta, WriteFails
  <2>5. \E p \in PC : pc' = [pc EXCEPT ![t] = p]
    BY <1>4 DEF WriteMeta, Goto, AfterPersist, AfterMeta
  <2>6. pc' \in [Threads -> PC]
    BY <2>5
  <2>7. QED
    BY <1>4, <2>3, <2>4, <2>6 DEF WriteMeta
<1>5. ASSUME NEW t \in {"runner", "watchdog"}, Archive(t) PROVE TypeOK'
  BY <1>5 DEF Archive, Goto, AfterMeta
<1>6. CASE Finish("runner", verdict, "close")
  BY <1>6 DEF Finish, Goto
<1>7. CASE Finish("watchdog", "cancelled", "over")
  BY <1>7 DEF Finish, Goto
<1>8. ASSUME NEW t \in {"runner", "watchdog"}, CloseDone(t) PROVE TypeOK'
  BY <1>8 DEF CloseDone, Goto
<1>9. CASE StartFails
  BY <1>9 DEF StartFails, Goto
<1>10. CASE ChildStarts
  BY <1>10 DEF ChildStarts, Goto
<1>11. CASE SetPgidCheckCancel
  BY <1>11 DEF SetPgidCheckCancel, Goto
<1>12. CASE ScanFails
  BY <1>12 DEF ScanFails, Goto
<1>13. CASE WaitReturns
  BY <1>13 DEF WaitReturns, Goto
<1>14. CASE RemoveDelta
  <2>1. pc' = [pc EXCEPT !["runner"] = "finish"] \/ pc' = [pc EXCEPT !["runner"] = "classify"]
    BY <1>14 DEF RemoveDelta, Goto
  <2>2. pc' \in [Threads -> PC]
    BY <2>1
  <2>3. delta' = FALSE
    BY <1>14 DEF RemoveDelta
  <2>4. UNCHANGED <<status, cancelRequested, pgid, residual, template, logFile, done,
                    owner, child, exit, residue, scanErr, blocked, signalled, verdict,
                    seen, persistMu, snap, meta, composeLog, unsaved, server>>
    BY <1>14 DEF RemoveDelta
  <2>5. /\ snap' \in [Threads -> Meta] /\ meta' \in Meta
        /\ verdict' \in Terminal \cup {"none"} /\ seen' \in [Threads -> BOOLEAN]
    BY <2>4
  <2>6. delta' \in BOOLEAN
    BY <2>3
  <2>7. QED
    BY <2>2, <2>4, <2>5, <2>6
<1>15. CASE Classify
  BY <1>15 DEF Classify, Goto, Classified
<1>16. CASE RecordResidue
  BY <1>16 DEF RecordResidue, Goto, SetResidual
<1>17. ASSUME NEW t \in {"canceller", "shutdown"}, BeginCancel(t) PROVE TypeOK'
  BY <1>17 DEF BeginCancel, Goto, CanCancel
<1>18. CASE NothingToCancel
  BY <1>18 DEF NothingToCancel, Goto, CanCancel
<1>19. ASSUME NEW t \in {"runner", "canceller", "shutdown"}, Signal(t) PROVE TypeOK'
  <2>1. \E p \in PC : pc' = [pc EXCEPT ![t] = p]
    BY <1>19 DEF Signal, Goto, AfterSignal
  <2>2. pc' \in [Threads -> PC]
    BY <2>1
  <2>3. signalled' \in BOOLEAN
    BY <1>19 DEF Signal
  <2>4. QED
    BY <1>19, <2>2, <2>3 DEF Signal
<1>20. ASSUME NEW t \in {"runner", "canceller", "shutdown"}, SignalRefused(t) PROVE TypeOK'
  BY <1>20 DEF SignalRefused, Goto, AfterSignal, SetResidual
<1>21. CASE WatchCancel
  BY <1>21 DEF WatchCancel, Goto
<1>22. CASE WatchdogSeesDone
  BY <1>22 DEF WatchdogSeesDone, Goto
<1>23. CASE GraceExpires
  BY <1>23 DEF GraceExpires, Goto
<1>24. CASE Resignal
  BY <1>24 DEF Resignal, Goto
<1>25. CASE DeadlineFires
  BY <1>25 DEF DeadlineFires, Goto, SetResidual
<1>26. CASE ChildExits
  BY <1>26 DEF ChildExits, Goto
<1>27. CASE Exit
  BY <1>27 DEF Exit, Goto
<1>28. CASE Crash
  BY <1>28 DEF Crash, Goto
<1>29. CASE Restart
  BY <1>29 DEF Restart, Goto
<1>30. CASE UNCHANGED vars
  BY <1>30 DEF vars
<1> HIDE DEF TypeOK, record, childVars, streamVars, diskVars, Threads,
             Residuals, Templates, Meta, PC, Status, Terminal, isTerminal,
             RunnerInv
<1>31. QED
  BY <1>1, <1>2, <1>3, <1>4, <1>5, <1>6, <1>7, <1>8, <1>9, <1>10, <1>11,
     <1>12, <1>13, <1>14, <1>15, <1>16, <1>17, <1>18, <1>19, <1>20, <1>21,
     <1>22, <1>23, <1>24, <1>25, <1>26, <1>27, <1>28, <1>29, <1>30
     DEF Next, Persisting, RunnerStep, CancellerStep, WatchdogStep, ShutdownStep

-----------------------------------------------------------------------------
(* The life of a build *)

\* Where each thread can be.
LEMMA PlacesStep == TypeOK /\ Places /\ [Next]_vars => Places'
<1> SUFFICES ASSUME TypeOK, Places, [Next]_vars PROVE Places'
  OBVIOUS
<1> USE DEF TypeOK, record, childVars, streamVars, diskVars, Threads,
            Residuals, Templates, Meta, PC, Status, Terminal, isTerminal,
            Places, RunnerPC, WatchdogPC, CancellerPC, ShutdownPC, Holding,
            Publishing, Early, Running, Concluding
<1>1. ASSUME NEW t \in {"runner", "watchdog", "shutdown"}, Lock(t) PROVE Places'
  BY <1>1 DEF Lock, Goto
<1>2. ASSUME NEW t \in {"runner", "watchdog", "shutdown"}, WriteLog(t) PROVE Places'
  BY <1>2 DEF WriteLog, WriteFails, Goto
<1>3. ASSUME NEW t \in {"runner", "watchdog", "shutdown"}, Snapshot(t) PROVE Places'
  BY <1>3 DEF Snapshot, Goto, MetaNow
<1>4. ASSUME NEW t \in {"runner", "watchdog", "shutdown"}, WriteMeta(t) PROVE Places'
  BY <1>4 DEF WriteMeta, Goto, AfterPersist, AfterMeta
<1>5. ASSUME NEW t \in {"runner", "watchdog"}, Archive(t) PROVE Places'
  BY <1>5 DEF Archive, Goto, AfterMeta
<1>6. CASE Finish("runner", verdict, "close")
  BY <1>6 DEF Finish, Goto
<1>7. CASE Finish("watchdog", "cancelled", "over")
  BY <1>7 DEF Finish, Goto
<1>8. ASSUME NEW t \in {"runner", "watchdog"}, CloseDone(t) PROVE Places'
  BY <1>8 DEF CloseDone, Goto
<1>9. CASE StartFails
  BY <1>9 DEF StartFails, Goto
<1>10. CASE ChildStarts
  BY <1>10 DEF ChildStarts, Goto
<1>11. CASE SetPgidCheckCancel
  BY <1>11 DEF SetPgidCheckCancel, Goto
<1>12. CASE ScanFails
  BY <1>12 DEF ScanFails, Goto
<1>13. CASE WaitReturns
  BY <1>13 DEF WaitReturns, Goto
<1>14. CASE RemoveDelta
  BY <1>14 DEF RemoveDelta, Goto
<1>15. CASE Classify
  BY <1>15 DEF Classify, Goto, Classified
<1>16. CASE RecordResidue
  BY <1>16 DEF RecordResidue, Goto, SetResidual
<1>17. ASSUME NEW t \in {"canceller", "shutdown"}, BeginCancel(t) PROVE Places'
  BY <1>17 DEF BeginCancel, Goto, CanCancel
<1>18. CASE NothingToCancel
  BY <1>18 DEF NothingToCancel, Goto, CanCancel
<1>19. ASSUME NEW t \in {"runner", "canceller", "shutdown"}, Signal(t) PROVE Places'
  BY <1>19 DEF Signal, Goto, AfterSignal
<1>20. ASSUME NEW t \in {"runner", "canceller", "shutdown"}, SignalRefused(t) PROVE Places'
  BY <1>20 DEF SignalRefused, Goto, AfterSignal, SetResidual
<1>21. CASE WatchCancel
  BY <1>21 DEF WatchCancel, Goto
<1>22. CASE WatchdogSeesDone
  BY <1>22 DEF WatchdogSeesDone, Goto
<1>23. CASE GraceExpires
  BY <1>23 DEF GraceExpires, Goto
<1>24. CASE Resignal
  BY <1>24 DEF Resignal, Goto
<1>25. CASE DeadlineFires
  BY <1>25 DEF DeadlineFires, Goto, SetResidual
<1>26. CASE ChildExits
  BY <1>26 DEF ChildExits, Goto
<1>27. CASE Exit
  BY <1>27 DEF Exit, Goto
<1>28. CASE Crash
  BY <1>28 DEF Crash, Goto
<1>29. CASE Restart
  BY <1>29 DEF Restart, Goto
<1>30. CASE UNCHANGED vars
  BY <1>30 DEF vars
<1> HIDE DEF TypeOK, record, childVars, streamVars, diskVars, Threads,
             Residuals, Templates, Meta, PC, Status, Terminal, isTerminal,
             Places, RunnerPC, WatchdogPC, CancellerPC, ShutdownPC, Holding,
             Publishing, Early, Running, Concluding
<1>31. QED
  BY <1>1, <1>2, <1>3, <1>4, <1>5, <1>6, <1>7, <1>8, <1>9, <1>10, <1>11,
     <1>12, <1>13, <1>14, <1>15, <1>16, <1>17, <1>18, <1>19, <1>20, <1>21,
     <1>22, <1>23, <1>24, <1>25, <1>26, <1>27, <1>28, <1>29, <1>30
     DEF Next, Persisting, RunnerStep, CancellerStep, WatchdogStep, ShutdownStep

\* persistMu excludes.
LEMMA MutexStep == TypeOK /\ Places /\ MutexInv /\ [Next]_vars => MutexInv'
<1> SUFFICES ASSUME TypeOK, Places, MutexInv, [Next]_vars PROVE MutexInv'
  OBVIOUS
<1> USE DEF TypeOK, record, childVars, streamVars, diskVars, Threads,
            Residuals, Templates, Meta, PC, Status, Terminal, isTerminal,
            Places, MutexInv, RunnerPC, WatchdogPC, CancellerPC, ShutdownPC,
            Holding, Publishing, Early, Running, Concluding
<1>1. ASSUME NEW t \in {"runner", "watchdog", "shutdown"}, Lock(t) PROVE MutexInv'
  BY <1>1 DEF Lock, Goto
<1>2. ASSUME NEW t \in {"runner", "watchdog", "shutdown"}, WriteLog(t) PROVE MutexInv'
  BY <1>2 DEF WriteLog, WriteFails, Goto
<1>3. ASSUME NEW t \in {"runner", "watchdog", "shutdown"}, Snapshot(t) PROVE MutexInv'
  BY <1>3 DEF Snapshot, Goto, MetaNow
<1>4. ASSUME NEW t \in {"runner", "watchdog", "shutdown"}, WriteMeta(t) PROVE MutexInv'
  BY <1>4 DEF WriteMeta, Goto, AfterPersist, AfterMeta
<1>5. ASSUME NEW t \in {"runner", "watchdog"}, Archive(t) PROVE MutexInv'
  BY <1>5 DEF Archive, Goto, AfterMeta
<1>6. CASE Finish("runner", verdict, "close")
  BY <1>6 DEF Finish, Goto
<1>7. CASE Finish("watchdog", "cancelled", "over")
  BY <1>7 DEF Finish, Goto
<1>8. ASSUME NEW t \in {"runner", "watchdog"}, CloseDone(t) PROVE MutexInv'
  BY <1>8 DEF CloseDone, Goto
<1>9. CASE StartFails
  BY <1>9 DEF StartFails, Goto
<1>10. CASE ChildStarts
  BY <1>10 DEF ChildStarts, Goto
<1>11. CASE SetPgidCheckCancel
  BY <1>11 DEF SetPgidCheckCancel, Goto
<1>12. CASE ScanFails
  BY <1>12 DEF ScanFails, Goto
<1>13. CASE WaitReturns
  BY <1>13 DEF WaitReturns, Goto
<1>14. CASE RemoveDelta
  BY <1>14 DEF RemoveDelta, Goto
<1>15. CASE Classify
  BY <1>15 DEF Classify, Goto, Classified
<1>16. CASE RecordResidue
  BY <1>16 DEF RecordResidue, Goto, SetResidual
<1>17. ASSUME NEW t \in {"canceller", "shutdown"}, BeginCancel(t) PROVE MutexInv'
  BY <1>17 DEF BeginCancel, Goto, CanCancel
<1>18. CASE NothingToCancel
  BY <1>18 DEF NothingToCancel, Goto, CanCancel
<1>19. ASSUME NEW t \in {"runner", "canceller", "shutdown"}, Signal(t) PROVE MutexInv'
  BY <1>19 DEF Signal, Goto, AfterSignal
<1>20. ASSUME NEW t \in {"runner", "canceller", "shutdown"}, SignalRefused(t) PROVE MutexInv'
  BY <1>20 DEF SignalRefused, Goto, AfterSignal, SetResidual
<1>21. CASE WatchCancel
  BY <1>21 DEF WatchCancel, Goto
<1>22. CASE WatchdogSeesDone
  BY <1>22 DEF WatchdogSeesDone, Goto
<1>23. CASE GraceExpires
  BY <1>23 DEF GraceExpires, Goto
<1>24. CASE Resignal
  BY <1>24 DEF Resignal, Goto
<1>25. CASE DeadlineFires
  BY <1>25 DEF DeadlineFires, Goto, SetResidual
<1>26. CASE ChildExits
  BY <1>26 DEF ChildExits, Goto
<1>27. CASE Exit
  BY <1>27 DEF Exit, Goto
<1>28. CASE Crash
  BY <1>28 DEF Crash, Goto
<1>29. CASE Restart
  BY <1>29 DEF Restart, Goto
<1>30. CASE UNCHANGED vars
  BY <1>30 DEF vars
<1> HIDE DEF TypeOK, record, childVars, streamVars, diskVars, Threads,
             Residuals, Templates, Meta, PC, Status, Terminal, isTerminal,
             Places, MutexInv, RunnerPC, WatchdogPC, CancellerPC, ShutdownPC,
             Holding, Publishing, Early, Running, Concluding
<1>31. QED
  BY <1>1, <1>2, <1>3, <1>4, <1>5, <1>6, <1>7, <1>8, <1>9, <1>10, <1>11,
     <1>12, <1>13, <1>14, <1>15, <1>16, <1>17, <1>18, <1>19, <1>20, <1>21,
     <1>22, <1>23, <1>24, <1>25, <1>26, <1>27, <1>28, <1>29, <1>30
     DEF Next, Persisting, RunnerStep, CancellerStep, WatchdogStep, ShutdownStep

\* Nobody acts on a cancel that was not requested.
LEMMA CancelStep == TypeOK /\ Places /\ CancelInv /\ [Next]_vars => CancelInv'
<1> SUFFICES ASSUME TypeOK, Places, CancelInv, [Next]_vars PROVE CancelInv'
  OBVIOUS
<1> USE DEF TypeOK, record, childVars, streamVars, diskVars, Threads,
            Residuals, Templates, Meta, PC, Status, Terminal, isTerminal,
            Places, CancelInv, RunnerPC, WatchdogPC, CancellerPC, ShutdownPC,
            Holding, Publishing, Early, Running, Concluding
<1>1. ASSUME NEW t \in {"runner", "watchdog", "shutdown"}, Lock(t) PROVE CancelInv'
  BY <1>1 DEF Lock, Goto
<1>2. ASSUME NEW t \in {"runner", "watchdog", "shutdown"}, WriteLog(t) PROVE CancelInv'
  BY <1>2 DEF WriteLog, WriteFails, Goto
<1>3. ASSUME NEW t \in {"runner", "watchdog", "shutdown"}, Snapshot(t) PROVE CancelInv'
  BY <1>3 DEF Snapshot, Goto, MetaNow
<1>4. ASSUME NEW t \in {"runner", "watchdog", "shutdown"}, WriteMeta(t) PROVE CancelInv'
  BY <1>4 DEF WriteMeta, Goto, AfterPersist, AfterMeta
<1>5. ASSUME NEW t \in {"runner", "watchdog"}, Archive(t) PROVE CancelInv'
  BY <1>5 DEF Archive, Goto, AfterMeta
<1>6. CASE Finish("runner", verdict, "close")
  BY <1>6 DEF Finish, Goto
<1>7. CASE Finish("watchdog", "cancelled", "over")
  BY <1>7 DEF Finish, Goto
<1>8. ASSUME NEW t \in {"runner", "watchdog"}, CloseDone(t) PROVE CancelInv'
  BY <1>8 DEF CloseDone, Goto
<1>9. CASE StartFails
  BY <1>9 DEF StartFails, Goto
<1>10. CASE ChildStarts
  BY <1>10 DEF ChildStarts, Goto
<1>11. CASE SetPgidCheckCancel
  BY <1>11 DEF SetPgidCheckCancel, Goto
<1>12. CASE ScanFails
  BY <1>12 DEF ScanFails, Goto
<1>13. CASE WaitReturns
  BY <1>13 DEF WaitReturns, Goto
<1>14. CASE RemoveDelta
  BY <1>14 DEF RemoveDelta, Goto
<1>15. CASE Classify
  BY <1>15 DEF Classify, Goto, Classified
<1>16. CASE RecordResidue
  BY <1>16 DEF RecordResidue, Goto, SetResidual
<1>17. ASSUME NEW t \in {"canceller", "shutdown"}, BeginCancel(t) PROVE CancelInv'
  BY <1>17 DEF BeginCancel, Goto, CanCancel
<1>18. CASE NothingToCancel
  BY <1>18 DEF NothingToCancel, Goto, CanCancel
<1>19. ASSUME NEW t \in {"runner", "canceller", "shutdown"}, Signal(t) PROVE CancelInv'
  BY <1>19 DEF Signal, Goto, AfterSignal
<1>20. ASSUME NEW t \in {"runner", "canceller", "shutdown"}, SignalRefused(t) PROVE CancelInv'
  BY <1>20 DEF SignalRefused, Goto, AfterSignal, SetResidual
<1>21. CASE WatchCancel
  BY <1>21 DEF WatchCancel, Goto
<1>22. CASE WatchdogSeesDone
  BY <1>22 DEF WatchdogSeesDone, Goto
<1>23. CASE GraceExpires
  BY <1>23 DEF GraceExpires, Goto
<1>24. CASE Resignal
  BY <1>24 DEF Resignal, Goto
<1>25. CASE DeadlineFires
  BY <1>25 DEF DeadlineFires, Goto, SetResidual
<1>26. CASE ChildExits
  BY <1>26 DEF ChildExits, Goto
<1>27. CASE Exit
  BY <1>27 DEF Exit, Goto
<1>28. CASE Crash
  BY <1>28 DEF Crash, Goto
<1>29. CASE Restart
  BY <1>29 DEF Restart, Goto
<1>30. CASE UNCHANGED vars
  BY <1>30 DEF vars
<1> HIDE DEF TypeOK, record, childVars, streamVars, diskVars, Threads,
             Residuals, Templates, Meta, PC, Status, Terminal, isTerminal,
             Places, CancelInv, RunnerPC, WatchdogPC, CancellerPC, ShutdownPC,
             Holding, Publishing, Early, Running, Concluding
<1>31. QED
  BY <1>1, <1>2, <1>3, <1>4, <1>5, <1>6, <1>7, <1>8, <1>9, <1>10, <1>11,
     <1>12, <1>13, <1>14, <1>15, <1>16, <1>17, <1>18, <1>19, <1>20, <1>21,
     <1>22, <1>23, <1>24, <1>25, <1>26, <1>27, <1>28, <1>29, <1>30
     DEF Next, Persisting, RunnerStep, CancellerStep, WatchdogStep, ShutdownStep

\* The runner's own progress.
LEMMA ProgressStep == TypeOK /\ Places /\ CancelInv /\ RunnerInv /\ [Next]_vars => RunnerInv'
<1> SUFFICES ASSUME TypeOK, Places, CancelInv, RunnerInv, [Next]_vars PROVE RunnerInv'
  OBVIOUS
<1> USE DEF TypeOK, record, childVars, streamVars, diskVars, Threads,
            Residuals, Templates, Meta, PC, Status, Terminal, isTerminal,
            Places, CancelInv, RunnerInv, RunnerPC, WatchdogPC, CancellerPC,
            ShutdownPC, Holding, Publishing, Early, Running, Concluding
<1>1. ASSUME NEW t \in {"runner", "watchdog", "shutdown"}, Lock(t) PROVE RunnerInv'
  BY <1>1 DEF Lock, Goto
<1>2. ASSUME NEW t \in {"runner", "watchdog", "shutdown"}, WriteLog(t) PROVE RunnerInv'
  BY <1>2 DEF WriteLog, WriteFails, Goto
<1>3. ASSUME NEW t \in {"runner", "watchdog", "shutdown"}, Snapshot(t) PROVE RunnerInv'
  BY <1>3 DEF Snapshot, Goto, MetaNow
<1>4. ASSUME NEW t \in {"runner", "watchdog", "shutdown"}, WriteMeta(t) PROVE RunnerInv'
  BY <1>4 DEF WriteMeta, Goto, AfterPersist, AfterMeta
<1>5. ASSUME NEW t \in {"runner", "watchdog"}, Archive(t) PROVE RunnerInv'
  BY <1>5 DEF Archive, Goto, AfterMeta
<1>6. CASE Finish("runner", verdict, "close")
  BY <1>6 DEF Finish, Goto
<1>7. CASE Finish("watchdog", "cancelled", "over")
  BY <1>7 DEF Finish, Goto
<1>8. ASSUME NEW t \in {"runner", "watchdog"}, CloseDone(t) PROVE RunnerInv'
  BY <1>8 DEF CloseDone, Goto
<1>9. CASE StartFails
  BY <1>9 DEF StartFails, Goto
<1>10. CASE ChildStarts
  BY <1>10 DEF ChildStarts, Goto
<1>11. CASE SetPgidCheckCancel
  BY <1>11 DEF SetPgidCheckCancel, Goto
<1>12. CASE ScanFails
  BY <1>12 DEF ScanFails, Goto
<1>13. CASE WaitReturns
  BY <1>13 DEF WaitReturns, Goto
<1>14. CASE RemoveDelta
  BY <1>14 DEF RemoveDelta, Goto
<1>15. CASE Classify
  BY <1>15 DEF Classify, Goto, Classified
<1>16. CASE RecordResidue
  BY <1>16 DEF RecordResidue, Goto, SetResidual
<1>17. ASSUME NEW t \in {"canceller", "shutdown"}, BeginCancel(t) PROVE RunnerInv'
  BY <1>17 DEF BeginCancel, Goto, CanCancel
<1>18. CASE NothingToCancel
  BY <1>18 DEF NothingToCancel, Goto, CanCancel
<1>19. ASSUME NEW t \in {"runner", "canceller", "shutdown"}, Signal(t) PROVE RunnerInv'
  BY <1>19 DEF Signal, Goto, AfterSignal
<1>20. ASSUME NEW t \in {"runner", "canceller", "shutdown"}, SignalRefused(t) PROVE RunnerInv'
  BY <1>20 DEF SignalRefused, Goto, AfterSignal, SetResidual
<1>21. CASE WatchCancel
  BY <1>21 DEF WatchCancel, Goto
<1>22. CASE WatchdogSeesDone
  BY <1>22 DEF WatchdogSeesDone, Goto
<1>23. CASE GraceExpires
  BY <1>23 DEF GraceExpires, Goto
<1>24. CASE Resignal
  BY <1>24 DEF Resignal, Goto
<1>25. CASE DeadlineFires
  BY <1>25 DEF DeadlineFires, Goto, SetResidual
<1>26. CASE ChildExits
  BY <1>26 DEF ChildExits, Goto
<1>27. CASE Exit
  BY <1>27 DEF Exit, Goto
<1>28. CASE Crash
  BY <1>28 DEF Crash, Goto
<1>29. CASE Restart
  BY <1>29 DEF Restart, Goto
<1>30. CASE UNCHANGED vars
  BY <1>30 DEF vars
<1> HIDE DEF TypeOK, record, childVars, streamVars, diskVars, Threads,
             Residuals, Templates, Meta, PC, Status, Terminal, isTerminal,
             Places, CancelInv, RunnerInv, RunnerPC, WatchdogPC, CancellerPC,
             ShutdownPC, Holding, Publishing, Early, Running, Concluding
<1>31. QED
  BY <1>1, <1>2, <1>3, <1>4, <1>5, <1>6, <1>7, <1>8, <1>9, <1>10, <1>11,
     <1>12, <1>13, <1>14, <1>15, <1>16, <1>17, <1>18, <1>19, <1>20, <1>21,
     <1>22, <1>23, <1>24, <1>25, <1>26, <1>27, <1>28, <1>29, <1>30
     DEF Next, Persisting, RunnerStep, CancellerStep, WatchdogStep, ShutdownStep

\* One thread owns the outcome.
LEMMA OwnerStep == TypeOK /\ Places /\ RunnerInv /\ OwnerInv /\ [Next]_vars => OwnerInv'
<1> SUFFICES ASSUME TypeOK, Places, RunnerInv, OwnerInv, [Next]_vars PROVE OwnerInv'
  OBVIOUS
<1> USE DEF TypeOK, record, childVars, streamVars, diskVars, Threads,
            Residuals, Templates, Meta, PC, Status, Terminal, isTerminal,
            Places, RunnerInv, OwnerInv, RunnerPC, WatchdogPC, CancellerPC,
            ShutdownPC, Holding, Publishing, Early, Running, Concluding
<1>1. ASSUME NEW t \in {"runner", "watchdog", "shutdown"}, Lock(t) PROVE OwnerInv'
  BY <1>1 DEF Lock, Goto
<1>2. ASSUME NEW t \in {"runner", "watchdog", "shutdown"}, WriteLog(t) PROVE OwnerInv'
  BY <1>2 DEF WriteLog, WriteFails, Goto
<1>3. ASSUME NEW t \in {"runner", "watchdog", "shutdown"}, Snapshot(t) PROVE OwnerInv'
  BY <1>3 DEF Snapshot, Goto, MetaNow
<1>4. ASSUME NEW t \in {"runner", "watchdog", "shutdown"}, WriteMeta(t) PROVE OwnerInv'
  BY <1>4 DEF WriteMeta, Goto, AfterPersist, AfterMeta
<1>5. ASSUME NEW t \in {"runner", "watchdog"}, Archive(t) PROVE OwnerInv'
  BY <1>5 DEF Archive, Goto, AfterMeta
<1>6. CASE Finish("runner", verdict, "close")
  BY <1>6 DEF Finish, Goto
<1>7. CASE Finish("watchdog", "cancelled", "over")
  BY <1>7 DEF Finish, Goto
<1>8. ASSUME NEW t \in {"runner", "watchdog"}, CloseDone(t) PROVE OwnerInv'
  BY <1>8 DEF CloseDone, Goto
<1>9. CASE StartFails
  BY <1>9 DEF StartFails, Goto
<1>10. CASE ChildStarts
  BY <1>10 DEF ChildStarts, Goto
<1>11. CASE SetPgidCheckCancel
  BY <1>11 DEF SetPgidCheckCancel, Goto
<1>12. CASE ScanFails
  BY <1>12 DEF ScanFails, Goto
<1>13. CASE WaitReturns
  BY <1>13 DEF WaitReturns, Goto
<1>14. CASE RemoveDelta
  BY <1>14 DEF RemoveDelta, Goto
<1>15. CASE Classify
  BY <1>15 DEF Classify, Goto, Classified
<1>16. CASE RecordResidue
  BY <1>16 DEF RecordResidue, Goto, SetResidual
<1>17. ASSUME NEW t \in {"canceller", "shutdown"}, BeginCancel(t) PROVE OwnerInv'
  BY <1>17 DEF BeginCancel, Goto, CanCancel
<1>18. CASE NothingToCancel
  BY <1>18 DEF NothingToCancel, Goto, CanCancel
<1>19. ASSUME NEW t \in {"runner", "canceller", "shutdown"}, Signal(t) PROVE OwnerInv'
  BY <1>19 DEF Signal, Goto, AfterSignal
<1>20. ASSUME NEW t \in {"runner", "canceller", "shutdown"}, SignalRefused(t) PROVE OwnerInv'
  BY <1>20 DEF SignalRefused, Goto, AfterSignal, SetResidual
<1>21. CASE WatchCancel
  BY <1>21 DEF WatchCancel, Goto
<1>22. CASE WatchdogSeesDone
  BY <1>22 DEF WatchdogSeesDone, Goto
<1>23. CASE GraceExpires
  BY <1>23 DEF GraceExpires, Goto
<1>24. CASE Resignal
  BY <1>24 DEF Resignal, Goto
<1>25. CASE DeadlineFires
  BY <1>25 DEF DeadlineFires, Goto, SetResidual
<1>26. CASE ChildExits
  BY <1>26 DEF ChildExits, Goto
<1>27. CASE Exit
  BY <1>27 DEF Exit, Goto
<1>28. CASE Crash
  BY <1>28 DEF Crash, Goto
<1>29. CASE Restart
  BY <1>29 DEF Restart, Goto
<1>30. CASE UNCHANGED vars
  BY <1>30 DEF vars
<1> HIDE DEF TypeOK, record, childVars, streamVars, diskVars, Threads,
             Residuals, Templates, Meta, PC, Status, Terminal, isTerminal,
             Places, RunnerInv, OwnerInv, RunnerPC, WatchdogPC, CancellerPC,
             ShutdownPC, Holding, Publishing, Early, Running, Concluding
<1>31. QED
  BY <1>1, <1>2, <1>3, <1>4, <1>5, <1>6, <1>7, <1>8, <1>9, <1>10, <1>11,
     <1>12, <1>13, <1>14, <1>15, <1>16, <1>17, <1>18, <1>19, <1>20, <1>21,
     <1>22, <1>23, <1>24, <1>25, <1>26, <1>27, <1>28, <1>29, <1>30
     DEF Next, Persisting, RunnerStep, CancellerStep, WatchdogStep, ShutdownStep

\* The disk agrees with the outcome.
LEMMA DiskStep == TypeOK /\ Places /\ MutexInv /\ DiskInv /\ OwnerInv /\ [Next]_vars => DiskInv'
<1> SUFFICES ASSUME TypeOK, Places, MutexInv, DiskInv, OwnerInv, [Next]_vars PROVE DiskInv'
  OBVIOUS
<1> USE DEF TypeOK, record, childVars, streamVars, diskVars, Threads,
            Residuals, Templates, Meta, PC, Status, Terminal, isTerminal,
            Places, MutexInv, DiskInv, OwnerInv, RunnerPC, WatchdogPC,
            CancellerPC, ShutdownPC, Holding, Publishing, Early, Running,
            Concluding
<1>1. ASSUME NEW t \in {"runner", "watchdog", "shutdown"}, Lock(t) PROVE DiskInv'
  BY <1>1 DEF Lock, Goto
<1>2. ASSUME NEW t \in {"runner", "watchdog", "shutdown"}, WriteLog(t) PROVE DiskInv'
  BY <1>2 DEF WriteLog, WriteFails, Goto
<1>3. ASSUME NEW t \in {"runner", "watchdog", "shutdown"}, Snapshot(t) PROVE DiskInv'
  BY <1>3 DEF Snapshot, Goto, MetaNow
<1>4. ASSUME NEW t \in {"runner", "watchdog", "shutdown"}, WriteMeta(t) PROVE DiskInv'
  BY <1>4 DEF WriteMeta, Goto, AfterPersist, AfterMeta
<1>5. ASSUME NEW t \in {"runner", "watchdog"}, Archive(t) PROVE DiskInv'
  BY <1>5 DEF Archive, Goto, AfterMeta
<1>6. CASE Finish("runner", verdict, "close")
  BY <1>6 DEF Finish, Goto
<1>7. CASE Finish("watchdog", "cancelled", "over")
  BY <1>7 DEF Finish, Goto
<1>8. ASSUME NEW t \in {"runner", "watchdog"}, CloseDone(t) PROVE DiskInv'
  BY <1>8 DEF CloseDone, Goto
<1>9. CASE StartFails
  BY <1>9 DEF StartFails, Goto
<1>10. CASE ChildStarts
  BY <1>10 DEF ChildStarts, Goto
<1>11. CASE SetPgidCheckCancel
  BY <1>11 DEF SetPgidCheckCancel, Goto
<1>12. CASE ScanFails
  BY <1>12 DEF ScanFails, Goto
<1>13. CASE WaitReturns
  BY <1>13 DEF WaitReturns, Goto
<1>14. CASE RemoveDelta
  BY <1>14 DEF RemoveDelta, Goto
<1>15. CASE Classify
  BY <1>15 DEF Classify, Goto, Classified
<1>16. CASE RecordResidue
  BY <1>16 DEF RecordResidue, Goto, SetResidual
<1>17. ASSUME NEW t \in {"canceller", "shutdown"}, BeginCancel(t) PROVE DiskInv'
  BY <1>17 DEF BeginCancel, Goto, CanCancel
<1>18. CASE NothingToCancel
  BY <1>18 DEF NothingToCancel, Goto, CanCancel
<1>19. ASSUME NEW t \in {"runner", "canceller", "shutdown"}, Signal(t) PROVE DiskInv'
  BY <1>19 DEF Signal, Goto, AfterSignal
<1>20. ASSUME NEW t \in {"runner", "canceller", "shutdown"}, SignalRefused(t) PROVE DiskInv'
  BY <1>20 DEF SignalRefused, Goto, AfterSignal, SetResidual
<1>21. CASE WatchCancel
  BY <1>21 DEF WatchCancel, Goto
<1>22. CASE WatchdogSeesDone
  BY <1>22 DEF WatchdogSeesDone, Goto
<1>23. CASE GraceExpires
  BY <1>23 DEF GraceExpires, Goto
<1>24. CASE Resignal
  BY <1>24 DEF Resignal, Goto
<1>25. CASE DeadlineFires
  BY <1>25 DEF DeadlineFires, Goto, SetResidual
<1>26. CASE ChildExits
  BY <1>26 DEF ChildExits, Goto
<1>27. CASE Exit
  BY <1>27 DEF Exit, Goto
<1>28. CASE Crash
  BY <1>28 DEF Crash, Goto
<1>29. CASE Restart
  BY <1>29 DEF Restart, Goto
<1>30. CASE UNCHANGED vars
  BY <1>30 DEF vars
<1> HIDE DEF TypeOK, record, childVars, streamVars, diskVars, Threads,
             Residuals, Templates, Meta, PC, Status, Terminal, isTerminal,
             Places, MutexInv, DiskInv, OwnerInv, RunnerPC, WatchdogPC,
             CancellerPC, ShutdownPC, Holding, Publishing, Early, Running,
             Concluding
<1>31. QED
  BY <1>1, <1>2, <1>3, <1>4, <1>5, <1>6, <1>7, <1>8, <1>9, <1>10, <1>11,
     <1>12, <1>13, <1>14, <1>15, <1>16, <1>17, <1>18, <1>19, <1>20, <1>21,
     <1>22, <1>23, <1>24, <1>25, <1>26, <1>27, <1>28, <1>29, <1>30
     DEF Next, Persisting, RunnerStep, CancellerStep, WatchdogStep, ShutdownStep

\* The owner's record is written before it closes done.
LEMMA SavedStep == TypeOK /\ Places /\ MutexInv /\ DiskInv /\ OwnerInv /\ SavedInv /\ [Next]_vars => SavedInv'
<1> SUFFICES ASSUME TypeOK, Places, MutexInv, DiskInv, OwnerInv, SavedInv, [Next]_vars PROVE SavedInv'
  OBVIOUS
<1> USE DEF TypeOK, record, childVars, streamVars, diskVars, Threads,
            Residuals, Templates, Meta, PC, Status, Terminal, isTerminal,
            Places, MutexInv, DiskInv, OwnerInv, SavedInv, RunnerPC,
            WatchdogPC, CancellerPC, ShutdownPC, Holding, Publishing, Early,
            Running, Concluding
<1>1. ASSUME NEW t \in {"runner", "watchdog", "shutdown"}, Lock(t) PROVE SavedInv'
  BY <1>1 DEF Lock, Goto
<1>2. ASSUME NEW t \in {"runner", "watchdog", "shutdown"}, WriteLog(t) PROVE SavedInv'
  BY <1>2 DEF WriteLog, WriteFails, Goto
<1>3. ASSUME NEW t \in {"runner", "watchdog", "shutdown"}, Snapshot(t) PROVE SavedInv'
  BY <1>3 DEF Snapshot, Goto, MetaNow
<1>4. ASSUME NEW t \in {"runner", "watchdog", "shutdown"}, WriteMeta(t) PROVE SavedInv'
  <2>1. CASE Goto(t, "write", AfterPersist(t))
    BY <1>4, <2>1 DEF WriteMeta, WriteFails, Goto, AfterPersist
  <2>2. CASE Goto(t, "writemeta", AfterMeta(t))
    BY <1>4, <2>2 DEF WriteMeta, WriteFails, Goto, AfterMeta
  <2> QED
    BY <1>4, <2>1, <2>2 DEF WriteMeta
<1>5. ASSUME NEW t \in {"runner", "watchdog"}, Archive(t) PROVE SavedInv'
  BY <1>5 DEF Archive, Goto, AfterMeta
<1>6. CASE Finish("runner", verdict, "close")
  BY <1>6 DEF Finish, Goto
<1>7. CASE Finish("watchdog", "cancelled", "over")
  BY <1>7 DEF Finish, Goto
<1>8. ASSUME NEW t \in {"runner", "watchdog"}, CloseDone(t) PROVE SavedInv'
  BY <1>8 DEF CloseDone, Goto
<1>9. CASE StartFails
  BY <1>9 DEF StartFails, Goto
<1>10. CASE ChildStarts
  BY <1>10 DEF ChildStarts, Goto
<1>11. CASE SetPgidCheckCancel
  BY <1>11 DEF SetPgidCheckCancel, Goto
<1>12. CASE ScanFails
  BY <1>12 DEF ScanFails, Goto
<1>13. CASE WaitReturns
  BY <1>13 DEF WaitReturns, Goto
<1>14. CASE RemoveDelta
  BY <1>14 DEF RemoveDelta, Goto
<1>15. CASE Classify
  BY <1>15 DEF Classify, Goto, Classified
<1>16. CASE RecordResidue
  BY <1>16 DEF RecordResidue, Goto, SetResidual
<1>17. ASSUME NEW t \in {"canceller", "shutdown"}, BeginCancel(t) PROVE SavedInv'
  BY <1>17 DEF BeginCancel, Goto, CanCancel
<1>18. CASE NothingToCancel
  BY <1>18 DEF NothingToCancel, Goto, CanCancel
<1>19. ASSUME NEW t \in {"runner", "canceller", "shutdown"}, Signal(t) PROVE SavedInv'
  BY <1>19 DEF Signal, Goto, AfterSignal
<1>20. ASSUME NEW t \in {"runner", "canceller", "shutdown"}, SignalRefused(t) PROVE SavedInv'
  BY <1>20 DEF SignalRefused, Goto, AfterSignal, SetResidual
<1>21. CASE WatchCancel
  BY <1>21 DEF WatchCancel, Goto
<1>22. CASE WatchdogSeesDone
  BY <1>22 DEF WatchdogSeesDone, Goto
<1>23. CASE GraceExpires
  BY <1>23 DEF GraceExpires, Goto
<1>24. CASE Resignal
  BY <1>24 DEF Resignal, Goto
<1>25. CASE DeadlineFires
  BY <1>25 DEF DeadlineFires, Goto, SetResidual
<1>26. CASE ChildExits
  BY <1>26 DEF ChildExits, Goto
<1>27. CASE Exit
  BY <1>27 DEF Exit, Goto
<1>28. CASE Crash
  BY <1>28 DEF Crash, Goto
<1>29. CASE Restart
  BY <1>29 DEF Restart, Goto
<1>30. CASE UNCHANGED vars
  BY <1>30 DEF vars
<1> HIDE DEF TypeOK, record, childVars, streamVars, diskVars, Threads,
             Residuals, Templates, Meta, PC, Status, Terminal, isTerminal,
             Places, MutexInv, DiskInv, OwnerInv, SavedInv, RunnerPC,
             WatchdogPC, CancellerPC, ShutdownPC, Holding, Publishing, Early,
             Running, Concluding
<1>31. QED
  BY <1>1, <1>2, <1>3, <1>4, <1>5, <1>6, <1>7, <1>8, <1>9, <1>10, <1>11,
     <1>12, <1>13, <1>14, <1>15, <1>16, <1>17, <1>18, <1>19, <1>20, <1>21,
     <1>22, <1>23, <1>24, <1>25, <1>26, <1>27, <1>28, <1>29, <1>30
     DEF Next, Persisting, RunnerStep, CancellerStep, WatchdogStep, ShutdownStep

\* done follows the outcome.
LEMMA DoneStep == TypeOK /\ Places /\ OwnerInv /\ DoneInv /\ [Next]_vars => DoneInv'
<1> SUFFICES ASSUME TypeOK, Places, OwnerInv, DoneInv, [Next]_vars PROVE DoneInv'
  OBVIOUS
<1> USE DEF TypeOK, record, childVars, streamVars, diskVars, Threads,
            Residuals, Templates, Meta, PC, Status, Terminal, isTerminal,
            Places, OwnerInv, DoneInv, RunnerPC, WatchdogPC, CancellerPC,
            ShutdownPC, Holding, Publishing, Early, Running, Concluding
<1>1. ASSUME NEW t \in {"runner", "watchdog", "shutdown"}, Lock(t) PROVE DoneInv'
  BY <1>1 DEF Lock, Goto
<1>2. ASSUME NEW t \in {"runner", "watchdog", "shutdown"}, WriteLog(t) PROVE DoneInv'
  BY <1>2 DEF WriteLog, WriteFails, Goto
<1>3. ASSUME NEW t \in {"runner", "watchdog", "shutdown"}, Snapshot(t) PROVE DoneInv'
  BY <1>3 DEF Snapshot, Goto, MetaNow
<1>4. ASSUME NEW t \in {"runner", "watchdog", "shutdown"}, WriteMeta(t) PROVE DoneInv'
  BY <1>4 DEF WriteMeta, Goto, AfterPersist, AfterMeta
<1>5. ASSUME NEW t \in {"runner", "watchdog"}, Archive(t) PROVE DoneInv'
  BY <1>5 DEF Archive, Goto, AfterMeta
<1>6. CASE Finish("runner", verdict, "close")
  BY <1>6 DEF Finish, Goto
<1>7. CASE Finish("watchdog", "cancelled", "over")
  BY <1>7 DEF Finish, Goto
<1>8. ASSUME NEW t \in {"runner", "watchdog"}, CloseDone(t) PROVE DoneInv'
  BY <1>8 DEF CloseDone, Goto
<1>9. CASE StartFails
  BY <1>9 DEF StartFails, Goto
<1>10. CASE ChildStarts
  BY <1>10 DEF ChildStarts, Goto
<1>11. CASE SetPgidCheckCancel
  BY <1>11 DEF SetPgidCheckCancel, Goto
<1>12. CASE ScanFails
  BY <1>12 DEF ScanFails, Goto
<1>13. CASE WaitReturns
  BY <1>13 DEF WaitReturns, Goto
<1>14. CASE RemoveDelta
  BY <1>14 DEF RemoveDelta, Goto
<1>15. CASE Classify
  BY <1>15 DEF Classify, Goto, Classified
<1>16. CASE RecordResidue
  BY <1>16 DEF RecordResidue, Goto, SetResidual
<1>17. ASSUME NEW t \in {"canceller", "shutdown"}, BeginCancel(t) PROVE DoneInv'
  BY <1>17 DEF BeginCancel, Goto, CanCancel
<1>18. CASE NothingToCancel
  BY <1>18 DEF NothingToCancel, Goto, CanCancel
<1>19. ASSUME NEW t \in {"runner", "canceller", "shutdown"}, Signal(t) PROVE DoneInv'
  BY <1>19 DEF Signal, Goto, AfterSignal
<1>20. ASSUME NEW t \in {"runner", "canceller", "shutdown"}, SignalRefused(t) PROVE DoneInv'
  BY <1>20 DEF SignalRefused, Goto, AfterSignal, SetResidual
<1>21. CASE WatchCancel
  BY <1>21 DEF WatchCancel, Goto
<1>22. CASE WatchdogSeesDone
  BY <1>22 DEF WatchdogSeesDone, Goto
<1>23. CASE GraceExpires
  BY <1>23 DEF GraceExpires, Goto
<1>24. CASE Resignal
  BY <1>24 DEF Resignal, Goto
<1>25. CASE DeadlineFires
  BY <1>25 DEF DeadlineFires, Goto, SetResidual
<1>26. CASE ChildExits
  BY <1>26 DEF ChildExits, Goto
<1>27. CASE Exit
  BY <1>27 DEF Exit, Goto
<1>28. CASE Crash
  BY <1>28 DEF Crash, Goto
<1>29. CASE Restart
  BY <1>29 DEF Restart, Goto
<1>30. CASE UNCHANGED vars
  BY <1>30 DEF vars
<1> HIDE DEF TypeOK, record, childVars, streamVars, diskVars, Threads,
             Residuals, Templates, Meta, PC, Status, Terminal, isTerminal,
             Places, OwnerInv, DoneInv, RunnerPC, WatchdogPC, CancellerPC,
             ShutdownPC, Holding, Publishing, Early, Running, Concluding
<1>31. QED
  BY <1>1, <1>2, <1>3, <1>4, <1>5, <1>6, <1>7, <1>8, <1>9, <1>10, <1>11,
     <1>12, <1>13, <1>14, <1>15, <1>16, <1>17, <1>18, <1>19, <1>20, <1>21,
     <1>22, <1>23, <1>24, <1>25, <1>26, <1>27, <1>28, <1>29, <1>30
     DEF Next, Persisting, RunnerStep, CancellerStep, WatchdogStep, ShutdownStep

\* Only runBuild removes the delta.
LEMMA DeltaStep == TypeOK /\ Places /\ RunnerInv /\ DeltaInv /\ [Next]_vars => DeltaInv'
<1> SUFFICES ASSUME TypeOK, Places, RunnerInv, DeltaInv, [Next]_vars PROVE DeltaInv'
  OBVIOUS
<1> USE DEF TypeOK, record, childVars, streamVars, diskVars, Threads,
            Residuals, Templates, Meta, PC, Status, Terminal, isTerminal,
            Places, RunnerInv, DeltaInv, RunnerPC, WatchdogPC, CancellerPC,
            ShutdownPC, Holding, Publishing, Early, Running, Concluding
<1>1. ASSUME NEW t \in {"runner", "watchdog", "shutdown"}, Lock(t) PROVE DeltaInv'
  BY <1>1 DEF Lock, Goto
<1>2. ASSUME NEW t \in {"runner", "watchdog", "shutdown"}, WriteLog(t) PROVE DeltaInv'
  BY <1>2 DEF WriteLog, WriteFails, Goto
<1>3. ASSUME NEW t \in {"runner", "watchdog", "shutdown"}, Snapshot(t) PROVE DeltaInv'
  BY <1>3 DEF Snapshot, Goto, MetaNow
<1>4. ASSUME NEW t \in {"runner", "watchdog", "shutdown"}, WriteMeta(t) PROVE DeltaInv'
  BY <1>4 DEF WriteMeta, Goto, AfterPersist, AfterMeta
<1>5. ASSUME NEW t \in {"runner", "watchdog"}, Archive(t) PROVE DeltaInv'
  BY <1>5 DEF Archive, Goto, AfterMeta
<1>6. CASE Finish("runner", verdict, "close")
  BY <1>6 DEF Finish, Goto
<1>7. CASE Finish("watchdog", "cancelled", "over")
  BY <1>7 DEF Finish, Goto
<1>8. ASSUME NEW t \in {"runner", "watchdog"}, CloseDone(t) PROVE DeltaInv'
  BY <1>8 DEF CloseDone, Goto
<1>9. CASE StartFails
  BY <1>9 DEF StartFails, Goto
<1>10. CASE ChildStarts
  BY <1>10 DEF ChildStarts, Goto
<1>11. CASE SetPgidCheckCancel
  BY <1>11 DEF SetPgidCheckCancel, Goto
<1>12. CASE ScanFails
  BY <1>12 DEF ScanFails, Goto
<1>13. CASE WaitReturns
  BY <1>13 DEF WaitReturns, Goto
<1>14. CASE RemoveDelta
  BY <1>14 DEF RemoveDelta, Goto
<1>15. CASE Classify
  BY <1>15 DEF Classify, Goto, Classified
<1>16. CASE RecordResidue
  BY <1>16 DEF RecordResidue, Goto, SetResidual
<1>17. ASSUME NEW t \in {"canceller", "shutdown"}, BeginCancel(t) PROVE DeltaInv'
  BY <1>17 DEF BeginCancel, Goto, CanCancel
<1>18. CASE NothingToCancel
  BY <1>18 DEF NothingToCancel, Goto, CanCancel
<1>19. ASSUME NEW t \in {"runner", "canceller", "shutdown"}, Signal(t) PROVE DeltaInv'
  BY <1>19 DEF Signal, Goto, AfterSignal
<1>20. ASSUME NEW t \in {"runner", "canceller", "shutdown"}, SignalRefused(t) PROVE DeltaInv'
  BY <1>20 DEF SignalRefused, Goto, AfterSignal, SetResidual
<1>21. CASE WatchCancel
  BY <1>21 DEF WatchCancel, Goto
<1>22. CASE WatchdogSeesDone
  BY <1>22 DEF WatchdogSeesDone, Goto
<1>23. CASE GraceExpires
  BY <1>23 DEF GraceExpires, Goto
<1>24. CASE Resignal
  BY <1>24 DEF Resignal, Goto
<1>25. CASE DeadlineFires
  BY <1>25 DEF DeadlineFires, Goto, SetResidual
<1>26. CASE ChildExits
  BY <1>26 DEF ChildExits, Goto
<1>27. CASE Exit
  BY <1>27 DEF Exit, Goto
<1>28. CASE Crash
  BY <1>28 DEF Crash, Goto
<1>29. CASE Restart
  BY <1>29 DEF Restart, Goto
<1>30. CASE UNCHANGED vars
  BY <1>30 DEF vars
<1> HIDE DEF TypeOK, record, childVars, streamVars, diskVars, Threads,
             Residuals, Templates, Meta, PC, Status, Terminal, isTerminal,
             Places, RunnerInv, DeltaInv, RunnerPC, WatchdogPC, CancellerPC,
             ShutdownPC, Holding, Publishing, Early, Running, Concluding
<1>31. QED
  BY <1>1, <1>2, <1>3, <1>4, <1>5, <1>6, <1>7, <1>8, <1>9, <1>10, <1>11,
     <1>12, <1>13, <1>14, <1>15, <1>16, <1>17, <1>18, <1>19, <1>20, <1>21,
     <1>22, <1>23, <1>24, <1>25, <1>26, <1>27, <1>28, <1>29, <1>30
     DEF Next, Persisting, RunnerStep, CancellerStep, WatchdogStep, ShutdownStep

\* The invariant holds when runBuild is launched.
LEMMA LifeInit == Init => LifeInv
<1> SUFFICES ASSUME Init PROVE LifeInv
  OBVIOUS
<1>1. \A t \in Threads : pc[t] = IF t = "runner" THEN "start" ELSE "idle"
  BY DEF Init
<1>2. /\ pc["runner"] = "start" /\ pc["canceller"] = "idle"
      /\ pc["watchdog"] = "idle" /\ pc["shutdown"] = "idle"
  BY <1>1 DEF Threads
<1>3. Places
  BY <1>2 DEF Places, RunnerPC, WatchdogPC, CancellerPC, ShutdownPC
<1>4. MutexInv
  BY <1>1 DEF Init, MutexInv, Holding, Threads
<1>5. DiskInv
  BY <1>1 DEF Init, DiskInv, Publishing, MetaNow, NoMeta, isTerminal, Terminal, Threads
<1>6. RunnerInv /\ CancelInv
  BY <1>2 DEF Init, RunnerInv, CancelInv, Early, Running
<1>7. OwnerInv /\ SavedInv /\ DoneInv
  BY <1>1, <1>2 DEF Init, OwnerInv, SavedInv, DoneInv, Concluding, Publishing,
                    isTerminal, Terminal, Threads
<1>8. DeltaInv
  BY <1>2 DEF Init, DeltaInv, Running
<1>9. QED
  BY <1>3, <1>4, <1>5, <1>6, <1>7, <1>8 DEF LifeInv

LEMMA LifeStep == TypeOK /\ LifeInv /\ [Next]_vars => TypeOK' /\ LifeInv'
  BY TypeStep, PlacesStep, MutexStep, CancelStep, ProgressStep, OwnerStep,
     DiskStep, SavedStep, DoneStep, DeltaStep DEF LifeInv

LEMMA LifeInvariant == Spec => [](TypeOK /\ LifeInv)
  BY TypeInit, LifeInit, LifeStep, PTL DEF Spec

-----------------------------------------------------------------------------
(* Theorems *)

\* Every field of the record, its files and its threads keeps its type.
THEOREM TypeCorrect == Spec => []TypeOK
  BY LifeInvariant, PTL

\* closeDone runs on an outcome only, and when runBuild itself recorded it, after
\* its persist: whoever waits for done (Server.Start, the SSE stream) finds the
\* whole log and the outcome on disk, unless the watchdog concluded the build or
\* that file could not be written.
THEOREM DoneIsConcluded == Spec => []DoneMeansConcluded
<1>1. TypeOK /\ LifeInv => DoneMeansConcluded
  BY DEF LifeInv, DoneInv, SavedInv, DoneMeansConcluded
<1>2. QED
  BY <1>1, LifeInvariant, PTL

\* The ICT child can read its --template file for as long as it runs, although
\* the watchdog archives the template of a stalled cancel before the child is gone.
THEOREM DeltaStays == Spec => []DeltaOutlivesChild
<1>1. TypeOK /\ LifeInv => DeltaOutlivesChild
  BY DEF LifeInv, RunnerInv, DeltaInv, DeltaOutlivesChild
<1>2. QED
  BY <1>1, LifeInvariant, PTL

-----------------------------------------------------------------------------
(* The cancel and the child's group *)

\* A thread that holds a group it has not signalled yet is about to do so.
Signalling == pc["runner"] = "signal"
              \/ \E t \in {"canceller", "shutdown"} : pc[t] = "signal" /\ seen[t]

\* Whoever comes second, the cancel or the group, finds what the other left.
SignalInv ==
  /\ status = "cancelling" => cancelRequested
  /\ status = "cancelling" /\ pgid => signalled \/ Signalling

\* A step that neither cancels nor records a group nor signals.
LEMMA SignalKept ==
  ASSUME SignalInv, UNCHANGED <<cancelRequested, pgid, signalled, seen>>,
         status' \in {status} \cup Terminal,
         \A t \in Threads \ {"watchdog"} : pc[t] = "signal" => pc'[t] = "signal"
  PROVE  SignalInv'
  BY DEF SignalInv, Signalling, Threads, Terminal

LEMMA SignalStep == TypeOK /\ SignalInv /\ [Next]_vars => SignalInv'
<1> SUFFICES ASSUME TypeOK, SignalInv, [Next]_vars PROVE SignalInv'
  OBVIOUS
<1> USE DEF TypeOK, record, Goto
<1>1. ASSUME NEW t \in Threads, Persisting(t) \/ Archive(t) \/ CloseDone(t)
      PROVE  SignalInv'
  BY <1>1, SignalKept DEF Persisting, Lock, WriteLog, Snapshot, WriteMeta, Archive, CloseDone
<1>2. CASE Finish("runner", verdict, "close") \/ Finish("watchdog", "cancelled", "over")
  <2>1. status' \in {status} \cup Terminal \cup {"none"}
    BY <1>2 DEF Finish, Terminal
  <2>2. CASE status' \in {status} \cup Terminal
    BY <1>2, <2>2, SignalKept DEF Finish
  <2>3. CASE status' = "none"
    BY <2>3 DEF SignalInv
  <2>4. QED
    BY <2>1, <2>2, <2>3
<1>3. CASE \/ StartFails \/ ChildStarts \/ ScanFails \/ WaitReturns \/ RemoveDelta
           \/ Classify \/ RecordResidue
  BY <1>3, SignalKept
     DEF StartFails, ChildStarts, ScanFails, WaitReturns, RemoveDelta, Classify,
         RecordResidue
<1>4. CASE NothingToCancel \/ WatchdogSeesDone \/ GraceExpires \/ DeadlineFires \/ Exit
  BY <1>4, SignalKept
     DEF NothingToCancel, WatchdogSeesDone, GraceExpires, DeadlineFires, Exit
<1>5. CASE WatchCancel
  BY <1>5, SignalKept DEF WatchCancel, Threads
<1>6. CASE ChildExits \/ Crash \/ Restart \/ UNCHANGED vars
  BY <1>6, SignalKept DEF ChildExits, Crash, Restart, vars
<1>7. ASSUME NEW t \in Threads, SignalRefused(t) PROVE SignalInv'
  BY <1>7, SignalKept DEF SignalRefused
<1>8. CASE SetPgidCheckCancel
  BY <1>8 DEF SetPgidCheckCancel, SignalInv, Signalling, Threads
<1>9. ASSUME NEW t \in {"canceller", "shutdown"}, BeginCancel(t) PROVE SignalInv'
  BY <1>9 DEF BeginCancel, SignalInv, Signalling, Threads
<1>10. ASSUME NEW t \in {"runner", "canceller", "shutdown"}, Signal(t) PROVE SignalInv'
  BY <1>10 DEF Signal, SignalInv, Signalling, Threads
<1>11. CASE Resignal
  BY <1>11 DEF Resignal, SignalInv
<1> HIDE DEF TypeOK, record, Goto
<1>12. QED
  BY <1>1, <1>2, <1>3, <1>4, <1>5, <1>6, <1>7, <1>8, <1>9, <1>10, <1>11
     DEF Next, RunnerStep, CancellerStep, WatchdogStep, ShutdownStep, Threads

\* A cancel reaches the child whichever comes first, the cancel or the child's
\* process group: once nobody is on the way to signal, a signal was attempted.
THEOREM CancelReaches == Spec => []CancelReachesChild
<1>1. Init => SignalInv
  BY DEF Init, SignalInv
<1>2. SignalInv => CancelReachesChild
  BY DEF SignalInv, Signalling, CancelReachesChild
<1>3. QED
  BY <1>1, <1>2, SignalStep, TypeCorrect, PTL DEF Spec

-----------------------------------------------------------------------------
(* The refinement *)

LEMMA OutcomeInit == Init => Outcome!Init
  BY DEF Init, Outcome!Init, View, MetaNow, NoMeta, isTerminal, Terminal

\* A step that touches neither the status, nor meta.json, nor the server.
LEMMA OutcomeStutter == UNCHANGED <<status, meta, server>> => UNCHANGED Outcome!vars
  BY DEF Outcome!vars, View

\* Every step of the record is a step of BuildOutcome, or none.
LEMMA OutcomeStep ==
  TypeOK /\ LifeInv /\ [Next]_vars => [Outcome!Next]_(Outcome!vars)
<1> SUFFICES ASSUME TypeOK, LifeInv, [Next]_vars
             PROVE  [Outcome!Next]_(Outcome!vars)
  OBVIOUS
<1> USE DEF record, diskVars, Goto
<1>1. ASSUME NEW t \in {"runner", "watchdog", "shutdown"}, WriteMeta(t)
      PROVE  [Outcome!Next]_(Outcome!vars)
  <2>1. /\ server = "live" /\ server' = "live" /\ status' = status
        /\ meta' \in {meta, snap[t]} /\ pc[t] \in Publishing
    BY <1>1 DEF WriteMeta, Publishing
  <2>2. /\ isTerminal(snap[t].status) => snap[t].status = status
        /\ isTerminal(meta.status) => isTerminal(snap[t].status)
    BY <2>1 DEF LifeInv, DiskInv, Threads
  <2>3. CASE meta' = meta
    BY <2>1, <2>3, OutcomeStutter
  <2>4. CASE meta' = snap[t] /\ isTerminal(snap[t].status)
    BY <2>1, <2>2, <2>4 DEF Outcome!Next, Outcome!Save, View, isTerminal, Terminal,
                            Outcome!Terminal
  <2>5. CASE meta' = snap[t] /\ ~isTerminal(snap[t].status)
    <3>1. ~isTerminal(meta.status) /\ snap[t].status # "none"
      BY <2>1, <2>2, <2>5 DEF LifeInv, SavedInv, Threads
    <3>2. CASE meta.status = "none"
      BY <2>1, <2>5, <3>1, <3>2 DEF Outcome!Next, Outcome!Note, View, isTerminal
    <3>3. CASE meta.status # "none"
      BY <2>1, <2>5, <3>1, <3>3 DEF Outcome!vars, View, isTerminal
    <3>4. QED
      BY <3>2, <3>3
  <2>6. QED
    BY <2>1, <2>3, <2>4, <2>5
<1>2. ASSUME NEW t \in {"runner", "watchdog"}, NEW outcome \in Terminal,
             NEW loser \in PC, Finish(t, outcome, loser),
             outcome = "success" => status # "not-started",
             outcome = "cancelled" => status \in {"cancelling"} \cup Terminal
      PROVE  [Outcome!Next]_(Outcome!vars)
  <2>1. CASE isTerminal(status)
    BY <1>2, <2>1, OutcomeStutter DEF Finish
  <2>2. CASE ~isTerminal(status)
    <3>1. /\ server = "live" /\ server' = "live" /\ status' = outcome
          /\ meta' = meta
      BY <1>2, <2>2 DEF Finish
    <3>2. status \in Outcome!InFlight
      BY <2>2 DEF TypeOK, Status, isTerminal, Outcome!InFlight
    <3>3. Outcome!Conclude
      BY <1>2, <2>2, <3>1, <3>2 DEF Outcome!Conclude, View, isTerminal, Terminal,
                                    Outcome!Terminal
    <3>4. QED
      BY <3>3 DEF Outcome!Next
  <2>3. QED
    BY <2>1, <2>2
<1>3. CASE Finish("runner", verdict, "close")
  <2>1. pc["runner"] = "finish"
    BY <1>3 DEF Finish
  <2>2. verdict \in Terminal
    BY <2>1 DEF LifeInv, RunnerInv, TypeOK
  <2>3. /\ verdict = "success" => status # "not-started"
        /\ verdict = "cancelled" => status \in {"cancelling"} \cup Terminal
    BY DEF LifeInv, RunnerInv
  <2>4. QED
    BY <1>2, <1>3, <2>2, <2>3 DEF PC
<1>4. CASE Finish("watchdog", "cancelled", "over")
  <2>1. status \in {"cancelling"} \cup Terminal
    BY <1>4 DEF Finish, LifeInv, CancelInv, RunnerInv
  <2>2. QED
    BY <1>2, <1>4, <2>1 DEF PC, Terminal
<1>5. ASSUME NEW t \in {"canceller", "shutdown"}, BeginCancel(t)
      PROVE  [Outcome!Next]_(Outcome!vars)
  BY <1>5 DEF BeginCancel, CanCancel, Outcome!Next, Outcome!Cancel, View
<1>6. CASE SetPgidCheckCancel
  <2>1. CASE status = "not-started"
    BY <1>6, <2>1 DEF SetPgidCheckCancel, Outcome!Next, Outcome!Run, View
  <2>2. CASE status # "not-started"
    BY <1>6, <2>2, OutcomeStutter DEF SetPgidCheckCancel
  <2>3. QED
    BY <2>1, <2>2
<1>7. CASE Exit \/ Crash
  <2>1. server = "live" /\ server' = "down" /\ UNCHANGED <<status, meta>>
    BY <1>7 DEF Exit, Crash
  <2>2. isTerminal(meta.status) => meta.status = status
    BY DEF LifeInv, DiskInv
  <2>3. CASE meta.status = "none"
    <3>1. ~isTerminal(meta.status) /\ View' = "unknown"
      BY <2>1, <2>3 DEF View, isTerminal, Terminal
    <3>2. QED
      BY <2>1, <2>3, <3>1 DEF Outcome!Next, Outcome!Lose
  <2>4. CASE isTerminal(meta.status)
    <3>1. meta.status # "none" /\ View = status /\ View' = status
      BY <2>1, <2>2, <2>4 DEF View, Reconciled, isTerminal, Terminal
    <3>2. QED
      BY <2>1, <2>4, <3>1 DEF Outcome!Next, Outcome!Lose
  <2>5. CASE meta.status # "none" /\ ~isTerminal(meta.status)
    <3>1. View' = "failed"
      BY <2>1, <2>5 DEF View, Reconciled
    <3>2. QED
      BY <2>1, <2>5, <3>1 DEF Outcome!Next, Outcome!Lose
  <2>6. QED
    BY <2>3, <2>4, <2>5
<1>8. CASE Restart
  BY <1>8 DEF Restart, Outcome!vars, View
<1>9. ASSUME NEW t \in {"runner", "watchdog", "shutdown"},
             Lock(t) \/ WriteLog(t) \/ Snapshot(t) \/ Archive(t) \/ CloseDone(t)
      PROVE  [Outcome!Next]_(Outcome!vars)
  BY <1>9, OutcomeStutter DEF Lock, WriteLog, Snapshot, Archive, CloseDone
<1>10. CASE StartFails \/ ChildStarts \/ ScanFails \/ WaitReturns \/ RemoveDelta
            \/ Classify \/ RecordResidue
  BY <1>10, OutcomeStutter DEF StartFails, ChildStarts, ScanFails, WaitReturns,
     RemoveDelta, Classify, RecordResidue
<1>11. ASSUME NEW t \in {"runner", "canceller", "shutdown"}, Signal(t) \/ SignalRefused(t)
       PROVE  [Outcome!Next]_(Outcome!vars)
  BY <1>11, OutcomeStutter DEF Signal, SignalRefused
<1>12. CASE WatchCancel \/ WatchdogSeesDone \/ GraceExpires \/ Resignal
            \/ DeadlineFires \/ NothingToCancel \/ ChildExits
  BY <1>12, OutcomeStutter DEF WatchCancel, WatchdogSeesDone, GraceExpires, Resignal,
     DeadlineFires, NothingToCancel, ChildExits
<1>13. CASE UNCHANGED vars
  BY <1>13, OutcomeStutter DEF vars
<1> HIDE DEF record, diskVars, Goto
<1>14. QED
  BY <1>1, <1>3, <1>4, <1>5, <1>6, <1>7, <1>8, <1>9, <1>10, <1>11, <1>12, <1>13
     DEF Next, Persisting, RunnerStep, CancellerStep, WatchdogStep, ShutdownStep

\* What GET /builds/{id} shows of a build implements BuildOutcome: no thread of
\* this server, no crash of it and no later server ever takes an outcome back.
THEOREM Refinement == Spec => ImplementsOutcome
<1>1. Init /\ [][Next]_vars /\ [](TypeOK /\ LifeInv) => Outcome!Init /\ [][Outcome!Next]_(Outcome!vars)
  BY OutcomeInit, OutcomeStep, PTL
<1>2. QED
  BY <1>1, LifeInvariant, PTL DEF Spec, ImplementsOutcome, Outcome!Spec
=============================================================================
