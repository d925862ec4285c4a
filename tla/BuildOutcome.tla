---------------------------- MODULE BuildOutcome ----------------------------
(***************************************************************************)
(* What the web UI's build service promises about one accepted build, as   *)
(* GET /builds/{id} shows it: a status that only moves forward, an outcome *)
(* that is decided once, and an outcome which, once it is saved, is what   *)
(* every later server shows.  A server that dies before it saved one       *)
(* leaves a build that shows as failed, or that nobody knows when not even *)
(* its first record could be written.                                      *)
(***************************************************************************)
VARIABLES view,   \* the status a client is shown
          saved,  \* the record on disk: none, one without an outcome, the final one
          lost    \* the server that accepted the build is gone

vars == <<view, saved, lost>>

Terminal == {"success", "failed", "cancelled"}
InFlight == {"not-started", "running", "cancelling"}

Init == view = "not-started" /\ saved \in {"none", "open"} /\ lost = FALSE

\* The child has been spawned.
Run ==
  /\ ~lost /\ view = "not-started"
  /\ view' = "running"
  /\ UNCHANGED <<saved, lost>>

\* A cancel is accepted, before the child is spawned or after.
Cancel ==
  /\ ~lost /\ view \in {"not-started", "running"}
  /\ view' = "cancelling"
  /\ UNCHANGED <<saved, lost>>

\* The outcome: an unspawned child can only fail, and only a build that was
\* asked to cancel is cancelled.
Conclude ==
  /\ ~lost /\ view \in InFlight
  /\ view' \in Terminal
  /\ view' = "success" => view # "not-started"
  /\ view' = "cancelled" => view = "cancelling"
  /\ UNCHANGED <<saved, lost>>

\* A record of the build without its outcome reaches the disk at last.
Note ==
  /\ ~lost /\ saved = "none"
  /\ saved' = "open"
  /\ UNCHANGED <<view, lost>>

\* The outcome reaches the disk.
Save ==
  /\ ~lost /\ view \in Terminal
  /\ saved' = "final"
  /\ UNCHANGED <<view, lost>>

\* The server exits or is killed.
Lose ==
  /\ ~lost
  /\ lost' = TRUE
  /\ view' = CASE saved = "final" -> view
               [] saved = "open" -> "failed"
               [] saved = "none" -> "unknown"
  /\ UNCHANGED saved

Next == Run \/ Cancel \/ Conclude \/ Note \/ Save \/ Lose

Spec == Init /\ [][Next]_vars

=============================================================================
