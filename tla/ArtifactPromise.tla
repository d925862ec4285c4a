--------------------------- MODULE ArtifactPromise ---------------------------
(***************************************************************************)
(* What a build promises about the directory its artifacts appear in,      *)
(* whatever happens on the way (the contract stated on Builder and on      *)
(* Postprocess in internal/image/overlay/session.go): a build that says it *)
(* succeeded has put a whole set there with nothing beside it that         *)
(* describes an earlier image, one that failed has left nothing of its     *)
(* own, and an artifact of an earlier build never comes back.              *)
(***************************************************************************)
CONSTANTS
  Images,      \* the kinds of artifact that hold the image itself
  Describing,  \* the kinds that would be taken for a description of it
  Manifest     \* the kind that comes with every image

VARIABLES
  mine,     \* the kinds this build has written
  foreign,  \* the kinds an earlier build left
  verdict   \* none, ok, error or cancelled

vars == <<mine, foreign, verdict>>

Kinds == Images \cup Describing \cup {Manifest}

Init == mine = {} /\ foreign = {} /\ verdict = "none"

Whole == Manifest \in mine /\ mine \cap Images # {} /\ foreign \cap Describing = {}

\* Artifacts are written, replaced and removed while the build runs.
Work ==
  /\ verdict = "none"
  /\ mine' \in SUBSET Kinds
  /\ foreign' \in SUBSET foreign
  /\ UNCHANGED verdict

Conclude ==
  /\ verdict = "none"
  /\ \/ verdict' = "ok" /\ Whole
     \/ verdict' = "error" /\ mine = {}
     \/ verdict' = "cancelled" /\ (mine = {} \/ Whole)
  /\ UNCHANGED <<mine, foreign>>

\* A next build, after the end of this one or after its process was killed.
Restart ==
  /\ mine' = {} /\ foreign' = foreign \cup mine /\ verdict' = "none"

Next == Work \/ Conclude \/ Restart

Spec == Init /\ [][Next]_vars
=============================================================================
