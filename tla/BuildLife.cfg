\* One build, all its threads, kills and restarts, overlong output.
SPECIFICATION FairSpec
CONSTANT Overlong = TRUE
INVARIANTS
  CancelReachesChild
  DeltaOutlivesChild
PROPERTIES
  ImplementsOutcome
  BuildsConclude
\* A build ends, and so does a server.
CHECK_DEADLOCK FALSE
