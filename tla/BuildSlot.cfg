\* Two POST /builds, cancels and a shutdown, every interleaving.
SPECIFICATION FairSpec
CONSTANTS
  Builds = {b1, b2}
  NoBuild = NoBuild
INVARIANTS
  SlotHeldWhileBuilding
  NoDoubleClose
  ShutdownMissesOnlyStolenWindows
PROPERTIES
  CancelAndShutdownEnd
\* The server stops: after Exit and the last child nothing happens.
CHECK_DEADLOCK FALSE
