CONSTANTS
  Names <- MCNames
  BaseOf <- MCBaseOf
  Worlds <- MCWorlds
SPECIFICATION Spec
INVARIANTS
  ResolvedUnlessUncompared
  NothingUnverified
CHECK_DEADLOCK FALSE
