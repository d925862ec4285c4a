CONSTANTS
  Names <- MCNames
  Worlds <- MCWorlds
SPECIFICATION ResolverSpec
INVARIANTS
  ResolvedUnlessRebound
  ForbiddenOnlyByRelookup
PROPERTY EndsUnlessCircular
CHECK_DEADLOCK FALSE
