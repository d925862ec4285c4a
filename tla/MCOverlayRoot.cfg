SPECIFICATION RootSpec
CONSTANTS
  app = app
  lib = lib
  tool = tool
  kold = kold
  knew = knew
  meta = meta
  mods = mods
  boot = boot
  Packages <- MCPackages
  Versions <- MCVersions
  Images <- MCImages
  Aliases <- MCAliases
  Family <- MCFamily
  Bootloaders <- MCBootloaders
  Worlds <- MCWorlds
INVARIANTS
  BaselinePreservedUnlessUnread
  UnmetOnlyByUpgrade
  BootMatchesRoot
  ResizeIsSafe
CHECK_DEADLOCK FALSE
