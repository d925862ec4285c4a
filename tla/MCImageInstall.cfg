CONSTANT Worlds <- MCWorlds
SPECIFICATION InstallSpec
CHECK_DEADLOCK FALSE
INVARIANTS
    DiskAsAsked
    FirmwareKeepsBooting
    BootReachesRoot
    NothingLeftBehind
    UsersMayLogIn
    ScriptsRun
    VendorModulesLoadUnlessLeft
