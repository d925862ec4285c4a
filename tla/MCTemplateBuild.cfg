CONSTANT Worlds <- MCWorlds
SPECIFICATION TemplateSpec
CHECK_DEADLOCK FALSE
INVARIANTS
    LayersAreDistinct
    ScriptsSurvive
    DeniedRaisedOnlyByInstaller
    DeltaChangesOnlyWhatWasAsked
