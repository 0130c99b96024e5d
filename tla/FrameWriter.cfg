CONSTANTS
    Configs <- MCConfigs
    Sizes = {0, 1, 6}
    MaxCalls = 2
SPECIFICATION Spec
INVARIANTS
    TypeOK
    FramesOnWire
    PanicsOnlyInHeader
\* The caller stops after MaxCalls calls, and a panic ends it.
CHECK_DEADLOCK FALSE
