CONSTANTS
    Configs <- MCConfigs
    Frames <- MCFrames
    MaxFrames = 4
SPECIFICATION Spec
INVARIANT
    MergedTextValid
CHECK_DEADLOCK FALSE
