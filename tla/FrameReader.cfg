CONSTANTS
    Configs <- MCConfigs
    Frames <- MCFrames
    MaxFrames = 4
SPECIFICATION Spec
INVARIANT
    TypeOK
PROPERTIES
    RefusalIsFinal
    WholeTextValid
    ImplementsMessages
\* The stream of MaxFrames frames ends.
CHECK_DEADLOCK FALSE
