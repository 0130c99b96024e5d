CONSTANTS
    Offers <- MCOffers
    Configs <- MCConfigs
    Opcodes = {"Text"}
    Sizes <- MCSmallSizes
    Packings <- MCPackings
    Reach <- MCReach
    MaxCalls = 1
    MaxFaulty = 1
SPECIFICATION Spec
INVARIANT
    AnySizeArrives
CHECK_DEADLOCK FALSE
