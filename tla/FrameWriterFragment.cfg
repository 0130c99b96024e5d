CONSTANTS
    Configs <- MCFragmenting
    Sizes = {1, 4}
    MaxCalls = 2
SPECIFICATION Spec
INVARIANT
    AutoFragments
CHECK_DEADLOCK FALSE
