CONSTANTS
    LongBytes = 3
    Lens <- MCLens
    Keys <- MCKeys
    Codes = {1, 15}
    MaxOps = 4
SPECIFICATION Spec
INVARIANTS
    TypeOK
    HeaderFaithful
    PayloadMatches
    PanicsOnlyAfterSetMask
    CtorIsNew
    ParsesBack
\* MaxOps operations or a panic end the behaviour.
CHECK_DEADLOCK FALSE
