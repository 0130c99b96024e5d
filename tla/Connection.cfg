CONSTANTS
    Setups <- MCSetups
    Window = 2
SPECIFICATION Spec
INVARIANTS
    TypeOK
    MessagesKept
    RoundTrip
PROPERTIES
    SendEnds
    CloseAnswered
    CloseEnds
\* The connection ends.
CHECK_DEADLOCK FALSE
