CONSTANTS
    Clients <- MCClients
    Servers <- MCServers
    MaxFrames = 2
SPECIFICATION FairSpec
INVARIANTS
    TypeOK
    NothingSwallowed
    Agreement
PROPERTY
    HandshakeEnds
\* A connection that nobody uses any more stands still.
CHECK_DEADLOCK FALSE
