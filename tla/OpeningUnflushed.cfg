CONSTANTS
    Clients <- MCClients
    Servers <- MCBufServers
    MaxFrames = 1
SPECIFICATION FairSpec
PROPERTY
    HandshakeEnds
CHECK_DEADLOCK FALSE
