CONSTANTS
    Clients <- MCBufClients
    Servers <- MCServers
    MaxFrames = 1
SPECIFICATION Spec
INVARIANT
    SplitKeepsBytes
CHECK_DEADLOCK FALSE
