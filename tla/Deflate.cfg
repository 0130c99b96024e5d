CONSTANTS
    Offers <- MCOffers
    Configs <- MCConfigs
    Opcodes = {"Text", "Ping"}
    Sizes <- MCSizes
    Packings <- MCPackings
    Reach <- MCReach
    MaxCalls = 3
    MaxFaulty = 2
SPECIFICATION Spec
INVARIANTS
    TypeOK
    OneAgreement
    MessagesArrive
    OuterWithinInner
    DamageIsContained
    OneFlagIsContained
    OthersArrive
    FirstCutIsSmall
PROPERTY
    FailsOnlyOnSmall
\* A refused or panicked handshake and MaxCalls calls end the behaviour.
CHECK_DEADLOCK FALSE
