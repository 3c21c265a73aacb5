CONSTANTS
    Word = 1000
    sha256 <- Hash
    Devices <- DeviceKeys
    Cloud <- CloudKey
    PairClaims <- PairSet
    AuthClaims <- AuthSet
    Events <- EventSet
    Commands <- CommandSet
    Actions <- ActionSet
    MaxSigned = 1
    MaxGrants = 1
    MaxNow = 2
SPECIFICATION Spec
INVARIANTS
    AcceptedAsMeant
    LedgerIsTheClouds
    GrantIsForThisAction
    MeantIsAccepted
