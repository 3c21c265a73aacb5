CONSTANTS
    Octet = 4
    Ports = {6, 12}
    Interfaces <- Networks
    HostName <- Name
    MaxStarts = 3
    MaxWindows = 2
SPECIFICATION Spec
INVARIANTS
    PairedStillTrusted
    ComesBackTheSame
    CodeLeadsHere
    AdvertLeadsHere
CHECK_DEADLOCK FALSE
