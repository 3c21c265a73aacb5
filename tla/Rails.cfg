CONSTANTS
    Limit <- SmallLimits
    fnv8 <- FNV
    Width = 4
    Snapshots <- SnapshotSet
    Frames <- FrameSet
    Digests <- DigestSet
    HostID <- Host
    Prompts <- PromptSet
    MaxTaps = 2
    MaxMinute = 1
    MaxDeliveries = 2
    MaxPending = 2
SPECIFICATION Spec
INVARIANTS
    AlwaysSendable
    HandlesComeBack
    ArrivesWhole
    KeyedOnce
    NothingSwallowed
CHECK_DEADLOCK FALSE
