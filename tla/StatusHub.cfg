CONSTANTS
    s1 = s1
    s2 = s2
    d1 = d1
    d2 = d2
    NoStream = NoStream
    Stream = {s1, s2}
    Device = {d1, d2}
    DeviceOf <- OneEach
    MaxSeq = 2
SPECIFICATION FairSpec
INVARIANTS TypeOK LatestNotLost NothingAfterTheCut
PROPERTIES LatestArrives DroppedStreamEnds ImplementsLatestWins
