CONSTANTS
    c1 = c1
    c2 = c2
    Command = {c1, c2}
    Envelope <- GrantAndUnsigned
    Poison = {c2}
    Outcomes = {"succeeded", ""}
    MaxUpdates = 1
    Batch = 3
    WakeStream = TRUE
    MaxFaults = 2
SPECIFICATION FairSpec
INVARIANTS NudgesAreFollowed ResolvedIsComplete NoRerunAfterReport UnsoundHasNoEffect
PROPERTIES EveryCommandResolves FollowEnds
CHECK_DEADLOCK FALSE
