CONSTANTS
    c1 = c1
    c2 = c2
    Command = {c1, c2}
    Envelope <- OneGrant
    Poison = {}
    Outcomes = {"succeeded", "failed"}
    MaxUpdates = 1
    Batch = 3
    WakeStream = FALSE
    MaxFaults = 1
SPECIFICATION Spec
INVARIANT RejectedMeansNoEffect
CHECK_DEADLOCK FALSE
