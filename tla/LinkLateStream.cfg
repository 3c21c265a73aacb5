CONSTANTS
    NoValue = NoValue
    c1 = c1
    c2 = c2
    c3 = c3
    n1 = n1
    n2 = n2
    t1 = t1
    t2 = t2
    x1 = x1
    x2 = x2
    d1 = d1
    d2 = d2
    Device = {d1}
    Call = {c1, c2}
    Secret = {x1, x2}
    Nonce = {n1}
    Token = {t1}
    Grants <- Everything
    Requests = {"WatchStatus"}
    PersistOutcomes <- Succeeds
SPECIFICATION Spec
INVARIANT RevokedStreamsEnd
