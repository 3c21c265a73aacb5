CONSTANTS
    NoValue = NoValue
    c1 = c1
    c2 = c2
    c3 = c3
    n1 = n1
    n2 = n2
    t1 = t1
    t2 = t2
    x1 = x1
    x2 = x2
    d1 = d1
    d2 = d2
    Device = {d1}
    Call = {c1, c2, c3}
    Secret = {x1, x2}
    Nonce = {n1}
    Token = {t1}
    Grants <- AllOrNothing
    Requests = {"WatchStatus", "WatchPane", "SubmitAnswer", "SubmitCommand"}
    PersistOutcomes <- MayFail
SPECIFICATION Spec
INVARIANTS SingleUse RevocationIsDurable RevocationIsComplete
SYMMETRY Symmetry
