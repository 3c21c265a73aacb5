CONSTANTS
    Stream = {s1, s2}
    Device = {d1, d2}
    Session = {p1}
    NoCall = NoCall
    MaxSeq = 3
SYMMETRY Symmetry
SPECIFICATION Spec
INVARIANT OpensOnFreshTruth
