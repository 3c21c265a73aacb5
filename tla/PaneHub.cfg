CONSTANTS
    Stream = {s1, s2}
    Device = {d1, d2}
    Session = {p1, p2}
    NoCall = NoCall
    MaxSeq = 3
SYMMETRY Symmetry
SPECIFICATION Spec
INVARIANTS SourceFollowsWatchers RetainedWhileWatched LatestNotLost NothingAfterTheCut
PROPERTIES ImplementsLatestWins
