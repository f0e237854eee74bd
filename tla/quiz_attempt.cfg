SPECIFICATION Spec
CONSTANTS
    Attempt = {a1}
    Device = {d1, d2}
    NoDevice = NoDevice
    Req = {r1, r2}
    Staff = {h1}
    MaxRev = 2
    QCount <- TwoRevs
    MaxFaults = 1
SYMMETRY Symmetry
INVARIANTS
    TypeOK
    SavedOnce
    ResultAccounted
    ScoreFromAnswers
    AnsweredInOrder
PROPERTIES
    ClosedIsFinal
    OneDevice
    StartedNeverPurged
CHECK_DEADLOCK FALSE
