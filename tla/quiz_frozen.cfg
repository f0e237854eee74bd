SPECIFICATION Spec
CONSTANTS
    Attempt = {a1}
    Device = {d1}
    NoDevice = NoDevice
    Req = {r1}
    Staff = {h1}
    MaxRev = 2
    QCount <- TwoRevs
    MaxFaults = 0
PROPERTIES
    QuestionsFrozen
CHECK_DEADLOCK FALSE
