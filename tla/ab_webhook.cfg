SPECIFICATION Spec
CONSTANTS
    Inst <- TwoInst
    Pass <- HookPass
    Senders = {"u"}
    Editors = {}
    Schedulers = {}
    InstOf <- HookInstOf
    Sub = {s1, s2}
    NoSub = NoSub
    Provider = "docuseal"
    Faults <- HookFaults
    MaxFaults = 2
INVARIANTS
    TypeOK
    NoDuplicateCopies
    ClaimAccounted
    NoLeakedInflight
PROPERTIES
    BatchRefined
CHECK_DEADLOCK FALSE
