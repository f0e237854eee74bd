SPECIFICATION Spec
CONSTANTS
    Inst <- OneInst
    Pass <- OnePass
    Senders = {"u", "v"}
    Editors = {"e"}
    Schedulers <- OneInst
    InstOf <- LifeInstOf
    Sub = {s1, s2}
    NoSub = NoSub
    Provider = "docuseal"
    Faults <- LifeFaults
    MaxFaults = 1
INVARIANTS
    AwaitingHasLink
    RelancesExplained
