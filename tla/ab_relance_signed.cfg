SPECIFICATION Spec
CONSTANTS
    Inst <- OneInst
    Pass <- OnePass
    Senders = {"u"}
    Editors = {"e"}
    Schedulers <- OneInst
    InstOf <- LifeInstOf
    Sub = {s1}
    NoSub = NoSub
    Provider = "docuseal"
    Faults <- NoFaults
    MaxFaults = 0
PROPERTIES
    RelanceOnlyUnsigned
