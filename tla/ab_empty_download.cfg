SPECIFICATION FairSpec
CONSTANTS
    Inst <- OneInst
    Pass <- OnePass
    Senders = {"u"}
    Editors = {}
    Schedulers = {}
    InstOf <- LiveInstOf
    Sub = {s1}
    NoSub = NoSub
    Provider = "docuseal"
    Faults <- EmptyFaults
    MaxFaults = 1
PROPERTIES
    SignedGetsNotified
CHECK_DEADLOCK FALSE
