SPECIFICATION FairSpec
CONSTANTS
    Inst <- OneInst
    Pass <- LivePass
    Senders = {"u"}
    Editors = {}
    Schedulers = {}
    InstOf <- LiveInstOf
    Sub = {s1}
    NoSub = NoSub
    Provider = "yousign"
    Faults <- LiveFaults
    MaxFaults = 3
PROPERTIES
    SignedGetsNotified
    DeliveryAnswered
CHECK_DEADLOCK FALSE
