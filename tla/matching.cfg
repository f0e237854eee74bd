SPECIFICATION Spec
CONSTANTS
    l1 = l1
    l2 = l2
    l3 = l3
    Link <- Links
    Limited <- Old
    Purpose <- Purposes
    NoPurpose = NoPurpose
    Desk = {d1,d2}
    Cand = {c1, c2}
    Slot = {s1, s2}
    None = None
    Selection = Selection
    Req = {r1, r2}
    Situation <- Situations
    MaxOps = 2
    MaxFaults = 1
SYMMETRY Sym
INVARIANTS
    TypeOK
    OneHolder
    ConfirmedSlotKept
    AnsweredOnce
    StageKept
    PlacementShown
    ClosedLinkStays
    OneRowPerLink
PROPERTIES
    PromiseRefined
CHECK_DEADLOCK FALSE
