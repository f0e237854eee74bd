SPECIFICATION Spec
CONSTANTS
    s1 = s1
    s2 = s2
    s3 = s3
    contact = contact
    u1 = u1
    u2 = u2
    e1 = e1
    e2 = e2
    e3 = e3
    Sa <- Sas
    Contact <- Contacts
    None = None
    First = 0
    Second = 1
    Period = 1
    MaxPlan = 2
    User = {u1, u2}
    Event = {e1, e2, e3}
    Window <- Windows
    Margin = 1
    Day = {2, 4}
    Situation <- Situations
    MaxOps = 2
SYMMETRY Sym
INVARIANTS
    PlanKept
CHECK_DEADLOCK FALSE
