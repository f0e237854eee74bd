SPECIFICATION Spec
CONSTANTS
    s1 = s1
    s2 = s2
    s3 = s3
    mentor = mentor
    trainer = trainer
    Sa <- Sas
    Contact <- Contacts
    None = None
    First = 0
    Second = 1
    Period = 1
    MaxPlan = 2
    Req = {r1, r2}
    Day = {0, 1}
    Situation <- Situations
    MaxOps = 2
    MaxFaults = 1
    SoonDays = 1
    LastDay = 1
INVARIANTS
    TypeOK
    DoneWasReached
    PlanInStep
    NumbersDistinct
    ArchiveFollows
    EndStays
    NotifiedOnce
    MarkedWasSent
PROPERTIES
    HandledKeepDate
    LateIsNotified
CHECK_DEADLOCK FALSE
