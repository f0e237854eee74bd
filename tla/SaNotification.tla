--------------------------- MODULE SaNotification ---------------------------
(***************************************************************************)
(* The scheduler that tells the teaching staff, once each, that a SA is    *)
(* near and that it is late, together with what SaPlanning lets them do.   *)
(* A tick reads the SA to tell about, then treats them one after another;  *)
(* SA are replanned, done, archived and deleted meanwhile.                 *)
(***************************************************************************)
EXTENDS SaPlanning

CONSTANTS
    SoonDays,       \* a SA is near so many days before its date
    LastDay         \* bound: the days that pass

VARIABLES
    today,
    tick,           \* the pass of the scheduler in progress
    notice          \* history: what was sent, what failed, what was passed over

notificationVars == <<today, tick, notice>>
vars == <<planVars, notificationVars>>

Kind == {"soon", "late"}
TickRec == [pc : {"idle", "loop", "mark"}, soon : SUBSET Sa, late : SUBSET Sa,
            s : Sa \cup {None}]
NoTick == [pc |-> "idle", soon |-> {}, late |-> {}, s |-> None]
NoticeRec == [sent : [Kind -> [Sa -> Nat]], failed : [Kind -> [Sa -> Nat]],
              passed : [Kind -> SUBSET Sa]]

ASSUME NotificationAssumption == SoonDays \in Nat /\ LastDay \in Nat

Init ==
    /\ \E w \in Situation : PlanInit(w) /\ today = w.today
    /\ tick = NoTick
    /\ notice = LET zero == [k \in Kind |-> [s \in Sa |-> 0]] IN
                [sent |-> zero, failed |-> zero, passed |-> [k \in Kind |-> {}]]

-----------------------------------------------------------------------------

Awaited(s) == sa[s].st = "pending" /\ ~sa[s].arch
SoonUnnotified == {s \in Sa : Awaited(s) /\ ~sa[s].soon
                              /\ sa[s].day \in today .. today + SoonDays - 1}

\* Mutant: the notifications already sent are not looked at.
LateAll == {s \in Sa : Awaited(s) /\ sa[s].day < today}

LateUnnotified == {s \in Sa : Awaited(s) /\ ~sa[s].late /\ sa[s].day < today}

\* The timer fires; a tick in progress makes the next one return at once, and
\* so does the lack of anything to tell.  There is always somebody to tell.
StartTick ==
    /\ tick.pc = "idle"
    /\ SoonUnnotified \cup LateUnnotified # {}
    /\ tick' = [NoTick EXCEPT !.pc = "loop", !.soon = SoonUnnotified,
                              !.late = LateUnnotified]
    /\ UNCHANGED <<planVars, today, notice>>

\* The SA that are near come first.
Queue == IF tick.soon # {} THEN tick.soon ELSE tick.late
CurrentKind == IF tick.soon # {} THEN "soon" ELSE "late"

\* The tick goes on without s.
Done(s) ==
    LET rest == [tick EXCEPT !.pc = "loop", !.s = None, !.soon = @ \ {s},
                 !.late = IF tick.soon = {} THEN @ \ {s} ELSE @]
    IN IF rest.soon \cup rest.late = {} THEN NoTick ELSE rest

\* notifySoon, notifyLate: nobody is told about an alternant who is archived
\* or gone by now.
Notify(s) ==
    /\ tick.pc = "loop" /\ s \in Queue
    /\ tick' = [tick EXCEPT !.pc = "mark", !.s = s]
    /\ notice' = IF alt.st = "active"
                 THEN [notice EXCEPT !.sent[CurrentKind][s] = @ + 1]
                 ELSE [notice EXCEPT !.passed[CurrentKind] = @ \cup {s}]
    /\ UNCHANGED <<planVars, today>>

\* Mutant: a failure marks the SA all the same.
AfterFailureMarks(s) == [tick EXCEPT !.pc = "mark", !.s = s]

\* The loop leaves it unmarked, for the next tick.
AfterFailure(s) == Done(s)

\* One notification of several fails, the others may have been stored.
NotifyFails(s, some) ==
    /\ tick.pc = "loop" /\ s \in Queue
    /\ faults < MaxFaults /\ faults' = faults + 1
    /\ tick' = AfterFailure(s)
    /\ notice' = IF some /\ alt.st = "active"
                 THEN [notice EXCEPT !.sent[CurrentKind][s] = @ + 1,
                                     !.failed[CurrentKind][s] = @ + 1]
                 ELSE notice
    /\ UNCHANGED <<saVars, req, ops, log, today>>

\* markSoonNotified, markLateNotified.
Mark ==
    /\ tick.pc = "mark"
    /\ LET s == tick.s IN
       /\ sa' = IF ~Live(s) THEN sa
                ELSE IF CurrentKind = "soon" THEN [sa EXCEPT ![s].soon = TRUE]
                ELSE [sa EXCEPT ![s].late = TRUE]
       /\ tick' = Done(s)
    /\ UNCHANGED <<alt, rupture, reqVars, today, notice>>

\* Mutant: the flag that a tick is running stays set.
AfterCrashRuns == [tick EXCEPT !.pc = "stopped"]

\* A query fails or the process stops: finally, no tick is running.
AfterCrash == NoTick

TickStops ==
    /\ tick.pc # "idle" /\ faults < MaxFaults
    /\ faults' = faults + 1
    /\ tick' = AfterCrash
    /\ notice' = IF tick.pc = "mark"
                 THEN [notice EXCEPT !.failed[CurrentKind][tick.s] = @ + 1]
                 ELSE notice
    /\ UNCHANGED <<saVars, req, ops, log, today>>

DayPasses ==
    /\ today < LastDay
    /\ today' = today + 1
    /\ UNCHANGED <<planVars, tick, notice>>

Scheduler == StartTick \/ (\E s \in Sa : Notify(s)) \/ Mark

Next ==
    \/ PlanNext /\ UNCHANGED notificationVars
    \/ Scheduler
    \/ \E s \in Sa, some \in BOOLEAN : NotifyFails(s, some)
    \/ TickStops
    \/ DayPasses

\* The timer fires every hour, at the start of the process too, and a tick
\* that has started goes on until it ends or stops.
Spec == Init /\ [][Next]_vars /\ WF_vars(Scheduler)

-----------------------------------------------------------------------------
(* Properties.                                                             *)

TypeOK ==
    /\ PlanTypeOK
    /\ today \in Nat
    /\ tick \in TickRec
    /\ tick.pc = "mark" => tick.s \in Queue
    /\ notice \in NoticeRec

\* "Chaque transition n'est notifiee qu'une fois, quel que soit le nombre de
\* ticks": one notification of each kind for a SA, and one more for each one
\* that stopped before the SA was marked.
NotifiedOnce ==
    \A k \in Kind, s \in Sa : notice.sent[k][s] <= 1 + notice.failed[k][s]

\* A SA marked as notified was, or its alternant was archived or gone when its
\* turn came: nothing else makes the staff miss it.
MarkedWasSent ==
    \A s \in Sa :
        /\ sa[s].soon => notice.sent["soon"][s] > 0 \/ s \in notice.passed["soon"]
        /\ sa[s].late => notice.sent["late"][s] > 0 \/ s \in notice.passed["late"]

\* A SA that stays late, awaited and of an active alternant is told about
\* sooner or later, whatever failed before.
Overdue(s) == Awaited(s) /\ sa[s].day < today /\ alt.st = "active"
LateIsNotified ==
    \A s \in Sa : Overdue(s) ~> (~Overdue(s) \/ notice.sent["late"][s] > 0
                                 \/ s \in notice.passed["late"])
=============================================================================
