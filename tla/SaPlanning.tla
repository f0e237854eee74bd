----------------------------- MODULE SaPlanning -----------------------------
(***************************************************************************)
(* What the teaching staff do to an alternant and his SA: create, change   *)
(* and remove the company, check contacts, validate, plan again, declare   *)
(* and correct ruptures, archive.  A request is a sequence of commands and *)
(* others run between two of them: req[r] is where r stands and what it    *)
(* has read.                                                               *)
(***************************************************************************)
EXTENDS SaSequence

CONSTANTS
    Req,            \* requests served at the same time
    Day,            \* days the staff enter
    Situation,      \* where the alternant may stand at first, and the day
    MaxOps,         \* bound: requests received
    MaxFaults       \* bound: commands that fail

VARIABLES req, ops, faults, log

reqVars == <<req, ops, faults, log>>
planVars == <<saVars, reqVars>>

ReqRec ==
    [pc : {"idle", "find", "shift", "commit", "contacts", "clear", "number",
           "create", "company", "ruptures", "person", "judge", "sas"},
     s : Sa \cup {None},
     st : SaStatus \cup {"none"}, contacts : SUBSET Contact,  \* as read
     put : SUBSET Contact, back : BOOLEAN,  \* written by updateSequenceContacts
     done : BOOLEAN,                        \* completeSequence, else rescheduleSequence
     day : Int, delta : Int, num : Nat,
     moves : [Sa -> Int \cup {None}],       \* dates shiftLaterPending writes
     plan : Seq(Int), auto : BOOLEAN,
     to : Reason \cup {"none", "gone"}]     \* what the alternant becomes
NoMoves == [s \in Sa |-> None]
NoReq == [pc |-> "idle", s |-> None, st |-> "none", contacts |-> {},
          put |-> {}, back |-> FALSE, done |-> FALSE, day |-> 0, delta |-> 0, num |-> 0,
          moves |-> NoMoves, plan |-> <<>>, auto |-> FALSE, to |-> "none"]

LogRec ==
    [stale : SUBSET Sa,         \* SA written on the strength of an old copy
     marked : SUBSET Sa,        \* SA last put done by markSequence
     want : [Sa -> Int],        \* the day the staff's decisions lead to
     crossed : BOOLEAN,         \* a plan was moved while another request ran
     torn : BOOLEAN,            \* a request failed between two of its writes
     raced : BOOLEAN,           \* a number was computed while another was used
     by : {"ruptures", "staff"},    \* who decided last to archive or not
     mixed : BOOLEAN,           \* two requests archived or unarchived at once
     since : SUBSET Sa,         \* SA created since the SA were archived or not
     ended : BOOLEAN,           \* archived at the end of the training
     requalified : BOOLEAN]     \* and archived again for a rupture

SituationOK(w) ==
    /\ w.sa \in [Sa -> SaRec]
    /\ \A s, t \in Sa :
        s # t /\ w.sa[s].st \in SaStatus /\ w.sa[t].st \in SaStatus =>
            w.sa[s].num # w.sa[t].num
    /\ \A s \in Sa :
        /\ w.sa[s].st \in SaStatus => w.sa[s].arch = (w.alt.st = "archived")
        /\ w.sa[s].st = "done" =>
            w.sa[s].contacts = Contact /\ w.sa[s].real # None
        /\ ~w.sa[s].soon /\ ~w.sa[s].late
    /\ w.alt \in AltRec
    /\ (w.alt.st = "archived") = (w.alt.reason # "none")
    /\ w.rupture \in [all : Nat, quits : Nat]
    /\ w.rupture.quits <= w.rupture.all
    /\ w.alt.st = "none" =>
        w.rupture.all = 0 /\ \A s \in Sa : w.sa[s].st \notin SaStatus
    /\ w.rupture.quits > 0 => w.alt.st = "archived"
    /\ w.alt.reason = "rupture" => w.rupture.quits > 0
    /\ w.today \in Nat /\ w.ops \in Nat /\ w.faults \in Nat

ASSUME PlanningAssumption ==
    /\ Day \subseteq Int /\ MaxOps \in Nat /\ MaxFaults \in Nat
    /\ \A w \in Situation : SituationOK(w)

\* How much of the bounds is already spent comes with the situation.
PlanInit(w) ==
    /\ sa = w.sa /\ alt = w.alt /\ rupture = w.rupture
    /\ log = [stale |-> {}, marked |-> {},
              want |-> [s \in Sa |-> w.sa[s].day],
              crossed |-> FALSE, torn |-> FALSE, raced |-> FALSE,
              by |-> "ruptures", mixed |-> FALSE, since |-> {},
              ended |-> w.alt.reason = "end", requalified |-> FALSE]
    /\ ops = w.ops /\ faults = w.faults
    /\ req = [r \in Req |-> NoReq]

-----------------------------------------------------------------------------
(* Requests: how they start, go on and end.                                *)

Moving == {"find", "shift", "commit"}
Archiving == {"judge", "sas", "person"}
Busy(r, pcs) == \E q \in Req \ {r} : req[q].pc \in pcs
Others(r) == \E q \in Req \ {r} : req[q].pc # "idle"

\* The history of a request that starts: what it runs together with.
Starting(r, pc) ==
    [log EXCEPT
     !.crossed = @ \/ Busy(r, Moving) \/ (pc \in Moving /\ Others(r)),
     !.mixed = @ \/ (pc \in Archiving /\ Busy(r, Archiving))]

Receive(r, rec, history) ==
    /\ req[r].pc = "idle" /\ ops < MaxOps
    /\ ops' = ops + 1
    /\ req' = [req EXCEPT ![r] = rec]
    /\ log' = history
    /\ UNCHANGED faults

GoTo(r, rec) ==
    /\ req' = [req EXCEPT ![r] = rec]
    /\ UNCHANGED <<ops, faults>>

-----------------------------------------------------------------------------
(* The plan: an alternant, his company and his SA.                         *)

Numbering(plan, auto) ==
    IF plan = <<>> THEN NoReq
    ELSE [NoReq EXCEPT !.pc = "number", !.plan = plan, !.auto = auto]

\* The fields of an alternant no rule looks at are left out, and his links
\* with others.
create(r, plan) ==
    /\ alt.st = "none"
    /\ alt' = Person("active", "none")
    /\ Receive(r, Numbering(plan, TRUE), Starting(r, "number"))
    /\ UNCHANGED <<sa, rupture>>

changeCompany(r, plan) ==
    /\ Known
    /\ alt' = [alt EXCEPT !.company = TRUE]
    /\ Receive(r, [NoReq EXCEPT !.pc = "clear", !.plan = plan],
               Starting(r, "clear"))
    /\ UNCHANGED <<sa, rupture>>

deleteAutoPending(r) ==
    /\ req[r].pc = "clear"
    /\ sa' = deleteAll(AutoPending)
    /\ GoTo(r, Numbering(req[r].plan, TRUE))
    /\ UNCHANGED <<alt, rupture, log>>

createManualSequence(r, day) ==
    /\ Known
    /\ Receive(r, Numbering(<<day>>, FALSE), Starting(r, "number"))
    /\ UNCHANGED saVars

ReadNumero(r) ==
    /\ req[r].pc = "number"
    /\ GoTo(r, [req[r] EXCEPT !.pc = "create", !.num = nextNumero])
    /\ log' = [log EXCEPT !.raced = @ \/ Busy(r, {"create"})]
    /\ UNCHANGED saVars

CreateSequence(r) ==
    /\ req[r].pc = "create" /\ CanCreate
    /\ LET q == req[r]
           s == NewSa
       IN /\ sa' = [sa EXCEPT ![s] =
                        Planned("pending", Head(q.plan), q.num, q.auto)]
          /\ log' = [log EXCEPT !.want[s] = Head(q.plan),
                                !.since = @ \cup {s}]
          /\ GoTo(r, Numbering(Tail(q.plan), q.auto))
    /\ UNCHANGED <<alt, rupture>>

removeCompany(r) ==
    /\ Known
    /\ sa' = deleteAll({s \in Sa : Live(s)})
    /\ Receive(r, [NoReq EXCEPT !.pc = "company"], Starting(r, "company"))
    /\ UNCHANGED <<alt, rupture>>

ClearCompany(r) ==
    /\ req[r].pc = "company"
    /\ alt' = [alt EXCEPT !.company = FALSE]
    /\ GoTo(r, NoReq)
    /\ UNCHANGED <<sa, rupture, log>>

\* delete: the SA, the ruptures, the alternant.
delete(r) ==
    /\ Known
    /\ sa' = deleteAll({s \in Sa : Live(s)})
    /\ Receive(r, [NoReq EXCEPT !.pc = "ruptures", !.to = "gone"],
               Starting(r, "ruptures"))
    /\ UNCHANGED <<alt, rupture>>

DeleteRuptures(r) ==
    /\ req[r].pc = "ruptures"
    /\ rupture' = [all |-> 0, quits |-> 0]
    /\ GoTo(r, [req[r] EXCEPT !.pc = "person"])
    /\ log' = [log EXCEPT !.mixed = @ \/ Busy(r, Archiving)]
    /\ UNCHANGED <<sa, alt>>

-----------------------------------------------------------------------------
(* One SA.                                                                 *)

Read(s, pc) == [NoReq EXCEPT !.pc = pc, !.s = s, !.st = sa[s].st,
                             !.contacts = sa[s].contacts]
Changed(q) == sa[q.s].st # q.st \/ sa[q.s].contacts # q.contacts
StaleIf(b, s) == IF b THEN log.stale \cup {s} ELSE log.stale
MarkedIf(b, s) == IF b THEN log.marked \cup {s} ELSE log.marked

\* Mutant: a validated SA stays so whatever is unchecked.
NeverReverts(st, contacts) == FALSE

\* Unchecking a contact of a validated SA puts it back to wait.
Reverts(st, contacts) == st = "done" /\ contacts # Contact

updateSequenceContacts(r, s, contacts) ==
    /\ Live(s)
    /\ Receive(r, [Read(s, "contacts") EXCEPT
                   !.put = contacts, !.back = Reverts(sa[s].st, contacts)],
               Starting(r, "contacts"))
    /\ UNCHANGED saVars

WriteContacts(r) ==
    /\ req[r].pc = "contacts"
    /\ LET q == req[r]
           seq == [sa[q.s] EXCEPT !.contacts = q.put]
       IN IF Live(q.s)
          THEN /\ sa' = [sa EXCEPT ![q.s] =
                    IF q.back THEN [seq EXCEPT !.st = "pending", !.real = None]
                    ELSE seq]
               /\ log' = [log EXCEPT !.stale = StaleIf(Changed(q), q.s)]
          ELSE UNCHANGED <<sa, log>>
    /\ GoTo(r, NoReq)
    /\ UNCHANGED <<alt, rupture>>

Completable(s) == Live(s) /\ sa[s].contacts = Contact

completeSequence(r, s, day) ==
    /\ Completable(s)
    /\ Receive(r, [Read(s, "find") EXCEPT !.done = TRUE, !.day = day,
                   !.delta = day - sa[s].day, !.num = sa[s].num],
               Starting(r, "find"))
    /\ UNCHANGED saVars

rescheduleSequence(r, s, day) ==
    /\ Live(s) /\ sa[s].st # "done"
    /\ Receive(r, [Read(s, "find") EXCEPT !.day = day,
                   !.delta = day - sa[s].day, !.num = sa[s].num],
               Starting(r, "find"))
    /\ UNCHANGED saVars

\* shiftLaterPending: the read.
FindLater(r) ==
    /\ req[r].pc = "find"
    /\ LET q == req[r]
           later == IF q.delta = 0 THEN {} ELSE Later(q.num)
       IN GoTo(r, IF later = {} THEN [q EXCEPT !.pc = "commit"]
                  ELSE [q EXCEPT !.pc = "shift", !.moves = [s \in Sa |->
                        IF s \in later THEN sa[s].day + q.delta ELSE None]])
    /\ UNCHANGED <<saVars, log>>

\* shiftLaterPending: the bulkWrite, by identifier.
ShiftLater(r) ==
    /\ req[r].pc = "shift"
    /\ LET q == req[r]
           Moved == {s \in Sa : q.moves[s] # None /\ Live(s)}
       IN /\ sa' = [s \in Sa |-> IF s \in Moved
                    THEN [sa[s] EXCEPT !.day = q.moves[s]] ELSE sa[s]]
          /\ log' = [log EXCEPT !.stale = @ \cup
                {s \in Moved : sa[s].st # "pending"
                               \/ sa[s].day + q.delta # q.moves[s]}]
          /\ GoTo(r, [q EXCEPT !.pc = "commit"])
    /\ UNCHANGED <<alt, rupture>>

\* The update that ends completeSequence and rescheduleSequence.
CommitSequence(r) ==
    /\ req[r].pc = "commit"
    /\ LET q == req[r]
           want == [s \in Sa |->
                IF sa[s].st = "pending" /\ sa[s].auto /\ sa[s].num > q.num
                THEN log.want[s] + q.day - sa[q.s].day ELSE log.want[s]]
       IN IF Live(q.s)
          THEN /\ sa' = [sa EXCEPT ![q.s] =
                    IF q.done THEN [@ EXCEPT !.st = "done", !.real = q.day]
                    ELSE [@ EXCEPT !.day = q.day]]
               /\ log' = [log EXCEPT
                    !.stale = StaleIf(Changed(q), q.s),
                    !.marked = IF q.done THEN @ \ {q.s} ELSE @,
                    !.want = IF q.done THEN want
                             ELSE [want EXCEPT ![q.s] = q.day]]
          ELSE UNCHANGED <<sa, log>>
    /\ GoTo(r, NoReq)
    /\ UNCHANGED <<alt, rupture>>

\* Any status: the page of an alternant gives two, and the mutation takes
\* "done" as well, whatever the contacts and the date.
markSequence(r, s, st) ==
    /\ Live(s)
    /\ sa' = [sa EXCEPT ![s].st = st]
    /\ Receive(r, NoReq, [Starting(r, "idle") EXCEPT
                          !.marked = MarkedIf(st = "done", s)])
    /\ UNCHANGED <<alt, rupture>>

deleteSequence(r, s) ==
    /\ Live(s)
    /\ sa' = deleteAll({s})
    /\ Receive(r, NoReq, Starting(r, "idle"))
    /\ UNCHANGED <<alt, rupture>>

-----------------------------------------------------------------------------
(* Ruptures and archives.                                                  *)

Decide(r, pc, by) == [Starting(r, pc) EXCEPT !.by = by]

\* declare, update and delete of a rupture, up to syncArchiveStatus.
WriteRupture(r, all, quits) ==
    /\ rupture' = [all |-> all, quits |-> quits]
    /\ Receive(r, [NoReq EXCEPT !.pc = "judge"], Decide(r, "judge", "ruptures"))
    /\ UNCHANGED <<sa, alt>>

declareRupture(r, quit) ==
    /\ Known
    /\ WriteRupture(r, rupture.all + 1,
                    IF quit THEN rupture.quits + 1 ELSE rupture.quits)

\* The answer to "does he go on with the training?" is corrected, or another
\* field of a rupture, and the archive is decided again all the same.
updateRupture(r, quits) ==
    /\ rupture.all > 0 /\ quits - rupture.quits \in -1 .. 1
    /\ WriteRupture(r, rupture.all, quits)

deleteRupture(r, quit) ==
    /\ rupture.quits \in IF quit THEN 1 .. rupture.all ELSE 0 .. rupture.all - 1
    /\ WriteRupture(r, rupture.all - 1,
                    IF quit THEN rupture.quits - 1 ELSE rupture.quits)

\* Mutant: any archive follows the ruptures.
FromAny == alt.st = "archived"

\* Not the archive of a training that is over; one without a reason is old.
FromRupture == alt.st = "archived" /\ alt.reason # "end"

Quits == rupture.quits > 0

\* syncArchiveStatus: what the ruptures say of the alternant.
Judge(r) ==
    /\ req[r].pc = "judge"
    /\ GoTo(r, IF Quits
               THEN [req[r] EXCEPT !.pc = "sas", !.to = "rupture"]
               ELSE IF FromRupture THEN [req[r] EXCEPT !.pc = "sas"]
               ELSE NoReq)
    /\ UNCHANGED <<saVars, log>>

ArchiveSas(r) ==
    /\ req[r].pc = "sas"
    /\ sa' = setArchived(req[r].to # "none")
    /\ GoTo(r, [req[r] EXCEPT !.pc = "person"])
    /\ log' = [log EXCEPT !.since = {}]
    /\ UNCHANGED <<alt, rupture>>

\* archive and unarchive by hand: the SA first.
archive(r, to) ==
    /\ Known
    /\ sa' = setArchived(to # "none")
    /\ Receive(r, [NoReq EXCEPT !.pc = "person", !.to = to],
               [Decide(r, "person", "staff") EXCEPT !.since = {}])
    /\ UNCHANGED <<alt, rupture>>

\* AlternantRepository.setArchived and delete.
WritePerson(r) ==
    /\ req[r].pc = "person"
    /\ LET to == req[r].to IN
       IF Known
       THEN /\ alt' = IF to = "gone" THEN [alt EXCEPT !.st = "deleted"]
                      ELSE [alt EXCEPT !.reason = to, !.st =
                            IF to = "none" THEN "active" ELSE "archived"]
            /\ log' = [log EXCEPT
                 !.ended = to = "end" \/ (@ /\ ~(to = "none" /\ log.by = "staff")),
                 !.requalified = @ \/ (to = "rupture" /\ alt.reason = "end")]
       ELSE UNCHANGED <<alt, log>>
    /\ GoTo(r, NoReq)
    /\ UNCHANGED <<sa, rupture>>

\* A command fails or the process stops: the request ends where it is.
Fail(r) ==
    /\ req[r].pc # "idle" /\ faults < MaxFaults
    /\ faults' = faults + 1
    /\ req' = [req EXCEPT ![r] = NoReq]
    /\ log' = [log EXCEPT !.torn = TRUE]
    /\ UNCHANGED <<saVars, ops>>

-----------------------------------------------------------------------------

Plans == {SaDates(start, end) : start \in Day, end \in Day \cup {None}}

Staff(r) ==
    \/ \E plan \in Plans : create(r, plan) \/ changeCompany(r, plan)
    \/ removeCompany(r) \/ delete(r)
    \/ \E day \in Day : createManualSequence(r, day)
    \/ \E s \in Sa :
        \/ \E c \in Contact :
            \/ updateSequenceContacts(r, s, sa[s].contacts \cup {c})
            \/ updateSequenceContacts(r, s, sa[s].contacts \ {c})
        \/ \E day \in Day : completeSequence(r, s, day) \/ rescheduleSequence(r, s, day)
        \/ \E st \in SaStatus : markSequence(r, s, st)
        \/ deleteSequence(r, s)
    \/ \E quit \in BOOLEAN :
        declareRupture(r, quit) \/ deleteRupture(r, quit)
    \/ \E quits \in 0 .. rupture.all : updateRupture(r, quits)
    \/ \E to \in Reason \cup {"none"} : archive(r, to)

Continue(r) ==
    \/ deleteAutoPending(r) \/ ReadNumero(r) \/ CreateSequence(r)
    \/ ClearCompany(r) \/ DeleteRuptures(r)
    \/ WriteContacts(r) \/ FindLater(r) \/ ShiftLater(r) \/ CommitSequence(r)
    \/ Judge(r) \/ ArchiveSas(r) \/ WritePerson(r)
    \/ Fail(r)

PlanNext == \E r \in Req : Staff(r) \/ Continue(r)

-----------------------------------------------------------------------------
(* Properties.                                                             *)

Quiet(pcs) == \A r \in Req : req[r].pc \notin pcs

PlanTypeOK ==
    /\ sa \in [Sa -> SaRec]
    /\ alt \in AltRec
    /\ rupture \in [all : Nat, quits : Nat] /\ rupture.quits <= rupture.all
    /\ req \in [Req -> ReqRec]
    /\ ops \in Nat /\ faults \in Nat
    /\ log \in LogRec

\* "Exige les 3 contacts + une date": a validated SA has both, whatever is
\* unchecked or validated at the same time, unless one of the two requests
\* wrote on the strength of a copy the other had changed.  One that was put
\* done by markSequence, which asks for neither, may lack them.
DoneWasReached ==
    \A s \in Sa : sa[s].st = "done" =>
        \/ sa[s].contacts = Contact /\ sa[s].real # None
        \/ s \in log.stale \cup log.marked

\* Validating or replanning a SA moves the planned ones after it by as much,
\* once, and nothing else: unless requests overlap, or one fails half-way.
PlanInStep ==
    \A s \in Sa : Live(s) /\ Quiet(Moving) =>
        sa[s].day = log.want[s] \/ log.crossed \/ log.torn

\* SA made by hand, and those that are done or given up, keep their date
\* whatever happens to the others; a SA that has changed since it was read
\* for a shift is moved all the same.
HandledKeepDate ==
    [][\A s \in Sa : Live(s) /\ sa'[s].day # sa[s].day =>
        \/ s \in AutoPending
        \/ \E r \in Req : req[r].pc = "commit" /\ req[r].s = s /\ req'[r] = NoReq
        \/ s \in log'.stale]_planVars

\* Two SA of an alternant that both exist never have the same number, whatever
\* was deleted before, unless two requests number at the same time.
NumbersDistinct ==
    \A s, t \in Sa : Live(s) /\ Live(t) /\ sa[s].num = sa[t].num =>
        s = t \/ log.raced

\* "L'etat d'archive suit les ruptures": when they decided last, the alternant
\* is archived if one quits the training, else active or archived at the end of
\* it.  Whoever decided, his SA are archived if and only if he is, but those
\* created since.  Archives that overlapped, and one that failed between the SA
\* and the alternant, leave them apart.
ArchiveFollows ==
    Known /\ Quiet(Archiving) /\ ~log.mixed /\ ~log.torn =>
        /\ log.by = "ruptures" =>
            IF rupture.quits > 0 THEN alt.st = "archived"
            ELSE alt.st = "active" \/ alt.reason = "end"
        /\ \A s \in Sa : Live(s) =>
            sa[s].arch = (alt.st = "archived") \/ s \in log.since

\* The archive of a training that is over outlives the ruptures declared and
\* deleted, until somebody undoes it; or until "rupture" is written over its
\* reason, which a rupture that quits does.
EndStays ==
    log.ended /\ Known /\ Quiet(Archiving) =>
        alt.st = "archived" \/ log.requalified \/ log.mixed
=============================================================================
