---------------------------- MODULE SaPlan_proofs ----------------------------
(***************************************************************************)
(* What requests keep of the plan of an alternant, for any number of       *)
(* requests, SA, days and failures: validated SA, numbers, dates and       *)
(* archives.  The types are those of Sa_proofs; the scheduler changes      *)
(* nothing these properties look at (SchedulerFrame).                      *)
(***************************************************************************)
EXTENDS Sa_proofs

-----------------------------------------------------------------------------
(* What a step does to the requests and to the history.                    *)

\* A request that starts: the history knows what it runs together with.
Recorded(r) ==
    /\ req[r].pc = "idle"
    /\ log'.stale = log.stale /\ log'.want = log.want
    /\ log.marked \subseteq log'.marked
    /\ log'.torn = log.torn /\ log'.raced = log.raced
    /\ log'.ended = log.ended /\ log'.requalified = log.requalified
    /\ log'.crossed <=> \/ log.crossed \/ Busy(r, Moving)
                        \/ req'[r].pc \in Moving /\ Others(r)
    /\ log'.mixed <=> \/ log.mixed
                      \/ req'[r].pc \in Archiving /\ Busy(r, Archiving)
Decided(r) ==
    \/ log'.by = log.by /\ log'.since = log.since
    \/ log'.by = "ruptures" /\ log'.since = log.since /\ req'[r].pc = "judge"
    \/ log'.by = "staff" /\ log'.since = {} /\ req'[r].pc = "person"

Marking(r, pc, x) == [Starting(r, pc) EXCEPT !.marked = x]
Filing(r, pc) == [Decide(r, pc, "staff") EXCEPT !.since = {}]

LEMMA ReceiveLog ==
    ASSUME PlanOK, NEW r \in Req, NEW rec, NEW pc, rec.pc \in Pcs,
           rec.pc \in Moving <=> pc \in Moving,
           rec.pc \in Archiving <=> pc \in Archiving
    PROVE  /\ Receive(r, rec, Starting(r, pc)) => Recorded(r) /\ Decided(r)
           /\ Receive(r, rec, Decide(r, pc, "ruptures")) /\ rec.pc = "judge"
                => Recorded(r) /\ Decided(r)
           /\ Receive(r, rec, Filing(r, pc)) /\ rec.pc = "person"
                => Recorded(r) /\ Decided(r)
           /\ \A x : /\ log.marked \subseteq x
                     /\ Receive(r, rec, Marking(r, pc, x))
                     => Recorded(r) /\ Decided(r)
<1>1. log \in LogRec /\ req \in [Req -> ReqRec]
  BY DEF PlanOK, LogType, ReqType
<1>2. LET h == Starting(r, pc) IN
        /\ h \in LogRec
        /\ h.stale = log.stale /\ h.want = log.want /\ h.marked = log.marked
        /\ h.torn = log.torn /\ h.raced = log.raced
        /\ h.ended = log.ended /\ h.requalified = log.requalified
        /\ h.by = log.by /\ h.since = log.since
        /\ h.crossed <=> \/ log.crossed \/ Busy(r, Moving)
                         \/ pc \in Moving /\ Others(r)
        /\ h.mixed <=> log.mixed \/ (pc \in Archiving /\ Busy(r, Archiving))
  BY <1>1 DEF Starting, LogRec
<1>3. ASSUME NEW by
      PROVE LET h == Starting(r, pc)
                g == Decide(r, pc, by) IN
        /\ g.stale = h.stale /\ g.want = h.want /\ g.marked = h.marked
        /\ g.torn = h.torn /\ g.raced = h.raced
        /\ g.ended = h.ended /\ g.requalified = h.requalified
        /\ g.crossed = h.crossed /\ g.mixed = h.mixed
        /\ g.by = by /\ g.since = h.since
  BY <1>2 DEF Decide, LogRec
<1>s. LET h == Starting(r, pc)
          g == Filing(r, pc) IN
        /\ g.stale = h.stale /\ g.want = h.want /\ g.marked = h.marked
        /\ g.torn = h.torn /\ g.raced = h.raced
        /\ g.ended = h.ended /\ g.requalified = h.requalified
        /\ g.crossed = h.crossed /\ g.mixed = h.mixed
        /\ g.by = "staff" /\ g.since = {}
  BY <1>2 DEF Filing, Decide, LogRec
<1>m. ASSUME NEW x
      PROVE LET h == Starting(r, pc)
                g == Marking(r, pc, x) IN
        /\ g.stale = h.stale /\ g.want = h.want /\ g.marked = x
        /\ g.torn = h.torn /\ g.raced = h.raced
        /\ g.ended = h.ended /\ g.requalified = h.requalified
        /\ g.crossed = h.crossed /\ g.mixed = h.mixed
        /\ g.by = h.by /\ g.since = h.since
  BY <1>2 DEF Marking, LogRec
<1>4. ASSUME NEW h, Receive(r, rec, h)
      PROVE  req[r].pc = "idle" /\ req'[r] = rec /\ log' = h
  BY <1>1, <1>4 DEF Receive
<1>5. ASSUME Receive(r, rec, Starting(r, pc)) PROVE Recorded(r) /\ Decided(r)
  BY <1>2, <1>4, <1>5 DEF Recorded, Decided
<1>6. ASSUME Receive(r, rec, Decide(r, pc, "ruptures")), rec.pc = "judge"
      PROVE  Recorded(r) /\ Decided(r)
  BY <1>2, <1>3, <1>4, <1>6 DEF Recorded, Decided
<1>7. ASSUME Receive(r, rec, Filing(r, pc)), rec.pc = "person"
      PROVE  Recorded(r) /\ Decided(r)
  BY <1>2, <1>s, <1>4, <1>7 DEF Recorded, Decided
<1>8. ASSUME NEW x, log.marked \subseteq x,
             Receive(r, rec, Marking(r, pc, x))
      PROVE  Recorded(r) /\ Decided(r)
  BY <1>2, <1>m, <1>4, <1>8 DEF Recorded, Decided
<1> QED
  BY <1>5, <1>6, <1>7, <1>8

LEMMA NoReqFields ==
    /\ NoReq.pc = "idle"
    /\ \A x : [NoReq EXCEPT !.pc = x].pc = x
    /\ \A x, y : [NoReq EXCEPT !.pc = x, !.plan = y].pc = x
    /\ \A x, y : [NoReq EXCEPT !.pc = x, !.to = y].pc = x
    /\ \A x, y : [NoReq EXCEPT !.pc = x, !.to = y].to = y
    /\ \A plan, auto : Numbering(plan, auto).pc \in {"idle", "number"}
    /\ \A s, pc : Read(s, pc).pc = pc
  BY DEF NoReq, Numbering, Read

\* The records with which the handlers start.
LEMMA StartFields ==
    /\ \A s \in Sa, x \in SUBSET Contact :
         [Read(s, "contacts") EXCEPT !.put = x, !.back = Reverts(sa[s].st, x)].pc
            = "contacts"
    /\ \A s \in Sa, day \in Day :
         [Read(s, "find") EXCEPT !.done = TRUE, !.day = day,
                !.delta = day - sa[s].day, !.num = sa[s].num].pc = "find"
    /\ \A s \in Sa, day \in Day :
         [Read(s, "find") EXCEPT !.day = day,
                !.delta = day - sa[s].day, !.num = sa[s].num].pc = "find"
  BY DEF NoReq, Read

LEMMA StaffLog ==
    ASSUME PlanOK, NEW r \in Req, Staff(r)
    PROVE  Recorded(r) /\ Decided(r)
<1>0. \A s \in Sa, c \in Contact :
          /\ sa[s].contacts \cup {c} \in SUBSET Contact
          /\ sa[s].contacts \ {c} \in SUBSET Contact
  BY DEF PlanOK, SaType, SaRec
<1>a. \A rec, pc : /\ rec.pc = pc \/ {rec.pc, pc} \subseteq {"idle", "number"}
                   /\ pc \in Pcs
                   /\ Receive(r, rec, Starting(r, pc))
                   => Recorded(r) /\ Decided(r)
  <2> SUFFICES ASSUME NEW rec, NEW pc,
                      rec.pc = pc \/ {rec.pc, pc} \subseteq {"idle", "number"},
                      pc \in Pcs, Receive(r, rec, Starting(r, pc))
               PROVE  Recorded(r) /\ Decided(r)
    OBVIOUS
  <2>1. /\ rec.pc \in Pcs
        /\ rec.pc \in Moving <=> pc \in Moving
        /\ rec.pc \in Archiving <=> pc \in Archiving
    BY DEF Pcs, Moving, Archiving
  <2> QED
    BY <2>1, ReceiveLog
<1>1. ASSUME NEW plan \in Plans, create(r, plan)
      PROVE  Recorded(r) /\ Decided(r)
  <2> DEFINE rec == Numbering(plan, TRUE)
  <2>1. rec.pc \in {"idle", "number"}
    BY NoReqFields
  <2>2. Receive(r, rec, Starting(r, "number"))
    BY <1>1 DEF create
  <2> HIDE DEF rec
  <2> QED
    BY <2>1, <2>2, <1>a DEF Pcs
<1>2. ASSUME NEW plan \in Plans, changeCompany(r, plan)
      PROVE  Recorded(r) /\ Decided(r)
  <2> DEFINE rec == [NoReq EXCEPT !.pc = "clear", !.plan = plan]
  <2>1. rec.pc = "clear"
    BY NoReqFields
  <2>2. Receive(r, rec, Starting(r, "clear"))
    BY <1>2 DEF changeCompany
  <2> HIDE DEF rec
  <2> QED
    BY <2>1, <2>2, <1>a DEF Pcs
<1>3. ASSUME removeCompany(r)
      PROVE  Recorded(r) /\ Decided(r)
  <2> DEFINE rec == [NoReq EXCEPT !.pc = "company"]
  <2>1. rec.pc = "company"
    BY NoReqFields
  <2>2. Receive(r, rec, Starting(r, "company"))
    BY <1>3 DEF removeCompany
  <2> HIDE DEF rec
  <2> QED
    BY <2>1, <2>2, <1>a DEF Pcs
<1>4. ASSUME delete(r)
      PROVE  Recorded(r) /\ Decided(r)
  <2> DEFINE rec == [NoReq EXCEPT !.pc = "ruptures", !.to = "gone"]
  <2>1. rec.pc = "ruptures"
    BY NoReqFields
  <2>2. Receive(r, rec, Starting(r, "ruptures"))
    BY <1>4 DEF delete
  <2> HIDE DEF rec
  <2> QED
    BY <2>1, <2>2, <1>a DEF Pcs
<1>5. ASSUME NEW day \in Day, createManualSequence(r, day)
      PROVE  Recorded(r) /\ Decided(r)
  <2> DEFINE rec == Numbering(<<day>>, FALSE)
  <2>1. rec.pc \in {"idle", "number"}
    BY NoReqFields
  <2>2. Receive(r, rec, Starting(r, "number"))
    BY <1>5 DEF createManualSequence
  <2> HIDE DEF rec
  <2> QED
    BY <2>1, <2>2, <1>a DEF Pcs
<1>6. ASSUME NEW s \in Sa, NEW x \in SUBSET Contact,
             updateSequenceContacts(r, s, x)
      PROVE  Recorded(r) /\ Decided(r)
  <2> DEFINE rec == [Read(s, "contacts") EXCEPT
                      !.put = x, !.back = Reverts(sa[s].st, x)]
  <2>1. rec.pc = "contacts"
    BY StartFields
  <2>2. Receive(r, rec, Starting(r, "contacts"))
    BY <1>6 DEF updateSequenceContacts
  <2> HIDE DEF rec
  <2> QED
    BY <2>1, <2>2, <1>a DEF Pcs
<1>7. ASSUME NEW s \in Sa, NEW day \in Day, completeSequence(r, s, day)
      PROVE  Recorded(r) /\ Decided(r)
  <2> DEFINE rec == [Read(s, "find") EXCEPT !.done = TRUE, !.day = day,
                      !.delta = day - sa[s].day, !.num = sa[s].num]
  <2>1. rec.pc = "find"
    BY StartFields
  <2>2. Receive(r, rec, Starting(r, "find"))
    BY <1>7 DEF completeSequence
  <2> HIDE DEF rec
  <2> QED
    BY <2>1, <2>2, <1>a DEF Pcs
<1>8. ASSUME NEW s \in Sa, NEW day \in Day, rescheduleSequence(r, s, day)
      PROVE  Recorded(r) /\ Decided(r)
  <2> DEFINE rec == [Read(s, "find") EXCEPT !.day = day,
                      !.delta = day - sa[s].day, !.num = sa[s].num]
  <2>1. rec.pc = "find"
    BY StartFields
  <2>2. Receive(r, rec, Starting(r, "find"))
    BY <1>8 DEF rescheduleSequence
  <2> HIDE DEF rec
  <2> QED
    BY <2>1, <2>2, <1>a DEF Pcs
<1>9. ASSUME NEW s \in Sa, NEW st \in SaStatus,
             markSequence(r, s, st) \/ deleteSequence(r, s)
      PROVE  Recorded(r) /\ Decided(r)
  <2>1. NoReq.pc = "idle"
    BY NoReqFields
  <2>2. CASE markSequence(r, s, st)
    <3> DEFINE x == MarkedIf(st = "done", s)
    <3>1. log.marked \subseteq x
      BY DEF MarkedIf
    <3>2. Receive(r, NoReq, Marking(r, "idle", x))
      BY <2>2 DEF markSequence, Marking
    <3> HIDE DEF x
    <3> QED
      BY <2>1, <3>1, <3>2, ReceiveLog DEF Pcs
  <2>3. CASE deleteSequence(r, s)
    <3>1. Receive(r, NoReq, Starting(r, "idle"))
      BY <2>3 DEF deleteSequence
    <3> QED
      BY <2>1, <3>1, <1>a DEF Pcs
  <2> QED
    BY <1>9, <2>2, <2>3
<1>10. ASSUME NEW all, NEW quits, WriteRupture(r, all, quits)
       PROVE  Recorded(r) /\ Decided(r)
  <2> DEFINE rec == [NoReq EXCEPT !.pc = "judge"]
  <2>1. rec.pc = "judge"
    BY NoReqFields
  <2>2. Receive(r, rec, Decide(r, "judge", "ruptures"))
    BY <1>10 DEF WriteRupture
  <2> HIDE DEF rec
  <2> QED
    BY <2>1, <2>2, ReceiveLog DEF Pcs
<1>11. ASSUME NEW to, archive(r, to) PROVE Recorded(r) /\ Decided(r)
  <2> DEFINE rec == [NoReq EXCEPT !.pc = "person", !.to = to]
  <2>1. rec.pc = "person"
    BY NoReqFields
  <2>2. Receive(r, rec, Filing(r, "person"))
    BY <1>11 DEF archive, Filing
  <2> HIDE DEF rec
  <2> QED
    BY <2>1, <2>2, ReceiveLog DEF Pcs
<1>12. ASSUME NEW quit \in BOOLEAN,
              declareRupture(r, quit) \/ deleteRupture(r, quit)
       PROVE  Recorded(r) /\ Decided(r)
  <2>1. \E all, quits : WriteRupture(r, all, quits)
    BY <1>12 DEF declareRupture, deleteRupture
  <2> QED
    BY <1>10, <2>1
<1>13. ASSUME NEW quits \in 0 .. rupture.all, updateRupture(r, quits)
       PROVE  Recorded(r) /\ Decided(r)
  <2>1. WriteRupture(r, rupture.all, quits)
    BY <1>13 DEF updateRupture
  <2> QED
    BY <1>10, <2>1
<1>14. CASE \E s \in Sa :
             \/ \E c \in Contact :
                 \/ updateSequenceContacts(r, s, sa[s].contacts \cup {c})
                 \/ updateSequenceContacts(r, s, sa[s].contacts \ {c})
             \/ \E day \in Day : \/ completeSequence(r, s, day)
                                \/ rescheduleSequence(r, s, day)
             \/ \E st \in SaStatus : markSequence(r, s, st)
             \/ deleteSequence(r, s)
  <2>1. "pending" \in SaStatus
    BY DEF SaStatus
  <2> QED
    BY <1>0, <1>6, <1>7, <1>8, <1>9, <1>14, <2>1
<1> QED
  BY <1>1, <1>2, <1>3, <1>4, <1>5, <1>11, <1>12, <1>13, <1>14 DEF Staff

\* A request that goes on.
LEMMA ContinueLog ==
    ASSUME PlanOK, NEW r \in Req, Continue(r)
    PROVE  /\ req[r].pc # "idle"
           /\ log'.crossed = log.crossed
           /\ ~CommitSequence(r) /\ ~CreateSequence(r) => log'.want = log.want
           /\ ~Fail(r) => log'.torn = log.torn
           /\ Fail(r) => log'.torn = TRUE
           /\ ~ReadNumero(r) => log'.raced = log.raced
           /\ ~DeleteRuptures(r) => log'.mixed = log.mixed
           /\ ~CreateSequence(r) /\ ~ArchiveSas(r) => log'.since = log.since
           /\ ~CommitSequence(r) => log'.marked = log.marked
           /\ ~WritePerson(r) => /\ log'.ended = log.ended
                                 /\ log'.requalified = log.requalified
           /\ log'.by = log.by
           /\ log.stale \subseteq log'.stale
<1>0. log \in LogRec
  BY DEF PlanOK, LogType
<1>1. CASE Fail(r)
  <2>1. /\ req[r].pc # "idle" /\ log' = [log EXCEPT !.torn = TRUE]
    BY <1>1 DEF Fail
  <2> QED
    BY <1>0, <1>1, <2>1 DEF LogRec
<1>2. CASE /\ ~Fail(r)
           /\ \/ deleteAutoPending(r) \/ ClearCompany(r) \/ FindLater(r)
              \/ Judge(r)
  <2>1. log' = log /\ req[r].pc # "idle"
    BY <1>2 DEF deleteAutoPending, ClearCompany, FindLater, Judge
  <2> QED
    BY <1>2, <2>1
<1>3. CASE ~Fail(r) /\ ReadNumero(r)
  <2>1. /\ req[r].pc # "idle"
        /\ log' = [log EXCEPT !.raced = @ \/ Busy(r, {"create"})]
    BY <1>3 DEF ReadNumero
  <2> QED
    BY <1>0, <1>3, <2>1 DEF LogRec
<1>4. CASE ~Fail(r) /\ CreateSequence(r)
  <2>1. /\ req[r].pc # "idle"
        /\ log' = [log EXCEPT !.want[NewSa] = Head(req[r].plan),
                              !.since = @ \cup {NewSa}]
    BY <1>4 DEF CreateSequence
  <2> QED
    BY <1>0, <1>4, <2>1 DEF LogRec
<1>5. CASE ~Fail(r) /\ DeleteRuptures(r)
  <2>1. /\ req[r].pc # "idle"
        /\ log' = [log EXCEPT !.mixed = @ \/ Busy(r, Archiving)]
    BY <1>5 DEF DeleteRuptures
  <2> QED
    BY <1>0, <1>5, <2>1 DEF LogRec
<1>6. CASE ~Fail(r) /\ WriteContacts(r)
  <2>1. /\ req[r].pc # "idle"
        /\ \/ log' = [log EXCEPT !.stale = StaleIf(Changed(req[r]), req[r].s)]
           \/ log' = log
    BY <1>6 DEF WriteContacts
  <2> QED
    BY <1>0, <1>6, <2>1 DEF LogRec, StaleIf
<1>7. CASE ~Fail(r) /\ ShiftLater(r)
  <2>1. /\ req[r].pc # "idle"
        /\ \E x : log' = [log EXCEPT !.stale = @ \cup x]
    BY <1>7 DEF ShiftLater
  <2>2. PICK x : log' = [log EXCEPT !.stale = @ \cup x]
    BY <2>1
  <2> QED
    BY <1>0, <1>7, <2>1, <2>2 DEF LogRec
<1>8. CASE ~Fail(r) /\ CommitSequence(r)
  <2>1. /\ req[r].pc # "idle"
        /\ \/ \E m, x : log' = [log EXCEPT
                !.stale = StaleIf(Changed(req[r]), req[r].s),
                !.marked = m, !.want = x]
           \/ log' = log
    BY <1>8 DEF CommitSequence
  <2>2. CASE \E m, x : log' = [log EXCEPT
                !.stale = StaleIf(Changed(req[r]), req[r].s),
                !.marked = m, !.want = x]
    <3>1. PICK m, x : log' = [log EXCEPT
                !.stale = StaleIf(Changed(req[r]), req[r].s),
                !.marked = m, !.want = x]
      BY <2>2
    <3> QED
      BY <1>0, <1>8, <2>1, <3>1 DEF LogRec, StaleIf
  <2> QED
    BY <1>8, <2>1, <2>2
<1>9. CASE ~Fail(r) /\ WritePerson(r)
  <2>1. /\ req[r].pc # "idle"
        /\ \/ \E x, y : log' = [log EXCEPT !.ended = x, !.requalified = y]
           \/ log' = log
    BY <1>9 DEF WritePerson
  <2> QED
    BY <1>0, <1>9, <2>1 DEF LogRec
<1>10. CASE ~Fail(r) /\ ArchiveSas(r)
  <2>1. req[r].pc # "idle" /\ log' = [log EXCEPT !.since = {}]
    BY <1>10 DEF ArchiveSas
  <2> QED
    BY <1>0, <1>10, <2>1 DEF LogRec
<1> QED
  BY <1>1, <1>2, <1>3, <1>4, <1>5, <1>6, <1>7, <1>8, <1>9, <1>10 DEF Continue

\* What a request that starts leaves as it was, and how it stands.
Started(r) ==
    /\ \A q \in Req \ {r} : req'[q] = req[q]
    /\ req'[r].pc \in {"idle", "number", "clear", "company", "contacts", "find",
                       "judge", "person", "ruptures"}
    /\ req'[r].pc = "judge" => log'.by = "ruptures" /\ req'[r].to = "none"
    /\ req'[r].pc = "person" =>
         log'.by = "staff" /\ \E to \in Reason \cup {"none"} : archive(r, to)
    /\ req'[r].pc = "ruptures" => req'[r].to = "gone"
SaStarted(r, s) ==
    /\ sa'[s].day = sa[s].day
    /\ sa'[s].contacts = sa[s].contacts /\ sa'[s].real = sa[s].real
    /\ \/ sa'[s].st \in {sa[s].st, "deleted", "pending", "not_done"}
       \/ sa'[s].st = "done" /\ s \in log'.marked
    /\ req'[r].pc # "person" => sa'[s].arch = sa[s].arch
AltStarted(r) ==
    /\ \/ alt'.st = alt.st /\ alt'.reason = alt.reason
       \/ alt.st = "none" /\ alt'.st = "active" /\ alt'.reason = "none"
    /\ \/ rupture' = rupture
       \/ req'[r].pc = "judge" /\ (alt.st = "none" => rupture.all # 0)

LEMMA ReceiveStarted ==
    ASSUME PlanOK, NEW r \in Req, NEW rec, NEW history, Receive(r, rec, history),
           rec.pc \in {"idle", "number", "clear", "company", "contacts", "find",
                       "judge", "person", "ruptures"},
           rec.pc = "judge" => history.by = "ruptures" /\ rec.to = "none",
           rec.pc = "person" =>
             /\ history.by = "staff"
             /\ \E to \in Reason \cup {"none"} : archive(r, to),
           rec.pc = "ruptures" => rec.to = "gone"
    PROVE  Started(r) /\ req'[r] = rec
<1>1. req \in [Req -> ReqRec]
  BY DEF PlanOK, ReqType
<1>2. req' = [req EXCEPT ![r] = rec] /\ log' = history
  BY DEF Receive
<1> QED
  BY <1>1, <1>2 DEF Started

LEMMA StaffStarts ==
    ASSUME PlanOK, NEW r \in Req, Staff(r)
    PROVE  Started(r) /\ AltStarted(r) /\ \A s \in Sa : SaStarted(r, s)
<1> DEFINE Goal == Started(r) /\ AltStarted(r) /\ \A s \in Sa : SaStarted(r, s)
<1>0. /\ sa \in [Sa -> SaRec] /\ \A s \in Sa : sa[s] \in SaRec
      /\ alt \in AltRec /\ rupture \in [all : Nat, quits : Nat]
      /\ rupture.quits <= rupture.all /\ log \in LogRec
  BY DEF PlanOK, SaType, AltType, RuptureType, LogType
<1>a. sa' = sa => \A s \in Sa : SaStarted(r, s)
  BY DEF SaStarted
<1>b. alt' = alt /\ rupture' = rupture => AltStarted(r)
  BY DEF AltStarted
<1>c. \A Gone \in SUBSET Sa : sa' = deleteAll(Gone) => \A s \in Sa : SaStarted(r, s)
  BY <1>0 DEF deleteAll, SaStarted, SaRec
<1>1. ASSUME NEW plan \in Plans, create(r, plan) PROVE Goal
  <2> DEFINE rec == Numbering(plan, TRUE)
  <2>1. rec.pc \in {"idle", "number"}
    BY NoReqFields
  <2>2. Receive(r, rec, Starting(r, "number"))
    BY <1>1 DEF create
  <2> HIDE DEF rec
  <2>3. Started(r)
    BY <2>1, <2>2, ReceiveStarted
  <2>4. AltStarted(r)
    BY <1>1 DEF create, AltStarted, Person
  <2> QED
    BY <1>1, <1>a, <2>3, <2>4 DEF create
<1>2. ASSUME NEW plan \in Plans, changeCompany(r, plan) PROVE Goal
  <2> DEFINE rec == [NoReq EXCEPT !.pc = "clear", !.plan = plan]
  <2>1. rec.pc = "clear"
    BY NoReqFields
  <2>2. Receive(r, rec, Starting(r, "clear"))
    BY <1>2 DEF changeCompany
  <2> HIDE DEF rec
  <2>3. Started(r)
    BY <2>1, <2>2, ReceiveStarted
  <2>4. AltStarted(r)
    BY <1>0, <1>2 DEF changeCompany, AltStarted, AltRec
  <2> QED
    BY <1>2, <1>a, <2>3, <2>4 DEF changeCompany
<1>3. ASSUME removeCompany(r) PROVE Goal
  <2> DEFINE rec == [NoReq EXCEPT !.pc = "company"]
  <2>1. rec.pc = "company"
    BY NoReqFields
  <2>2. Receive(r, rec, Starting(r, "company"))
    BY <1>3 DEF removeCompany
  <2> HIDE DEF rec
  <2>3. Started(r)
    BY <2>1, <2>2, ReceiveStarted
  <2> QED
    BY <1>3, <1>b, <1>c, <2>3 DEF removeCompany
<1>4. ASSUME delete(r) PROVE Goal
  <2> DEFINE rec == [NoReq EXCEPT !.pc = "ruptures", !.to = "gone"]
  <2>1. rec.pc = "ruptures" /\ rec.to = "gone"
    BY NoReqFields
  <2>2. Receive(r, rec, Starting(r, "ruptures"))
    BY <1>4 DEF delete
  <2> HIDE DEF rec
  <2>3. Started(r)
    BY <2>1, <2>2, ReceiveStarted
  <2> QED
    BY <1>4, <1>b, <1>c, <2>3 DEF delete
<1>5. ASSUME NEW day \in Day, createManualSequence(r, day) PROVE Goal
  <2> DEFINE rec == Numbering(<<day>>, FALSE)
  <2>1. rec.pc \in {"idle", "number"}
    BY NoReqFields
  <2>2. Receive(r, rec, Starting(r, "number"))
    BY <1>5 DEF createManualSequence
  <2> HIDE DEF rec
  <2>3. Started(r)
    BY <2>1, <2>2, ReceiveStarted
  <2> QED
    BY <1>5, <1>a, <1>b, <2>3 DEF createManualSequence, saVars
<1>6. ASSUME NEW s \in Sa, NEW x \in SUBSET Contact,
             updateSequenceContacts(r, s, x)
      PROVE  Goal
  <2> DEFINE rec == [Read(s, "contacts") EXCEPT
                      !.put = x, !.back = Reverts(sa[s].st, x)]
  <2>1. rec.pc = "contacts"
    BY StartFields
  <2>2. Receive(r, rec, Starting(r, "contacts"))
    BY <1>6 DEF updateSequenceContacts
  <2> HIDE DEF rec
  <2>3. Started(r)
    BY <2>1, <2>2, ReceiveStarted
  <2> QED
    BY <1>6, <1>a, <1>b, <2>3 DEF updateSequenceContacts, saVars
<1>7. ASSUME NEW s \in Sa, NEW day \in Day, completeSequence(r, s, day)
      PROVE  Goal
  <2> DEFINE rec == [Read(s, "find") EXCEPT !.done = TRUE, !.day = day,
                      !.delta = day - sa[s].day, !.num = sa[s].num]
  <2>1. rec.pc = "find"
    BY StartFields
  <2>2. Receive(r, rec, Starting(r, "find"))
    BY <1>7 DEF completeSequence
  <2> HIDE DEF rec
  <2>3. Started(r)
    BY <2>1, <2>2, ReceiveStarted
  <2> QED
    BY <1>7, <1>a, <1>b, <2>3 DEF completeSequence, saVars
<1>8. ASSUME NEW s \in Sa, NEW day \in Day, rescheduleSequence(r, s, day)
      PROVE  Goal
  <2> DEFINE rec == [Read(s, "find") EXCEPT !.day = day,
                      !.delta = day - sa[s].day, !.num = sa[s].num]
  <2>1. rec.pc = "find"
    BY StartFields
  <2>2. Receive(r, rec, Starting(r, "find"))
    BY <1>8 DEF rescheduleSequence
  <2> HIDE DEF rec
  <2>3. Started(r)
    BY <2>1, <2>2, ReceiveStarted
  <2> QED
    BY <1>8, <1>a, <1>b, <2>3 DEF rescheduleSequence, saVars
<1>9. ASSUME NEW s \in Sa, deleteSequence(r, s) PROVE Goal
  <2>1. Receive(r, NoReq, Starting(r, "idle")) /\ alt' = alt /\ rupture' = rupture
    BY <1>9 DEF deleteSequence
  <2>2. Started(r)
    BY <2>1, NoReqFields, ReceiveStarted
  <2>3. \A t \in Sa : SaStarted(r, t)
    BY <1>9, <1>c DEF deleteSequence
  <2> QED
    BY <1>b, <2>1, <2>2, <2>3
<1>m. ASSUME NEW s \in Sa, NEW st \in SaStatus, markSequence(r, s, st)
      PROVE  Goal
  <2> DEFINE g == [Starting(r, "idle") EXCEPT
                   !.marked = MarkedIf(st = "done", s)]
  <2>1. Receive(r, NoReq, g) /\ alt' = alt /\ rupture' = rupture
    BY <1>m DEF markSequence
  <2>2. Starting(r, "idle") \in LogRec
    BY StartingType DEF PlanOK
  <2>3. st = "done" => s \in g.marked
    BY <2>2 DEF LogRec, MarkedIf
  <2> HIDE DEF g
  <2>4. Started(r) /\ log' = g
    BY <2>1, NoReqFields, ReceiveStarted DEF Receive
  <2>5. sa' = [sa EXCEPT ![s].st = st]
    BY <1>m DEF markSequence
  <2>6. \A t \in Sa : SaStarted(r, t)
    <3>1. ASSUME NEW t \in Sa
          PROVE  /\ sa'[t].day = sa[t].day /\ sa'[t].contacts = sa[t].contacts
                 /\ sa'[t].real = sa[t].real /\ sa'[t].arch = sa[t].arch
                 /\ sa'[t].st = IF t = s THEN st ELSE sa[t].st
      BY <1>0, <2>5 DEF SaRec
    <3> QED
      BY <2>3, <2>4, <3>1 DEF SaStarted, SaStatus
  <2> QED
    BY <1>b, <2>1, <2>4, <2>6
<1>10. ASSUME NEW all, NEW quits, WriteRupture(r, all, quits),
              alt.st = "none" => rupture.all # 0
       PROVE  Goal
  <2> DEFINE rec == [NoReq EXCEPT !.pc = "judge"]
             h == Decide(r, "judge", "ruptures")
  <2>1. rec.pc = "judge" /\ rec.to = "none"
    BY DEF NoReq
  <2>2. Receive(r, rec, h) /\ sa' = sa /\ alt' = alt
    BY <1>10 DEF WriteRupture
  <2>3. h.by = "ruptures"
    BY <1>0 DEF Decide, Starting, LogRec
  <2> HIDE DEF rec, h
  <2>4. Started(r) /\ req'[r].pc = "judge"
    BY <2>1, <2>2, <2>3, ReceiveStarted
  <2> QED
    BY <1>10, <1>a, <2>2, <2>4 DEF AltStarted
<1>11. ASSUME NEW to \in Reason \cup {"none"}, archive(r, to) PROVE Goal
  <2> DEFINE rec == [NoReq EXCEPT !.pc = "person", !.to = to]
             h == [Decide(r, "person", "staff") EXCEPT !.since = {}]
  <2>1. rec.pc = "person"
    BY NoReqFields
  <2>2. /\ Receive(r, rec, h) /\ alt' = alt /\ rupture' = rupture
        /\ sa' = setArchived(to # "none")
    BY <1>11 DEF archive
  <2>3. h.by = "staff"
    BY <1>0 DEF Decide, Starting, LogRec
  <2> HIDE DEF rec, h
  <2>4. Started(r) /\ req'[r].pc = "person"
    BY <1>11, <2>1, <2>2, <2>3, ReceiveStarted
  <2>5. \A s \in Sa : SaStarted(r, s)
    BY <1>0, <2>2, <2>4 DEF setArchived, SaStarted, SaRec
  <2> QED
    BY <1>b, <2>2, <2>4, <2>5
<1>12. ASSUME NEW quit, NEW quits \in 0 .. rupture.all,
              \/ declareRupture(r, quit) \/ updateRupture(r, quits)
              \/ deleteRupture(r, quit)
       PROVE  Goal
  <2>0. rupture.all \in Nat /\ rupture.quits \in Nat
    BY <1>0
  <2>1. declareRupture(r, quit) => alt.st # "none"
    BY DEF declareRupture, Known
  <2>2. updateRupture(r, quits) \/ deleteRupture(r, quit) => rupture.all # 0
    BY <2>0 DEF updateRupture, deleteRupture
  <2>3. \E all, n : WriteRupture(r, all, n)
    BY <1>12 DEF declareRupture, updateRupture, deleteRupture
  <2> QED
    BY <1>10, <1>12, <2>1, <2>2, <2>3
<1>13. \A s \in Sa, c \in Contact :
          /\ sa[s].contacts \cup {c} \in SUBSET Contact
          /\ sa[s].contacts \ {c} \in SUBSET Contact
  BY <1>0 DEF SaRec
<1> HIDE DEF Goal
<1>z. 0 \in 0 .. rupture.all
  BY <1>0
<1>14. Goal
  BY <1>1, <1>2, <1>3, <1>4, <1>5, <1>6, <1>7, <1>8, <1>9, <1>m, <1>11, <1>12,
     <1>13, <1>z DEF Staff
<1> QED
  BY <1>14 DEF Goal

\* What a request that goes on leaves as it was.
Continued(r) ==
    /\ \A q \in Req \ {r} : req'[q] = req[q]
    /\ req'[r].pc \notin {"find", "judge", "ruptures", "contacts"}
    /\ req'[r].pc = "create" => ReadNumero(r)
    /\ req'[r].pc = "shift" => FindLater(r)
    /\ req'[r].pc = "commit" => FindLater(r) \/ ShiftLater(r)
    /\ req'[r].pc = "sas" => Judge(r)
    /\ req'[r].pc = "person" => ArchiveSas(r) \/ DeleteRuptures(r)
SaContinued(r, s) ==
    /\ sa'[s].day = sa[s].day \/ ShiftLater(r) \/ CommitSequence(r)
    /\ \/ sa'[s].contacts = sa[s].contacts /\ sa'[s].real = sa[s].real
       \/ WriteContacts(r) \/ CommitSequence(r)
    /\ sa'[s].st \in {sa[s].st, "deleted"} \/ WriteContacts(r) \/ CommitSequence(r)
    /\ sa'[s].arch = sa[s].arch \/ ArchiveSas(r)
AltContinued(r) ==
    /\ rupture' = rupture \/ DeleteRuptures(r)
    /\ \/ alt'.st = alt.st /\ alt'.reason = alt.reason
       \/ WritePerson(r)

LEMMA ContinueStep ==
    ASSUME PlanOK, NEW r \in Req, Continue(r)
    PROVE  Continued(r) /\ AltContinued(r)
<1>0. /\ req \in [Req -> ReqRec] /\ req[r] \in ReqRec /\ alt \in AltRec
      /\ req[r].auto \in BOOLEAN
  BY ReqFields DEF PlanOK, ReqType, AltType
<1>1. ASSUME NEW rec, req' = [req EXCEPT ![r] = rec]
      PROVE  req'[r] = rec /\ \A q \in Req \ {r} : req'[q] = req[q]
  BY <1>0, <1>1
<1>2. ASSUME NEW x \in Pcs
      PROVE  [req[r] EXCEPT !.pc = x].pc = x
  BY <1>0 DEF ReqRec
<1>3. CASE Fail(r)
  <2>1. req'[r] = NoReq /\ \A q \in Req \ {r} : req'[q] = req[q]
    BY <1>1, <1>3 DEF Fail
  <2> QED
    BY <1>3, <2>1, NoReqFields DEF Fail, Continued, AltContinued, saVars
<1>4. CASE deleteAutoPending(r) \/ CreateSequence(r)
  <2> DEFINE next == IF deleteAutoPending(r) THEN Numbering(req[r].plan, TRUE)
                     ELSE Numbering(Tail(req[r].plan), req[r].auto)
  <2>1. next.pc \in {"idle", "number"}
    BY NoReqFields
  <2>2. /\ req' = [req EXCEPT ![r] = next]
        /\ UNCHANGED <<alt, rupture>>
    BY <1>4 DEF deleteAutoPending, CreateSequence, GoTo
  <2> HIDE DEF next
  <2>3. req'[r] = next /\ \A q \in Req \ {r} : req'[q] = req[q]
    BY <1>1, <2>2
  <2> QED
    BY <2>1, <2>2, <2>3 DEF Continued, AltContinued
<1>5. CASE WriteContacts(r) \/ CommitSequence(r)
  <2>1. req' = [req EXCEPT ![r] = NoReq] /\ UNCHANGED <<alt, rupture>>
    BY <1>5 DEF WriteContacts, CommitSequence, GoTo
  <2>2. req'[r] = NoReq /\ \A q \in Req \ {r} : req'[q] = req[q]
    BY <1>1, <2>1
  <2> QED
    BY <2>1, <2>2, NoReqFields DEF Continued, AltContinued
<1>6. CASE ClearCompany(r)
  <2>1. /\ req' = [req EXCEPT ![r] = NoReq] /\ rupture' = rupture
        /\ alt' = [alt EXCEPT !.company = FALSE]
    BY <1>6 DEF ClearCompany, GoTo
  <2>2. req'[r] = NoReq /\ \A q \in Req \ {r} : req'[q] = req[q]
    BY <1>1, <2>1
  <2> QED
    BY <1>0, <2>1, <2>2, NoReqFields DEF Continued, AltContinued, AltRec
<1>7. CASE WritePerson(r)
  <2>1. req' = [req EXCEPT ![r] = NoReq] /\ rupture' = rupture
    BY <1>7 DEF WritePerson, GoTo
  <2>2. req'[r] = NoReq /\ \A q \in Req \ {r} : req'[q] = req[q]
    BY <1>1, <2>1
  <2> QED
    BY <1>7, <2>1, <2>2, NoReqFields DEF Continued, AltContinued
<1>8. CASE DeleteRuptures(r) \/ ArchiveSas(r)
  <2>1. /\ req' = [req EXCEPT ![r] = [req[r] EXCEPT !.pc = "person"]]
        /\ alt' = alt /\ (rupture' = rupture \/ DeleteRuptures(r))
    BY <1>8 DEF DeleteRuptures, ArchiveSas, GoTo
  <2>2. req'[r].pc = "person" /\ \A q \in Req \ {r} : req'[q] = req[q]
    BY <1>1, <1>2, <2>1 DEF Pcs
  <2> QED
    BY <1>8, <2>1, <2>2 DEF Continued, AltContinued
<1>9. CASE ShiftLater(r)
  <2>1. /\ req' = [req EXCEPT ![r] = [req[r] EXCEPT !.pc = "commit"]]
        /\ alt' = alt /\ rupture' = rupture
    BY <1>9 DEF ShiftLater, GoTo
  <2>2. /\ req'[r] = [req[r] EXCEPT !.pc = "commit"]
        /\ \A q \in Req \ {r} : req'[q] = req[q]
    BY <1>1, <2>1
  <2>3. req'[r].pc = "commit"
    BY <1>2, <2>2 DEF Pcs
  <2> QED
    BY <1>9, <2>1, <2>2, <2>3 DEF Continued, AltContinued
<1>10. CASE FindLater(r)
  <2>1. PICK rec : /\ rec = [req[r] EXCEPT !.pc = "commit"]
                      \/ \E x : rec = [req[r] EXCEPT !.pc = "shift", !.moves = x]
                   /\ req' = [req EXCEPT ![r] = rec]
    BY <1>10 DEF FindLater, GoTo
  <2>2. rec.pc \in {"commit", "shift"}
    <3>1. CASE rec = [req[r] EXCEPT !.pc = "commit"]
      BY <1>0, <3>1 DEF ReqRec
    <3>2. CASE \E x : rec = [req[r] EXCEPT !.pc = "shift", !.moves = x]
      <4>1. PICK x : rec = [req[r] EXCEPT !.pc = "shift", !.moves = x]
        BY <3>2
      <4> QED
        BY <1>0, <4>1 DEF ReqRec
    <3> QED
      BY <2>1, <3>1, <3>2
  <2>3. req'[r] = rec /\ \A q \in Req \ {r} : req'[q] = req[q]
    BY <1>1, <2>1
  <2> QED
    BY <1>10, <2>2, <2>3 DEF FindLater, Continued, AltContinued, saVars
<1>11. CASE Judge(r)
  <2>1. PICK rec : /\ \/ rec = NoReq \/ rec = [req[r] EXCEPT !.pc = "sas"]
                      \/ rec = [req[r] EXCEPT !.pc = "sas", !.to = "rupture"]
                   /\ req' = [req EXCEPT ![r] = rec]
    BY <1>11 DEF Judge, GoTo
  <2>2. rec.pc \in {"idle", "sas"}
    <3>1. CASE rec = NoReq
      BY <3>1, NoReqFields
    <3>2. CASE rec = [req[r] EXCEPT !.pc = "sas"]
      BY <1>0, <3>2 DEF ReqRec
    <3>3. CASE rec = [req[r] EXCEPT !.pc = "sas", !.to = "rupture"]
      BY <1>0, <3>3 DEF ReqRec
    <3> QED
      BY <2>1, <3>1, <3>2, <3>3
  <2>3. req'[r] = rec /\ \A q \in Req \ {r} : req'[q] = req[q]
    BY <1>1, <2>1
  <2> QED
    BY <1>11, <2>2, <2>3 DEF Judge, Continued, AltContinued, saVars
<1>12. CASE ReadNumero(r)
  <2>1. req' = [req EXCEPT ![r] = [req[r] EXCEPT !.pc = "create", !.num = nextNumero]]
    BY <1>12 DEF ReadNumero, GoTo
  <2>2. req'[r].pc = "create" /\ \A q \in Req \ {r} : req'[q] = req[q]
    BY <1>0, <1>1, <2>1 DEF ReqRec
  <2> QED
    BY <1>12, <2>2 DEF ReadNumero, Continued, AltContinued, saVars
<1> QED
  BY <1>3, <1>4, <1>5, <1>6, <1>7, <1>8, <1>9, <1>10, <1>11, <1>12 DEF Continue

LEMMA ContinueSas ==
    ASSUME PlanOK, NEW r \in Req, Continue(r), ~CreateSequence(r)
    PROVE  \A s \in Sa : SaContinued(r, s)
<1>0. sa \in [Sa -> SaRec] /\ \A s \in Sa : sa[s] \in SaRec
  BY DEF PlanOK, SaType
<1>1. sa' = sa => \A s \in Sa : SaContinued(r, s)
  BY DEF SaContinued
<1>2. deleteAutoPending(r) => \A s \in Sa : SaContinued(r, s)
  BY <1>0 DEF deleteAutoPending, deleteAll, SaContinued, SaRec
<1>3. ArchiveSas(r) => \A s \in Sa : SaContinued(r, s)
  BY <1>0 DEF ArchiveSas, setArchived, SaContinued, SaRec
<1>4. ShiftLater(r) => \A s \in Sa : SaContinued(r, s)
  BY <1>0 DEF ShiftLater, SaContinued, SaRec
<1>5. ASSUME CommitSequence(r) PROVE \A s \in Sa : sa'[s].arch = sa[s].arch
  <2>1. req[r].s \in Sa
    BY <1>5, ReqFields DEF CommitSequence, ReqOK, Moving
  <2>2. sa[req[r].s] \in SaRec
    BY <1>0, <2>1
  <2>3. PICK rec : /\ \/ rec = [sa[req[r].s] EXCEPT !.st = "done", !.real = req[r].day]
                      \/ rec = [sa[req[r].s] EXCEPT !.day = req[r].day]
                      \/ rec = sa[req[r].s]
                   /\ sa' = [sa EXCEPT ![req[r].s] = rec]
    BY <1>0, <1>5, <2>1 DEF CommitSequence
  <2>4. rec.arch = sa[req[r].s].arch
    BY <2>2, <2>3 DEF SaRec
  <2> QED
    BY <1>0, <2>1, <2>3, <2>4
<1>6. ASSUME WriteContacts(r)
      PROVE \A s \in Sa : sa'[s].arch = sa[s].arch /\ sa'[s].day = sa[s].day
  <2>1. req[r].s \in Sa
    BY <1>6, ReqFields DEF WriteContacts, ReqOK
  <2>2. sa[req[r].s] \in SaRec
    BY <1>0, <2>1
  <2> DEFINE seq == [sa[req[r].s] EXCEPT !.contacts = req[r].put]
  <2>3. PICK rec : /\ \/ rec = [seq EXCEPT !.st = "pending", !.real = None]
                      \/ rec = seq
                      \/ rec = sa[req[r].s]
                   /\ sa' = [sa EXCEPT ![req[r].s] = rec]
    BY <1>0, <1>6, <2>1 DEF WriteContacts
  <2>4. rec.arch = sa[req[r].s].arch /\ rec.day = sa[req[r].s].day
    BY <2>2, <2>3 DEF SaRec
  <2> QED
    BY <1>0, <2>1, <2>3, <2>4
<1>7. \/ deleteAutoPending(r) \/ ArchiveSas(r) \/ ShiftLater(r)
      \/ CommitSequence(r) \/ WriteContacts(r) \/ sa' = sa
  BY DEF Continue, ReadNumero, ClearCompany, DeleteRuptures, FindLater, Judge,
         WritePerson, Fail, saVars
<1> QED
  BY <1>1, <1>2, <1>3, <1>4, <1>5, <1>6, <1>7 DEF SaContinued

LEMMA ContactsWritten ==
    ASSUME PlanOK, NEW r \in Req, WriteContacts(r)
    PROVE  LET q == req[r] IN
           /\ q.s \in Sa
           /\ \A s \in Sa : s # q.s => sa'[s] = sa[s]
           /\ ~Live(q.s) => sa' = sa
           /\ Live(q.s) =>
                /\ sa'[q.s].contacts = q.put /\ sa'[q.s].day = sa[q.s].day
                /\ IF q.back THEN sa'[q.s].st = "pending"
                   ELSE /\ sa'[q.s].st = sa[q.s].st
                        /\ sa'[q.s].real = sa[q.s].real
                /\ Changed(q) => q.s \in log'.stale
<1> DEFINE q == req[r]
           seq == [sa[q.s] EXCEPT !.contacts = q.put]
           new == IF q.back THEN [seq EXCEPT !.st = "pending", !.real = None]
                  ELSE seq
<1>1. q.s \in Sa /\ q.back \in BOOLEAN
  BY ReqFields DEF WriteContacts, ReqOK
<1>2. sa \in [Sa -> SaRec] /\ sa[q.s] \in SaRec /\ log \in LogRec
  BY <1>1 DEF PlanOK, SaType, LogType
<1>3. ~Live(q.s) => sa' = sa
  BY DEF WriteContacts
<1>4. Live(q.s) => /\ sa' = [sa EXCEPT ![q.s] = new]
                   /\ log' = [log EXCEPT !.stale = StaleIf(Changed(q), q.s)]
  BY DEF WriteContacts
<1>5. /\ new.contacts = q.put /\ new.day = sa[q.s].day
      /\ q.back => new.st = "pending"
      /\ ~q.back => new.st = sa[q.s].st /\ new.real = sa[q.s].real
  BY <1>1, <1>2 DEF SaRec
<1> HIDE DEF new
<1>6. Live(q.s) => sa'[q.s] = new /\ \A s \in Sa : s # q.s => sa'[s] = sa[s]
  BY <1>1, <1>2, <1>4
<1>7. Live(q.s) /\ Changed(q) => q.s \in log'.stale
  BY <1>1, <1>2, <1>4 DEF StaleIf, LogRec
<1> QED
  BY <1>1, <1>3, <1>5, <1>6, <1>7

LEMMA SequenceCommitted ==
    ASSUME PlanOK, NEW r \in Req, CommitSequence(r)
    PROVE  LET q == req[r] IN
           /\ q.s \in Sa /\ q.done \in BOOLEAN /\ q.day \in Int
           /\ \A s \in Sa : s # q.s => sa'[s] = sa[s]
           /\ ~Live(q.s) => sa' = sa /\ log' = log
           /\ Live(q.s) =>
                /\ sa'[q.s].contacts = sa[q.s].contacts
                /\ IF q.done
                   THEN /\ sa'[q.s].st = "done" /\ sa'[q.s].real = q.day
                        /\ sa'[q.s].day = sa[q.s].day
                   ELSE /\ sa'[q.s].st = sa[q.s].st
                        /\ sa'[q.s].real = sa[q.s].real
                        /\ sa'[q.s].day = q.day
                /\ Changed(q) => q.s \in log'.stale
                /\ log'.marked = IF q.done THEN log.marked \ {q.s}
                                 ELSE log.marked
                /\ \A s \in Sa : log'.want[s] =
                     IF s = q.s /\ ~q.done THEN q.day
                     ELSE IF s \in Later(q.num)
                     THEN log.want[s] + q.day - sa[q.s].day ELSE log.want[s]
<1> DEFINE q == req[r]
           new == IF q.done THEN [sa[q.s] EXCEPT !.st = "done", !.real = q.day]
                  ELSE [sa[q.s] EXCEPT !.day = q.day]
           want == [s \in Sa |->
                IF sa[s].st = "pending" /\ sa[s].auto /\ sa[s].num > q.num
                THEN log.want[s] + q.day - sa[q.s].day ELSE log.want[s]]
           wanted == IF q.done THEN want ELSE [want EXCEPT ![q.s] = q.day]
           marked == IF q.done THEN log.marked \ {q.s} ELSE log.marked
<1>1. q.s \in Sa /\ q.done \in BOOLEAN /\ q.day \in Int
  BY ReqFields DEF CommitSequence, ReqOK, Moving
<1>2. sa \in [Sa -> SaRec] /\ sa[q.s] \in SaRec /\ log \in LogRec
  BY <1>1 DEF PlanOK, SaType, LogType
<1>3. ~Live(q.s) => sa' = sa /\ log' = log
  BY DEF CommitSequence
<1>4. Live(q.s) => /\ sa' = [sa EXCEPT ![q.s] = new]
                   /\ log' = [log EXCEPT !.stale = StaleIf(Changed(q), q.s),
                                         !.marked = marked, !.want = wanted]
  BY <1>1, <1>2 DEF CommitSequence
<1>5. /\ new.contacts = sa[q.s].contacts
      /\ q.done => /\ new.st = "done" /\ new.real = q.day
                   /\ new.day = sa[q.s].day
      /\ ~q.done => /\ new.st = sa[q.s].st /\ new.real = sa[q.s].real
                    /\ new.day = q.day
  BY <1>1, <1>2 DEF SaRec
<1>6. \A s \in Sa : wanted[s] =
        IF s = q.s /\ ~q.done THEN q.day
        ELSE IF s \in Later(q.num)
        THEN log.want[s] + q.day - sa[q.s].day ELSE log.want[s]
  BY <1>1 DEF Later, AutoPending
<1> HIDE DEF new, wanted, marked
<1>7. Live(q.s) => sa'[q.s] = new /\ \A s \in Sa : s # q.s => sa'[s] = sa[s]
  BY <1>1, <1>2, <1>4
<1>8. ASSUME Live(q.s)
      PROVE  /\ log'.want = wanted /\ log'.marked = marked
             /\ Changed(q) => q.s \in log'.stale
  <2>1. /\ log'.want = wanted /\ log'.stale = StaleIf(Changed(q), q.s)
        /\ log'.marked = marked
    BY <1>2, <1>4, <1>8 DEF LogRec
  <2> QED
    BY <2>1 DEF StaleIf
<1> QED
  BY <1>1, <1>3, <1>5, <1>6, <1>7, <1>8 DEF marked

\* The steps of a specification whose types are right.
LEMMA StepCases ==
    ASSUME TypeInv, [Next]_vars
    PROVE  \/ \E r \in Req : Staff(r) \/ Continue(r)
           \/ /\ UNCHANGED <<alt, rupture, req, log>>
              /\ \A s \in Sa :
                /\ sa'[s].st = sa[s].st /\ sa'[s].day = sa[s].day
                /\ sa'[s].num = sa[s].num /\ sa'[s].auto = sa[s].auto
                /\ sa'[s].contacts = sa[s].contacts
                /\ sa'[s].real = sa[s].real /\ sa'[s].arch = sa[s].arch
<1>1. CASE UNCHANGED vars
  BY <1>1 DEF vars, planVars, saVars, reqVars
<1>2. CASE PlanNext
  BY <1>2 DEF PlanNext
<1>3. CASE \/ Scheduler
           \/ \E s \in Sa, some \in BOOLEAN : NotifyFails(s, some)
           \/ TickStops \/ DayPasses
  BY <1>3, SchedulerFrame DEF TypeInv
<1> QED
  BY <1>1, <1>2, <1>3 DEF Next

\* A SA that is live was so before, unless it was just created.
LEMMA LiveBefore ==
    ASSUME PlanOK, NEW s \in Sa, SaKept(s), Live(s)'
    PROVE  Live(s)
<1>1. sa[s] \in SaRec
  BY DEF PlanOK, SaType
<1> QED
  BY <1>1 DEF SaKept, Live, SaRec, SaStatus

-----------------------------------------------------------------------------
(* Numbers.                                                                *)

\* A number about to be used is greater than those in use, and only one is:
\* as long as none was computed while another was about to be used.
NumInv == ~log.raced =>
    /\ \A r, q \in Req : req[r].pc = "create" /\ req[q].pc = "create" => r = q
    /\ \A r \in Req, s \in Sa :
         req[r].pc = "create" /\ Live(s) => sa[s].num < req[r].num
    /\ \A s, t \in Sa : Live(s) /\ Live(t) /\ sa[s].num = sa[t].num => s = t

LEMMA NumInitial == Init => NumInv
<1> SUFFICES ASSUME Init PROVE NumInv
  OBVIOUS
<1> PICK w \in Situation : PlanInit(w)
  BY DEF Init
<1>1. SituationOK(w)
  BY PlanningAssumption DEF PlanningAssumption
<1>2. \A r \in Req : req[r].pc = "idle"
  BY NoReqFields DEF PlanInit
<1>3. \A s, t \in Sa : Live(s) /\ Live(t) /\ sa[s].num = sa[t].num => s = t
  BY <1>1 DEF PlanInit, SituationOK, Live
<1> QED
  BY <1>2, <1>3 DEF NumInv

LEMMA NumStep ==
    ASSUME PlanOK, NumInv, NEW r \in Req, Staff(r) \/ Continue(r)
    PROVE  NumInv'
<1> SUFFICES ASSUME ~log'.raced PROVE NumInv'
  BY DEF NumInv
<1>0. /\ sa \in [Sa -> SaRec] /\ log \in LogRec /\ \A s \in Sa : sa[s].num \in Nat
      /\ req \in [Req -> ReqRec]
  BY DEF PlanOK, SaType, SaRec, LogType, ReqType
<1>1. /\ ~log.raced
      /\ \A q \in Req \ {r} : req'[q] = req[q]
      /\ req'[r].pc = "create" => ReadNumero(r)
  <2>1. CASE Staff(r)
    BY <2>1, StaffStarts, StaffLog DEF Started, Recorded
  <2>2. CASE Continue(r)
    <3>1. Continued(r) /\ (ReadNumero(r) \/ log'.raced = log.raced)
      BY <2>2, ContinueStep, ContinueLog
    <3>2. ReadNumero(r) => ~log.raced
      BY <1>0 DEF ReadNumero, LogRec
    <3> QED
      BY <3>1, <3>2 DEF Continued
  <2> QED
    BY <2>1, <2>2
<1>2. CASE CreateSequence(r)
  <2>1. req[r].pc = "create" /\ req[r].num \in Nat
    BY <1>2, ReqFields DEF CreateSequence
  <2>2. \A q \in Req : req'[q].pc # "create"
    <3>1. req'[r].pc # "create"
      BY <1>1, <2>1 DEF ReadNumero
    <3> QED
      BY <1>1, <2>1, <3>1 DEF NumInv
  <2>3. /\ NewSa \in Sa /\ sa'[NewSa].num = req[r].num
        /\ \A s \in Sa : s # NewSa => sa'[s] = sa[s]
    <3>1. \A day, num, auto : Planned("pending", day, num, auto).num = num
      BY DEF Planned
    <3>2. /\ NewSa \in Sa /\ \A s \in Sa : s # NewSa => sa'[s] = sa[s]
          /\ sa'[NewSa] = Planned("pending", Head(req[r].plan), req[r].num,
                                  req[r].auto)
      BY <1>2, Created
    <3> QED
      BY <3>1, <3>2
  <2>4. \A s \in Sa : s # NewSa /\ Live(s)' => Live(s) /\ sa'[s].num = sa[s].num
                      /\ sa[s].num < req[r].num
    BY <1>1, <2>1, <2>3 DEF NumInv, Live
  <2>5. \A s, t \in Sa : Live(s)' /\ Live(t)' /\ sa'[s].num = sa'[t].num => s = t
    <3> SUFFICES ASSUME NEW s \in Sa, NEW t \in Sa, Live(s)', Live(t)',
                        sa'[s].num = sa'[t].num
                 PROVE  s = t
      OBVIOUS
    <3>1. CASE s = NewSa \/ t = NewSa
      BY <1>0, <2>1, <2>3, <2>4, <3>1
    <3>2. CASE s # NewSa /\ t # NewSa
      BY <1>1, <2>4, <3>2 DEF NumInv
    <3> QED
      BY <3>1, <3>2
  <2> QED
    BY <2>2, <2>5 DEF NumInv
<1>3. CASE ~CreateSequence(r)
  <2>1. \A s \in Sa : sa'[s].num = sa[s].num /\ (Live(s)' => Live(s))
    BY <1>3, DocumentsKept, LiveBefore DEF SaKept
  <2>2. \A s, t \in Sa : Live(s)' /\ Live(t)' /\ sa'[s].num = sa'[t].num => s = t
    BY <1>1, <2>1 DEF NumInv
  <2>3. CASE ReadNumero(r)
    <3>1. /\ req'[r].num = nextNumero /\ ~Busy(r, {"create"})
      BY <1>0, <2>3 DEF ReadNumero, GoTo, LogRec, ReqRec
    <3>2. \A s \in Sa : Live(s)' => sa'[s].num < req'[r].num
      BY <1>0, <2>1, <3>1, NextNumero
    <3>3. \A q \in Req \ {r} : req'[q].pc # "create"
      BY <1>1, <3>1 DEF Busy
    <3> QED
      BY <2>2, <3>2, <3>3 DEF NumInv
  <2>4. CASE ~ReadNumero(r)
    <3>1. \A q \in Req : req'[q].pc = "create" =>
            q # r /\ req'[q] = req[q]
      BY <1>1, <2>4
    <3> QED
      BY <1>1, <2>1, <2>2, <3>1 DEF NumInv
  <2> QED
    BY <2>3, <2>4
<1> QED
  BY <1>2, <1>3

LEMMA NumInductive == TypeInv /\ NumInv /\ [Next]_vars => NumInv'
<1> SUFFICES ASSUME TypeInv, NumInv, [Next]_vars PROVE NumInv'
  OBVIOUS
<1>1. CASE \E r \in Req : Staff(r) \/ Continue(r)
  BY <1>1, NumStep DEF TypeInv
<1>2. CASE ~\E r \in Req : Staff(r) \/ Continue(r)
  BY <1>2, StepCases DEF NumInv, Live
<1> QED
  BY <1>1, <1>2

\* Two SA of an alternant have two numbers, whatever is created, deleted and
\* planned again, unless two requests number at the same time
\* (AlternantSequenceRepository.nextNumero).
THEOREM NumbersAlwaysDistinct == Spec => []NumbersDistinct
<1>1. Spec => []NumInv
  BY TypesAlways, NumInitial, NumInductive, PTL DEF Spec
<1>2. NumInv => NumbersDistinct
  BY DEF NumInv, NumbersDistinct
<1> QED
  BY <1>1, <1>2, PTL

-----------------------------------------------------------------------------
(* Validated SA.                                                           *)

LEMMA DoneInitial == Init => DoneWasReached
<1> SUFFICES ASSUME Init PROVE DoneWasReached
  OBVIOUS
<1> PICK w \in Situation : PlanInit(w)
  BY DEF Init
<1>1. SituationOK(w)
  BY PlanningAssumption DEF PlanningAssumption
<1> QED
  BY <1>1 DEF PlanInit, SituationOK, DoneWasReached

LEMMA DoneStep ==
    ASSUME PlanOK, DoneWasReached, NEW r \in Req, Staff(r) \/ Continue(r)
    PROVE  DoneWasReached'
<1>0. /\ sa \in [Sa -> SaRec] /\ log.stale \subseteq log'.stale
      /\ \A s \in Sa : sa[s] \in SaRec
  BY StaffLog, ContinueLog DEF Recorded, PlanOK, SaType
<1>1. SUFFICES ASSUME NEW s \in Sa, sa'[s].st = "done",
                      s \notin log'.stale, s \notin log'.marked
               PROVE  sa'[s].contacts = Contact /\ sa'[s].real # None
  BY DEF DoneWasReached
<1>2. sa[s].st = "done" /\ s \notin log.marked =>
        sa[s].contacts = Contact /\ sa[s].real # None
  BY <1>0, <1>1 DEF DoneWasReached
<1>m. ~CommitSequence(r) => s \notin log.marked
  BY <1>1, StaffLog, ContinueLog DEF Recorded
<1>3. CASE Staff(r)
  <2>1. SaStarted(r, s) /\ s \notin log.marked
    BY <1>1, <1>3, StaffStarts, StaffLog DEF Recorded
  <2> QED
    BY <1>1, <1>2, <2>1 DEF SaStarted
<1>4. CASE Continue(r) /\ CreateSequence(r)
  <2>0. s \notin log.marked
    <3>1. ~CommitSequence(r)
      BY <1>4 DEF CreateSequence, CommitSequence
    <3> QED
      BY <1>m, <3>1
  <2>1. s = NewSa => sa'[s].st = "pending"
    <3>1. sa'[NewSa] = Planned("pending", Head(req[r].plan), req[r].num,
                               req[r].auto)
      BY <1>4, Created
    <3> QED
      BY <3>1 DEF Planned
  <2>2. s # NewSa => sa'[s] = sa[s]
    BY <1>4, Created
  <2> QED
    BY <1>1, <1>2, <2>0, <2>1, <2>2
<1>5. CASE WriteContacts(r)
  <2> DEFINE q == req[r]
  <2>0. s \notin log.marked
    <3>1. ~CommitSequence(r)
      BY <1>5 DEF WriteContacts, CommitSequence
    <3> QED
      BY <1>m, <3>1
  <2>1. q.back = Reverts(q.st, q.put)
    BY <1>5, ReqFields DEF WriteContacts, ReqOK
  <2>2. CASE s = q.s /\ Live(s)
    <3>1. ~Changed(q)
      BY <1>1, <1>5, <2>2, ContactsWritten
    <3>2. sa'[s].contacts = q.put /\ ~q.back
      BY <1>1, <1>5, <2>2, ContactsWritten
    <3>3. sa'[s].st = sa[s].st /\ sa'[s].real = sa[s].real
      BY <1>5, <2>2, <3>2, ContactsWritten
    <3>4. q.st = "done"
      BY <1>1, <2>2, <3>1, <3>3 DEF Changed
    <3> QED
      BY <1>1, <1>2, <2>0, <2>1, <3>2, <3>3, <3>4 DEF Reverts
  <2>3. CASE ~(s = q.s /\ Live(s))
    <3>1. sa'[s] = sa[s]
      BY <1>5, <2>3, ContactsWritten
    <3> QED
      BY <1>1, <1>2, <2>0, <3>1
  <2> QED
    BY <2>2, <2>3
<1>6. CASE CommitSequence(r)
  <2> DEFINE q == req[r]
  <2>0. q.done => q.contacts = Contact
    BY <1>6, ReqFields DEF CommitSequence, ReqOK, Moving
  <2>1. CASE s = q.s /\ Live(s)
    <3>1. ~Changed(q) /\ q.done \in BOOLEAN /\ q.day \in Int
      BY <1>1, <1>6, <2>1, SequenceCommitted
    <3>2. sa'[s].contacts = sa[s].contacts
      BY <1>6, <2>1, SequenceCommitted
    <3>3. CASE q.done
      <4>1. sa'[s].real = q.day
        BY <1>6, <2>1, <3>3, SequenceCommitted
      <4>2. sa[s].contacts = Contact
        BY <2>0, <2>1, <3>1, <3>3 DEF Changed
      <4> QED
        BY <3>1, <3>2, <4>1, <4>2, ConstantFacts
    <3>4. CASE ~q.done
      <4>1. /\ sa'[s].st = sa[s].st /\ sa'[s].real = sa[s].real
            /\ s \notin log.marked
        BY <1>1, <1>6, <2>1, <3>4, SequenceCommitted
      <4> QED
        BY <1>1, <1>2, <3>2, <4>1
    <3> QED
      BY <3>3, <3>4
  <2>2. CASE ~(s = q.s /\ Live(s))
    <3>1. sa'[s] = sa[s] /\ s \notin log.marked
      <4>1. CASE Live(q.s)
        BY <1>1, <1>6, <2>2, <4>1, SequenceCommitted
      <4>2. CASE ~Live(q.s)
        BY <1>1, <1>6, <4>2, SequenceCommitted
      <4> QED
        BY <4>1, <4>2
    <3> QED
      BY <1>1, <1>2, <3>1
  <2> QED
    BY <2>1, <2>2
<1>7. CASE /\ Continue(r) /\ ~CreateSequence(r)
           /\ ~WriteContacts(r) /\ ~CommitSequence(r)
  <2>1. SaContinued(r, s)
    BY <1>7, ContinueSas
  <2> QED
    BY <1>1, <1>2, <1>m, <1>7, <2>1 DEF SaContinued
<1> QED
  BY <1>3, <1>4, <1>5, <1>6, <1>7

LEMMA DoneInductive ==
    TypeInv /\ DoneWasReached /\ [Next]_vars => DoneWasReached'
<1> SUFFICES ASSUME TypeInv, DoneWasReached, [Next]_vars PROVE DoneWasReached'
  OBVIOUS
<1>1. CASE \E r \in Req : Staff(r) \/ Continue(r)
  BY <1>1, DoneStep DEF TypeInv
<1>2. CASE ~\E r \in Req : Staff(r) \/ Continue(r)
  BY <1>2, StepCases DEF DoneWasReached
<1> QED
  BY <1>1, <1>2

\* A validated SA has all its contacts and a date, whatever is unchecked or
\* validated at the same time, unless a request wrote on the strength of a copy
\* the other had changed (updateSequenceContacts, completeSequence), or the SA
\* was put done by markSequence, which asks for neither.
THEOREM DoneAlwaysReached == Spec => []DoneWasReached
  BY TypesAlways, DoneInitial, DoneInductive, PTL DEF Spec

-----------------------------------------------------------------------------
(* Dates.                                                                  *)

LEMMA LaterFound ==
    ASSUME PlanOK, NEW r \in Req, FindLater(r)
    PROVE  LET q == req[r]
               p == req'[r] IN
           /\ q.pc = "find" /\ sa' = sa /\ log' = log
           /\ p.s = q.s /\ p.num = q.num /\ p.day = q.day /\ p.delta = q.delta
           /\ \/ p.pc = "commit" /\ (q.delta = 0 \/ Later(q.num) = {})
              \/ /\ p.pc = "shift"
                 /\ p.moves = [s \in Sa |-> IF s \in Later(q.num)
                                            THEN sa[s].day + q.delta ELSE None]
<1> DEFINE q == req[r]
           later == IF q.delta = 0 THEN {} ELSE Later(q.num)
           moves == [s \in Sa |-> IF s \in later THEN sa[s].day + q.delta ELSE None]
           next == IF later = {} THEN [q EXCEPT !.pc = "commit"]
                   ELSE [q EXCEPT !.pc = "shift", !.moves = moves]
<1>1. /\ q \in ReqRec /\ q.pc = "find" /\ sa' = sa /\ log' = log
      /\ req \in [Req -> ReqRec]
  BY ReqFields DEF PlanOK, ReqType, FindLater, saVars
<1>2. req'[r] = next
  BY <1>1 DEF FindLater, GoTo
<1>3. CASE later = {}
  BY <1>1, <1>2, <1>3 DEF ReqRec
<1>4. CASE later # {}
  <2>1. next = [q EXCEPT !.pc = "shift", !.moves = moves]
    BY <1>4
  <2>2. moves = [s \in Sa |-> IF s \in Later(q.num)
                              THEN sa[s].day + q.delta ELSE None]
    BY <1>4
  <2> HIDE DEF moves, next
  <2>3. /\ next.s = q.s /\ next.num = q.num /\ next.day = q.day
        /\ next.delta = q.delta /\ next.pc = "shift" /\ next.moves = moves
    BY <1>1, <2>1 DEF ReqRec
  <2> QED
    BY <1>1, <1>2, <2>2, <2>3
<1> QED
  BY <1>3, <1>4

LEMMA LaterShifted ==
    ASSUME PlanOK, NEW r \in Req, ShiftLater(r)
    PROVE  LET q == req[r]
               p == req'[r] IN
           /\ q.pc = "shift" /\ p.pc = "commit"
           /\ p.s = q.s /\ p.num = q.num /\ p.day = q.day /\ p.delta = q.delta
           /\ \A s \in Sa :
                /\ sa'[s].st = sa[s].st /\ sa'[s].auto = sa[s].auto
                /\ sa'[s].num = sa[s].num
                /\ sa'[s].day = IF q.moves[s] # None /\ Live(s)
                                THEN q.moves[s] ELSE sa[s].day
                /\ q.moves[s] # None /\ Live(s) /\ sa[s].st # "pending"
                    => s \in log'.stale
           /\ log'.want = log.want
<1> DEFINE q == req[r]
           Moved == {s \in Sa : q.moves[s] # None /\ Live(s)}
<1>1. /\ q \in ReqRec /\ q.pc = "shift" /\ req \in [Req -> ReqRec]
      /\ sa \in [Sa -> SaRec] /\ \A s \in Sa : sa[s] \in SaRec
      /\ log \in LogRec
  BY ReqFields DEF PlanOK, ReqType, SaType, LogType, ShiftLater
<1>2. req'[r] = [q EXCEPT !.pc = "commit"]
  BY <1>1 DEF ShiftLater, GoTo
<1>3. sa' = [s \in Sa |-> IF s \in Moved
                          THEN [sa[s] EXCEPT !.day = q.moves[s]] ELSE sa[s]]
  BY DEF ShiftLater
<1>4. log' = [log EXCEPT !.stale = @ \cup
                {s \in Moved : sa[s].st # "pending"
                               \/ sa[s].day + q.delta # q.moves[s]}]
  BY DEF ShiftLater
<1>5. /\ log'.want = log.want
      /\ \A s \in Moved : sa[s].st # "pending" => s \in log'.stale
  BY <1>1, <1>4 DEF LogRec
<1>6. \A s \in Sa :
        /\ sa'[s].st = sa[s].st /\ sa'[s].auto = sa[s].auto
        /\ sa'[s].num = sa[s].num
        /\ sa'[s].day = IF q.moves[s] # None /\ Live(s)
                        THEN q.moves[s] ELSE sa[s].day
  BY <1>1, <1>3 DEF SaRec
<1>7. LET p == req'[r] IN
        /\ p.pc = "commit" /\ p.s = q.s /\ p.num = q.num /\ p.day = q.day
        /\ p.delta = q.delta
  BY <1>1, <1>2 DEF ReqRec
<1> QED
  BY <1>1, <1>5, <1>6, <1>7

\* What is about to be moved was planned automatically.
MovesInv ==
    \A r \in Req, s \in Sa : req[r].pc = "shift" /\ req[r].moves[s] # None =>
        sa[s].auto /\ sa[s].st # "none"

LEMMA MovesInitial == Init => MovesInv
  BY NoReqFields DEF Init, PlanInit, MovesInv

LEMMA MovesStep ==
    ASSUME PlanOK, MovesInv, NEW r \in Req, Staff(r) \/ Continue(r)
    PROVE  MovesInv'
<1>0. sa \in [Sa -> SaRec]
  BY DEF PlanOK, SaType
<1>1. /\ \A q \in Req \ {r} : req'[q] = req[q]
      /\ req'[r].pc = "shift" => FindLater(r)
  BY StaffStarts, ContinueStep DEF Started, Continued
<1>2. \A s \in Sa : sa[s].st # "none" =>
        sa'[s].auto = sa[s].auto /\ sa'[s].st # "none"
  <2>1. CASE CreateSequence(r)
    <3>1. /\ sa[NewSa].st = "none" /\ \A s \in Sa : s # NewSa => sa'[s] = sa[s]
      BY <2>1, Created
    <3> QED
      BY <3>1
  <2>2. CASE ~CreateSequence(r)
    BY <2>2, DocumentsKept DEF SaKept
  <2> QED
    BY <2>1, <2>2
<1>3. ASSUME NEW q \in Req, NEW s \in Sa, req'[q].pc = "shift",
             req'[q].moves[s] # None
      PROVE  sa'[s].auto /\ sa'[s].st # "none"
  <2>1. CASE q = r
    <3>1. FindLater(r)
      BY <1>1, <1>3, <2>1
    <3>2. s \in Later(req[r].num)
      BY <1>3, <2>1, <3>1, LaterFound
    <3>3. sa[s].auto /\ sa[s].st # "none"
      BY <3>2 DEF Later, AutoPending
    <3> QED
      BY <1>2, <3>3
  <2>2. CASE q # r
    BY <1>1, <1>2, <1>3, <2>2 DEF MovesInv
  <2> QED
    BY <2>1, <2>2
<1> QED
  BY <1>3 DEF MovesInv

LEMMA MovesInductive == TypeInv /\ MovesInv /\ [Next]_vars => MovesInv'
<1> SUFFICES ASSUME TypeInv, MovesInv, [Next]_vars PROVE MovesInv'
  OBVIOUS
<1>1. CASE \E r \in Req : Staff(r) \/ Continue(r)
  BY <1>1, MovesStep DEF TypeInv
<1>2. CASE ~\E r \in Req : Staff(r) \/ Continue(r)
  BY <1>2, StepCases DEF MovesInv
<1> QED
  BY <1>1, <1>2

LEMMA DatesStep ==
    ASSUME TypeInv, MovesInv, [Next]_vars, NEW s \in Sa, Live(s),
           sa'[s].day # sa[s].day
    PROVE  \/ s \in AutoPending
           \/ \E r \in Req : /\ req[r].pc = "commit" /\ req[r].s = s
                             /\ req'[r] = NoReq
           \/ s \in log'.stale
<1>0. PlanOK /\ sa[s].st # "none"
  BY DEF TypeInv, Live, SaStatus
<1>1. PICK r \in Req : Staff(r) \/ Continue(r)
  BY StepCases
<1>2. CASE Staff(r)
  BY <1>0, <1>2, StaffStarts DEF SaStarted
<1>3. CASE Continue(r) /\ CreateSequence(r)
  <2>1. sa[NewSa].st = "none" /\ (s # NewSa => sa'[s] = sa[s])
    BY <1>0, <1>3, Created
  <2> QED
    BY <1>0, <2>1
<1>4. CASE ShiftLater(r)
  <2>1. req[r].pc = "shift" /\ req[r].moves[s] # None
    BY <1>0, <1>4, LaterShifted
  <2>2. sa[s].auto
    BY <2>1 DEF MovesInv
  <2>3. sa[s].st # "pending" => s \in log'.stale
    BY <1>0, <1>4, <2>1, LaterShifted
  <2> QED
    BY <2>2, <2>3 DEF AutoPending
<1>5. CASE CommitSequence(r)
  <2>1. s = req[r].s
    BY <1>0, <1>5, SequenceCommitted
  <2>2. req[r].pc = "commit" /\ req'[r] = NoReq
    BY <1>0, <1>5 DEF CommitSequence, GoTo, PlanOK, ReqType
  <2> QED
    BY <2>1, <2>2
<1>6. CASE /\ Continue(r) /\ ~CreateSequence(r)
           /\ ~ShiftLater(r) /\ ~CommitSequence(r)
  BY <1>0, <1>6, ContinueSas DEF SaContinued
<1> QED
  BY <1>1, <1>2, <1>3, <1>4, <1>5, <1>6

\* SA made by hand, done or given up keep their date whatever happens to the
\* others, unless they have changed since they were read to be shifted
\* (AlternantSequenceRepository.shiftLaterPending).
THEOREM HandledAlwaysKeepDate == Spec => HandledKeepDate
<1>1. TypeInv /\ MovesInv /\ [Next]_vars =>
        [\A s \in Sa : Live(s) /\ sa'[s].day # sa[s].day =>
            \/ s \in AutoPending
            \/ \E r \in Req : req[r].pc = "commit" /\ req[r].s = s /\ req'[r] = NoReq
            \/ s \in log'.stale]_planVars
  BY DatesStep
<1>2. Spec => []MovesInv
  BY TypesAlways, MovesInitial, MovesInductive, PTL DEF Spec
<1> QED
  BY <1>1, <1>2, TypesAlways, PTL DEF Spec, HandledKeepDate

\* The plan moves by one request at a time, which knows by how much; in
\* between, the SA are where the decisions lead, or on their way.
Alone ==
    \A r, q \in Req : req[r].pc \in Moving /\ q # r => req[q].pc = "idle"
OnPlan == \A s \in Sa : Live(s) => sa[s].day = log.want[s]
Shifts(r) ==
    LET q == req[r] IN
    /\ Live(q.s) /\ q.num = sa[q.s].num /\ q.delta = q.day - log.want[q.s]
    /\ q.pc \in {"find", "shift"} => OnPlan
    /\ q.pc = "shift" => q.moves = [s \in Sa |->
            IF s \in Later(q.num) THEN sa[s].day + q.delta ELSE None]
    /\ q.pc = "commit" => \A s \in Sa : Live(s) =>
            sa[s].day = IF s \in Later(q.num) THEN log.want[s] + q.delta
                        ELSE log.want[s]
PlanInv == ~log.crossed /\ ~log.torn =>
    /\ Alone
    /\ Quiet(Moving) => OnPlan
    /\ \A r \in Req : req[r].pc \in Moving => Shifts(r)

LEMMA PlanInitially == Init => PlanInv
<1> SUFFICES ASSUME Init PROVE PlanInv
  OBVIOUS
<1> PICK w \in Situation : PlanInit(w)
  BY DEF Init
<1>1. \A r \in Req : req[r].pc = "idle"
  BY NoReqFields DEF PlanInit
<1>2. OnPlan
  BY DEF PlanInit, OnPlan
<1> QED
  BY <1>1, <1>2 DEF PlanInv, Alone, Moving

\* A request that does not move the plan.
LEMMA OnPlanKept ==
    ASSUME PlanOK, NEW r \in Req, Staff(r) \/ Continue(r), OnPlan,
           ~ShiftLater(r), ~CommitSequence(r)
    PROVE  OnPlan'
<1>1. CASE CreateSequence(r)
  <2>1. /\ \A s \in Sa : s # NewSa => sa'[s] = sa[s]
        /\ sa'[NewSa] = Planned("pending", Head(req[r].plan), req[r].num,
                                req[r].auto)
        /\ log' = [log EXCEPT !.want[NewSa] = Head(req[r].plan),
                              !.since = @ \cup {NewSa}]
        /\ NewSa \in Sa
    BY <1>1, Created
  <2>2. log \in LogRec
    BY DEF PlanOK, LogType
  <2>3. \A s \in Sa : log'.want[s] =
            IF s = NewSa THEN Head(req[r].plan) ELSE log.want[s]
    BY <2>1, <2>2 DEF LogRec
  <2>4. sa'[NewSa].day = Head(req[r].plan)
    BY <2>1 DEF Planned
  <2>5. \A s \in Sa : s # NewSa => Live(s)' = Live(s) /\ sa'[s].day = sa[s].day
    BY <2>1 DEF Live
  <2> QED
    BY <2>3, <2>4, <2>5 DEF OnPlan
<1>2. CASE ~CreateSequence(r)
  <2>1. \A s \in Sa : Live(s)' => Live(s)
    BY <1>2, DocumentsKept, LiveBefore
  <2>2. log'.want = log.want
    BY <1>2, StaffLog, ContinueLog DEF Recorded
  <2>3. \A s \in Sa : sa'[s].day = sa[s].day
    BY <1>2, StaffStarts, ContinueSas DEF SaStarted, SaContinued
  <2> QED
    BY <2>1, <2>2, <2>3 DEF OnPlan
<1> QED
  BY <1>1, <1>2

\* completeSequence and rescheduleSequence start from what they read.
LEMMA MoveStarts ==
    ASSUME PlanOK, NEW r \in Req, Staff(r), req'[r].pc \in Moving
    PROVE  LET p == req'[r] IN
           /\ p.pc = "find" /\ sa' = sa
           /\ p.s \in Sa /\ Live(p.s) /\ p.num = sa[p.s].num
           /\ p.delta = p.day - sa[p.s].day
<1>0. /\ req \in [Req -> ReqRec] /\ Started(r)
  BY StaffStarts DEF PlanOK, ReqType
<1>1. req'[r].pc = "find"
  BY <1>0 DEF Started, Moving
<1>2. ASSUME NEW rec, NEW h, Receive(r, rec, h) PROVE req'[r] = rec
  BY <1>0, <1>2 DEF Receive
<1>3. ASSUME NEW s \in Sa, NEW day \in Day, completeSequence(r, s, day)
      PROVE  LET p == req'[r] IN
             /\ sa' = sa /\ p.s = s /\ Live(s) /\ p.num = sa[s].num
             /\ p.delta = p.day - sa[s].day
  <2> DEFINE rec == [Read(s, "find") EXCEPT !.done = TRUE, !.day = day,
                      !.delta = day - sa[s].day, !.num = sa[s].num]
  <2>1. Receive(r, rec, Starting(r, "find")) /\ sa' = sa /\ Live(s)
    BY <1>3 DEF completeSequence, Completable, saVars
  <2>2. /\ rec.s = s /\ rec.num = sa[s].num /\ rec.day = day
        /\ rec.delta = day - sa[s].day
    BY DEF Read, NoReq
  <2> HIDE DEF rec
  <2>3. req'[r] = rec
    BY <1>2, <2>1
  <2> QED
    BY <2>1, <2>2, <2>3
<1>4. ASSUME NEW s \in Sa, NEW day \in Day, rescheduleSequence(r, s, day)
      PROVE  LET p == req'[r] IN
             /\ sa' = sa /\ p.s = s /\ Live(s) /\ p.num = sa[s].num
             /\ p.delta = p.day - sa[s].day
  <2> DEFINE rec == [Read(s, "find") EXCEPT !.day = day,
                      !.delta = day - sa[s].day, !.num = sa[s].num]
  <2>1. Receive(r, rec, Starting(r, "find")) /\ sa' = sa /\ Live(s)
    BY <1>4 DEF rescheduleSequence, saVars
  <2>2. /\ rec.s = s /\ rec.num = sa[s].num /\ rec.day = day
        /\ rec.delta = day - sa[s].day
    BY DEF Read, NoReq
  <2> HIDE DEF rec
  <2>3. req'[r] = rec
    BY <1>2, <2>1
  <2> QED
    BY <2>1, <2>2, <2>3
<1>5. \E s \in Sa, day \in Day :
        completeSequence(r, s, day) \/ rescheduleSequence(r, s, day)
  <2>1. ASSUME NEW rec, NEW h, Receive(r, rec, h), rec.pc # "find" PROVE FALSE
    BY <1>1, <1>2, <2>1
  <2>2. ASSUME NEW plan, create(r, plan) \/ changeCompany(r, plan) PROVE FALSE
    <3>1. \A p, a : Numbering(p, a).pc # "find"
      BY NoReqFields
    <3>2. [NoReq EXCEPT !.pc = "clear", !.plan = plan].pc # "find"
      BY NoReqFields
    <3> QED
      BY <2>1, <2>2, <3>1, <3>2 DEF create, changeCompany
  <2>3. ASSUME removeCompany(r) \/ delete(r) PROVE FALSE
    <3>1. /\ [NoReq EXCEPT !.pc = "company"].pc # "find"
          /\ [NoReq EXCEPT !.pc = "ruptures", !.to = "gone"].pc # "find"
      BY NoReqFields
    <3> QED
      BY <2>1, <2>3, <3>1 DEF removeCompany, delete
  <2>4. ASSUME NEW day, createManualSequence(r, day) PROVE FALSE
    <3>1. Numbering(<<day>>, FALSE).pc # "find"
      BY NoReqFields
    <3> QED
      BY <2>1, <2>4, <3>1 DEF createManualSequence
  <2>5. ASSUME NEW s \in Sa, NEW x \in SUBSET Contact,
               updateSequenceContacts(r, s, x)
        PROVE  FALSE
    <3>1. [Read(s, "contacts") EXCEPT
             !.put = x, !.back = Reverts(sa[s].st, x)].pc # "find"
      BY StartFields
    <3> QED
      BY <2>1, <2>5, <3>1 DEF updateSequenceContacts
  <2>6. ASSUME NEW s, NEW st, markSequence(r, s, st) \/ deleteSequence(r, s)
        PROVE  FALSE
    BY <2>1, <2>6, NoReqFields DEF markSequence, deleteSequence
  <2>7. ASSUME NEW all, NEW quits, WriteRupture(r, all, quits) PROVE FALSE
    <3>1. [NoReq EXCEPT !.pc = "judge"].pc # "find"
      BY NoReqFields
    <3> QED
      BY <2>1, <2>7, <3>1 DEF WriteRupture
  <2>8. ASSUME NEW to, archive(r, to) PROVE FALSE
    <3>1. [NoReq EXCEPT !.pc = "person", !.to = to].pc # "find"
      BY NoReqFields
    <3> QED
      BY <2>1, <2>8, <3>1 DEF archive
  <2>9. \A s \in Sa, c \in Contact :
          /\ sa[s].contacts \cup {c} \in SUBSET Contact
          /\ sa[s].contacts \ {c} \in SUBSET Contact
    BY DEF PlanOK, SaType, SaRec
  <2> QED
    BY <2>2, <2>3, <2>4, <2>5, <2>6, <2>7, <2>8, <2>9
       DEF Staff, declareRupture, updateRupture, deleteRupture
<1> QED
  BY <1>1, <1>3, <1>4, <1>5

LEMMA StaffPlan ==
    ASSUME PlanOK, PlanInv, NEW r \in Req, Staff(r)
    PROVE  PlanInv'
<1> SUFFICES ASSUME ~log'.crossed, ~log'.torn PROVE PlanInv'
  BY DEF PlanInv
<1>1. /\ req[r].pc = "idle" /\ ~log.crossed /\ ~log.torn /\ ~Busy(r, Moving)
      /\ req'[r].pc \in Moving => ~Others(r)
      /\ log'.want = log.want
  BY StaffLog DEF Recorded
<1>2. \A q \in Req \ {r} : req'[q] = req[q]
  BY StaffStarts DEF Started
<1>3. Quiet(Moving) /\ OnPlan
  BY <1>1 DEF PlanInv, Quiet, Busy, Moving
<1>4. OnPlan'
  BY <1>1, <1>3, OnPlanKept DEF ShiftLater, CommitSequence
<1>5. CASE req'[r].pc \in Moving
  <2>1. \A q \in Req \ {r} : req'[q].pc = "idle"
    BY <1>1, <1>2, <1>5 DEF Others
  <2>2. Alone' /\ ~Quiet(Moving)' /\ \A q \in Req : req'[q].pc \in Moving => q = r
    BY <1>5, <2>1 DEF Alone, Quiet, Moving
  <2>3. LET p == req'[r] IN
        /\ p.pc = "find" /\ sa' = sa
        /\ p.s \in Sa /\ Live(p.s) /\ p.num = sa[p.s].num
        /\ p.delta = p.day - sa[p.s].day
    BY <1>5, MoveStarts
  <2>4. Shifts(r)'
    BY <1>1, <1>3, <1>4, <2>3 DEF Shifts, OnPlan, Live
  <2> QED
    BY <2>2, <2>4 DEF PlanInv
<1>6. CASE req'[r].pc \notin Moving
  <2>1. \A q \in Req : req'[q].pc \notin Moving
    BY <1>2, <1>3, <1>6 DEF Quiet
  <2> QED
    BY <1>4, <2>1 DEF PlanInv, Alone
<1> QED
  BY <1>5, <1>6

LEMMA MovingPlan ==
    ASSUME PlanOK, Alone, NEW r \in Req, req[r].pc \in Moving, Shifts(r),
           FindLater(r) \/ ShiftLater(r) \/ CommitSequence(r)
    PROVE  /\ \A q \in Req \ {r} : req'[q].pc = "idle"
           /\ req'[r].pc \in Moving => Shifts(r)'
           /\ req'[r].pc \notin Moving => OnPlan'
<1>0. /\ \A s \in Sa : sa[s].day \in Int /\ log.want[s] \in Int /\ sa[s].num \in Nat
      /\ req \in [Req -> ReqRec] /\ req[r].s \in Sa
      /\ req[r].delta \in Int /\ req[r].day \in Int
  BY ReqFields DEF PlanOK, SaType, SaRec, LogType, LogRec, ReqType, ReqOK
<1>1. \A q \in Req \ {r} : req'[q].pc = "idle"
  BY ContinueStep DEF Continue, Continued, Alone
<1>2. CASE FindLater(r)
  <2>1. /\ req[r].pc = "find" /\ sa' = sa /\ log' = log
        /\ req'[r].s = req[r].s /\ req'[r].num = req[r].num
        /\ req'[r].day = req[r].day /\ req'[r].delta = req[r].delta
    BY <1>2, LaterFound
  <2>2. \/ /\ req'[r].pc = "commit"
           /\ req[r].delta = 0 \/ Later(req[r].num) = {}
        \/ /\ req'[r].pc = "shift"
           /\ req'[r].moves = [s \in Sa |-> IF s \in Later(req[r].num)
                                    THEN sa[s].day + req[r].delta ELSE None]
    BY <1>2, LaterFound
  <2>3. OnPlan /\ OnPlan'
    BY <2>1 DEF Shifts, OnPlan, Live
  <2>4. \A n : Later(n)' = Later(n)
    BY <2>1 DEF Later, AutoPending
  <2>5. Live(req[r].s) /\ req[r].num = sa[req[r].s].num
        /\ req[r].delta = req[r].day - log.want[req[r].s]
    BY DEF Shifts
  <2>6. CASE req'[r].pc = "commit"
    <3>1. \A s \in Sa : Live(s) =>
            sa[s].day = IF s \in Later(req[r].num)
                        THEN log.want[s] + req[r].delta ELSE log.want[s]
      BY <1>0, <2>2, <2>3, <2>6 DEF OnPlan
    <3> QED
      BY <1>1, <2>1, <2>4, <2>5, <2>6, <3>1 DEF Shifts, Live, Moving
  <2>7. CASE req'[r].pc = "shift"
    BY <1>1, <2>1, <2>2, <2>3, <2>4, <2>5, <2>7 DEF Shifts, Live, Moving
  <2> QED
    BY <2>2, <2>6, <2>7
<1>3. CASE ShiftLater(r)
  <2>1. /\ req[r].pc = "shift" /\ req'[r].pc = "commit" /\ log'.want = log.want
        /\ req'[r].s = req[r].s /\ req'[r].num = req[r].num
        /\ req'[r].day = req[r].day /\ req'[r].delta = req[r].delta
    BY <1>3, LaterShifted
  <2>2. \A s \in Sa :
            /\ sa'[s].st = sa[s].st /\ sa'[s].auto = sa[s].auto
            /\ sa'[s].num = sa[s].num
            /\ sa'[s].day = IF req[r].moves[s] # None /\ Live(s)
                            THEN req[r].moves[s] ELSE sa[s].day
    BY <1>3, LaterShifted
  <2>3. \A n : Later(n)' = Later(n)
    BY <2>2 DEF Later, AutoPending
  <2>4. \A s \in Sa : Live(s)' = Live(s)
    BY <2>2 DEF Live
  <2>5. /\ OnPlan /\ Live(req[r].s) /\ req[r].num = sa[req[r].s].num
        /\ req[r].delta = req[r].day - log.want[req[r].s]
        /\ req[r].moves = [s \in Sa |-> IF s \in Later(req[r].num)
                            THEN sa[s].day + req[r].delta ELSE None]
    BY <2>1 DEF Shifts
  <2>6. ASSUME NEW s \in Sa, Live(s)
        PROVE  sa'[s].day = IF s \in Later(req[r].num)
                            THEN log.want[s] + req[r].delta ELSE log.want[s]
    <3>1. sa[s].day = log.want[s]
      BY <2>5, <2>6 DEF OnPlan
    <3>2. sa[s].day + req[r].delta # None
      BY <1>0, ConstantFacts
    <3> QED
      BY <2>2, <2>5, <2>6, <3>1, <3>2
  <2>7. Shifts(r)'
    <3>1. Live(req[r].s)' /\ req'[r].num = sa'[req'[r].s].num
      BY <1>0, <2>1, <2>2, <2>4, <2>5
    <3>2. \A s \in Sa : Live(s)' =>
            sa'[s].day = IF s \in Later(req[r].num)'
                         THEN log'.want[s] + req'[r].delta ELSE log'.want[s]
      BY <2>1, <2>3, <2>4, <2>6
    <3> QED
      BY <2>1, <2>5, <3>1, <3>2 DEF Shifts, Live
  <2> QED
    BY <1>1, <2>1, <2>7 DEF Moving
<1>4. CASE CommitSequence(r)
  <2>1. req'[r].pc = "idle" /\ req[r].pc = "commit"
    BY <1>0, <1>4, NoReqFields DEF CommitSequence, GoTo
  <2>2. /\ Live(req[r].s) /\ req[r].num = sa[req[r].s].num
        /\ req[r].delta = req[r].day - log.want[req[r].s]
        /\ \A s \in Sa : Live(s) =>
             sa[s].day = IF s \in Later(req[r].num)
                         THEN log.want[s] + req[r].delta ELSE log.want[s]
    BY <2>1 DEF Shifts
  <2>3. req[r].s \notin Later(req[r].num)
    BY <1>0, <2>2 DEF Later
  <2>4. sa[req[r].s].day = log.want[req[r].s]
    BY <1>0, <2>2, <2>3
  <2>5. /\ req[r].done \in BOOLEAN
        /\ \A s \in Sa : s # req[r].s => sa'[s] = sa[s]
        /\ req[r].done => sa'[req[r].s].day = sa[req[r].s].day
        /\ ~req[r].done => sa'[req[r].s].day = req[r].day
    BY <1>4, <2>2, SequenceCommitted
  <2>6. \A s \in Sa : log'.want[s] =
          IF s = req[r].s /\ ~req[r].done THEN req[r].day
          ELSE IF s \in Later(req[r].num)
          THEN log.want[s] + req[r].day - sa[req[r].s].day ELSE log.want[s]
    BY <1>4, <2>2, SequenceCommitted
  <2>7. ASSUME NEW s \in Sa, Live(s)' PROVE sa'[s].day = log'.want[s]
    <3>1. CASE s = req[r].s
      <4>1. log'.want[s] = IF req[r].done THEN log.want[s] ELSE req[r].day
        BY <2>3, <2>5, <2>6, <3>1
      <4> QED
        BY <2>4, <2>5, <3>1, <4>1
    <3>2. CASE s # req[r].s
      <4>1. sa'[s] = sa[s] /\ Live(s)
        BY <2>5, <2>7, <3>2 DEF Live
      <4>2. log'.want[s] = IF s \in Later(req[r].num)
                           THEN log.want[s] + req[r].day - sa[req[r].s].day
                           ELSE log.want[s]
        BY <2>6, <3>2
      <4>3. log.want[s] + req[r].day - sa[req[r].s].day = log.want[s] + req[r].delta
        BY <1>0, <2>2, <2>4
      <4> QED
        BY <2>2, <4>1, <4>2, <4>3
    <3> QED
      BY <3>1, <3>2
  <2> QED
    BY <1>1, <2>1, <2>7 DEF OnPlan, Moving
<1> QED
  BY <1>2, <1>3, <1>4

LEMMA ContinuePlan ==
    ASSUME PlanOK, PlanInv, NEW r \in Req, Continue(r)
    PROVE  PlanInv'
<1> SUFFICES ASSUME ~log'.crossed, ~log'.torn PROVE PlanInv'
  BY DEF PlanInv
<1>1. req[r].pc # "idle" /\ ~Fail(r) /\ ~log.crossed /\ ~log.torn
  BY ContinueLog
<1>2. Alone /\ (Quiet(Moving) => OnPlan) /\ (req[r].pc \in Moving => Shifts(r))
  BY <1>1 DEF PlanInv
<1>3. Continued(r)
  BY ContinueStep
<1>4. CASE req[r].pc \in Moving
  <2>1. FindLater(r) \/ ShiftLater(r) \/ CommitSequence(r)
    BY <1>1, <1>4 DEF Continue, Moving, deleteAutoPending, ReadNumero,
       CreateSequence, ClearCompany, DeleteRuptures, WriteContacts, Judge,
       ArchiveSas, WritePerson
  <2>2. /\ \A q \in Req \ {r} : req'[q].pc = "idle"
        /\ req'[r].pc \in Moving => Shifts(r)'
        /\ req'[r].pc \notin Moving => OnPlan'
    BY <1>2, <1>4, <2>1, MovingPlan
  <2>3. Alone' /\ (Quiet(Moving)' => OnPlan')
    BY <2>2 DEF Alone, Quiet, Moving
  <2>4. \A q \in Req : req'[q].pc \in Moving => q = r
    BY <2>2 DEF Moving
  <2> QED
    BY <2>2, <2>3, <2>4 DEF PlanInv
<1>5. CASE req[r].pc \notin Moving
  <2>1. \A q \in Req : req[q].pc \notin Moving
    BY <1>1, <1>2, <1>5 DEF Alone
  <2>2. ~FindLater(r) /\ ~ShiftLater(r) /\ ~CommitSequence(r)
    BY <1>5 DEF FindLater, ShiftLater, CommitSequence, Moving
  <2>3. \A q \in Req : req'[q].pc \notin Moving
    BY <1>3, <2>1, <2>2 DEF Continued, Moving
  <2>4. OnPlan'
    BY <1>2, <2>1, <2>2, OnPlanKept DEF Quiet
  <2> QED
    BY <2>3, <2>4 DEF PlanInv, Alone
<1> QED
  BY <1>4, <1>5

LEMMA PlanInductive == TypeInv /\ PlanInv /\ [Next]_vars => PlanInv'
<1> SUFFICES ASSUME TypeInv, PlanInv, [Next]_vars PROVE PlanInv'
  OBVIOUS
<1>1. CASE \E r \in Req : Staff(r) \/ Continue(r)
  BY <1>1, StaffPlan, ContinuePlan DEF TypeInv
<1>2. CASE ~\E r \in Req : Staff(r) \/ Continue(r)
  <2>1. /\ UNCHANGED <<req, log>>
        /\ \A s \in Sa :
            /\ sa'[s].st = sa[s].st /\ sa'[s].day = sa[s].day
            /\ sa'[s].num = sa[s].num /\ sa'[s].auto = sa[s].auto
    BY <1>2, StepCases
  <2>2. \A n : Later(n)' = Later(n)
    BY <2>1 DEF Later, AutoPending
  <2>3. \A s \in Sa : Live(s)' = Live(s)
    BY <2>1 DEF Live
  <2>4. OnPlan' = OnPlan /\ Quiet(Moving)' = Quiet(Moving) /\ Alone' = Alone
    BY <2>1, <2>3 DEF OnPlan, Quiet, Alone, Moving
  <2>5. ASSUME NEW r \in Req, req[r].pc \in Moving, Shifts(r) PROVE Shifts(r)'
    <3>1. req[r].s \in Sa
      BY <2>5, ReqFields DEF TypeInv, ReqOK
    <3>2. /\ Live(req[r].s)' /\ req[r].num = sa'[req[r].s].num
          /\ req[r].delta = req[r].day - log.want[req[r].s]
          /\ req[r].pc \in {"find", "shift"} => OnPlan'
      BY <2>1, <2>3, <2>4, <2>5, <3>1 DEF Shifts
    <3>3. req[r].pc = "shift" => req[r].moves = [s \in Sa |->
              IF s \in Later(req[r].num) THEN sa'[s].day + req[r].delta ELSE None]
      BY <2>1, <2>5 DEF Shifts
    <3>4. req[r].pc = "commit" => \A s \in Sa : Live(s)' =>
              sa'[s].day = IF s \in Later(req[r].num)
                           THEN log.want[s] + req[r].delta ELSE log.want[s]
      BY <2>1, <2>3, <2>5 DEF Shifts
    <3> QED
      BY <2>1, <2>2, <3>2, <3>3, <3>4 DEF Shifts, Live
  <2> QED
    BY <2>1, <2>4, <2>5 DEF PlanInv, Moving
<1> QED
  BY <1>1, <1>2

\* Each SA is on the day the staff's decisions lead to, whenever no plan is
\* being moved: unless requests overlapped or one stopped half-way
\* (completeSequence, rescheduleSequence, shiftLaterPending).
THEOREM PlanAlwaysInStep == Spec => []PlanInStep
<1>1. Spec => []PlanInv
  BY TypesAlways, PlanInitially, PlanInductive, PTL DEF Spec
<1>2. PlanInv => PlanInStep
  BY DEF PlanInv, OnPlan, PlanInStep
<1> QED
  BY <1>1, <1>2, PTL

-----------------------------------------------------------------------------
(* Archives.                                                               *)

\* What a request that archives wants, and where the alternant may stand.
ToOK ==
    \A r \in Req : /\ req[r].pc = "judge" => req[r].to = "none"
                   /\ req[r].pc = "sas" => req[r].to # "gone"
                   /\ req[r].pc = "ruptures" => req[r].to = "gone"
AltOK ==
    /\ alt.st = "none" => rupture.all = 0 /\ ~log.ended
    /\ alt.st \in {"none", "active"} => alt.reason = "none"
    /\ alt.st = "archived" => alt.reason # "none"

\* As long as no two requests archive at once, the one that does is going to
\* write what the ruptures say, and does not undo the end of the training.
OneArchives ==
    \A r, q \in Req : req[r].pc \in Archiving /\ req[q].pc \in Archiving => r = q
Underway(r) == log.by = "ruptures" =>
    /\ req[r].pc = "sas" =>
         req[r].to = IF rupture.quits > 0 THEN "rupture" ELSE "none"
    /\ req[r].pc = "person" =>
         \/ req[r].to = "gone"
         \/ req[r].to = "rupture" /\ rupture.quits > 0
         \/ req[r].to = "none" /\ rupture.quits = 0
    /\ req[r].pc \in {"sas", "person"} /\ req[r].to = "none" => alt.reason # "end"
ArchivingInv == ~log.mixed => OneArchives /\ \A r \in Req : Underway(r)
EndKept ==
    log.ended /\ Known /\ ~log.requalified /\ ~log.mixed => alt.reason = "end"
RupturesFollowed ==
    Known /\ Quiet(Archiving) /\ log.by = "ruptures" /\ ~log.mixed /\ ~log.torn =>
        IF rupture.quits > 0 THEN alt.st = "archived" ELSE alt.reason # "rupture"
ArchiveInv == ToOK /\ AltOK /\ ArchivingInv /\ RupturesFollowed /\ EndKept

LEMMA ArchiveInitial == Init => ArchiveInv
<1> SUFFICES ASSUME Init PROVE ArchiveInv
  OBVIOUS
<1> PICK w \in Situation : PlanInit(w)
  BY DEF Init
<1>1. SituationOK(w)
  BY PlanningAssumption DEF PlanningAssumption
<1>2. \A r \in Req : req[r].pc = "idle"
  BY NoReqFields DEF PlanInit
<1>3. ToOK /\ ArchivingInv
  BY <1>2 DEF ToOK, ArchivingInv, OneArchives, Underway, Archiving
<1>4. /\ alt = w.alt /\ rupture = w.rupture /\ sa = w.sa /\ w.alt \in AltRec
      /\ log.ended = (w.alt.reason = "end")
      /\ (w.alt.st = "archived") = (w.alt.reason # "none")
      /\ w.rupture \in [all : Nat, quits : Nat]
  BY <1>1 DEF PlanInit, SituationOK
<1>5. AltOK /\ EndKept
  BY <1>1, <1>4 DEF SituationOK, AltOK, EndKept
<1>6. RupturesFollowed
  BY <1>1, <1>4 DEF SituationOK, RupturesFollowed
<1> QED
  BY <1>3, <1>5, <1>6 DEF ArchiveInv

LEMMA PersonWritten ==
    ASSUME PlanOK, NEW r \in Req, WritePerson(r)
    PROVE  /\ req[r].pc = "person" /\ req'[r].pc = "idle"
           /\ req[r].to \in Reason \cup {"none", "gone"}
           /\ sa' = sa /\ rupture' = rupture
           /\ ~Known => alt' = alt /\ log' = log
           /\ Known => /\ IF req[r].to = "gone" THEN alt'.st = "deleted"
                          ELSE /\ alt'.reason = req[r].to
                               /\ alt'.st = IF req[r].to = "none" THEN "active"
                                            ELSE "archived"
                       /\ log'.ended <=> \/ req[r].to = "end"
                                         \/ log.ended /\ ~(req[r].to = "none"
                                                           /\ log.by = "staff")
                       /\ log'.requalified <=> \/ log.requalified
                                               \/ req[r].to = "rupture"
                                                  /\ alt.reason = "end"
<1> DEFINE to == req[r].to
<1>1. /\ req \in [Req -> ReqRec] /\ alt \in AltRec /\ log \in LogRec
      /\ req[r].to \in Reason \cup {"none", "gone"}
  BY ReqFields DEF PlanOK, ReqType, AltType, LogType
<1>2. req[r].pc = "person" /\ req'[r].pc = "idle" /\ sa' = sa /\ rupture' = rupture
  BY <1>1, NoReqFields DEF WritePerson, GoTo
<1>3. ~Known => alt' = alt /\ log' = log
  BY DEF WritePerson
<1>4. ASSUME Known
      PROVE  /\ alt' = IF to = "gone" THEN [alt EXCEPT !.st = "deleted"]
                       ELSE [alt EXCEPT !.reason = to, !.st =
                             IF to = "none" THEN "active" ELSE "archived"]
             /\ log' = [log EXCEPT
                  !.ended = to = "end" \/ (@ /\ ~(to = "none" /\ log.by = "staff")),
                  !.requalified = @ \/ (to = "rupture" /\ alt.reason = "end")]
  BY <1>4 DEF WritePerson
<1> HIDE DEF to
<1>5. ASSUME Known
      PROVE  IF to = "gone" THEN alt'.st = "deleted"
             ELSE alt'.reason = to
                  /\ alt'.st = IF to = "none" THEN "active" ELSE "archived"
  BY <1>1, <1>4, <1>5 DEF AltRec
<1>6. ASSUME Known
      PROVE  /\ log'.ended <=> \/ to = "end"
                               \/ log.ended /\ ~(to = "none" /\ log.by = "staff")
             /\ log'.requalified <=> \/ log.requalified
                                     \/ to = "rupture" /\ alt.reason = "end"
  BY <1>1, <1>4, <1>6 DEF LogRec
<1> QED
  BY <1>1, <1>2, <1>3, <1>5, <1>6 DEF to

LEMMA StaffArchives ==
    ASSUME PlanOK, ArchiveInv, NEW r \in Req, Staff(r)
    PROVE  ArchiveInv'
<1>1. Started(r) /\ AltStarted(r) /\ Recorded(r) /\ Decided(r)
  BY StaffStarts, StaffLog
<1>2. /\ req[r].pc = "idle" /\ log'.torn = log.torn
      /\ log'.ended = log.ended /\ log'.requalified = log.requalified
      /\ log'.mixed <=> \/ log.mixed
                        \/ req'[r].pc \in Archiving /\ Busy(r, Archiving)
  BY <1>1 DEF Recorded
<1>3. /\ \A q \in Req \ {r} : req'[q] = req[q]
      /\ req'[r].pc \notin {"sas"}
      /\ req'[r].pc = "judge" => log'.by = "ruptures" /\ req'[r].to = "none"
      /\ req'[r].pc = "person" => log'.by = "staff"
      /\ req'[r].pc = "ruptures" => req'[r].to = "gone"
  BY <1>1 DEF Started
<1>4. rupture \in [all : Nat, quits : Nat] /\ rupture.quits <= rupture.all
  BY DEF PlanOK, RuptureType
<1>5. ToOK'
  BY <1>3 DEF ArchiveInv, ToOK
<1>6. AltOK'
  BY <1>1, <1>2 DEF ArchiveInv, AltOK, AltStarted
<1>7. EndKept'
  BY <1>1, <1>2 DEF ArchiveInv, AltOK, EndKept, AltStarted, Known
<1>8. log'.mixed \/ OneArchives'
  BY <1>2, <1>3 DEF ArchiveInv, ArchivingInv, OneArchives, Busy
<1>9. CASE req'[r].pc = "person"
  BY <1>3, <1>5, <1>6, <1>7, <1>8, <1>9
     DEF ArchiveInv, ArchivingInv, Underway, RupturesFollowed
<1>10. CASE req'[r].pc = "judge"
  <2>1. ASSUME ~log'.mixed, NEW q \in Req PROVE req'[q].pc \notin {"sas", "person"}
    BY <1>2, <1>3, <1>10, <2>1 DEF Busy, Archiving
  <2>2. ~Quiet(Archiving)'
    BY <1>10 DEF Quiet, Archiving
  <2> QED
    BY <1>5, <1>6, <1>7, <1>8, <2>1, <2>2
       DEF ArchiveInv, ArchivingInv, Underway, RupturesFollowed
<1>11. CASE req'[r].pc \notin {"judge", "person"}
  <2>1. log'.by = log.by /\ (log'.mixed <=> log.mixed) /\ rupture' = rupture
    <3>1. req'[r].pc \notin Archiving
      BY <1>3, <1>11 DEF Archiving
    <3> QED
      BY <1>1, <1>2, <1>11, <3>1 DEF Decided, AltStarted
  <2>3. /\ \/ alt'.st = alt.st /\ alt'.reason = alt.reason
           \/ alt.st = "none" /\ alt'.st = "active" /\ alt'.reason = "none"
        /\ alt.st = "none" => rupture.all = 0
    BY <1>1 DEF AltStarted, ArchiveInv, AltOK
  <2>4. ASSUME ~log'.mixed, NEW q \in Req PROVE Underway(q)'
    <3>1. CASE q = r
      BY <1>3, <1>11, <3>1 DEF Underway
    <3>2. CASE q # r
      <4>1. req'[q] = req[q] /\ Underway(q)
        BY <1>3, <2>1, <2>4, <3>2 DEF ArchiveInv, ArchivingInv
      <4>2. alt.reason # "end" => alt'.reason # "end"
        BY <2>3
      <4> QED
        BY <2>1, <4>1, <4>2 DEF Underway
    <3> QED
      BY <3>1, <3>2
  <2>5. RupturesFollowed'
    <3> SUFFICES ASSUME Known', Quiet(Archiving)', log'.by = "ruptures",
                        ~log'.mixed, ~log'.torn
                 PROVE  IF rupture.quits > 0
                        THEN alt'.st = "archived"
                        ELSE alt'.reason # "rupture"
      BY <2>1 DEF RupturesFollowed
    <3>1. Quiet(Archiving)
      BY <1>2, <1>3 DEF Quiet, Archiving
    <3>2. CASE alt.st = "none" /\ alt'.st = "active" /\ alt'.reason = "none"
      BY <1>4, <2>3, <3>2
    <3>3. CASE alt'.st = alt.st /\ alt'.reason = alt.reason
      <4>1. Known
        BY <3>3 DEF Known
      <4>2. IF rupture.quits > 0 THEN alt.st = "archived"
            ELSE alt.reason # "rupture"
        BY <1>2, <2>1, <3>1, <4>1 DEF ArchiveInv, RupturesFollowed
      <4> QED
        BY <3>3, <4>2
    <3> QED
      BY <2>3, <3>2, <3>3
  <2> QED
    BY <1>5, <1>6, <1>7, <1>8, <2>4, <2>5 DEF ArchiveInv, ArchivingInv
<1> QED
  BY <1>9, <1>10, <1>11

\* The requests beside the one that goes on.
LEMMA OthersUnderway ==
    ASSUME PlanOK, ArchiveInv, NEW r \in Req, Continue(r), ~log'.mixed, ~log.mixed,
           NEW q \in Req, q # r
    PROVE  Underway(q)'
<1>1. Continued(r) /\ AltContinued(r) /\ log'.by = log.by
  BY ContinueStep, ContinueLog
<1>2. req'[q] = req[q] /\ Underway(q) /\ OneArchives
  BY <1>1 DEF Continued, ArchiveInv, ArchivingInv
<1>3. CASE req[q].pc \in Archiving
  <2>1. req[r].pc \notin Archiving
    BY <1>2, <1>3 DEF OneArchives
  <2>2. ~ArchiveSas(r) /\ ~WritePerson(r)
    BY <2>1 DEF ArchiveSas, WritePerson, Archiving
  <2>3. ~DeleteRuptures(r)
    <3>1. Busy(r, Archiving)
      BY <1>3 DEF Busy
    <3>2. DeleteRuptures(r) => log'.mixed
      BY <3>1 DEF DeleteRuptures, PlanOK, LogType, LogRec
    <3> QED
      BY <3>2
  <2>4. rupture' = rupture /\ alt'.reason = alt.reason
    BY <1>1, <2>2, <2>3 DEF AltContinued
  <2> QED
    BY <1>1, <1>2, <2>4 DEF Underway
<1>4. CASE req[q].pc \notin Archiving
  BY <1>2, <1>4 DEF Underway, Archiving
<1> QED
  BY <1>3, <1>4

\* The request that goes on.
LEMMA OwnUnderway ==
    ASSUME PlanOK, ArchiveInv, NEW r \in Req, Continue(r), ~log.mixed
    PROVE  Underway(r)'
<1>0. /\ req \in [Req -> ReqRec] /\ req[r] \in ReqRec
      /\ rupture.quits \in Nat /\ Continued(r) /\ log'.by = log.by
      /\ Underway(r) /\ ToOK
  BY ReqFields, ContinueStep, ContinueLog
     DEF PlanOK, ReqType, RuptureType, ArchiveInv, ArchivingInv
<1>1. CASE req'[r].pc = "sas"
  <2>1. req[r].pc = "judge" /\ req[r].to = "none" /\ rupture' = rupture /\ alt' = alt
    BY <1>0, <1>1 DEF Continued, Judge, saVars, ToOK
  <2>2. CASE rupture.quits > 0
    <3>1. req'[r] = [req[r] EXCEPT !.pc = "sas", !.to = "rupture"]
      BY <1>0, <1>1, <2>2 DEF Continued, Judge, GoTo, Quits
    <3>2. req'[r].to = "rupture"
      BY <1>0, <3>1 DEF ReqRec
    <3> QED
      BY <1>1, <2>1, <2>2, <3>2 DEF Underway
  <2>3. CASE ~(rupture.quits > 0) /\ FromRupture
    <3>1. req'[r] = [req[r] EXCEPT !.pc = "sas"]
      BY <1>0, <1>1, <2>3 DEF Continued, Judge, GoTo, Quits
    <3>2. req'[r].to = "none"
      BY <1>0, <2>1, <3>1 DEF ReqRec
    <3>3. alt.reason # "end"
      BY <2>3 DEF FromRupture
    <3> QED
      BY <1>1, <2>1, <2>3, <3>2, <3>3 DEF Underway
  <2>4. CASE ~(rupture.quits > 0) /\ ~FromRupture
    <3>1. req'[r] = NoReq
      BY <1>0, <1>1, <2>4 DEF Continued, Judge, GoTo, Quits
    <3> QED
      BY <1>1, <3>1, NoReqFields
  <2> QED
    BY <2>2, <2>3, <2>4
<1>2. CASE req'[r].pc = "person" /\ ArchiveSas(r)
  <2>1. /\ req[r].pc = "sas" /\ req' = [req EXCEPT ![r] = [req[r] EXCEPT !.pc = "person"]]
        /\ rupture' = rupture /\ alt' = alt
    BY <1>2 DEF ArchiveSas, GoTo
  <2>2. req'[r].to = req[r].to
    BY <1>0, <2>1 DEF ReqRec
  <2> QED
    BY <1>0, <1>2, <2>1, <2>2 DEF Underway
<1>3. CASE req'[r].pc = "person" /\ DeleteRuptures(r)
  <2>1. /\ req[r].to = "gone"
        /\ req' = [req EXCEPT ![r] = [req[r] EXCEPT !.pc = "person"]]
    BY <1>0, <1>3 DEF DeleteRuptures, GoTo, ToOK
  <2>2. req'[r].to = "gone"
    BY <1>0, <2>1 DEF ReqRec
  <2> QED
    BY <1>3, <2>2 DEF Underway
<1>4. CASE req'[r].pc \notin {"sas", "person"}
  BY <1>4 DEF Underway
<1> QED
  BY <1>0, <1>1, <1>2, <1>3, <1>4 DEF Continued

LEMMA ContinueFollows ==
    ASSUME PlanOK, ArchiveInv, NEW r \in Req, Continue(r), ~log.mixed
    PROVE  RupturesFollowed'
<1> SUFFICES ASSUME Known', Quiet(Archiving)', log'.by = "ruptures",
                    ~log'.mixed, ~log'.torn
             PROVE  IF rupture'.quits > 0
                    THEN alt'.st = "archived"
                    ELSE alt'.reason # "rupture"
  BY DEF RupturesFollowed
<1>0. /\ rupture.quits \in Nat /\ Continued(r) /\ AltContinued(r)
      /\ log.by = "ruptures" /\ ~log.torn /\ ~Fail(r)
      /\ Underway(r) /\ ToOK /\ AltOK /\ OneArchives /\ RupturesFollowed
      /\ req \in [Req -> ReqRec]
  BY ContinueStep, ContinueLog
     DEF PlanOK, RuptureType, ReqType, ArchiveInv, ArchivingInv
<1>1. req'[r].pc \notin Archiving
  BY DEF Quiet
<1>2. ~ArchiveSas(r) /\ ~DeleteRuptures(r)
  <2>1. ASSUME ArchiveSas(r) \/ DeleteRuptures(r) PROVE FALSE
    <3>1. req'[r] = [req[r] EXCEPT !.pc = "person"] /\ req[r] \in ReqRec
      BY <1>0, <2>1 DEF ArchiveSas, DeleteRuptures, GoTo
    <3>2. req'[r].pc = "person"
      BY <3>1 DEF ReqRec
    <3> QED
      BY <1>1, <3>2 DEF Archiving
  <2> QED
    BY <2>1
<1>3. rupture' = rupture
  BY <1>0, <1>2 DEF AltContinued
<1>4. CASE WritePerson(r)
  <2>1. /\ req[r].pc = "person" /\ (~Known => alt' = alt)
        /\ Known => IF req[r].to = "gone" THEN alt'.st = "deleted"
                    ELSE /\ alt'.reason = req[r].to
                         /\ alt'.st = IF req[r].to = "none" THEN "active"
                                      ELSE "archived"
    BY <1>4, PersonWritten
  <2>2. Known /\ req[r].to # "gone"
    BY <2>1 DEF Known
  <2> QED
    BY <1>0, <1>3, <2>1, <2>2 DEF Underway
<1>5. CASE Judge(r)
  <2>1. ~(rupture.quits > 0) /\ ~FromRupture
    <3>1. ASSUME rupture.quits > 0 \/ FromRupture PROVE FALSE
      <4>1. /\ \/ req'[r] = [req[r] EXCEPT !.pc = "sas", !.to = "rupture"]
               \/ req'[r] = [req[r] EXCEPT !.pc = "sas"]
            /\ req[r] \in ReqRec
        BY <1>0, <1>5, <3>1 DEF Judge, GoTo, Quits
      <4>2. req'[r].pc = "sas"
        BY <4>1 DEF ReqRec
      <4> QED
        BY <1>1, <4>2 DEF Archiving
    <3> QED
      BY <3>1
  <2>2. alt' = alt
    BY <1>5 DEF Judge, saVars
  <2>3. alt.reason # "rupture"
    BY <1>0, <2>1, <2>2 DEF Known, AltOK, FromRupture
  <2> QED
    BY <1>3, <2>1, <2>2, <2>3
<1>6. CASE ~WritePerson(r) /\ ~Judge(r)
  <2>1. req[r].pc \notin Archiving
    BY <1>0, <1>2, <1>6 DEF Continue, Archiving, deleteAutoPending, ReadNumero,
       CreateSequence, ClearCompany, WriteContacts, FindLater, ShiftLater,
       CommitSequence
  <2>2. Quiet(Archiving)
    BY <1>0, <2>1 DEF Quiet, Continued
  <2>3. alt'.st = alt.st /\ alt'.reason = alt.reason
    BY <1>0, <1>6 DEF AltContinued
  <2>4. IF rupture.quits > 0 THEN alt.st = "archived"
        ELSE alt.reason # "rupture"
    BY <1>0, <2>2, <2>3 DEF RupturesFollowed, Known
  <2> QED
    BY <1>3, <2>3, <2>4
<1> QED
  BY <1>4, <1>5, <1>6

LEMMA ContinueEnds ==
    ASSUME PlanOK, ArchiveInv, NEW r \in Req, Continue(r), ~log.mixed
    PROVE  EndKept'
<1>0. Underway(r) /\ EndKept /\ AltContinued(r) /\ log \in LogRec
  BY ContinueStep DEF ArchiveInv, ArchivingInv, PlanOK, LogType
<1>1. CASE WritePerson(r)
  <2>1. /\ req[r].pc = "person" /\ req[r].to \in Reason \cup {"none", "gone"}
        /\ ~Known => alt' = alt
        /\ Known => /\ IF req[r].to = "gone" THEN alt'.st = "deleted"
                       ELSE alt'.reason = req[r].to
                    /\ log'.ended <=> \/ req[r].to = "end"
                                      \/ log.ended /\ ~(req[r].to = "none"
                                                        /\ log.by = "staff")
                    /\ log'.requalified <=> \/ log.requalified
                                            \/ req[r].to = "rupture"
                                               /\ alt.reason = "end"
    BY <1>1, PersonWritten
  <2>2. SUFFICES ASSUME log'.ended, Known', ~log'.requalified, ~log'.mixed
                 PROVE  alt'.reason = "end"
    BY DEF EndKept
  <2>3. Known /\ req[r].to # "gone" /\ alt'.reason = req[r].to
    BY <2>1, <2>2 DEF Known
  <2>4. CASE req[r].to = "end"
    BY <2>3, <2>4
  <2>5. CASE req[r].to # "end"
    <3>1. log.ended /\ ~log.requalified /\ alt.reason = "end"
      BY <1>0, <2>1, <2>2, <2>3, <2>5 DEF EndKept
    <3>2. req[r].to = "none"
      BY <2>1, <2>2, <2>3, <2>5, <3>1 DEF Reason
    <3>3. log.by = "ruptures"
      BY <2>1, <2>2, <2>3, <3>2, <1>0 DEF LogRec
    <3> QED
      BY <1>0, <2>1, <3>1, <3>2, <3>3 DEF Underway
  <2> QED
    BY <2>4, <2>5
<1>2. CASE ~WritePerson(r)
  <2>1. /\ alt'.st = alt.st /\ alt'.reason = alt.reason
        /\ log'.ended = log.ended /\ log'.requalified = log.requalified
    BY <1>0, <1>2, ContinueLog DEF AltContinued
  <2> QED
    BY <1>0, <2>1 DEF EndKept, Known
<1> QED
  BY <1>1, <1>2

LEMMA ContinueArchives ==
    ASSUME PlanOK, ArchiveInv, NEW r \in Req, Continue(r)
    PROVE  ArchiveInv'
<1>0. /\ Continued(r) /\ AltContinued(r) /\ log \in LogRec
      /\ ToOK /\ AltOK /\ ArchivingInv
      /\ ~DeleteRuptures(r) => log'.mixed = log.mixed
      /\ ~WritePerson(r) => log'.ended = log.ended
  BY ContinueStep, ContinueLog DEF PlanOK, LogType, ArchiveInv
<1>1. DeleteRuptures(r) => (log'.mixed <=> log.mixed \/ Busy(r, Archiving))
  BY <1>0 DEF DeleteRuptures, LogRec
<1>2. ToOK'
  <2>1. ASSUME req'[r].pc = "sas" PROVE req'[r].to # "gone"
    <3>1. Judge(r) /\ req[r].to = "none" /\ req[r] \in ReqRec
      BY <1>0, <2>1, ReqFields DEF Continued, Judge, ToOK, PlanOK, ReqType
    <3>2. \/ req'[r] = [req[r] EXCEPT !.pc = "sas", !.to = "rupture"]
          \/ req'[r] = [req[r] EXCEPT !.pc = "sas"]
          \/ req'[r] = NoReq
      BY <3>1 DEF Judge, GoTo, PlanOK, ReqType
    <3> QED
      BY <2>1, <3>1, <3>2, NoReqFields DEF ReqRec
  <2> QED
    BY <1>0, <2>1 DEF Continued, ToOK
<1>3. AltOK'
  <2>1. CASE WritePerson(r)
    <3>1. /\ req[r].to \in Reason \cup {"none", "gone"} /\ rupture' = rupture
          /\ ~Known => alt' = alt /\ log' = log
          /\ Known => IF req[r].to = "gone" THEN alt'.st = "deleted"
                      ELSE /\ alt'.reason = req[r].to
                           /\ alt'.st = IF req[r].to = "none" THEN "active"
                                        ELSE "archived"
      BY <2>1, PersonWritten
    <3> QED
      BY <1>0, <3>1 DEF AltOK
  <2>2. CASE ~WritePerson(r)
    <3>1. rupture'.all = rupture.all \/ rupture'.all = 0
      BY <1>0 DEF AltContinued, DeleteRuptures
    <3> QED
      BY <1>0, <2>2, <3>1 DEF AltContinued, AltOK
  <2> QED
    BY <2>1, <2>2
<1>4. CASE log.mixed
  <2>1. log'.mixed
    BY <1>0, <1>1, <1>4
  <2> QED
    BY <1>2, <1>3, <2>1 DEF ArchiveInv, ArchivingInv, RupturesFollowed, EndKept
<1>5. CASE ~log.mixed
  <2>1. log'.mixed \/ OneArchives'
    <3> SUFFICES ASSUME ~log'.mixed PROVE OneArchives'
      OBVIOUS
    <3>1. req'[r].pc \in Archiving =>
            req[r].pc \in Archiving \/ ~Busy(r, Archiving)
      BY <1>0, <1>1 DEF Continued, Judge, ArchiveSas, Archiving
    <3> QED
      BY <1>0, <1>5, <3>1 DEF Continued, ArchivingInv, OneArchives, Busy
  <2>2. log'.mixed \/ \A q \in Req : Underway(q)'
    BY <1>5, OwnUnderway, OthersUnderway
  <2> QED
    BY <1>2, <1>3, <1>5, <2>1, <2>2, ContinueFollows, ContinueEnds
       DEF ArchiveInv, ArchivingInv
<1> QED
  BY <1>4, <1>5

LEMMA ArchiveInductive == TypeInv /\ ArchiveInv /\ [Next]_vars => ArchiveInv'
<1> SUFFICES ASSUME TypeInv, ArchiveInv, [Next]_vars PROVE ArchiveInv'
  OBVIOUS
<1>1. CASE \E r \in Req : Staff(r) \/ Continue(r)
  BY <1>1, StaffArchives, ContinueArchives DEF TypeInv
<1>2. CASE ~\E r \in Req : Staff(r) \/ Continue(r)
  <2>1. /\ UNCHANGED <<alt, rupture, req, log>>
        /\ \A s \in Sa : sa'[s].st = sa[s].st /\ sa'[s].arch = sa[s].arch
    BY <1>2, StepCases
  <2>3. ToOK' /\ AltOK' /\ EndKept'
    BY <2>1 DEF ArchiveInv, ToOK, AltOK, EndKept, Known
  <2>4. ArchivingInv'
    BY <2>1 DEF ArchiveInv, ArchivingInv, OneArchives, Underway, Archiving
  <2>5. RupturesFollowed'
    BY <2>1 DEF ArchiveInv, RupturesFollowed, Known, Quiet, Archiving
  <2> QED
    BY <2>3, <2>4, <2>5 DEF ArchiveInv
<1> QED
  BY <1>1, <1>2

LEMMA ArchiveAlways == Spec => []ArchiveInv
  BY TypesAlways, ArchiveInitial, ArchiveInductive, PTL DEF Spec

\* The SA are as the alternant is, or as the request that is about to write him
\* says; but those created since.  Before he is created there is nothing.
NobodyYet ==
    alt.st = "none" =>
        (\A r \in Req : req[r].pc = "idle") /\ \A s \in Sa : ~Live(s)
SasFollow(b) == \A s \in Sa : Live(s) => sa[s].arch = b \/ s \in log.since
SasWritten ==
    \A r \in Req : req[r].pc = "person" /\ req[r].to # "gone" =>
        SasFollow(req[r].to # "none")
SasSettled ==
    Known /\ (\A r \in Req : req[r].pc = "person" => req[r].to = "gone") =>
        SasFollow(alt.st = "archived")
SasInv == NobodyYet /\ (~log.mixed /\ ~log.torn => SasWritten /\ SasSettled)

LEMMA SasInitial == Init => SasInv
<1> SUFFICES ASSUME Init PROVE SasInv
  OBVIOUS
<1> PICK w \in Situation : PlanInit(w)
  BY DEF Init
<1>1. SituationOK(w)
  BY PlanningAssumption DEF PlanningAssumption
<1>2. \A r \in Req : req[r].pc = "idle"
  BY NoReqFields DEF PlanInit
<1>3. alt = w.alt /\ sa = w.sa
  BY DEF PlanInit
<1>4. NobodyYet
  BY <1>1, <1>2, <1>3 DEF SituationOK, NobodyYet, Live
<1>5. SasFollow(alt.st = "archived")
  BY <1>1, <1>3 DEF SituationOK, SasFollow, Live
<1> QED
  BY <1>2, <1>4, <1>5 DEF SasInv, SasWritten, SasSettled

\* Nothing but archiving takes a SA into the archive or out of it.
LEMMA SasFollowKept ==
    ASSUME PlanOK, NEW r \in Req, Staff(r) \/ Continue(r), ~ArchiveSas(r),
           Staff(r) => req'[r].pc # "person",
           NEW b, SasFollow(b)
    PROVE  SasFollow(b)'
<1>1. CASE CreateSequence(r)
  <2>1. /\ \A s \in Sa : s # NewSa => sa'[s] = sa[s]
        /\ log' = [log EXCEPT !.want[NewSa] = Head(req[r].plan),
                              !.since = @ \cup {NewSa}]
    BY <1>1, Created
  <2>2. log'.since = log.since \cup {NewSa}
    BY <2>1 DEF PlanOK, LogType, LogRec
  <2>3. \A s \in Sa : s # NewSa => Live(s)' = Live(s)
    BY <2>1 DEF Live
  <2> QED
    BY <2>1, <2>2, <2>3 DEF SasFollow
<1>2. CASE ~CreateSequence(r)
  <2>1. \A s \in Sa : Live(s)' => Live(s)
    BY <1>2, DocumentsKept, LiveBefore
  <2>2. log'.since = log.since
    BY <1>2, StaffLog, ContinueLog DEF Decided
  <2>3. \A s \in Sa : sa'[s].arch = sa[s].arch
    BY <1>2, StaffStarts, ContinueSas DEF SaStarted, SaContinued
  <2> QED
    BY <2>1, <2>2, <2>3 DEF SasFollow
<1> QED
  BY <1>1, <1>2

\* All the SA are archived, or none.
LEMMA SasArchived ==
    ASSUME PlanOK, NEW b \in BOOLEAN, sa' = setArchived(b)
    PROVE  SasFollow(b)'
<1>1. \A s \in Sa : Live(s)' => sa'[s].arch = b
  BY DEF setArchived, PlanOK, SaType, SaRec, Live
<1> QED
  BY <1>1 DEF SasFollow

LEMMA StaffSas ==
    ASSUME PlanOK, ArchiveInv, SasInv, NEW r \in Req, Staff(r)
    PROVE  SasInv'
<1>1. Started(r) /\ AltStarted(r) /\ Recorded(r)
  BY StaffStarts, StaffLog
<1>2. /\ req \in [Req -> ReqRec] /\ rupture \in [all : Nat, quits : Nat]
      /\ log.mixed => log'.mixed
      /\ log'.torn = log.torn
  BY <1>1 DEF PlanOK, ReqType, RuptureType, Recorded
<1>3. CASE alt.st = "none"
  <2>1. \A s \in Sa : ~Live(s)
    BY <1>3 DEF SasInv, NobodyYet
  <2>2. ~Known /\ rupture.all = 0
    BY <1>3 DEF Known, ArchiveInv, AltOK
  <2>3. /\ \A quits \in 0 .. rupture.all : ~updateRupture(r, quits)
        /\ \A quit \in BOOLEAN : ~deleteRupture(r, quit)
    <3>1. 1 .. rupture.all = {} /\ 0 .. rupture.all - 1 = {} /\ ~(rupture.all > 0)
      BY <1>2, <2>2
    <3>2. ASSUME NEW quit \in BOOLEAN, deleteRupture(r, quit) PROVE FALSE
      <4>1. rupture.quits \in 1 .. rupture.all
            \/ rupture.quits \in 0 .. rupture.all - 1
        BY <3>2 DEF deleteRupture
      <4> QED
        BY <3>1, <4>1
    <3>3. ASSUME NEW quits \in 0 .. rupture.all, updateRupture(r, quits)
          PROVE  FALSE
      BY <3>1, <3>3 DEF updateRupture
    <3> QED
      BY <3>2, <3>3
  <2>4. \E plan \in Plans : create(r, plan)
    BY <2>1, <2>2, <2>3 DEF Staff, changeCompany, removeCompany, delete,
       createManualSequence, updateSequenceContacts, completeSequence,
       Completable, rescheduleSequence, markSequence, deleteSequence,
       declareRupture, archive
  <2>5. alt'.st = "active" /\ sa' = sa
    BY <2>4 DEF create, Person
  <2>6. \A s \in Sa : ~Live(s)'
    BY <2>1, <2>5 DEF Live
  <2> QED
    BY <2>5, <2>6 DEF SasInv, NobodyYet, SasWritten, SasSettled, SasFollow
<1>4. CASE alt.st # "none"
  <2>1. alt'.st = alt.st
    BY <1>1, <1>4 DEF AltStarted
  <2>2. NobodyYet'
    BY <1>4, <2>1 DEF NobodyYet
  <2> SUFFICES ASSUME ~log'.mixed, ~log'.torn PROVE SasWritten' /\ SasSettled'
    BY <2>2 DEF SasInv
  <2>3. SasWritten /\ SasSettled
    BY <1>2 DEF SasInv
  <2>4. req[r].pc = "idle" /\ \A q \in Req \ {r} : req'[q] = req[q]
    BY <1>1 DEF Started, Recorded
  <2>5. CASE req'[r].pc = "person"
    <3>1. PICK to \in Reason \cup {"none"} : archive(r, to)
      BY <1>1, <2>5 DEF Started
    <3>2. /\ req'[r] = [NoReq EXCEPT !.pc = "person", !.to = to]
          /\ sa' = setArchived(to # "none")
      BY <1>2, <3>1 DEF archive, Receive
    <3>3. req'[r].to = to /\ to # "gone"
      BY <3>2, NoReqFields DEF Reason
    <3>4. SasFollow(to # "none")'
      <4>1. (to # "none") \in BOOLEAN
        OBVIOUS
      <4> QED
        BY <3>2, <4>1, SasArchived
    <3>5. \A q \in Req \ {r} : req'[q].pc # "person"
      BY <1>1, <2>4, <2>5 DEF Recorded, Busy, Archiving
    <3> QED
      BY <2>5, <3>3, <3>4, <3>5 DEF SasWritten, SasSettled
  <2>6. CASE req'[r].pc # "person"
    <3>1. \A b : SasFollow(b) => SasFollow(b)'
      BY <2>4, <2>6, SasFollowKept DEF ArchiveSas
    <3>2. SasWritten'
      BY <2>3, <2>4, <2>6, <3>1 DEF SasWritten
    <3>3. SasSettled'
      BY <2>1, <2>3, <2>4, <3>1 DEF SasSettled, Known
    <3> QED
      BY <3>2, <3>3
  <2> QED
    BY <2>5, <2>6
<1> QED
  BY <1>3, <1>4

LEMMA ContinueSasFollow ==
    ASSUME PlanOK, ArchiveInv, SasInv, NEW r \in Req, Continue(r)
    PROVE  SasInv'
<1>1. /\ Continued(r) /\ AltContinued(r) /\ req[r].pc # "idle"
      /\ ~Fail(r) => log'.torn = log.torn
      /\ Fail(r) => log'.torn
      /\ req \in [Req -> ReqRec] /\ req[r] \in ReqRec /\ log \in LogRec
  BY ContinueStep, ContinueLog, ReqFields DEF PlanOK, ReqType, LogType
<1>2. log.mixed => log'.mixed
  <2>1. CASE DeleteRuptures(r)
    BY <1>1, <2>1 DEF DeleteRuptures, LogRec
  <2> QED
    BY <2>1, ContinueLog
<1>3. alt.st # "none"
  BY <1>1 DEF SasInv, NobodyYet
<1>4. NobodyYet'
  <2>1. CASE WritePerson(r)
    BY <1>3, <2>1, PersonWritten DEF NobodyYet
  <2> QED
    BY <1>1, <1>3, <2>1 DEF AltContinued, NobodyYet
<1> SUFFICES ASSUME ~log'.mixed, ~log'.torn PROVE SasWritten' /\ SasSettled'
  BY <1>4 DEF SasInv
<1>5. SasWritten /\ SasSettled /\ OneArchives /\ ToOK /\ ~Fail(r)
  BY <1>1, <1>2 DEF SasInv, ArchiveInv, ArchivingInv
<1>6. CASE ArchiveSas(r)
  <2> PICK to : to = req[r].to
    OBVIOUS
  <2>1. /\ req[r].pc = "sas" /\ sa' = setArchived(to # "none")
        /\ req' = [req EXCEPT ![r] = [req[r] EXCEPT !.pc = "person"]]
    BY <1>6 DEF ArchiveSas, GoTo
  <2>2. req'[r].pc = "person" /\ req'[r].to = to /\ to # "gone"
    BY <1>1, <1>5, <2>1 DEF ReqRec, ToOK
  <2>3. SasFollow(to # "none")'
    <3>1. (to # "none") \in BOOLEAN
      OBVIOUS
    <3> QED
      BY <2>1, <3>1, SasArchived
  <2>4. \A q \in Req \ {r} : req'[q].pc # "person"
    BY <1>1, <1>5, <2>1 DEF Continued, OneArchives, Archiving
  <2> QED
    BY <2>2, <2>3, <2>4 DEF SasWritten, SasSettled
<1>7. CASE WritePerson(r)
  <2>1. /\ req[r].pc = "person" /\ req'[r].pc = "idle" /\ sa' = sa
        /\ ~Known => alt' = alt
        /\ Known => IF req[r].to = "gone" THEN alt'.st = "deleted"
                    ELSE alt'.st = IF req[r].to = "none" THEN "active"
                                   ELSE "archived"
    BY <1>7, PersonWritten
  <2>2. \A q \in Req : req'[q].pc # "person"
    BY <1>1, <1>5, <2>1 DEF Continued, OneArchives, Archiving
  <2>3. Known' => /\ req[r].to # "gone"
                  /\ (alt'.st = "archived") = (req[r].to # "none")
    BY <2>1 DEF Known
  <2>4. req[r].to # "gone" => SasFollow(req[r].to # "none")
    BY <1>5, <2>1 DEF SasWritten
  <2>5. log'.since = log.since
    BY <1>7, ContinueLog DEF ArchiveSas, CreateSequence, WritePerson
  <2>6. SasSettled'
    BY <2>1, <2>3, <2>4, <2>5 DEF SasSettled, SasFollow, Live
  <2> QED
    BY <2>2, <2>6 DEF SasWritten
<1>8. CASE ~ArchiveSas(r) /\ ~WritePerson(r)
  <2>1. req[r].pc # "person"
    BY <1>1, <1>5, <1>8 DEF Continue, deleteAutoPending, ReadNumero,
       CreateSequence, ClearCompany, DeleteRuptures, WriteContacts, FindLater,
       ShiftLater, CommitSequence, Judge
  <2>2. \A b : SasFollow(b) => SasFollow(b)'
    <3>1. ~Staff(r)
      BY <1>1, StaffLog DEF Recorded
    <3> QED
      BY <1>8, <3>1, SasFollowKept
  <2>3. req'[r].pc = "person" => req'[r].to = "gone"
    <3> SUFFICES ASSUME req'[r].pc = "person" PROVE req'[r].to = "gone"
      OBVIOUS
    <3>1. /\ req[r].to = "gone"
          /\ req' = [req EXCEPT ![r] = [req[r] EXCEPT !.pc = "person"]]
      BY <1>1, <1>5, <1>8 DEF Continued, DeleteRuptures, GoTo, ToOK
    <3> QED
      BY <1>1, <3>1 DEF ReqRec
  <2>4. alt'.st = alt.st /\ \A q \in Req \ {r} : req'[q] = req[q]
    BY <1>1, <1>8 DEF Continued, AltContinued
  <2>5. SasWritten'
    BY <1>5, <2>2, <2>3, <2>4 DEF SasWritten
  <2>6. SasSettled'
    BY <1>5, <2>1, <2>2, <2>4 DEF SasSettled, Known
  <2> QED
    BY <2>5, <2>6
<1> QED
  BY <1>6, <1>7, <1>8

LEMMA SasInductive ==
    TypeInv /\ ArchiveInv /\ SasInv /\ [Next]_vars => SasInv'
<1> SUFFICES ASSUME TypeInv, ArchiveInv, SasInv, [Next]_vars PROVE SasInv'
  OBVIOUS
<1>1. CASE \E r \in Req : Staff(r) \/ Continue(r)
  BY <1>1, StaffSas, ContinueSasFollow DEF TypeInv
<1>2. CASE ~\E r \in Req : Staff(r) \/ Continue(r)
  <2>1. /\ UNCHANGED <<alt, req, log>>
        /\ \A s \in Sa : sa'[s].st = sa[s].st /\ sa'[s].arch = sa[s].arch
    BY <1>2, StepCases
  <2>2. \A b : SasFollow(b)' = SasFollow(b)
    BY <2>1 DEF SasFollow, Live
  <2> QED
    BY <2>1, <2>2
       DEF SasInv, NobodyYet, SasWritten, SasSettled, Known, Live
<1> QED
  BY <1>1, <1>2

\* When the ruptures decided last, the alternant is archived if one of them
\* quits the training, else active or archived at its end
\* (RuptureService.syncArchiveStatus); and whoever decided, his SA are archived
\* exactly when he is, but those created since.  Two archives at once and one
\* that fails half-way are excepted.
THEOREM ArchiveAlwaysFollows == Spec => []ArchiveFollows
<1>1. Spec => [](TypeInv /\ ArchiveInv /\ SasInv)
  BY TypesAlways, ArchiveAlways, SasInitial, SasInductive, PTL DEF Spec
<1>2. TypeInv /\ ArchiveInv /\ SasInv => ArchiveFollows
  <2> SUFFICES ASSUME TypeInv, ArchiveInv, SasInv, Known, Quiet(Archiving),
                      ~log.mixed, ~log.torn
               PROVE  /\ log.by = "ruptures" =>
                          IF rupture.quits > 0 THEN alt.st = "archived"
                          ELSE alt.st = "active" \/ alt.reason = "end"
                      /\ SasFollow(alt.st = "archived")
    BY DEF ArchiveFollows, SasFollow
  <2>1. alt.st \in {"active", "archived"} /\ alt.reason \in Reason \cup {"none"}
    BY DEF Known, TypeInv, PlanOK, AltType, AltRec
  <2>2. log.by = "ruptures" =>
          IF rupture.quits > 0 THEN alt.st = "archived" ELSE alt.reason # "rupture"
    BY DEF ArchiveInv, RupturesFollowed
  <2>3. alt.st = "archived" => alt.reason # "none"
    BY DEF ArchiveInv, AltOK
  <2>4. SasFollow(alt.st = "archived")
    BY DEF SasInv, SasSettled, Quiet, Archiving
  <2> QED
    BY <2>1, <2>2, <2>3, <2>4 DEF Reason
<1> QED
  BY <1>1, <1>2, PTL

\* Ruptures declared and deleted do not undo the archive of a training that is
\* over, as long as "rupture" was not written over its reason.
THEOREM EndAlwaysStays == Spec => []EndStays
<1>1. ArchiveInv => EndStays
  BY DEF ArchiveInv, AltOK, EndKept, EndStays, Known
<1> QED
  BY <1>1, ArchiveAlways, PTL
=============================================================================
