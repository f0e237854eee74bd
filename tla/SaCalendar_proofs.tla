-------------------------- MODULE SaCalendar_proofs --------------------------
(***************************************************************************)
(* Theorems about SaCalendar for any number of SA, staff members, events,  *)
(* requests and days: what its variables hold, and that taking an event    *)
(* nobody moved for a moved one is all that makes a SA leave its day.      *)
(***************************************************************************)
EXTENDS SaCalendar, TLAPS, FiniteSetTheorems, WellFoundedInduction

\* What the constants stand for.
CalendarConstants ==
    /\ Day \subseteq Int /\ Window \subseteq Int \X Int /\ Margin \in Nat
    /\ MaxOps \in Nat
    /\ Situation \subseteq [Sa -> SaRec]

Steps == {"idle", "sync", "push", "remove", "reconcile"}
EventRec == [s : Sa \cup {None}, day : Int]
JobRec == [pc : Steps, u : User \cup {None}, window : Int \X Int,
           events : SUBSET Event, listed : [Event -> EventRec],
           items : [Sa -> Int \cup {None}], todo : SUBSET Event,
           changed : SUBSET Sa, users : SUBSET User,
           gone : SUBSET (User \X Event)]

\* A request that pushes or compares has a calendar in hand, and what it
\* compares are events of SA.
JobOK(j) ==
    /\ j \in JobRec
    /\ j.pc \in {"push", "reconcile"} => j.u \in User
    /\ j.pc = "reconcile" => \A e \in j.todo : j.listed[e].s \in Sa

SaType == sa \in [Sa -> SaRec]
EventsType ==
    /\ calendar \in [User -> [Event -> EventRec]]
    /\ ids \in [Sa -> [User -> Event \cup {None}]]
    /\ moved \subseteq User \X Event

\* The variables hold what the code and Google can store in them.
CalendarTypeOK ==
    /\ SaType /\ EventsType /\ JobOK(job)
    /\ want \in [Sa -> Int]
    /\ ops \in Nat

\* Every SA that is not deleted has the day the decisions give it, in the
\* middle of a request too.
DaysWanted == \A s \in Sa : Live(s) => sa[s].day = want[s]

\* The dates that change when an event is compared change because of an event
\* that somebody moved.
OnlyMovedCount ==
    [][\A e \in Event : Reconcile(e) /\ sa' # sa => <<job.u, e>> \in moved]_vars

-----------------------------------------------------------------------------
(* Numbers.                                                                *)

\* A set of numbers has a smallest one.
LEMMA SmallestOfNumbers ==
    ASSUME NEW S \in SUBSET Nat, S # {}
    PROVE  \E n \in S : \A m \in S : n <= m
<1> DEFINE Less == OpToRel(<, Nat)
<1>1. IsWellFoundedOn(Less, Nat)
  BY NatLessThanWellFounded
<1>2. \A m, n \in Nat : <<m, n>> \in Less <=> m < n
  BY DEF OpToRel
<1> HIDE DEF Less
<1>3. PICK n \in S : \A m \in S : <<m, n>> \notin Less
  BY <1>1, WFMin
<1>4. ASSUME NEW m \in S PROVE n <= m
  <2>1. m \in Nat /\ n \in Nat
    OBVIOUS
  <2>2. ~(m < n)
    BY <2>1, <1>2, <1>3
  <2> QED
    BY <2>1, <2>2
<1> QED
  BY <1>4

\* A finite set of numbers has a greatest one: of the sets of the members that
\* are at least as great as one of them, the smallest is that of the greatest.
LEMMA MaxOfFinite ==
    ASSUME NEW S \in SUBSET Nat, IsFiniteSet(S), S # {}
    PROVE  Max(S) \in S /\ \A y \in S : Max(S) >= y
<1> DEFINE Up(x) == {y \in S : y >= x}
           Sizes == {Cardinality(Up(x)) : x \in S}
<1>1. \A x \in S : IsFiniteSet(Up(x)) /\ Cardinality(Up(x)) \in Nat
  BY FS_Subset, FS_CardinalityType
<1>2. Sizes \in SUBSET Nat /\ Sizes # {}
  BY <1>1
<1>3. PICK n \in Sizes : \A m \in Sizes : n <= m
  BY <1>2, SmallestOfNumbers
<1>4. PICK x \in S : n = Cardinality(Up(x))
  BY <1>3
<1>5. ASSUME NEW y \in S, ~(x >= y) PROVE FALSE
  <2>0. x \in Nat /\ y \in Nat /\ x < y
    BY <1>5
  <2>1. /\ \A z \in S : z >= y => z >= x
        /\ x >= x /\ ~(x >= y)
    <3>1. \A z \in S : z \in Nat
      OBVIOUS
    <3> QED
      BY <2>0, <3>1
  <2>5. Up(y) \in SUBSET Up(x) /\ x \in Up(x) /\ x \notin Up(y)
    BY <2>1
  <2>2. /\ Cardinality(Up(y)) <= Cardinality(Up(x))
        /\ Cardinality(Up(y)) # Cardinality(Up(x))
    BY <2>5, <1>1, FS_Subset
  <2>3. n <= Cardinality(Up(y))
    BY <1>3
  <2>4. Cardinality(Up(x)) \in Nat /\ Cardinality(Up(y)) \in Nat
    BY <1>1
  <2> QED
    BY <2>2, <2>3, <2>4, <1>4
<1> QED
  BY <1>5 DEF Max

\* The number of the next SA is greater than every number in use.
LEMMA NextNumero ==
    ASSUME sa \in [Sa -> SaRec]
    PROVE  nextNumero \in Nat /\ \A s \in Sa : Live(s) => sa[s].num < nextNumero
<1> DEFINE S == {s \in Sa : Live(s)}
           N == {sa[s].num : s \in S}
           M == {0} \cup N
<1>1. IsFiniteSet(S)
  BY SaAssumption, FS_Subset DEF SaAssumption
<1>2. IsFiniteSet(N)
  <2>1. [s \in S |-> sa[s].num] \in Surjection(S, N)
    BY DEF Surjection
  <2> QED
    BY <1>1, <2>1, FS_Surjection
<1>6. \A s \in Sa : sa[s].num \in Nat
  BY DEF SaRec
<1>3. IsFiniteSet(M) /\ M \in SUBSET Nat /\ M # {}
  <2>1. IsFiniteSet({0})
    BY FS_Singleton
  <2>2. IsFiniteSet(M)
    BY <1>2, <2>1, FS_Union
  <2> QED
    BY <1>6, <2>2
<1>4. Max(M) \in M /\ \A y \in M : Max(M) >= y
  BY <1>3, MaxOfFinite
<1>5. nextNumero = 1 + Max(M)
  BY DEF nextNumero
<1> HIDE DEF M
<1>7. Max(M) \in Nat
  BY <1>3, <1>4
<1>8. ASSUME NEW s \in Sa, Live(s) PROVE sa[s].num < nextNumero
  <2>1. sa[s].num \in M
    BY <1>8 DEF M
  <2> QED
    BY <2>1, <1>4, <1>5, <1>6, <1>7
<1> QED
  BY <1>5, <1>7, <1>8

-----------------------------------------------------------------------------
(* Dates.                                                                  *)

LEMMA Documents ==
    ASSUME SaType, NEW s \in Sa
    PROVE  /\ sa[s] \in SaRec /\ sa[s].day \in Int
           /\ sa[s].real \in Int \cup {None}
  BY DEF SaType, SaRec

\* New dates are all that is written.
LEMMA DatesWritten ==
    ASSUME SaType, NEW days \in [Sa -> Int]
    PROVE  /\ WithDays(days) \in [Sa -> SaRec]
           /\ \A s \in Sa : /\ WithDays(days)[s].day = days[s]
                            /\ WithDays(days)[s].st = sa[s].st
<1>1. \A s \in Sa : /\ [sa[s] EXCEPT !.day = days[s]] \in SaRec
                    /\ [sa[s] EXCEPT !.day = days[s]].day = days[s]
                    /\ [sa[s] EXCEPT !.day = days[s]].st = sa[s].st
  <2> TAKE s \in Sa
  <2>1. sa[s] \in SaRec /\ days[s] \in Int
    BY Documents
  <2> QED BY <2>1 DEF SaRec
<1> QED BY <1>1 DEF WithDays

LEMMA DaysType == SaType => Days \in [Sa -> Int]
  BY Documents DEF Days

LEMMA ShiftType ==
    ASSUME SaType, NEW days \in [Sa -> Int], NEW s \in Sa, NEW day \in Int
    PROVE  Shifted(days, s, day) \in [Sa -> Int]
<1>1. sa[s].day \in Int
  BY Documents
<1>2. \A t \in Sa : (IF t \in Later(sa[s].num) THEN days[t] + day - sa[s].day
                     ELSE IF t = s THEN day ELSE days[t]) \in Int
  BY <1>1
<1> QED BY <1>2 DEF Shifted

\* The dates and the days wanted are shifted alike.
LEMMA ShiftAlike ==
    ASSUME DaysWanted, NEW s \in Sa, NEW day, NEW t \in Sa, Live(t)
    PROVE  Shifted(Days, s, day)[t] = Shifted(want, s, day)[t]
<1>1. Days[t] = want[t]
  BY DEF DaysWanted, Days
<1> QED BY <1>1 DEF Shifted

\* What a shift makes of dates and days wanted that agree.
LEMMA ShiftKeeps ==
    ASSUME SaType, want \in [Sa -> Int], NEW s \in Sa, NEW day \in Int,
           sa' = WithDays(Shifted(Days, s, day)), want' = Shifted(want, s, day)
    PROVE  SaType' /\ want' \in [Sa -> Int] /\ (DaysWanted => DaysWanted')
<1>1. /\ Shifted(Days, s, day) \in [Sa -> Int]
      /\ Shifted(want, s, day) \in [Sa -> Int]
  BY ShiftType, DaysType
<1>2. /\ sa' \in [Sa -> SaRec]
      /\ \A t \in Sa : /\ sa'[t].day = Shifted(Days, s, day)[t]
                       /\ sa'[t].st = sa[t].st
  BY <1>1, DatesWritten
<1>3. ASSUME DaysWanted PROVE \A t \in Sa : Live(t)' => sa'[t].day = want'[t]
  BY <1>2, <1>3, ShiftAlike DEF Live
<1> QED BY <1>1, <1>2, <1>3 DEF SaType, DaysWanted

\* The same for a SA that is done: it keeps its day, and gets a real one.
LEMMA DoneKeeps ==
    ASSUME SaType, want \in [Sa -> Int], NEW s \in Sa, NEW day \in Int, Live(s),
           sa' = [WithDays([Shifted(Days, s, day) EXCEPT ![s] = sa[s].day])
                    EXCEPT ![s].st = "done", ![s].real = day],
           want' = [Shifted(want, s, day) EXCEPT ![s] = want[s]]
    PROVE  SaType' /\ want' \in [Sa -> Int] /\ (DaysWanted => DaysWanted')
<1> DEFINE days == [Shifted(Days, s, day) EXCEPT ![s] = sa[s].day]
           w == WithDays(days)
<1>1. /\ Shifted(Days, s, day) \in [Sa -> Int]
      /\ Shifted(want, s, day) \in [Sa -> Int]
      /\ sa[s].day \in Int /\ want[s] \in Int
  BY ShiftType, DaysType, Documents
<1>2. /\ days \in [Sa -> Int] /\ days[s] = sa[s].day
      /\ \A t \in Sa \ {s} : days[t] = Shifted(Days, s, day)[t]
  BY <1>1
<1> HIDE DEF days
<1>3. /\ w \in [Sa -> SaRec]
      /\ \A t \in Sa : w[t].day = days[t] /\ w[t].st = sa[t].st
  BY <1>2, DatesWritten
<1> HIDE DEF w
<1>4. sa' = [w EXCEPT ![s] = [w[s] EXCEPT !.st = "done", !.real = day]]
  BY <1>3 DEF w, days
<1> DEFINE d == [w[s] EXCEPT !.st = "done", !.real = day]
<1>5. d \in SaRec /\ d.day = w[s].day
  <2>1. w[s] \in SaRec
    BY <1>3
  <2> HIDE DEF w
  <2> QED BY <2>1 DEF SaRec, SaStatus
<1> HIDE DEF d
<1>6. /\ sa' \in [Sa -> SaRec] /\ sa'[s].day = sa[s].day
      /\ \A t \in Sa \ {s} : sa'[t] = w[t]
  <2>1. sa' = [w EXCEPT ![s] = d]
    BY <1>4 DEF d
  <2>2. /\ sa' \in [Sa -> SaRec] /\ sa'[s] = d
        /\ \A t \in Sa \ {s} : sa'[t] = w[t]
    BY <1>3, <1>5, <2>1
  <2> QED BY <1>2, <1>3, <1>5, <2>2
<1>7. /\ want' \in [Sa -> Int] /\ want'[s] = want[s]
      /\ \A t \in Sa \ {s} : want'[t] = Shifted(want, s, day)[t]
  BY <1>1
<1>8. ASSUME DaysWanted, NEW t \in Sa, Live(t)'
      PROVE  sa'[t].day = want'[t]
  <2>1. CASE t = s
    BY <1>6, <1>7, <1>8, <2>1 DEF DaysWanted
  <2>2. CASE t # s
    <3>1. Live(t)
      BY <1>3, <1>6, <1>8, <2>2 DEF Live
    <3>2. Shifted(Days, s, day)[t] = Shifted(want, s, day)[t]
      BY <1>8, <3>1, ShiftAlike
    <3>3. sa'[t].day = days[t]
      BY <1>3, <1>6, <2>2
    <3>4. /\ days[t] = Shifted(Days, s, day)[t]
          /\ want'[t] = Shifted(want, s, day)[t]
      BY <1>2, <1>7, <2>2
    <3> QED BY <3>2, <3>3, <3>4
  <2> QED BY <2>1, <2>2
<1> QED BY <1>6, <1>7, <1>8 DEF SaType, DaysWanted

-----------------------------------------------------------------------------
(* Requests.                                                               *)

LEMMA NoJobOK == JobOK(NoJob)
<1>1. NoItems \in [Sa -> Int \cup {None}]
  BY DEF NoItems
<1>2. NoEvent \in EventRec
  BY DEF NoEvent, EventRec
<1>3. [e \in Event |-> NoEvent] \in [Event -> EventRec]
  BY <1>2
<1> QED BY <1>1, <1>3 DEF JobOK, JobRec, NoJob, Steps

LEMMA SyncJobOK ==
    ASSUME NEW S \in SUBSET Sa
    PROVE  /\ JobOK(SyncJob(S))
           /\ \A u \in User : JobOK([SyncJob(S) EXCEPT !.users = {u}])
<1>1. NoJob \in JobRec
  BY NoJobOK DEF JobOK
<1>2. CASE S = {}
  <2>1. SyncJob(S) = NoJob
    BY <1>2 DEF SyncJob
  <2>2. NoJob.pc = "idle"
    BY DEF NoJob
  <2> QED BY <1>1, <2>1, <2>2, NoJobOK DEF JobOK, JobRec
<1>3. CASE S # {}
  <2>1. SyncJob(S) = [NoJob EXCEPT !.pc = "sync", !.changed = S, !.users = User]
    BY <1>3 DEF SyncJob
  <2> DEFINE j == SyncJob(S)
  <2>2. j \in JobRec /\ j.pc = "sync"
    BY <1>1, <2>1 DEF JobRec, Steps
  <2> HIDE DEF j
  <2>3. ASSUME NEW u \in User
        PROVE  /\ [j EXCEPT !.users = {u}] \in JobRec
               /\ [j EXCEPT !.users = {u}].pc = "sync"
    BY <2>2 DEF JobRec
  <2>4. JobOK(j) /\ \A u \in User : JobOK([j EXCEPT !.users = {u}])
    BY <2>2, <2>3 DEF JobOK
  <2> QED BY <2>4 DEF j
<1> QED BY <1>2, <1>3

LEMMA RemoveJobOK ==
    ASSUME EventsType, NEW S \in SUBSET Sa
    PROVE  JobOK(RemoveJob(S))
<1> DEFINE gone == {<<u, ids[s][u]>> : u \in User, s \in S}
                     \ (User \X {None})
<1>1. gone \subseteq User \X Event
  BY DEF EventsType
<1>2. NoJob \in JobRec
  BY NoJobOK DEF JobOK
<1>3. RemoveJob(S) = IF gone = {} THEN NoJob
                     ELSE [NoJob EXCEPT !.pc = "remove", !.gone = gone]
  BY DEF RemoveJob
<1> HIDE DEF gone
<1>4. JobOK([NoJob EXCEPT !.pc = "remove", !.gone = gone])
  BY <1>1, <1>2 DEF JobOK, JobRec, Steps
<1> QED BY <1>3, <1>4, NoJobOK

LEMMA ItemsType ==
    ASSUME SaType, NEW S \in SUBSET Sa
    PROVE  ItemsOf(S) \in [Sa -> Int \cup {None}]
<1>1. \A s \in Sa : EffectiveDay(s) \in Int
  BY Documents DEF EffectiveDay
<1> QED BY <1>1 DEF ItemsOf

\* An event of a list is the event of a SA.
LEMMA ListedType ==
    ASSUME EventsType, NEW u \in User, NEW from, NEW to
    PROVE  /\ Listed(u, from, to) \subseteq Event
           /\ calendar[u] \in [Event -> EventRec]
           /\ \A e \in Listed(u, from, to) : calendar[u][e].s \in Sa
<1>1. calendar[u] \in [Event -> EventRec]
  BY DEF EventsType
<1> QED BY <1>1 DEF Listed, EventRec

\* What the requests and the calls to Google do to the invariant.
Kept == CalendarTypeOK' /\ (DaysWanted => DaysWanted')

LEMMA SameDays ==
    ASSUME \A t \in Sa : Live(t)' => Live(t) /\ sa'[t].day = sa[t].day,
           want' = want
    PROVE  DaysWanted => DaysWanted'
  BY DEF DaysWanted

LEMMA Served ==
    ASSUME CalendarConstants, CalendarTypeOK, NEW rec, Serve(rec), JobOK(rec)
    PROVE  EventsType' /\ JobOK(job)' /\ ops' \in Nat
<1>1. EventsType' /\ ops' \in Nat
  BY DEF CalendarTypeOK, Serve, EventsType
<1>2. JobOK(job')
  BY DEF Serve
<1> QED BY <1>1, <1>2 DEF JobOK

LEMMA Rescheduled ==
    ASSUME CalendarConstants, CalendarTypeOK,
           NEW s \in Sa, NEW day \in Day, rescheduleSequence(s, day)
    PROVE  Kept
<1>1. /\ SaType /\ want \in [Sa -> Int] /\ day \in Int
      /\ sa' = WithDays(Shifted(Days, s, day)) /\ want' = Shifted(want, s, day)
      /\ Serve(SyncJob({s} \ {t \in Sa : sa[t].arch}))
  BY DEF CalendarTypeOK, CalendarConstants, rescheduleSequence
<1>2. SaType' /\ want' \in [Sa -> Int] /\ (DaysWanted => DaysWanted')
  BY <1>1, ShiftKeeps
<1>3. JobOK(SyncJob({s} \ {t \in Sa : sa[t].arch}))
  BY SyncJobOK
<1>4. EventsType' /\ JobOK(job)' /\ ops' \in Nat
  BY <1>1, <1>3, Served
<1> QED BY <1>2, <1>4 DEF Kept, CalendarTypeOK

LEMMA Completed ==
    ASSUME CalendarConstants, CalendarTypeOK,
           NEW s \in Sa, NEW day \in Day, completeSequence(s, day)
    PROVE  Kept
<1> DEFINE S == {t \in Sa : Live(t) /\ ~sa[t].arch}
<1>1. /\ SaType /\ want \in [Sa -> Int] /\ day \in Int /\ Live(s)
      /\ sa' = [WithDays([Shifted(Days, s, day) EXCEPT ![s] = sa[s].day])
                  EXCEPT ![s].st = "done", ![s].real = day]
      /\ want' = [Shifted(want, s, day) EXCEPT ![s] = want[s]]
      /\ Serve(SyncJob(S))
  BY DEF CalendarTypeOK, CalendarConstants, completeSequence
<1> HIDE DEF S
<1>2. SaType' /\ want' \in [Sa -> Int] /\ (DaysWanted => DaysWanted')
  BY <1>1, DoneKeeps
<1>3. JobOK(SyncJob(S))
  BY SyncJobOK DEF S
<1>4. EventsType' /\ JobOK(job)' /\ ops' \in Nat
  BY <1>1, <1>3, Served
<1> QED BY <1>2, <1>4 DEF Kept, CalendarTypeOK

LEMMA NewSaType == CanCreate => NewSa \in Sa /\ sa[NewSa].st = "none"
  BY DEF CanCreate, NewSa

LEMMA Created ==
    ASSUME CalendarConstants, CalendarTypeOK, NEW day \in Day,
           createSequence(day)
    PROVE  Kept
<1> DEFINE n == NewSa
           p == Planned("pending", day, nextNumero, FALSE)
<1>1. /\ SaType /\ want \in [Sa -> Int] /\ day \in Int /\ n \in Sa
      /\ sa' = [sa EXCEPT ![n] = p] /\ want' = [want EXCEPT ![n] = day]
      /\ Serve(SyncJob({n}))
  BY NewSaType DEF CalendarTypeOK, CalendarConstants, createSequence
<1>2. nextNumero \in Nat
  BY <1>1, NextNumero DEF SaType
<1>3. p \in SaRec /\ p.day = day
  BY <1>1, <1>2 DEF Planned, SaRec, SaStatus
<1>4. JobOK(SyncJob({n}))
  BY <1>1, SyncJobOK
<1> HIDE DEF n, p
<1>5. SaType' /\ want' \in [Sa -> Int]
  BY <1>1, <1>3 DEF SaType
<1>6. /\ sa'[n].day = want'[n]
      /\ \A t \in Sa \ {n} : sa'[t] = sa[t] /\ want'[t] = want[t]
  BY <1>1, <1>3 DEF SaType
<1>7. DaysWanted => DaysWanted'
  BY <1>1, <1>6 DEF DaysWanted, Live
<1>8. EventsType' /\ JobOK(job)' /\ ops' \in Nat
  BY <1>1, <1>4, Served
<1> QED BY <1>5, <1>7, <1>8 DEF Kept, CalendarTypeOK

LEMMA Deleted ==
    ASSUME CalendarConstants, CalendarTypeOK, NEW s \in Sa, deleteSequence(s)
    PROVE  Kept
<1>1. /\ SaType /\ sa' = deleteAll({s}) /\ want' = want
      /\ Serve(RemoveJob({s})) /\ EventsType
  BY DEF CalendarTypeOK, deleteSequence
<1>2. \A t \in Sa : /\ sa'[t] \in SaRec /\ sa'[t].day = sa[t].day
                    /\ sa'[t].st \in {sa[t].st, "deleted"}
  BY <1>1 DEF deleteAll, SaType, SaRec
<1>3. SaType' /\ want' \in [Sa -> Int]
  BY <1>1, <1>2 DEF SaType, deleteAll, CalendarTypeOK
<1>4. DaysWanted => DaysWanted'
  BY <1>1, <1>2, SameDays DEF Live, SaStatus
<1>5. EventsType' /\ JobOK(job)' /\ ops' \in Nat
  BY <1>1, RemoveJobOK, Served
<1> QED BY <1>3, <1>4, <1>5 DEF Kept, CalendarTypeOK

LEMMA Archived ==
    ASSUME CalendarConstants, CalendarTypeOK,
           archiveAlternant \/ unarchiveAlternant
    PROVE  Kept
<1> DEFINE S == {s \in Sa : Live(s)}
<1>1. /\ SaType /\ EventsType /\ want' = want
      /\ sa' \in {setArchived(TRUE), setArchived(FALSE)}
      /\ Serve(RemoveJob(S)) \/ Serve(SyncJob(S))
  BY DEF CalendarTypeOK, archiveAlternant, unarchiveAlternant
<1>2. ASSUME NEW b \in BOOLEAN, NEW t \in Sa
      PROVE  /\ setArchived(b)[t] \in SaRec
             /\ setArchived(b)[t].day = sa[t].day
             /\ setArchived(b)[t].st = sa[t].st
  BY <1>1 DEF setArchived, SaType, SaRec
<1>3. SaType' /\ want' \in [Sa -> Int]
  BY <1>1, <1>2 DEF SaType, setArchived, CalendarTypeOK
<1>4. DaysWanted => DaysWanted'
  BY <1>1, <1>2, SameDays DEF Live
<1>5. EventsType' /\ JobOK(job)' /\ ops' \in Nat
  BY <1>1, RemoveJobOK, SyncJobOK, Served
<1> QED BY <1>3, <1>4, <1>5 DEF Kept, CalendarTypeOK

-----------------------------------------------------------------------------
(* Edits by hand, calls to Google, and what is brought back.               *)

\* A step that leaves the SA and the days wanted alone.
LEMMA OtherStep ==
    ASSUME CalendarTypeOK, sa' = sa, want' = want, ops' \in Nat, EventsType',
           JobOK(job')
    PROVE  Kept
<1>1. DaysWanted => DaysWanted'
  BY DEF DaysWanted, Live
<1> QED BY <1>1 DEF Kept, CalendarTypeOK, SaType, JobOK

LEMMA CalendarWritten ==
    ASSUME EventsType, NEW u \in User, NEW e \in Event, NEW evt \in EventRec
    PROVE  [calendar EXCEPT ![u][e] = evt] \in [User -> [Event -> EventRec]]
<1>1. calendar[u] \in [Event -> EventRec]
  BY DEF EventsType
<1>2. [calendar[u] EXCEPT ![e] = evt] \in [Event -> EventRec]
  BY <1>1
<1> QED BY <1>2 DEF EventsType

LEMMA IdWritten ==
    ASSUME EventsType, NEW s \in Sa, NEW u \in User, NEW e \in Event
    PROVE  [ids EXCEPT ![s][u] = e] \in [Sa -> [User -> Event \cup {None}]]
<1>1. ids[s] \in [User -> Event \cup {None}]
  BY DEF EventsType
<1>2. [ids[s] EXCEPT ![u] = e] \in [User -> Event \cup {None}]
  BY <1>1
<1> QED BY <1>2 DEF EventsType

LEMMA NoEventType == NoEvent \in EventRec
  BY DEF NoEvent, EventRec

LEMMA HandEdits ==
    ASSUME CalendarConstants, CalendarTypeOK, NEW u \in User, NEW e \in Event,
           (\E day \in Day : MoveEvent(u, e, day)) \/ DeleteEvent(u, e)
    PROVE  Kept
<1>1. PICK evt \in EventRec : /\ ByHand(u, e, evt)
                              /\ moved' \subseteq moved \cup {<<u, e>>}
  <2>1. CASE DeleteEvent(u, e)
    BY <2>1, NoEventType DEF DeleteEvent
  <2>2. ASSUME NEW day \in Day, MoveEvent(u, e, day)
        PROVE  \E evt \in EventRec : /\ ByHand(u, e, evt)
                                     /\ moved' \subseteq moved \cup {<<u, e>>}
    <3>1. calendar[u][e] \in EventRec /\ day \in Int
      BY DEF CalendarTypeOK, EventsType, CalendarConstants
    <3>2. [calendar[u][e] EXCEPT !.day = day] \in EventRec
      BY <3>1 DEF EventRec
    <3> QED BY <2>2, <3>2 DEF MoveEvent
  <2> QED BY <2>1, <2>2
<1>2. /\ calendar' = [calendar EXCEPT ![u][e] = evt]
      /\ sa' = sa /\ want' = want /\ job' = job /\ ids' = ids /\ ops' \in Nat
  BY <1>1 DEF ByHand, saVars, CalendarTypeOK
<1>3. EventsType /\ JobOK(job)
  BY DEF CalendarTypeOK
<1>4. calendar' \in [User -> [Event -> EventRec]]
  BY <1>2, <1>3, CalendarWritten
<1>5. EventsType'
  BY <1>1, <1>2, <1>3, <1>4 DEF EventsType
<1> QED BY <1>2, <1>3, <1>5, OtherStep

LEMMA PushKeeps ==
    ASSUME CalendarTypeOK, NEW s \in Sa, Push(s)
    PROVE  Kept
<1> DEFINE u == job.u
           evt == [s |-> s, day |-> job.items[s]]
<1>1. EventsType /\ JobOK(job) /\ job \in JobRec /\ u \in User
  BY DEF CalendarTypeOK, Push, JobOK
<1>2. job.items \in [Sa -> Int \cup {None}] /\ job.events \subseteq Event
  BY <1>1 DEF JobRec
<1>3. evt \in EventRec
  BY <1>2 DEF Push, Pending, EventRec
<1>4. Tagged(s) \subseteq Event
  BY <1>2 DEF Tagged
<1>5. /\ job' = [job EXCEPT !.items[s] = None]
      /\ sa' = sa /\ want' = want /\ ops' = ops
  BY DEF Push, saVars
<1> HIDE DEF u, evt
<1>6. /\ calendar' = calendar
         \/ \E e \in Event : calendar' = [calendar EXCEPT ![u][e] = evt]
      /\ ids' = ids \/ \E e \in Event : ids' = [ids EXCEPT ![s][u] = e]
      /\ moved' \subseteq moved
  BY <1>4 DEF Push, u, evt
<1>7. EventsType'
  <2>0. /\ calendar \in [User -> [Event -> EventRec]]
        /\ ids \in [Sa -> [User -> Event \cup {None}]]
        /\ moved \subseteq User \X Event
    BY <1>1 DEF EventsType
  <2>1. calendar' \in [User -> [Event -> EventRec]]
    <3>1. CASE calendar' = calendar
      BY <2>0, <3>1
    <3>2. ASSUME NEW e \in Event, calendar' = [calendar EXCEPT ![u][e] = evt]
          PROVE  calendar' \in [User -> [Event -> EventRec]]
      BY <1>1, <1>3, <3>2, CalendarWritten
    <3> QED BY <1>6, <3>1, <3>2
  <2>2. ids' \in [Sa -> [User -> Event \cup {None}]]
    <3>1. CASE ids' = ids
      BY <2>0, <3>1
    <3>2. ASSUME NEW e \in Event, ids' = [ids EXCEPT ![s][u] = e]
          PROVE  ids' \in [Sa -> [User -> Event \cup {None}]]
      BY <1>1, <3>2, IdWritten
    <3> QED BY <1>6, <3>1, <3>2
  <2> QED BY <1>6, <2>0, <2>1, <2>2 DEF EventsType
<1>8. JobOK(job')
  <2>1. [job.items EXCEPT ![s] = None] \in [Sa -> Int \cup {None}]
    BY <1>2
  <2>2. job'.pc = job.pc /\ job'.u = job.u /\ job.pc = "push"
    BY <1>1, <1>5 DEF JobRec, Push
  <2>3. job' = [job EXCEPT !.items = [job.items EXCEPT ![s] = None]]
    BY <1>5
  <2>4. job' \in JobRec
    BY <1>1, <2>1, <2>3 DEF JobRec
  <2> QED BY <1>1, <2>2, <2>4 DEF JobOK, u
<1> QED BY <1>5, <1>7, <1>8, OtherStep DEF CalendarTypeOK

LEMMA PushedKeeps ==
    ASSUME CalendarTypeOK, Pushed
    PROVE  Kept
<1>1. /\ JobOK(job) /\ EventsType
      /\ job' \in {NoJob, [job EXCEPT !.pc = "sync"]}
      /\ UNCHANGED <<sa, calendar, ids, moved, want, ops>>
  BY DEF CalendarTypeOK, Pushed, saVars
<1>2. JobOK([job EXCEPT !.pc = "sync"])
  BY <1>1 DEF JobOK, JobRec, Steps
<1>3. JobOK(job')
  BY <1>1, <1>2, NoJobOK
<1>4. EventsType'
  BY <1>1 DEF EventsType
<1> QED BY <1>1, <1>3, <1>4, OtherStep DEF CalendarTypeOK

LEMMA SyncUserKeeps ==
    ASSUME CalendarTypeOK, NEW u \in User, SyncUser(u)
    PROVE  Kept
<1> DEFINE items == ItemsOf({s \in job.changed : Live(s) /\ ~sa[s].arch})
           days == {items[s] : s \in Pending(items)}
           rest == [job EXCEPT !.users = @ \ {u}]
           found == Listed(u, Min(days) - Margin, Max(days) + Margin)
           push == [rest EXCEPT !.pc = "push", !.u = u, !.items = items,
                      !.listed = calendar[u], !.events = found]
<1>1. /\ JobOK(job) /\ job \in JobRec /\ EventsType /\ SaType
      /\ job.pc = "sync"
      /\ job' \in {NoJob, rest, push}
      /\ UNCHANGED <<sa, calendar, ids, moved, want, ops>>
  BY DEF CalendarTypeOK, SyncUser, saVars, JobOK
<1>2. items \in [Sa -> Int \cup {None}]
  BY <1>1, ItemsType DEF JobRec
<1>3. calendar[u] \in [Event -> EventRec] /\ found \subseteq Event
  BY <1>1, ListedType
<1> HIDE DEF items, found
<1>4. JobOK(rest)
  BY <1>1 DEF JobOK, JobRec
<1>5. JobOK(push)
  BY <1>1, <1>2, <1>3 DEF JobOK, JobRec, Steps
<1>6. JobOK(job')
  BY <1>1, <1>4, <1>5, NoJobOK
<1>7. EventsType'
  BY <1>1 DEF EventsType
<1> QED BY <1>1, <1>6, <1>7, OtherStep DEF CalendarTypeOK

LEMMA SyncAllKeeps ==
    ASSUME CalendarConstants, CalendarTypeOK, NEW u \in User,
           syncAllForUser(u)
    PROVE  Kept
<1> DEFINE S == {s \in Sa : Active(s)}
           rec == IF S = {} THEN NoJob ELSE [SyncJob(S) EXCEPT !.users = {u}]
<1>1. Serve(rec) /\ sa' = sa /\ want' = want
  BY DEF syncAllForUser, saVars
<1>2. JobOK(rec)
  BY SyncJobOK, NoJobOK
<1> HIDE DEF rec
<1>3. EventsType' /\ JobOK(job') /\ ops' \in Nat
  BY <1>1, <1>2, Served DEF JobOK
<1> QED BY <1>1, <1>3, OtherStep

LEMMA RemoveKeeps ==
    ASSUME CalendarTypeOK, NEW u \in User, NEW e \in Event, Remove(u, e)
    PROVE  Kept
<1> DEFINE rest == [job EXCEPT !.gone = @ \ {<<u, e>>}]
<1>1. /\ JobOK(job) /\ EventsType
      /\ job' \in {NoJob, rest}
      /\ calendar' \in {calendar, [calendar EXCEPT ![u][e] = NoEvent]}
      /\ UNCHANGED <<sa, ids, moved, want, ops>>
  BY DEF CalendarTypeOK, Remove, saVars
<1>2. JobOK(rest)
  BY <1>1 DEF JobOK, JobRec
<1>3. JobOK(job')
  BY <1>1, <1>2, NoJobOK
<1>a. [calendar EXCEPT ![u][e] = NoEvent] \in [User -> [Event -> EventRec]]
  BY <1>1, NoEventType, CalendarWritten
<1>4. EventsType'
  BY <1>1, <1>a DEF EventsType
<1> QED BY <1>1, <1>3, <1>4, OtherStep DEF CalendarTypeOK

LEMMA ViewKeeps ==
    ASSUME CalendarConstants, CalendarTypeOK, NEW u \in User,
           NEW window \in Window, View(u, window)
    PROVE  Kept
<1> DEFINE found == Listed(u, window[1], window[2])
           rec == [NoJob EXCEPT !.pc = "reconcile", !.u = u,
                     !.window = window, !.listed = calendar[u], !.users = User,
                     !.events = found, !.todo = found]
<1>1. Serve(rec) /\ sa' = sa /\ want' = want /\ EventsType
  BY DEF View, saVars, CalendarTypeOK
<1>2. /\ calendar[u] \in [Event -> EventRec] /\ found \subseteq Event
      /\ \A e \in found : calendar[u][e].s \in Sa
  BY <1>1, ListedType
<1>3. NoJob \in JobRec /\ window \in Int \X Int
  BY NoJobOK DEF JobOK, CalendarConstants
<1> HIDE DEF found
<1>4. JobOK(rec)
  BY <1>2, <1>3 DEF JobOK, JobRec, Steps
<1> HIDE DEF rec
<1>5. EventsType' /\ JobOK(job') /\ ops' \in Nat
  BY <1>1, <1>4, Served DEF JobOK
<1> QED BY <1>1, <1>5, OtherStep

LEMMA ReconciledKeeps ==
    ASSUME CalendarTypeOK, Reconciled
    PROVE  Kept
<1> DEFINE items == ItemsOf({s \in Sa : /\ Active(s)
                /\ EffectiveDay(s) \in job.window[1] .. job.window[2]})
<1>1. /\ JobOK(job) /\ EventsType /\ SaType /\ job.pc = "reconcile"
      /\ job' = [job EXCEPT !.pc = "push", !.items = items]
      /\ UNCHANGED <<sa, calendar, ids, moved, want, ops>>
  BY DEF CalendarTypeOK, Reconciled, saVars
<1>2. items \in [Sa -> Int \cup {None}]
  BY <1>1, ItemsType
<1> HIDE DEF items
<1>3. JobOK(job')
  BY <1>1, <1>2 DEF JobOK, JobRec, Steps
<1>4. EventsType'
  BY <1>1 DEF EventsType
<1> QED BY <1>1, <1>3, <1>4, OtherStep DEF CalendarTypeOK

\* An event compared writes types of its own, and keeps the days wanted unless
\* it moves a SA without having been moved.
LEMMA ReconcileKeeps ==
    ASSUME CalendarTypeOK, NEW e \in Event, Reconcile(e)
    PROVE  /\ CalendarTypeOK'
           /\ (sa' # sa => <<job.u, e>> \in moved)
                => (DaysWanted => DaysWanted')
<1> DEFINE u == job.u
           s == job.listed[e].s
           day == job.listed[e].day
           rest == [job EXCEPT !.todo = @ \ {e}]
<1>1. /\ EventsType /\ SaType /\ JobOK(job) /\ job \in JobRec
      /\ want \in [Sa -> Int] /\ ops \in Nat
      /\ u \in User /\ s \in Sa /\ e \in job.todo /\ job.pc = "reconcile"
      /\ moved' \subseteq moved /\ ops' = ops
  BY DEF CalendarTypeOK, Reconcile, JobOK
<1>2. day \in Int
  BY <1>1 DEF JobRec, EventRec
<1>3. JobOK(rest)
  BY <1>1 DEF JobOK, JobRec
<1>4. JobOK([rest EXCEPT !.changed = @ \cup {s}])
  <2>1. rest.changed \cup {s} \subseteq Sa /\ rest \in JobRec
    BY <1>1, <1>3 DEF JobOK, JobRec
  <2> HIDE DEF s
  <2>2. [rest EXCEPT !.changed = @ \cup {s}] \in JobRec
    BY <2>1 DEF JobRec
  <2>3. /\ [rest EXCEPT !.changed = @ \cup {s}].pc = rest.pc
        /\ [rest EXCEPT !.changed = @ \cup {s}].u = rest.u
        /\ [rest EXCEPT !.changed = @ \cup {s}].todo = rest.todo
        /\ [rest EXCEPT !.changed = @ \cup {s}].listed = rest.listed
    BY <2>1 DEF JobRec
  <2> HIDE DEF rest
  <2> QED BY <1>3, <2>2, <2>3 DEF JobOK
<1>5. \/ /\ sa' = sa /\ want' = want /\ job' = rest
         /\ \/ /\ calendar' \in {calendar, [calendar EXCEPT ![u][e] = NoEvent]}
               /\ ids' = ids
            \/ calendar' = calendar /\ ids' = [ids EXCEPT ![s][u] = e]
      \/ /\ sa[s].day # day /\ Active(s)
         /\ calendar' = calendar /\ ids' = [ids EXCEPT ![s][u] = e]
         /\ sa' = WithDays(Shifted(Days, s, day))
         /\ want' = IF <<u, e>> \in moved THEN Shifted(want, s, day) ELSE want
         /\ job' = [rest EXCEPT !.changed = @ \cup {s}]
  BY DEF Reconcile
<1> HIDE DEF u, s, day, rest
<1>6. JobOK(job)' /\ ops' \in Nat
  BY <1>1, <1>3, <1>4, <1>5 DEF JobOK
<1>a. /\ [calendar EXCEPT ![u][e] = NoEvent] \in [User -> [Event -> EventRec]]
      /\ [ids EXCEPT ![s][u] = e] \in [Sa -> [User -> Event \cup {None}]]
  BY <1>1, NoEventType, CalendarWritten, IdWritten
<1>7. EventsType'
  BY <1>1, <1>5, <1>a DEF EventsType
<1>8. SaType' /\ want' \in [Sa -> Int]
  <2>1. CASE sa' = sa /\ want' = want
    BY <1>1, <2>1 DEF SaType
  <2>2. CASE sa' = WithDays(Shifted(Days, s, day))
    <3>1. /\ Shifted(Days, s, day) \in [Sa -> Int]
          /\ Shifted(want, s, day) \in [Sa -> Int]
      BY <1>1, <1>2, ShiftType, DaysType
    <3>2. WithDays(Shifted(Days, s, day)) \in [Sa -> SaRec]
      BY <1>1, <3>1, DatesWritten
    <3> QED BY <1>1, <1>5, <2>2, <3>1, <3>2 DEF SaType
  <2> QED BY <1>5, <2>1, <2>2
<1>9. ASSUME sa' # sa => <<job.u, e>> \in moved, DaysWanted
      PROVE  DaysWanted'
  <2>1. CASE sa' = sa /\ want' = want
    BY <1>9, <2>1 DEF DaysWanted, Live
  <2>2. CASE /\ sa[s].day # day /\ Active(s)
             /\ sa' = WithDays(Shifted(Days, s, day))
             /\ want' = IF <<u, e>> \in moved THEN Shifted(want, s, day)
                        ELSE want
    <3>1. sa'[s].day = day
      <4>1. /\ Shifted(Days, s, day) \in [Sa -> Int]
            /\ s \notin Later(sa[s].num)
        BY <1>1, <1>2, ShiftType, DaysType, Documents DEF Later, SaRec
      <4>2. Shifted(Days, s, day)[s] = day
        BY <1>1, <4>1 DEF Shifted
      <4> QED BY <1>1, <2>2, <4>1, <4>2, DatesWritten
    <3>2. sa' # sa
      BY <2>2, <3>1
    <3>3. want' = Shifted(want, s, day)
      BY <1>9, <2>2, <3>2 DEF u
    <3> QED BY <1>1, <1>2, <1>9, <2>2, <3>3, ShiftKeeps
  <2> QED BY <1>5, <2>1, <2>2
<1> QED BY <1>6, <1>7, <1>8, <1>9 DEF CalendarTypeOK

-----------------------------------------------------------------------------
(* The whole of it.                                                        *)

LEMMA InitKeeps == CalendarConstants /\ Init => CalendarTypeOK /\ DaysWanted
<1> SUFFICES ASSUME CalendarConstants, Init
             PROVE  CalendarTypeOK /\ DaysWanted
  OBVIOUS
<1>1. SaType
  BY DEF Init, CalendarConstants, SaType
<1>2. \A s \in Sa : EffectiveDay(s) \in Int /\ sa[s].day \in Int
  BY <1>1, Documents DEF EffectiveDay
<1>3. want \in [Sa -> Int] /\ DaysWanted
  BY <1>2 DEF Init, DaysWanted
<1>4. ASSUME NEW u \in User, NEW e \in Event
      PROVE  (IF \E s \in Sa : ids[s][u] = e
              THEN LET s == CHOOSE s \in Sa : ids[s][u] = e
                   IN [s |-> s, day |-> EffectiveDay(s)]
              ELSE NoEvent) \in EventRec
  <2>1. CASE \E s \in Sa : ids[s][u] = e
    <3> DEFINE c == CHOOSE s \in Sa : ids[s][u] = e
    <3>1. c \in Sa
      BY <2>1
    <3> HIDE DEF c
    <3>2. [s |-> c, day |-> EffectiveDay(c)] \in EventRec
      BY <1>2, <3>1 DEF EventRec
    <3> QED BY <2>1, <3>2 DEF c
  <2> QED BY <2>1, NoEventType
<1>5. calendar \in [User -> [Event -> EventRec]]
  BY <1>4 DEF Init
<1>6. EventsType /\ ops \in Nat
  BY <1>5 DEF Init, EventsType
<1>7. JobOK(job)
  BY NoJobOK DEF Init
<1> QED BY <1>1, <1>3, <1>6, <1>7 DEF CalendarTypeOK

\* Only comparing an event can make a SA leave its day.
LEMMA NextKeeps ==
    ASSUME CalendarConstants, CalendarTypeOK, [Next]_vars
    PROVE  /\ CalendarTypeOK'
           /\ (\A e \in Event : Reconcile(e) /\ sa' # sa
                                  => <<job.u, e>> \in moved)
                => (DaysWanted => DaysWanted')
<1> DEFINE Result == /\ CalendarTypeOK'
                     /\ (\A e \in Event : Reconcile(e) /\ sa' # sa
                                            => <<job.u, e>> \in moved)
                          => (DaysWanted => DaysWanted')
<1> SUFFICES Result
  OBVIOUS
<1>1. ASSUME Kept PROVE Result
  BY <1>1 DEF Kept
<1>2. CASE vars' = vars
  <2>1. UNCHANGED <<sa, calendar, ids, moved, want, ops, job>>
    BY <1>2 DEF vars, saVars
  <2>2. EventsType' /\ JobOK(job') /\ ops' \in Nat
    BY <2>1 DEF CalendarTypeOK, EventsType, JobOK
  <2> QED BY <2>1, <2>2, <1>1, OtherStep
<1>3. CASE \E s \in Sa, day \in Day :
             rescheduleSequence(s, day) \/ completeSequence(s, day)
  BY <1>1, <1>3, Rescheduled, Completed
<1>4. CASE \E day \in Day : createSequence(day)
  BY <1>1, <1>4, Created
<1>5. CASE \E s \in Sa : deleteSequence(s) \/ Push(s)
  BY <1>1, <1>5, Deleted, PushKeeps
<1>6. CASE archiveAlternant \/ unarchiveAlternant
  BY <1>1, <1>6, Archived
<1>7. CASE \E u \in User, e \in Event :
             \/ (\E day \in Day : MoveEvent(u, e, day)) \/ DeleteEvent(u, e)
             \/ Remove(u, e)
  BY <1>1, <1>7, HandEdits, RemoveKeeps
<1>8. CASE \E u \in User : \/ SyncUser(u) \/ syncAllForUser(u)
                           \/ \E window \in Window : View(u, window)
  BY <1>1, <1>8, SyncUserKeeps, SyncAllKeeps, ViewKeeps
<1>9. CASE Pushed \/ Reconciled
  BY <1>1, <1>9, PushedKeeps, ReconciledKeeps
<1>10. CASE \E e \in Event : Reconcile(e)
  BY <1>10, ReconcileKeeps
<1> HIDE DEF Result
<1>11. CASE Next
  <2>1. CASE \E u \in User :
               \/ \E e \in Event : (\E day \in Day : MoveEvent(u, e, day))
                                   \/ DeleteEvent(u, e) \/ Remove(u, e)
               \/ SyncUser(u) \/ syncAllForUser(u)
               \/ \E window \in Window : View(u, window)
    <3>1. PICK u \in User :
               \/ \E e \in Event : (\E day \in Day : MoveEvent(u, e, day))
                                   \/ DeleteEvent(u, e) \/ Remove(u, e)
               \/ SyncUser(u) \/ syncAllForUser(u)
               \/ \E window \in Window : View(u, window)
      BY <2>1
    <3> QED BY <1>7, <1>8, <3>1
  <2> QED BY <1>3, <1>4, <1>5, <1>6, <1>9, <1>10, <1>11, <2>1 DEF Next
<1>12. Result
  BY <1>2, <1>11
<1> QED BY <1>12

\* Whatever is edited, moved and deleted, in the application and in Google,
\* and whichever call fails, SA, calendars and requests hold what the code can
\* store in them; in particular what a view compares is the event of a SA.
THEOREM CalendarTypes ==
    ASSUME CalendarConstants
    PROVE  Spec => []CalendarTypeOK
<1>1. Init => CalendarTypeOK
  BY InitKeeps
<1>2. CalendarTypeOK /\ [Next]_vars => CalendarTypeOK'
  BY NextKeeps
<1> QED BY <1>1, <1>2, PTL DEF Spec

\* SaCalendarService.ts:208 takes any event whose day differs from that of its
\* SA for one that was moved by hand: where only events that were moved give
\* their SA another day, every SA has the day the staff's decisions give it
\* whenever no request is served.  So a SA that leaves its day, as in the run
\* sa_calendar, is always brought there by an event nobody moved.
THEOREM PlanKeptByDecisions ==
    ASSUME CalendarConstants
    PROVE  Spec /\ OnlyMovedCount => []PlanKept
<1> DEFINE Inv == CalendarTypeOK /\ DaysWanted
           Counts == \A e \in Event : Reconcile(e) /\ sa' # sa
                                        => <<job.u, e>> \in moved
<1>1. Init => Inv
  BY InitKeeps
<1>2. Inv /\ [Next]_vars /\ [Counts]_vars => Inv'
  <2>1. ASSUME Inv, [Next]_vars, Counts PROVE Inv'
    BY <2>1, NextKeeps
  <2>2. ASSUME Inv, vars' = vars PROVE Inv'
    <3>1. sa' = sa /\ want' = want /\ CalendarTypeOK'
      BY <2>2, NextKeeps DEF vars, saVars
    <3> QED BY <2>2, <3>1 DEF DaysWanted, Live
  <2> QED BY <2>1, <2>2
<1>3. Inv => PlanKept
  BY DEF DaysWanted, PlanKept
<1>4. OnlyMovedCount => [][Counts]_vars
  BY DEF OnlyMovedCount
<1> QED BY <1>1, <1>2, <1>3, <1>4, PTL DEF Spec
=============================================================================
