------------------------------ MODULE Sa_proofs ------------------------------
(***************************************************************************)
(* The follow-up of an alternant and the scheduler that notifies it, for   *)
(* any number of SA, requests, contacts, days and failures: the types, and *)
(* what was sent for a SA.  A type invariant of the requests in progress   *)
(* comes first (ReqOK says what each stage of a handler has read), then    *)
(* the effect of the scheduler on the documents, then the notifications.   *)
(***************************************************************************)
EXTENDS SaNotification, TLAPS, FiniteSetTheorems, SequenceTheorems,
        WellFoundedInduction

-----------------------------------------------------------------------------
(* Numbers and plans.                                                      *)

\* A set of numbers has a smallest one.
LEMMA SmallestOfNumbers ==
    ASSUME NEW S \in SUBSET Nat, S # {}
    PROVE  \E n \in S : \A m \in S : n <= m
<1> DEFINE Less == OpToRel(<, Nat)
<1>1. IsWellFoundedOn(Less, Nat)
  BY NatLessThanWellFounded
<1>2. \A m, n \in Nat : <<m, n>> \in Less <=> m < n
  BY DEF OpToRel
<1> HIDE DEF Less
<1>3. PICK n \in S : \A m \in S : <<m, n>> \notin Less
  BY <1>1, WFMin
<1>4. ASSUME NEW m \in S PROVE n <= m
  <2>1. m \in Nat /\ n \in Nat
    OBVIOUS
  <2>2. ~(m < n)
    BY <2>1, <1>2, <1>3
  <2> QED
    BY <2>1, <2>2
<1> QED
  BY <1>4

\* A finite set of numbers has a greatest one: of the sets of the members that
\* are at least as great as one of them, the smallest is that of the greatest.
LEMMA MaxOfFinite ==
    ASSUME NEW S \in SUBSET Nat, IsFiniteSet(S), S # {}
    PROVE  Max(S) \in S /\ \A y \in S : Max(S) >= y
<1> DEFINE Up(x) == {y \in S : y >= x}
           Sizes == {Cardinality(Up(x)) : x \in S}
<1>1. \A x \in S : IsFiniteSet(Up(x)) /\ Cardinality(Up(x)) \in Nat
  BY FS_Subset, FS_CardinalityType
<1>2. Sizes \in SUBSET Nat /\ Sizes # {}
  BY <1>1
<1>3. PICK n \in Sizes : \A m \in Sizes : n <= m
  BY <1>2, SmallestOfNumbers
<1>4. PICK x \in S : n = Cardinality(Up(x))
  BY <1>3
<1>5. ASSUME NEW y \in S, ~(x >= y) PROVE FALSE
  <2>0. x \in Nat /\ y \in Nat /\ x < y
    BY <1>5
  <2>1. /\ \A z \in S : z >= y => z >= x
        /\ x >= x /\ ~(x >= y)
    <3>1. \A z \in S : z \in Nat
      OBVIOUS
    <3> QED
      BY <2>0, <3>1
  <2>5. Up(y) \in SUBSET Up(x) /\ x \in Up(x) /\ x \notin Up(y)
    BY <2>1
  <2>2. /\ Cardinality(Up(y)) <= Cardinality(Up(x))
        /\ Cardinality(Up(y)) # Cardinality(Up(x))
    BY <2>5, <1>1, FS_Subset
  <2>3. n <= Cardinality(Up(y))
    BY <1>3
  <2>4. Cardinality(Up(x)) \in Nat /\ Cardinality(Up(y)) \in Nat
    BY <1>1
  <2> QED
    BY <2>2, <2>3, <2>4, <1>4
<1> QED
  BY <1>5 DEF Max

\* The number of the next SA is greater than every number in use.
LEMMA NextNumero ==
    ASSUME sa \in [Sa -> SaRec]
    PROVE  nextNumero \in Nat /\ \A s \in Sa : Live(s) => sa[s].num < nextNumero
<1> DEFINE S == {s \in Sa : Live(s)}
           N == {sa[s].num : s \in S}
           M == {0} \cup N
<1>1. IsFiniteSet(S)
  BY SaAssumption, FS_Subset DEF SaAssumption
<1>2. IsFiniteSet(N)
  <2>1. [s \in S |-> sa[s].num] \in Surjection(S, N)
    BY DEF Surjection
  <2> QED
    BY <1>1, <2>1, FS_Surjection
<1>6. \A s \in Sa : sa[s].num \in Nat
  BY DEF SaRec
<1>3. IsFiniteSet(M) /\ M \in SUBSET Nat /\ M # {}
  <2>1. IsFiniteSet({0})
    BY FS_Singleton
  <2>2. IsFiniteSet(M)
    BY <1>2, <2>1, FS_Union
  <2> QED
    BY <1>6, <2>2
<1>4. Max(M) \in M /\ \A y \in M : Max(M) >= y
  BY <1>3, MaxOfFinite
<1>5. nextNumero = 1 + Max(M)
  BY DEF nextNumero
<1> HIDE DEF M
<1>7. Max(M) \in Nat
  BY <1>3, <1>4
<1>8. ASSUME NEW s \in Sa, Live(s) PROVE sa[s].num < nextNumero
  <2>1. sa[s].num \in M
    BY <1>8 DEF M
  <2> QED
    BY <2>1, <1>4, <1>5, <1>6, <1>7
<1> QED
  BY <1>5, <1>7, <1>8

\* Dates are planned on days.
LEMMA PlansType == Plans \in SUBSET Seq(Int)
<1> SUFFICES ASSUME NEW start \in Day, NEW end \in Day \cup {None}
             PROVE  SaDates(start, end) \in Seq(Int)
  BY DEF Plans
<1> DEFINE Kept == IF end = None THEN 1 .. 3
                   ELSE {n \in 1 .. MaxPlan : Due(start, n) <= end}
           k == Cardinality(Kept)
<1>0. IsFiniteSet(1 .. 3) /\ IsFiniteSet(1 .. MaxPlan)
  <2>1. 1 \in Int /\ 3 \in Int /\ MaxPlan \in Int
    BY SaAssumption DEF SaAssumption
  <2> QED
    BY <2>1, FS_Interval
<1>1. IsFiniteSet(Kept)
  <2>1. {n \in 1 .. MaxPlan : Due(start, n) <= end} \in SUBSET (1 .. MaxPlan)
    OBVIOUS
  <2> QED
    BY <1>0, <2>1, FS_Subset
<1>2. k \in Nat
  BY <1>1, FS_CardinalityType
<1>3. \A n \in 1 .. k : Due(start, n) \in Int
  <2> TAKE n \in 1 .. k
  <2>1. start \in Int /\ n \in Int
    BY <1>2, PlanningAssumption DEF PlanningAssumption
  <2>2. (n - 2) * Period \in Int
    BY <2>1, SaAssumption DEF SaAssumption
  <2> QED
    BY <2>1, <2>2, SaAssumption DEF SaAssumption, Due
<1> HIDE DEF k
<1>4. [n \in 1 .. k |-> Due(start, n)] \in [1 .. k -> Int]
  BY <1>3
<1>5. [n \in 1 .. k |-> Due(start, n)] \in Seq(Int)
  BY <1>2, <1>4, SeqDef
<1> QED
  BY <1>5 DEF SaDates, k

-----------------------------------------------------------------------------
(* Types.  What a request has read goes with where it stands.              *)

ReqOK(q) ==
    /\ q.pc \in Moving \cup {"contacts"} => q.s \in Sa
    /\ q.pc \in {"number", "create"} => q.plan # <<>>
    /\ q.pc = "contacts" => q.back = Reverts(q.st, q.put)
    /\ q.pc \in Moving /\ q.done => q.contacts = Contact
Sound(q) == q \in ReqRec /\ ReqOK(q)

SaType == sa \in [Sa -> SaRec]
AltType == alt \in AltRec
RuptureType ==
    rupture \in [all : Nat, quits : Nat] /\ rupture.quits <= rupture.all
ReqType == req \in [Req -> ReqRec] /\ \A r \in Req : ReqOK(req[r])
CountType == ops \in Nat /\ faults \in Nat
LogType == log \in LogRec
PlanOK == SaType /\ AltType /\ RuptureType /\ ReqType /\ CountType /\ LogType

LEMMA PlanTypes == PlanOK => PlanTypeOK
  BY DEF PlanOK, PlanTypeOK, SaType, AltType, RuptureType, ReqType, CountType,
         LogType

LEMMA ConstantFacts ==
    /\ None \notin Int /\ None \notin Sa
    /\ Day \subseteq Int /\ MaxOps \in Nat /\ MaxFaults \in Nat
    /\ SoonDays \in Nat /\ LastDay \in Nat
  BY SaAssumption, PlanningAssumption, NotificationAssumption
     DEF SaAssumption, PlanningAssumption, NotificationAssumption

Pcs == {"idle", "find", "shift", "commit", "contacts", "clear", "number",
        "create", "company", "ruptures", "person", "judge", "sas"}

LEMMA NoReqType == Sound(NoReq) /\ NoReq.pc = "idle"
  BY DEF NoReq, NoMoves, Sound, ReqRec, ReqOK, Moving

\* A request stays one when its fields change.
LEMMA ReqUpdates ==
    ASSUME NEW q \in ReqRec
    PROVE  /\ \A x \in Pcs : [q EXCEPT !.pc = x] \in ReqRec
           /\ \A x \in Nat : [q EXCEPT !.pc = "create", !.num = x] \in ReqRec
           /\ \A x \in [Sa -> Int \cup {None}] :
                [q EXCEPT !.pc = "shift", !.moves = x] \in ReqRec
           /\ \A x \in {"none", "rupture", "end", "gone"} :
                [q EXCEPT !.pc = "sas", !.to = x] \in ReqRec
           /\ \A x \in SUBSET Contact, b \in BOOLEAN :
                [q EXCEPT !.put = x, !.back = b] \in ReqRec
           /\ \A b \in BOOLEAN, x \in Int, y \in Int, n \in Nat :
                [q EXCEPT !.done = b, !.day = x, !.delta = y, !.num = n]
                    \in ReqRec
           /\ \A x \in Int, y \in Int, n \in Nat :
                [q EXCEPT !.day = x, !.delta = y, !.num = n] \in ReqRec
<1>1. \A x \in Pcs : [q EXCEPT !.pc = x] \in ReqRec
  BY DEF ReqRec, Pcs
<1>2. \A x \in Nat : [q EXCEPT !.pc = "create", !.num = x] \in ReqRec
  BY DEF ReqRec
<1>3. \A x \in [Sa -> Int \cup {None}] :
        [q EXCEPT !.pc = "shift", !.moves = x] \in ReqRec
  BY DEF ReqRec
<1>4. \A x \in {"none", "rupture", "end", "gone"} :
        [q EXCEPT !.pc = "sas", !.to = x] \in ReqRec
  BY DEF ReqRec, Reason
<1>5. \A x \in SUBSET Contact, b \in BOOLEAN :
        [q EXCEPT !.put = x, !.back = b] \in ReqRec
  BY DEF ReqRec
<1>6. \A b \in BOOLEAN, x \in Int, y \in Int, n \in Nat :
        [q EXCEPT !.done = b, !.day = x, !.delta = y, !.num = n] \in ReqRec
  BY DEF ReqRec
<1>7. \A x \in Int, y \in Int, n \in Nat :
        [q EXCEPT !.day = x, !.delta = y, !.num = n] \in ReqRec
  BY DEF ReqRec
<1> QED
  BY <1>1, <1>2, <1>3, <1>4, <1>5, <1>6, <1>7

\* So do the history, a SA and the alternant.
LEMMA LogUpdates ==
    ASSUME NEW h \in LogRec
    PROVE  /\ \A x \in SUBSET Sa : [h EXCEPT !.stale = x] \in LogRec
           /\ \A x \in SUBSET Sa : [h EXCEPT !.marked = x] \in LogRec
           /\ \A x \in SUBSET Sa, m \in SUBSET Sa, y \in [Sa -> Int] :
                [h EXCEPT !.stale = x, !.marked = m, !.want = y] \in LogRec
           /\ \A x \in BOOLEAN : [h EXCEPT !.crossed = x] \in LogRec
           /\ \A x \in BOOLEAN : [h EXCEPT !.torn = x] \in LogRec
           /\ \A x \in BOOLEAN : [h EXCEPT !.raced = x] \in LogRec
           /\ \A x \in {"ruptures", "staff"} : [h EXCEPT !.by = x] \in LogRec
           /\ \A x \in BOOLEAN : [h EXCEPT !.mixed = x] \in LogRec
           /\ \A x \in SUBSET Sa : [h EXCEPT !.since = x] \in LogRec
           /\ \A x \in BOOLEAN : [h EXCEPT !.ended = x] \in LogRec
           /\ \A x \in BOOLEAN : [h EXCEPT !.requalified = x] \in LogRec
  BY DEF LogRec

LEMMA SaUpdates ==
    ASSUME NEW d \in SaRec
    PROVE  /\ \A x \in SaStatus \cup {"deleted"} : [d EXCEPT !.st = x] \in SaRec
           /\ \A x \in Int : [d EXCEPT !.day = x] \in SaRec
           /\ \A x \in SUBSET Contact : [d EXCEPT !.contacts = x] \in SaRec
           /\ \A x \in BOOLEAN : [d EXCEPT !.arch = x] \in SaRec
           /\ [d EXCEPT !.soon = TRUE] \in SaRec
           /\ [d EXCEPT !.late = TRUE] \in SaRec
           /\ \A x \in SUBSET Contact : [[d EXCEPT !.contacts = x] EXCEPT
                !.st = "pending", !.real = None] \in SaRec
           /\ \A x \in Int : [d EXCEPT !.st = "done", !.real = x] \in SaRec
  BY DEF SaRec, SaStatus

LEMMA PlannedType ==
    ASSUME NEW day \in Int, NEW num \in Nat, NEW auto \in BOOLEAN
    PROVE  Planned("pending", day, num, auto) \in SaRec
  BY DEF Planned, SaRec, SaStatus

LEMMA deleteAllType ==
    ASSUME SaType, NEW Gone \in SUBSET Sa
    PROVE  deleteAll(Gone) \in [Sa -> SaRec]
  BY SaUpdates DEF SaType, deleteAll

LEMMA setArchivedType ==
    ASSUME SaType, NEW arch \in BOOLEAN
    PROVE  setArchived(arch) \in [Sa -> SaRec]
  BY SaUpdates DEF SaType, setArchived

LEMMA NumberingType ==
    ASSUME NEW plan \in Seq(Int), NEW auto \in BOOLEAN
    PROVE  Sound(Numbering(plan, auto))
<1> DEFINE q == [NoReq EXCEPT !.pc = "number", !.plan = plan, !.auto = auto]
<1>1. q \in ReqRec /\ q.pc = "number" /\ q.plan = plan
  BY NoReqType DEF Sound, ReqRec
<1> HIDE DEF q
<1>2. plan # <<>> => Sound(q)
  BY <1>1 DEF Sound, ReqOK, Moving
<1> QED
  BY <1>2, NoReqType DEF Numbering, q

LEMMA StartingType ==
    ASSUME LogType, NEW r \in Req, NEW pc
    PROVE  /\ Starting(r, pc) \in LogRec
           /\ \A by \in {"ruptures", "staff"} : Decide(r, pc, by) \in LogRec
<1>1. Starting(r, pc) \in LogRec
  BY DEF Starting, LogType, LogRec
<1>2. ASSUME NEW by \in {"ruptures", "staff"} PROVE Decide(r, pc, by) \in LogRec
  BY <1>1, LogUpdates DEF Decide
<1> QED
  BY <1>1, <1>2

LEMMA ReceiveType ==
    ASSUME PlanOK, NEW r \in Req, NEW rec, NEW history,
           Receive(r, rec, history), Sound(rec), history \in LogRec
    PROVE  ReqType' /\ CountType' /\ LogType'
  BY ConstantFacts DEF PlanOK, ReqType, CountType, LogType, Receive, Sound

LEMMA GoToType ==
    ASSUME PlanOK, NEW r \in Req, NEW rec, GoTo(r, rec), Sound(rec)
    PROVE  ReqType' /\ CountType'
  BY DEF PlanOK, ReqType, CountType, GoTo, Sound

LEMMA Unchanged ==
    PlanOK => /\ sa' = sa => SaType'
              /\ alt' = alt => AltType'
              /\ rupture' = rupture => RuptureType'
              /\ log' = log => LogType'
  BY DEF PlanOK, SaType, AltType, RuptureType, LogType

LEMMA PlanTypesOf ==
    SaType' /\ AltType' /\ RuptureType' /\ ReqType' /\ CountType' /\ LogType'
    => PlanOK'
  BY DEF PlanOK

\* A request that only read keeps the types.
LEMMA ReadsType ==
    ASSUME PlanOK, NEW r \in Req, NEW rec, NEW history, UNCHANGED saVars,
           Receive(r, rec, history), Sound(rec), history \in LogRec
    PROVE  PlanOK'
<1>1. SaType' /\ AltType' /\ RuptureType'
  BY Unchanged DEF saVars
<1>2. ReqType' /\ CountType' /\ LogType'
  BY ReceiveType
<1> QED
  BY <1>1, <1>2, PlanTypesOf

LEMMA ReqFields ==
    ASSUME PlanOK, NEW r \in Req
    PROVE  /\ req[r] \in ReqRec /\ ReqOK(req[r])
           /\ req[r].s \in Sa \cup {None} /\ req[r].plan \in Seq(Int)
           /\ req[r].num \in Nat /\ req[r].auto \in BOOLEAN
           /\ req[r].day \in Int /\ req[r].delta \in Int
           /\ req[r].put \in SUBSET Contact /\ req[r].back \in BOOLEAN
           /\ req[r].done \in BOOLEAN
           /\ req[r].moves \in [Sa -> Int \cup {None}]
           /\ req[r].to \in Reason \cup {"none", "gone"}
<1>1. req[r] \in ReqRec /\ ReqOK(req[r])
  BY DEF PlanOK, ReqType
<1> QED
  BY <1>1 DEF ReqRec

LEMMA ReceiveTypes ==
    ASSUME PlanOK, NEW r \in Req
    PROVE  /\ \A plan \in Plans : create(r, plan) => PlanOK'
           /\ \A plan \in Plans : changeCompany(r, plan) => PlanOK'
           /\ removeCompany(r) => PlanOK'
           /\ delete(r) => PlanOK'
           /\ \A day \in Day : createManualSequence(r, day) => PlanOK'
<1>0. LogType /\ SaType /\ \A pc : Starting(r, pc) \in LogRec
  BY StartingType DEF PlanOK
<1>1. ASSUME NEW plan \in Plans, create(r, plan) PROVE PlanOK'
  <2>1. Sound(Numbering(plan, TRUE))
    BY NumberingType, PlansType
  <2>2. AltType'
    BY <1>1 DEF create, AltType, Person, AltRec
  <2> QED
    BY <1>0, <1>1, <2>1, <2>2, ReceiveType, Unchanged, PlanTypesOf DEF create
<1>2. ASSUME NEW plan \in Plans, changeCompany(r, plan) PROVE PlanOK'
  <2> DEFINE rec == [NoReq EXCEPT !.pc = "clear", !.plan = plan]
  <2>1. rec \in ReqRec /\ rec.pc = "clear"
    BY NoReqType, PlansType DEF Sound, ReqRec
  <2> HIDE DEF rec
  <2>2. Sound(rec)
    BY <2>1 DEF Sound, ReqOK, Moving
  <2>3. AltType'
    BY <1>2 DEF changeCompany, AltType, AltRec, PlanOK
  <2> QED
    BY <1>0, <1>2, <2>2, <2>3, ReceiveType, Unchanged, PlanTypesOf
       DEF changeCompany, rec
<1>3. ASSUME removeCompany(r) PROVE PlanOK'
  <2> DEFINE rec == [NoReq EXCEPT !.pc = "company"]
  <2>1. rec \in ReqRec /\ rec.pc = "company"
    BY NoReqType DEF Sound, ReqRec
  <2> HIDE DEF rec
  <2>2. Sound(rec)
    BY <2>1 DEF Sound, ReqOK, Moving
  <2>3. SaType'
    BY <1>0, <1>3, deleteAllType DEF removeCompany, SaType
  <2> QED
    BY <1>0, <1>3, <2>2, <2>3, ReceiveType, Unchanged, PlanTypesOf
       DEF removeCompany, rec
<1>4. ASSUME delete(r) PROVE PlanOK'
  <2> DEFINE rec == [NoReq EXCEPT !.pc = "ruptures", !.to = "gone"]
  <2>1. rec \in ReqRec /\ rec.pc = "ruptures"
    BY NoReqType DEF Sound, ReqRec
  <2> HIDE DEF rec
  <2>2. Sound(rec)
    BY <2>1 DEF Sound, ReqOK, Moving
  <2>3. SaType'
    BY <1>0, <1>4, deleteAllType DEF delete, SaType
  <2> QED
    BY <1>0, <1>4, <2>2, <2>3, ReceiveType, Unchanged, PlanTypesOf
       DEF delete, rec
<1>5. ASSUME NEW day \in Day, createManualSequence(r, day) PROVE PlanOK'
  <2>1. <<day>> \in Seq(Int)
    BY ConstantFacts
  <2>2. Sound(Numbering(<<day>>, FALSE))
    BY <2>1, NumberingType
  <2> QED
    BY <1>0, <1>5, <2>2, ReceiveType, Unchanged, PlanTypesOf
       DEF createManualSequence, saVars
<1> QED
  BY <1>1, <1>2, <1>3, <1>4, <1>5

LEMMA PlanStepTypes ==
    ASSUME PlanOK, NEW r \in Req
    PROVE  /\ deleteAutoPending(r) => PlanOK'
           /\ ReadNumero(r) => PlanOK'
           /\ CreateSequence(r) => PlanOK'
           /\ ClearCompany(r) => PlanOK'
           /\ DeleteRuptures(r) => PlanOK'
<1>0. SaType /\ LogType /\ log \in LogRec
  BY DEF PlanOK, LogType
<1>1. ASSUME deleteAutoPending(r) PROVE PlanOK'
  <2>1. Sound(Numbering(req[r].plan, TRUE))
    BY ReqFields, NumberingType
  <2>2. SaType'
    BY <1>0, <1>1, deleteAllType DEF deleteAutoPending, SaType, AutoPending
  <2> QED
    BY <1>1, <2>1, <2>2, GoToType, Unchanged, PlanTypesOf
       DEF deleteAutoPending
<1>2. ASSUME ReadNumero(r) PROVE PlanOK'
  <2> DEFINE rec == [req[r] EXCEPT !.pc = "create", !.num = nextNumero]
  <2>1. rec \in ReqRec
    BY <1>0, NextNumero, ReqFields, ReqUpdates DEF SaType
  <2>2. rec.pc = "create" /\ rec.plan = req[r].plan
    BY ReqFields DEF ReqRec
  <2> HIDE DEF rec
  <2>3. Sound(rec)
    BY <1>2, <2>1, <2>2, ReqFields DEF Sound, ReqOK, Moving, ReadNumero
  <2>4. LogType'
    BY <1>0, <1>2, LogUpdates DEF ReadNumero, LogType
  <2> QED
    BY <1>2, <2>3, <2>4, GoToType, Unchanged, PlanTypesOf
       DEF ReadNumero, saVars, rec
<1>3. ASSUME CreateSequence(r) PROVE PlanOK'
  <2> DEFINE q == req[r]
             s == NewSa
  <2>1. q.plan # <<>> /\ q.plan \in Seq(Int)
    BY <1>3, ReqFields DEF CreateSequence, ReqOK
  <2>2. Head(q.plan) \in Int /\ Tail(q.plan) \in Seq(Int)
    BY <2>1
  <2>3. s \in Sa
    BY <1>3 DEF CreateSequence, CanCreate, NewSa
  <2>4. Planned("pending", Head(q.plan), q.num, q.auto) \in SaRec
    BY <2>2, ReqFields, PlannedType
  <2>5. Sound(Numbering(Tail(q.plan), q.auto))
    BY <2>2, ReqFields, NumberingType
  <2> HIDE DEF s
  <2>6. /\ sa' = [sa EXCEPT ![s] =
                    Planned("pending", Head(q.plan), q.num, q.auto)]
        /\ log' = [log EXCEPT !.want[s] = Head(q.plan),
                              !.since = @ \cup {s}]
        /\ GoTo(r, Numbering(Tail(q.plan), q.auto))
        /\ alt' = alt /\ rupture' = rupture
    BY <1>3 DEF CreateSequence, s
  <2>7. SaType'
    BY <1>0, <2>4, <2>6 DEF SaType
  <2>8. LogType'
    BY <1>0, <2>2, <2>3, <2>6 DEF LogType, LogRec
  <2> QED
    BY <2>5, <2>6, <2>7, <2>8, GoToType, Unchanged, PlanTypesOf
<1>4. ASSUME ClearCompany(r) PROVE PlanOK'
  <2>1. AltType'
    BY <1>4 DEF ClearCompany, AltType, AltRec, PlanOK
  <2> QED
    BY <1>4, <2>1, NoReqType, GoToType, Unchanged, PlanTypesOf
       DEF ClearCompany
<1>5. ASSUME DeleteRuptures(r) PROVE PlanOK'
  <2> DEFINE rec == [req[r] EXCEPT !.pc = "person"]
  <2>1. rec \in ReqRec
    BY ReqFields, ReqUpdates DEF Pcs
  <2>2. rec.pc = "person"
    BY ReqFields DEF ReqRec
  <2> HIDE DEF rec
  <2>3. Sound(rec)
    BY <2>1, <2>2 DEF Sound, ReqOK, Moving
  <2>4. LogType'
    BY <1>0, <1>5, LogUpdates DEF DeleteRuptures, LogType
  <2>5. RuptureType'
    BY <1>5 DEF DeleteRuptures, RuptureType
  <2> QED
    BY <1>5, <2>3, <2>4, <2>5, GoToType, Unchanged, PlanTypesOf
       DEF DeleteRuptures, rec
<1> QED
  BY <1>1, <1>2, <1>3, <1>4, <1>5

LEMMA ReadType ==
    ASSUME PlanOK, NEW s \in Sa, Live(s), NEW pc \in Pcs
    PROVE  /\ Read(s, pc) \in ReqRec
           /\ Read(s, pc).pc = pc /\ Read(s, pc).s = s
           /\ Read(s, pc).st = sa[s].st /\ Read(s, pc).done = FALSE
           /\ Read(s, pc).contacts = sa[s].contacts
<1>1. sa[s] \in SaRec /\ sa[s].st \in SaStatus
  BY DEF PlanOK, SaType, Live
<1>2. sa[s].contacts \in SUBSET Contact
  BY <1>1 DEF SaRec
<1>3. NoReq \in ReqRec
  BY NoReqType DEF Sound
<1>4. NoReq.done = FALSE
  BY DEF NoReq
<1>5. Read(s, pc) \in ReqRec
  BY <1>1, <1>2, <1>3 DEF Read, ReqRec, Pcs
<1> QED
  BY <1>3, <1>4, <1>5 DEF Read, ReqRec

LEMMA OneSaTypes ==
    ASSUME PlanOK, NEW r \in Req, NEW s \in Sa
    PROVE  /\ \A contacts \in SUBSET Contact :
                updateSequenceContacts(r, s, contacts) => PlanOK'
           /\ \A day \in Day : completeSequence(r, s, day) => PlanOK'
           /\ \A day \in Day : rescheduleSequence(r, s, day) => PlanOK'
           /\ \A st \in SaStatus : markSequence(r, s, st) => PlanOK'
           /\ deleteSequence(r, s) => PlanOK'
<1>0. SaType /\ LogType /\ \A pc : Starting(r, pc) \in LogRec
  BY StartingType DEF PlanOK
<1>d. sa[s] \in SaRec
  BY <1>0 DEF SaType
<1>1. ASSUME NEW contacts \in SUBSET Contact,
             updateSequenceContacts(r, s, contacts)
      PROVE  PlanOK'
  <2> DEFINE rec == [Read(s, "contacts") EXCEPT
                     !.put = contacts, !.back = Reverts(sa[s].st, contacts)]
  <2>1. /\ rec \in ReqRec /\ rec.pc = "contacts" /\ rec.s = s
        /\ rec.back = Reverts(sa[s].st, contacts) /\ rec.put = contacts
        /\ rec.st = sa[s].st
    <3>1. Reverts(sa[s].st, contacts) \in BOOLEAN
      BY DEF Reverts
    <3>2. Read(s, "contacts") \in ReqRec /\ Read(s, "contacts").pc = "contacts"
          /\ Read(s, "contacts").s = s /\ Read(s, "contacts").st = sa[s].st
      <4>1. Live(s)
        BY <1>1 DEF updateSequenceContacts
      <4>2. "contacts" \in Pcs
        BY DEF Pcs
      <4> QED
        BY <4>1, <4>2, ReadType, Zenon
    <3>3. rec \in ReqRec
      BY <3>1, <3>2, ReqUpdates
    <3> QED
      BY <3>2, <3>3 DEF ReqRec
  <2> HIDE DEF rec
  <2>2. Sound(rec)
    BY <2>1 DEF Sound, ReqOK, Moving
  <2>3. Receive(r, rec, Starting(r, "contacts")) /\ UNCHANGED saVars
    BY <1>1 DEF updateSequenceContacts, rec
  <2> QED
    BY <1>0, <2>2, <2>3, ReadsType
<1>2. ASSUME NEW day \in Day, completeSequence(r, s, day) PROVE PlanOK'
  <2> DEFINE rec == [Read(s, "find") EXCEPT !.done = TRUE, !.day = day,
                     !.delta = day - sa[s].day, !.num = sa[s].num]
  <2>1. day - sa[s].day \in Int /\ day \in Int
    BY <1>d, ConstantFacts DEF SaRec
  <2>2. /\ rec \in ReqRec /\ rec.pc = "find" /\ rec.s = s
        /\ rec.contacts = Contact
    <3>1. Read(s, "find") \in ReqRec /\ Read(s, "find").pc = "find"
          /\ Read(s, "find").s = s /\ Read(s, "find").contacts = Contact
      <4>1. Live(s) /\ sa[s].contacts = Contact
        BY <1>2 DEF completeSequence, Completable
      <4>2. "find" \in Pcs
        BY DEF Pcs
      <4> QED
        BY <4>1, <4>2, ReadType, Zenon
    <3>2. sa[s].num \in Nat
      BY <1>d DEF SaRec
    <3>3. rec \in ReqRec
      BY <2>1, <3>1, <3>2, ReqUpdates
    <3> QED
      BY <3>1, <3>3 DEF ReqRec
  <2> HIDE DEF rec
  <2>3. Sound(rec)
    BY <2>2 DEF Sound, ReqOK, Moving
  <2>4. Receive(r, rec, Starting(r, "find")) /\ UNCHANGED saVars
    BY <1>2 DEF completeSequence, rec
  <2> QED
    BY <1>0, <2>3, <2>4, ReadsType
<1>3. ASSUME NEW day \in Day, rescheduleSequence(r, s, day) PROVE PlanOK'
  <2> DEFINE rec == [Read(s, "find") EXCEPT !.day = day,
                     !.delta = day - sa[s].day, !.num = sa[s].num]
  <2>1. day - sa[s].day \in Int /\ day \in Int
    BY <1>d, ConstantFacts DEF SaRec
  <2>2. /\ rec \in ReqRec /\ rec.pc = "find" /\ rec.s = s /\ rec.done = FALSE
    <3>1. Read(s, "find") \in ReqRec /\ Read(s, "find").pc = "find"
          /\ Read(s, "find").s = s /\ Read(s, "find").done = FALSE
      <4>1. Live(s)
        BY <1>3 DEF rescheduleSequence
      <4>2. "find" \in Pcs
        BY DEF Pcs
      <4> QED
        BY <4>1, <4>2, ReadType, Zenon
    <3>2. sa[s].num \in Nat
      BY <1>d DEF SaRec
    <3>3. rec \in ReqRec
      BY <2>1, <3>1, <3>2, ReqUpdates
    <3> QED
      BY <3>1, <3>3 DEF ReqRec
  <2> HIDE DEF rec
  <2>3. Sound(rec)
    BY <2>2 DEF Sound, ReqOK, Moving
  <2>4. Receive(r, rec, Starting(r, "find")) /\ UNCHANGED saVars
    BY <1>3 DEF rescheduleSequence, rec
  <2> QED
    BY <1>0, <2>3, <2>4, ReadsType
<1>4. ASSUME NEW st \in SaStatus, markSequence(r, s, st) PROVE PlanOK'
  <2>1. SaType'
    BY <1>0, <1>4, <1>d, SaUpdates DEF markSequence, SaType
  <2> DEFINE h == Starting(r, "idle")
             marked == MarkedIf(st = "done", s)
  <2>2. h \in LogRec
    BY <1>0
  <2>m. log.marked \in SUBSET Sa
    BY DEF PlanOK, LogType, LogRec
  <2>a. marked \in SUBSET Sa
    BY <2>m DEF MarkedIf
  <2>3. Receive(r, NoReq, [h EXCEPT !.marked = marked])
    BY <1>4 DEF markSequence
  <2> HIDE DEF h, marked
  <2>4. [h EXCEPT !.marked = marked] \in LogRec
    BY <2>2, <2>a, LogUpdates
  <2>5. UNCHANGED <<alt, rupture>>
    BY <1>4 DEF markSequence
  <2> QED
    BY <2>1, <2>3, <2>4, <2>5, NoReqType, ReceiveType, Unchanged, PlanTypesOf
<1>5. ASSUME deleteSequence(r, s) PROVE PlanOK'
  <2>1. SaType'
    BY <1>0, <1>5, deleteAllType DEF deleteSequence, SaType
  <2> QED
    BY <1>0, <1>5, <2>1, NoReqType, ReceiveType, Unchanged, PlanTypesOf
       DEF deleteSequence
<1> QED
  BY <1>1, <1>2, <1>3, <1>4, <1>5

LEMMA ContactTypes == ASSUME PlanOK, NEW r \in Req, WriteContacts(r) PROVE PlanOK'
<1> DEFINE q == req[r]
           seq == [sa[q.s] EXCEPT !.contacts = q.put]
<1>0. SaType /\ LogType /\ log \in LogRec
  BY DEF PlanOK, LogType
<1>1. q.s \in Sa /\ q.put \in SUBSET Contact
  BY ReqFields DEF WriteContacts, ReqOK
<1>2. sa[q.s] \in SaRec
  BY <1>0, <1>1 DEF SaType
<1>3. /\ seq \in SaRec
      /\ [seq EXCEPT !.st = "pending", !.real = None] \in SaRec
  BY <1>1, <1>2, SaUpdates
<1>4. StaleIf(Changed(q), q.s) \in SUBSET Sa
  BY <1>0, <1>1 DEF StaleIf, LogRec
<1>5. SaType'
  <2>1. CASE Live(q.s)
    <3>1. sa' = [sa EXCEPT ![q.s] =
                    IF q.back THEN [seq EXCEPT !.st = "pending", !.real = None]
                    ELSE seq]
      BY <2>1 DEF WriteContacts
    <3> HIDE DEF seq, q
    <3> QED
      BY <1>0, <1>3, <3>1 DEF SaType
  <2>2. CASE ~Live(q.s)
    BY <1>0, <2>2 DEF WriteContacts, SaType
  <2> QED
    BY <2>1, <2>2
<1>6. LogType'
  <2> DEFINE stale == StaleIf(Changed(q), q.s)
  <2>1. log' = [log EXCEPT !.stale = stale] \/ log' = log
    BY DEF WriteContacts
  <2>2. stale \in SUBSET Sa
    BY <1>4
  <2> HIDE DEF stale
  <2>3. [log EXCEPT !.stale = stale] \in LogRec
    BY <1>0, <2>2, LogUpdates
  <2> QED
    BY <1>0, <2>1, <2>3 DEF LogType
<1> QED
  BY <1>5, <1>6, NoReqType, GoToType, Unchanged, PlanTypesOf DEF WriteContacts

LEMMA MovingTypes ==
    ASSUME PlanOK, NEW r \in Req
    PROVE  /\ FindLater(r) => PlanOK'
           /\ ShiftLater(r) => PlanOK'
           /\ CommitSequence(r) => PlanOK'
<1> DEFINE q == req[r]
<1>0. SaType /\ LogType /\ log \in LogRec
  BY DEF PlanOK, LogType
<1>1. /\ q \in ReqRec /\ ReqOK(q) /\ q.day \in Int /\ q.delta \in Int
      /\ q.moves \in [Sa -> Int \cup {None}]
  BY ReqFields
<1>2. ASSUME FindLater(r) PROVE PlanOK'
  <2> DEFINE later == IF q.delta = 0 THEN {} ELSE Later(q.num)
             moves == [s \in Sa |->
                        IF s \in later THEN sa[s].day + q.delta ELSE None]
             rec == IF later = {} THEN [q EXCEPT !.pc = "commit"]
                    ELSE [q EXCEPT !.pc = "shift", !.moves = moves]
  <2>1. moves \in [Sa -> Int \cup {None}]
    BY <1>0, <1>1 DEF SaType, SaRec
  <2>2. rec \in ReqRec
    BY <1>1, <2>1, ReqUpdates DEF Pcs
  <2>3. /\ rec.pc \in Moving /\ rec.s = q.s /\ rec.done = q.done
        /\ rec.contacts = q.contacts
    BY <1>1 DEF ReqRec, Moving
  <2>4. GoTo(r, rec) /\ UNCHANGED <<saVars, log>> /\ q.pc = "find"
    BY <1>2 DEF FindLater
  <2> HIDE DEF rec
  <2>5. Sound(rec)
    BY <1>1, <2>2, <2>3, <2>4 DEF Sound, ReqOK, Moving
  <2> QED
    BY <2>4, <2>5, GoToType, Unchanged, PlanTypesOf DEF saVars
<1>3. ASSUME ShiftLater(r) PROVE PlanOK'
  <2> DEFINE rec == [q EXCEPT !.pc = "commit"]
             stale == log.stale \cup
                {s \in {s \in Sa : q.moves[s] # None /\ Live(s)} :
                    sa[s].st # "pending" \/ sa[s].day + q.delta # q.moves[s]}
  <2>1. rec \in ReqRec
    BY <1>1, ReqUpdates DEF Pcs
  <2>2. /\ rec.pc = "commit" /\ rec.s = q.s /\ rec.done = q.done
        /\ rec.contacts = q.contacts
    BY <1>1 DEF ReqRec
  <2>3. /\ sa' = [s \in Sa |-> IF s \in {t \in Sa : q.moves[t] # None /\ Live(t)}
                    THEN [sa[s] EXCEPT !.day = q.moves[s]] ELSE sa[s]]
        /\ log' = [log EXCEPT !.stale = stale]
        /\ GoTo(r, rec) /\ q.pc = "shift" /\ alt' = alt /\ rupture' = rupture
    BY <1>3 DEF ShiftLater
  <2>4. SaType'
    BY <1>0, <1>1, <2>3, SaUpdates DEF SaType
  <2>5. LogType'
    <3>1. stale \in SUBSET Sa
      BY <1>0 DEF LogRec
    <3> HIDE DEF stale
    <3> QED
      BY <1>0, <2>3, <3>1, LogUpdates DEF LogType
  <2> HIDE DEF rec
  <2>6. Sound(rec)
    BY <1>1, <2>1, <2>2, <2>3 DEF Sound, ReqOK, Moving
  <2> QED
    BY <2>3, <2>4, <2>5, <2>6, GoToType, Unchanged, PlanTypesOf
<1>4. ASSUME CommitSequence(r) PROVE PlanOK'
  <2> DEFINE want == [s \in Sa |->
                IF sa[s].st = "pending" /\ sa[s].auto /\ sa[s].num > q.num
                THEN log.want[s] + q.day - sa[q.s].day ELSE log.want[s]]
             wanted == IF q.done THEN want ELSE [want EXCEPT ![q.s] = q.day]
             seq == IF q.done THEN [sa[q.s] EXCEPT !.st = "done", !.real = q.day]
                    ELSE [sa[q.s] EXCEPT !.day = q.day]
  <2>1. q.s \in Sa /\ q.pc = "commit"
    BY <1>1, <1>4 DEF CommitSequence, ReqOK, Moving
  <2>2. sa[q.s] \in SaRec
    BY <1>0, <2>1 DEF SaType
  <2>3. seq \in SaRec
    BY <1>1, <2>2, SaUpdates
  <2>4. want \in [Sa -> Int]
    BY <1>0, <1>1, <2>2 DEF LogRec, SaRec
  <2>5. wanted \in [Sa -> Int]
    BY <1>1, <2>4
  <2>6. StaleIf(Changed(q), q.s) \in SUBSET Sa
    BY <1>0, <2>1 DEF StaleIf, LogRec
  <2> DEFINE marked == IF q.done THEN log.marked \ {q.s} ELSE log.marked
  <2>m. marked \in SUBSET Sa
    BY <1>0 DEF LogRec
  <2>7. IF Live(q.s)
        THEN /\ sa' = [sa EXCEPT ![q.s] = seq]
             /\ log' = [log EXCEPT !.stale = StaleIf(Changed(q), q.s),
                                   !.marked = marked, !.want = wanted]
        ELSE sa' = sa /\ log' = log
    BY <1>4, <2>1 DEF CommitSequence
  <2> HIDE DEF want, wanted, seq, marked
  <2>8. SaType'
    BY <1>0, <2>3, <2>7 DEF SaType
  <2>9. LogType'
    <3>1. [log EXCEPT !.stale = StaleIf(Changed(q), q.s), !.marked = marked,
                      !.want = wanted] \in LogRec
      BY <1>0, <2>5, <2>6, <2>m, LogUpdates
    <3> QED
      BY <1>0, <2>7, <3>1 DEF LogType
  <2> QED
    BY <1>4, <2>8, <2>9, NoReqType, GoToType, Unchanged, PlanTypesOf
       DEF CommitSequence
<1> QED
  BY <1>2, <1>3, <1>4

LEMMA RuptureTypes ==
    ASSUME PlanOK, NEW r \in Req
    PROVE  /\ \A quit \in BOOLEAN : declareRupture(r, quit) => PlanOK'
           /\ \A quits \in 0 .. rupture.all :
                updateRupture(r, quits) => PlanOK'
           /\ \A quit \in BOOLEAN : deleteRupture(r, quit) => PlanOK'
<1>0. /\ rupture.all \in Nat /\ rupture.quits \in Nat
      /\ rupture.quits <= rupture.all
  BY DEF PlanOK, RuptureType
<1>1. ASSUME NEW all \in Nat, NEW quits \in Nat, quits <= all,
             WriteRupture(r, all, quits)
      PROVE  PlanOK'
  <2> DEFINE rec == [NoReq EXCEPT !.pc = "judge"]
  <2>1. rec \in ReqRec /\ rec.pc = "judge"
    BY NoReqType DEF Sound, ReqRec
  <2> HIDE DEF rec
  <2>2. Sound(rec)
    BY <2>1 DEF Sound, ReqOK, Moving
  <2>3. Decide(r, "judge", "ruptures") \in LogRec
    BY StartingType DEF PlanOK
  <2>4. RuptureType'
    BY <1>1 DEF WriteRupture, RuptureType
  <2> QED
    BY <1>1, <2>2, <2>3, <2>4, ReceiveType, Unchanged, PlanTypesOf
       DEF WriteRupture, rec
<1>2. ASSUME NEW quit \in BOOLEAN, declareRupture(r, quit) PROVE PlanOK'
  BY <1>0, <1>1, <1>2 DEF declareRupture
<1>3. ASSUME NEW quits \in 0 .. rupture.all, updateRupture(r, quits)
      PROVE  PlanOK'
  BY <1>0, <1>1, <1>3 DEF updateRupture
<1>4. ASSUME NEW quit \in BOOLEAN, deleteRupture(r, quit) PROVE PlanOK'
  BY <1>0, <1>1, <1>4 DEF deleteRupture
<1> QED
  BY <1>2, <1>3, <1>4

LEMMA ArchiveTypes ==
    ASSUME PlanOK, NEW r \in Req
    PROVE  /\ \A to \in Reason \cup {"none"} : archive(r, to) => PlanOK'
           /\ Judge(r) => PlanOK'
           /\ ArchiveSas(r) => PlanOK'
           /\ WritePerson(r) => PlanOK'
           /\ Fail(r) => PlanOK'
<1> DEFINE q == req[r]
<1>0. SaType /\ LogType /\ log \in LogRec /\ alt \in AltRec
  BY DEF PlanOK, LogType, AltType
<1>q. q \in ReqRec /\ ReqOK(q) /\ q.to \in Reason \cup {"none", "gone"}
  BY ReqFields
<1>1. ASSUME NEW to \in Reason \cup {"none"}, archive(r, to) PROVE PlanOK'
  <2> DEFINE rec == [NoReq EXCEPT !.pc = "person", !.to = to]
  <2>1. rec \in ReqRec /\ rec.pc = "person"
    BY NoReqType DEF Sound, ReqRec
  <2> HIDE DEF rec
  <2>2. Sound(rec)
    BY <2>1 DEF Sound, ReqOK, Moving
  <2>3. [Decide(r, "person", "staff") EXCEPT !.since = {}] \in LogRec
    BY <1>0, StartingType, LogUpdates
  <2>4. SaType'
    BY <1>0, <1>1, setArchivedType DEF archive, SaType
  <2> QED
    BY <1>1, <2>2, <2>3, <2>4, ReceiveType, Unchanged, PlanTypesOf
       DEF archive, rec
<1>2. ASSUME Judge(r) PROVE PlanOK'
  <2> DEFINE rec == IF Quits THEN [q EXCEPT !.pc = "sas", !.to = "rupture"]
                    ELSE IF FromRupture THEN [q EXCEPT !.pc = "sas"] ELSE NoReq
  <2>1. rec \in ReqRec /\ (rec = NoReq \/ rec.pc = "sas")
    <3>1. [q EXCEPT !.pc = "sas", !.to = "rupture"] \in ReqRec
      BY <1>q, ReqUpdates
    <3>2. [q EXCEPT !.pc = "sas"] \in ReqRec
      BY <1>q, ReqUpdates DEF Pcs
    <3>3. /\ [q EXCEPT !.pc = "sas", !.to = "rupture"].pc = "sas"
          /\ [q EXCEPT !.pc = "sas"].pc = "sas"
      BY <1>q DEF ReqRec
    <3> HIDE DEF q
    <3> QED
      BY <3>1, <3>2, <3>3, NoReqType DEF Sound
  <2> HIDE DEF rec
  <2>2. Sound(rec)
    BY <2>1, NoReqType DEF Sound, ReqOK, Moving
  <2> QED
    BY <1>2, <2>2, GoToType, Unchanged, PlanTypesOf DEF Judge, saVars, rec
<1>3. ASSUME ArchiveSas(r) PROVE PlanOK'
  <2> DEFINE rec == [q EXCEPT !.pc = "person"]
  <2>1. rec \in ReqRec
    BY <1>q, ReqUpdates DEF Pcs
  <2>2. rec.pc = "person"
    BY <1>q DEF ReqRec
  <2> HIDE DEF rec
  <2>3. Sound(rec)
    BY <2>1, <2>2 DEF Sound, ReqOK, Moving
  <2>4. SaType'
    BY <1>0, <1>3, setArchivedType DEF ArchiveSas, SaType
  <2>5. LogType'
    BY <1>0, <1>3, LogUpdates DEF ArchiveSas, LogType
  <2> QED
    BY <1>3, <2>3, <2>4, <2>5, GoToType, Unchanged, PlanTypesOf
       DEF ArchiveSas, rec
<1>4. ASSUME WritePerson(r) PROVE PlanOK'
  <2>1. AltType'
    BY <1>0, <1>4, <1>q DEF WritePerson, AltType, AltRec, Reason
  <2>2. LogType'
    BY <1>0, <1>4 DEF WritePerson, LogType, LogRec
  <2> QED
    BY <1>4, <2>1, <2>2, NoReqType, GoToType, Unchanged, PlanTypesOf
       DEF WritePerson
<1>5. ASSUME Fail(r) PROVE PlanOK'
  <2>1. LogType'
    BY <1>0, <1>5, LogUpdates DEF Fail, LogType
  <2>2. ReqType' /\ CountType'
    BY <1>5, NoReqType DEF Fail, PlanOK, ReqType, CountType, Sound
  <2> QED
    BY <1>5, <2>1, <2>2, Unchanged, PlanTypesOf DEF Fail, saVars
<1> QED
  BY <1>1, <1>2, <1>3, <1>4, <1>5

LEMMA PlanNextTypes == PlanOK /\ PlanNext => PlanOK'
<1> SUFFICES ASSUME PlanOK, NEW r \in Req, Staff(r) \/ Continue(r) PROVE PlanOK'
  BY DEF PlanNext
<1>1. CASE Staff(r)
  <2>1. \A s \in Sa : sa[s].contacts \in SUBSET Contact
    BY DEF PlanOK, SaType, SaRec
  <2>2. \A s \in Sa, c \in Contact :
          /\ sa[s].contacts \cup {c} \in SUBSET Contact
          /\ sa[s].contacts \ {c} \in SUBSET Contact
    BY <2>1
  <2> QED
    BY <1>1, <2>2, ReceiveTypes, OneSaTypes, RuptureTypes, ArchiveTypes DEF Staff
<1>2. CASE Continue(r)
  BY <1>2, PlanStepTypes, ContactTypes, MovingTypes, ArchiveTypes DEF Continue
<1> QED
  BY <1>1, <1>2

-----------------------------------------------------------------------------
(* The scheduler.                                                          *)

TickOK ==
    /\ today \in Nat
    /\ tick \in TickRec
    /\ tick.pc = "mark" => tick.s \in Queue
    /\ notice \in NoticeRec

LEMMA QueueType ==
    ASSUME TickOK
    PROVE  /\ Queue \subseteq Sa /\ CurrentKind \in Kind
           /\ NoTick \in TickRec /\ NoTick.pc = "idle"
           /\ \A s \in Sa : Done(s) \in TickRec /\ Done(s).pc # "mark"
<1>1. tick \in TickRec /\ tick.soon \in SUBSET Sa /\ tick.late \in SUBSET Sa
  BY DEF TickOK, TickRec
<1>2. NoTick \in TickRec /\ NoTick.pc = "idle"
  BY DEF NoTick, TickRec
<1>3. ASSUME NEW s \in Sa PROVE Done(s) \in TickRec /\ Done(s).pc # "mark"
  <2> DEFINE rest == [tick EXCEPT !.pc = "loop", !.s = None, !.soon = @ \ {s},
                      !.late = IF tick.soon = {} THEN @ \ {s} ELSE @]
  <2>1. rest \in TickRec /\ rest.pc = "loop"
    BY <1>1 DEF TickRec
  <2> QED
    BY <1>2, <2>1 DEF Done
<1> QED
  BY <1>1, <1>2, <1>3 DEF Queue, CurrentKind, Kind

LEMMA NoticeUpdates ==
    ASSUME NEW n \in NoticeRec, NEW k \in Kind, NEW s \in Sa
    PROVE  /\ [n EXCEPT !.sent[k][s] = @ + 1] \in NoticeRec
           /\ [n EXCEPT !.failed[k][s] = @ + 1] \in NoticeRec
           /\ [n EXCEPT !.sent[k][s] = @ + 1, !.failed[k][s] = @ + 1] \in NoticeRec
           /\ [n EXCEPT !.passed[k] = @ \cup {s}] \in NoticeRec
<1>1. /\ n.sent \in [Kind -> [Sa -> Nat]] /\ n.failed \in [Kind -> [Sa -> Nat]]
      /\ n.passed \in [Kind -> SUBSET Sa]
  BY DEF NoticeRec
<1>2. /\ n.sent[k] \in [Sa -> Nat] /\ n.sent[k][s] \in Nat
      /\ n.failed[k] \in [Sa -> Nat] /\ n.failed[k][s] \in Nat
      /\ n.passed[k] \in SUBSET Sa
  BY <1>1
<1>3. /\ [n.sent EXCEPT ![k][s] = @ + 1] \in [Kind -> [Sa -> Nat]]
      /\ [n.failed EXCEPT ![k][s] = @ + 1] \in [Kind -> [Sa -> Nat]]
      /\ [n.passed EXCEPT ![k] = @ \cup {s}] \in [Kind -> SUBSET Sa]
  BY <1>1, <1>2
<1> QED
  BY <1>1, <1>3 DEF NoticeRec

\* What the scheduler does to the plan: it counts failures and marks SA.
LEMMA SchedulerFrame ==
    ASSUME PlanOK, TickOK,
           \/ Scheduler
           \/ \E s \in Sa, some \in BOOLEAN : NotifyFails(s, some)
           \/ TickStops \/ DayPasses
    PROVE  /\ UNCHANGED <<alt, rupture, req, ops, log>> /\ faults' \in Nat
           /\ sa' \in [Sa -> SaRec]
           /\ \A s \in Sa :
                /\ sa'[s].st = sa[s].st /\ sa'[s].day = sa[s].day
                /\ sa'[s].num = sa[s].num /\ sa'[s].auto = sa[s].auto
                /\ sa'[s].contacts = sa[s].contacts
                /\ sa'[s].real = sa[s].real /\ sa'[s].arch = sa[s].arch
<1>0. sa \in [Sa -> SaRec] /\ faults \in Nat
  BY DEF PlanOK, SaType, CountType
<1>1. CASE Mark
  <2>1. tick.s \in Sa
    BY <1>1, QueueType DEF Mark, TickOK
  <2>2. sa[tick.s] \in SaRec
    BY <1>0, <2>1
  <2>3. \/ sa' = sa
        \/ sa' = [sa EXCEPT ![tick.s].soon = TRUE]
        \/ sa' = [sa EXCEPT ![tick.s].late = TRUE]
    BY <1>1 DEF Mark
  <2>4. sa' \in [Sa -> SaRec]
    BY <1>0, <2>1, <2>2, <2>3, SaUpdates
  <2>5. ASSUME NEW s \in Sa
        PROVE  /\ sa'[s].st = sa[s].st /\ sa'[s].day = sa[s].day
               /\ sa'[s].num = sa[s].num /\ sa'[s].auto = sa[s].auto
               /\ sa'[s].contacts = sa[s].contacts
               /\ sa'[s].real = sa[s].real /\ sa'[s].arch = sa[s].arch
    <3>1. sa[s] \in SaRec
      BY <1>0
    <3> QED
      BY <1>0, <2>3, <3>1 DEF SaRec
  <2> QED
    BY <1>0, <1>1, <2>4, <2>5 DEF Mark, reqVars
<1>2. CASE StartTick \/ (\E s \in Sa : Notify(s)) \/ DayPasses
  BY <1>0, <1>2 DEF StartTick, Notify, DayPasses, planVars, saVars, reqVars
<1>3. CASE TickStops
  BY <1>0, <1>3 DEF TickStops, saVars
<1>4. CASE \E s \in Sa, some \in BOOLEAN : NotifyFails(s, some)
  <2>1. UNCHANGED <<saVars, req, ops, log>> /\ faults' = faults + 1
    BY <1>4 DEF NotifyFails
  <2> QED
    BY <1>0, <2>1 DEF saVars
<1> QED
  BY <1>1, <1>2, <1>3, <1>4 DEF Scheduler

LEMMA SchedulerTypes ==
    ASSUME PlanOK, TickOK,
           \/ Scheduler
           \/ \E s \in Sa, some \in BOOLEAN : NotifyFails(s, some)
           \/ TickStops \/ DayPasses
    PROVE  PlanOK' /\ TickOK'
<1>1. PlanOK'
  BY SchedulerFrame
     DEF PlanOK, SaType, AltType, RuptureType, ReqType, CountType, LogType
<1>2. /\ today \in Nat /\ tick \in TickRec /\ notice \in NoticeRec
      /\ CurrentKind \in Kind
  BY QueueType DEF TickOK
<1>3. ASSUME StartTick PROVE TickOK'
  <2> DEFINE new == [NoTick EXCEPT !.pc = "loop", !.soon = SoonUnnotified,
                                   !.late = LateUnnotified]
  <2>1. new \in TickRec /\ new.pc = "loop"
    BY QueueType DEF TickRec, SoonUnnotified, LateUnnotified
  <2> QED
    BY <1>2, <1>3, <2>1 DEF StartTick, TickOK
<1>4. ASSUME \E s \in Sa : Notify(s) PROVE TickOK'
  <2>1. PICK s \in Sa : Notify(s)
    BY <1>4
  <2>2. tick' \in TickRec /\ tick'.s = s /\ Queue' = Queue
    BY <1>2, <2>1 DEF Notify, TickRec, Queue
  <2>3. notice' \in NoticeRec
    BY <1>2, <2>1, NoticeUpdates DEF Notify
  <2> QED
    BY <1>2, <2>1, <2>2, <2>3 DEF Notify, TickOK
<1>5. ASSUME Mark PROVE TickOK'
  <2>1. tick.s \in Sa
    BY <1>5, QueueType DEF Mark, TickOK
  <2> QED
    BY <1>2, <1>5, <2>1, QueueType DEF Mark, TickOK
<1>6. ASSUME \E s \in Sa, some \in BOOLEAN : NotifyFails(s, some) PROVE TickOK'
  <2>1. PICK s \in Sa, some \in BOOLEAN : NotifyFails(s, some)
    BY <1>6
  <2>2. notice' \in NoticeRec
    BY <1>2, <2>1, NoticeUpdates DEF NotifyFails
  <2> QED
    BY <1>2, <2>1, <2>2, QueueType DEF NotifyFails, AfterFailure, TickOK
<1>7. ASSUME TickStops PROVE TickOK'
  <2>1. tick.pc = "mark" => tick.s \in Sa
    BY QueueType DEF TickOK
  <2>2. notice' \in NoticeRec
    BY <1>2, <1>7, <2>1, NoticeUpdates DEF TickStops
  <2> QED
    BY <1>2, <1>7, <2>2, QueueType DEF TickStops, AfterCrash, TickOK
<1>8. ASSUME DayPasses PROVE TickOK'
  BY <1>2, <1>8 DEF DayPasses, TickOK, Queue
<1> QED
  BY <1>1, <1>3, <1>4, <1>5, <1>6, <1>7, <1>8 DEF Scheduler

TypeInv == PlanOK /\ TickOK

LEMMA TypeParts == TypeInv => TypeOK
  BY PlanTypes DEF TypeInv, TickOK, TypeOK

LEMMA TypeInductive == TypeInv /\ [Next]_vars => TypeInv'
<1> SUFFICES ASSUME TypeInv, [Next]_vars PROVE TypeInv'
  OBVIOUS
<1>1. CASE PlanNext /\ UNCHANGED notificationVars
  BY <1>1, PlanNextTypes DEF TypeInv, TickOK, notificationVars, Queue
<1>2. CASE UNCHANGED vars
  BY <1>2 DEF TypeInv, PlanOK, TickOK, SaType, AltType, RuptureType, ReqType,
     CountType, LogType, Queue, vars, planVars, saVars, reqVars, notificationVars
<1> QED
  BY <1>1, <1>2, SchedulerTypes DEF Next, TypeInv

LEMMA TypeInitial == Init => TypeInv
<1> SUFFICES ASSUME Init PROVE TypeInv
  OBVIOUS
<1> PICK w \in Situation : PlanInit(w) /\ today = w.today
  BY DEF Init
<1>1. SituationOK(w)
  BY PlanningAssumption DEF PlanningAssumption
<1>2. LogType
  BY <1>1 DEF PlanInit, SituationOK, LogType, LogRec, SaRec
<1>3. ReqType
  BY NoReqType DEF PlanInit, ReqType, Sound
<1>4. PlanOK
  BY <1>1, <1>2, <1>3 DEF PlanInit, SituationOK, PlanOK, SaType, AltType,
     RuptureType, CountType
<1>5. TickOK
  BY <1>1 DEF Init, SituationOK, TickOK, NoTick, TickRec, NoticeRec, Kind
<1> QED
  BY <1>4, <1>5 DEF TypeInv

LEMMA TypesAlways == Spec => []TypeInv
  BY TypeInitial, TypeInductive, PTL DEF Spec

\* Whatever the requests, the failures and the days that pass, the variables
\* keep their types.
THEOREM TypeCorrect == Spec => []TypeOK
  BY TypesAlways, TypeParts, PTL

-----------------------------------------------------------------------------
(* What a request does to the documents.  Only CreateSequence makes one;   *)
(* number, origin and marks of a SA never change, and a deleted one stays  *)
(* so.                                                                     *)

SaKept(s) ==
    /\ sa'[s].num = sa[s].num /\ sa'[s].auto = sa[s].auto
    /\ sa'[s].soon = sa[s].soon /\ sa'[s].late = sa[s].late
    /\ sa'[s].st = "none" <=> sa[s].st = "none"
    /\ sa[s].st = "deleted" => sa'[s].st = "deleted"

LEMMA Created ==
    ASSUME PlanOK, NEW r \in Req, CreateSequence(r)
    PROVE  /\ NewSa \in Sa /\ sa[NewSa].st = "none"
           /\ sa'[NewSa] = Planned("pending", Head(req[r].plan), req[r].num,
                                   req[r].auto)
           /\ Head(req[r].plan) \in Int
           /\ \A s \in Sa : s # NewSa => sa'[s] = sa[s]
           /\ log' = [log EXCEPT !.want[NewSa] = Head(req[r].plan),
                                 !.since = @ \cup {NewSa}]
<1>1. NewSa \in Sa /\ sa[NewSa].st = "none"
  BY DEF CreateSequence, CanCreate, NewSa
<1>2. Head(req[r].plan) \in Int
  BY ReqFields DEF CreateSequence, ReqOK
<1> QED
  BY <1>1, <1>2 DEF CreateSequence, PlanOK, SaType

LEMMA DocumentsKept ==
    ASSUME PlanOK, NEW r \in Req, Staff(r) \/ Continue(r), ~CreateSequence(r)
    PROVE  \A s \in Sa : SaKept(s)
<1>0. sa \in [Sa -> SaRec] /\ \A s \in Sa : sa[s] \in SaRec
  BY DEF PlanOK, SaType
<1>1. CASE sa' = sa
  BY <1>1 DEF SaKept
<1>2. ASSUME NEW Gone \in SUBSET Sa, sa' = deleteAll(Gone),
             \A s \in Gone : Live(s)
      PROVE  \A s \in Sa : SaKept(s)
  BY <1>0, <1>2 DEF deleteAll, SaKept, SaRec, Live, SaStatus
<1>3. ASSUME NEW arch, sa' = setArchived(arch) PROVE \A s \in Sa : SaKept(s)
  BY <1>0, <1>3 DEF setArchived, SaKept, SaRec
<1>4. ASSUME NEW s \in Sa, NEW st \in SaStatus, Live(s),
             sa' = [sa EXCEPT ![s].st = st]
      PROVE  \A t \in Sa : SaKept(t)
  BY <1>0, <1>4 DEF SaKept, SaRec, Live, SaStatus
<1>5. ASSUME WriteContacts(r) PROVE \A s \in Sa : SaKept(s)
  <2> DEFINE q == req[r]
             seq == [sa[q.s] EXCEPT !.contacts = q.put]
  <2>1. q.s \in Sa
    BY <1>5, ReqFields DEF WriteContacts, ReqOK
  <2>2. sa[q.s] \in SaRec
    BY <1>0, <2>1
  <2>3. CASE Live(q.s)
    <3>1. sa' = [sa EXCEPT ![q.s] =
                    IF q.back THEN [seq EXCEPT !.st = "pending", !.real = None]
                    ELSE seq]
      BY <1>5, <2>3 DEF WriteContacts
    <3>2. /\ sa'[q.s].num = sa[q.s].num /\ sa'[q.s].auto = sa[q.s].auto
          /\ sa'[q.s].soon = sa[q.s].soon /\ sa'[q.s].late = sa[q.s].late
          /\ sa'[q.s].st \in {"pending", sa[q.s].st}
      BY <1>0, <2>1, <2>2, <3>1 DEF SaRec
    <3>3. \A s \in Sa : s # q.s => sa'[s] = sa[s]
      BY <1>0, <3>1
    <3> HIDE DEF q
    <3> QED
      BY <2>1, <2>3, <3>2, <3>3 DEF SaKept, Live, SaStatus
  <2>4. CASE ~Live(q.s)
    BY <1>1, <1>5, <2>4 DEF WriteContacts
  <2> QED
    BY <2>3, <2>4
<1>6. ASSUME ShiftLater(r) PROVE \A s \in Sa : SaKept(s)
  BY <1>0, <1>6 DEF ShiftLater, SaKept, SaRec
<1>7. ASSUME CommitSequence(r) PROVE \A s \in Sa : SaKept(s)
  <2> DEFINE q == req[r]
  <2>1. q.s \in Sa
    BY <1>7, ReqFields DEF CommitSequence, ReqOK, Moving
  <2>2. sa[q.s] \in SaRec
    BY <1>0, <2>1
  <2>3. CASE Live(q.s)
    <3>1. sa' = [sa EXCEPT ![q.s] =
                    IF q.done THEN [@ EXCEPT !.st = "done", !.real = q.day]
                    ELSE [@ EXCEPT !.day = q.day]]
      BY <1>7, <2>3 DEF CommitSequence
    <3>2. /\ sa'[q.s].num = sa[q.s].num /\ sa'[q.s].auto = sa[q.s].auto
          /\ sa'[q.s].soon = sa[q.s].soon /\ sa'[q.s].late = sa[q.s].late
          /\ sa'[q.s].st \in {"done", sa[q.s].st}
      BY <1>0, <2>1, <2>2, <3>1 DEF SaRec
    <3>3. \A s \in Sa : s # q.s => sa'[s] = sa[s]
      BY <1>0, <3>1
    <3> HIDE DEF q
    <3> QED
      BY <2>1, <2>3, <3>2, <3>3 DEF SaKept, Live, SaStatus
  <2>4. CASE ~Live(q.s)
    BY <1>1, <1>7, <2>4 DEF CommitSequence
  <2> QED
    BY <2>3, <2>4
<1>8. CASE Staff(r)
  <2>1. CASE \/ \E plan \in Plans : create(r, plan) \/ changeCompany(r, plan)
             \/ \E day \in Day : createManualSequence(r, day)
             \/ \E s \in Sa :
                \/ \E c \in Contact :
                    \/ updateSequenceContacts(r, s, sa[s].contacts \cup {c})
                    \/ updateSequenceContacts(r, s, sa[s].contacts \ {c})
                \/ \E day \in Day : completeSequence(r, s, day)
                                    \/ rescheduleSequence(r, s, day)
             \/ \E quit \in BOOLEAN :
                declareRupture(r, quit) \/ deleteRupture(r, quit)
             \/ \E quits \in 0 .. rupture.all : updateRupture(r, quits)
    BY <1>1, <2>1 DEF create, changeCompany, createManualSequence,
       updateSequenceContacts, completeSequence, rescheduleSequence,
       declareRupture, updateRupture, deleteRupture, WriteRupture, saVars
  <2>2. CASE removeCompany(r) \/ delete(r)
    BY <1>2, <2>2 DEF removeCompany, delete
  <2>3. CASE \E s \in Sa : \/ \E st \in SaStatus : markSequence(r, s, st)
                           \/ deleteSequence(r, s)
    <3>1. ASSUME NEW s \in Sa, NEW st \in SaStatus, markSequence(r, s, st)
          PROVE  \A t \in Sa : SaKept(t)
      BY <1>4, <3>1 DEF markSequence
    <3>2. ASSUME NEW s \in Sa, deleteSequence(r, s)
          PROVE  \A t \in Sa : SaKept(t)
      BY <1>2, <3>2 DEF deleteSequence
    <3> QED
      BY <2>3, <3>1, <3>2
  <2>4. CASE \E to \in Reason \cup {"none"} : archive(r, to)
    BY <1>3, <2>4 DEF archive
  <2> QED
    BY <1>8, <2>1, <2>2, <2>3, <2>4 DEF Staff
<1>9. CASE Continue(r) /\ ~CreateSequence(r)
  <2>1. CASE \/ ReadNumero(r) \/ ClearCompany(r) \/ DeleteRuptures(r)
             \/ FindLater(r) \/ Judge(r) \/ WritePerson(r) \/ Fail(r)
    BY <1>1, <2>1 DEF ReadNumero, ClearCompany, DeleteRuptures, FindLater,
       Judge, WritePerson, Fail, saVars
  <2>2. CASE deleteAutoPending(r)
    BY <1>2, <2>2 DEF deleteAutoPending, AutoPending, Live, SaStatus
  <2>3. CASE ArchiveSas(r)
    BY <1>3, <2>3 DEF ArchiveSas
  <2> QED
    BY <1>5, <1>6, <1>7, <1>9, <2>1, <2>2, <2>3 DEF Continue
<1> QED
  BY <1>8, <1>9

-----------------------------------------------------------------------------
(* What has been sent.  A SA still to be told about, or not marked yet, has *)
(* had no notification but those that failed; the one being marked has had  *)
(* one more.                                                                *)

Asked(k) == IF k = "soon" THEN tick.soon ELSE tick.late
Flag(k, s) == IF k = "soon" THEN sa[s].soon ELSE sa[s].late
AtMark(k, s) == tick.pc = "mark" /\ tick.s = s /\ CurrentKind = k

CountOK(k, s) ==
    /\ notice.sent[k][s] <= 1 + notice.failed[k][s]
    /\ s \in Asked(k) /\ ~AtMark(k, s) =>
            notice.sent[k][s] <= notice.failed[k][s]
    /\ sa[s].st # "deleted" /\ ~Flag(k, s) /\ ~AtMark(k, s) =>
            notice.sent[k][s] <= notice.failed[k][s]
    /\ AtMark(k, s) \/ Flag(k, s) =>
            notice.sent[k][s] > 0 \/ s \in notice.passed[k]

NotifyInv ==
    /\ \A s \in Sa : sa[s].st = "none" =>
            ~sa[s].soon /\ ~sa[s].late /\ s \notin tick.soon \cup tick.late
    /\ \A k \in Kind, s \in Sa : CountOK(k, s)

LEMMA Counts ==
    ASSUME TickOK, NEW k \in Kind, NEW s \in Sa
    PROVE  /\ notice.sent[k][s] \in Nat /\ notice.failed[k][s] \in Nat
           /\ notice.passed[k] \in SUBSET Sa
           /\ Asked(k) \in SUBSET Sa
  BY DEF TickOK, NoticeRec, TickRec, Asked

\* Leaving a SA takes it out of the list in hand and adds to none.
LEMMA DoneFacts ==
    ASSUME TickOK, NEW s \in Sa, tick' = Done(s)
    PROVE  /\ \A k \in Kind : Asked(k)' \subseteq Asked(k)
           /\ \A k \in Kind : k = CurrentKind => s \notin Asked(k)'
           /\ \A k \in Kind, t \in Sa : ~AtMark(k, t)'
<1>1. tick \in TickRec
  BY DEF TickOK
<1> DEFINE rest == [tick EXCEPT !.pc = "loop", !.s = None, !.soon = @ \ {s},
                    !.late = IF tick.soon = {} THEN @ \ {s} ELSE @]
<1>2. /\ rest.soon = tick.soon \ {s}
      /\ rest.late = IF tick.soon = {} THEN tick.late \ {s} ELSE tick.late
      /\ rest.pc = "loop"
  BY <1>1 DEF TickRec
<1>3. NoTick.soon = {} /\ NoTick.late = {} /\ NoTick.pc = "idle"
  BY DEF NoTick
<1>4. tick' = rest \/ tick' = NoTick
  BY DEF Done
<1> HIDE DEF rest
<1>5. tick'.pc # "mark"
  BY <1>2, <1>3, <1>4
<1>6. \A k \in Kind : Asked(k)' \subseteq Asked(k)
  BY <1>2, <1>3, <1>4 DEF Asked
<1>7. \A k \in Kind : k = CurrentKind => s \notin Asked(k)'
  BY <1>2, <1>3, <1>4 DEF Asked, CurrentKind
<1> QED
  BY <1>5, <1>6, <1>7 DEF AtMark

LEMMA NotifyInitial == Init => NotifyInv
<1> SUFFICES ASSUME Init PROVE NotifyInv
  OBVIOUS
<1> PICK w \in Situation : PlanInit(w) /\ today = w.today
  BY DEF Init
<1>1. SituationOK(w)
  BY PlanningAssumption DEF PlanningAssumption
<1>2. \A s \in Sa : ~sa[s].soon /\ ~sa[s].late
  BY <1>1 DEF PlanInit, SituationOK
<1>3. tick = NoTick /\ \A k \in Kind, s \in Sa :
            notice.sent[k][s] = 0 /\ notice.failed[k][s] = 0
  BY DEF Init
<1> QED
  BY <1>2, <1>3 DEF NotifyInv, CountOK, Asked, Flag, AtMark, NoTick

LEMMA PlanNotify ==
    ASSUME TypeInv, NotifyInv, PlanNext, UNCHANGED notificationVars
    PROVE  NotifyInv'
<1>1. /\ UNCHANGED <<tick, notice>>
      /\ \A k, s : AtMark(k, s)' = AtMark(k, s)
      /\ \A k : Asked(k)' = Asked(k)
  BY DEF notificationVars, AtMark, Asked, CurrentKind
<1>2. PICK r \in Req : Staff(r) \/ Continue(r)
  BY DEF PlanNext
<1>3. PlanOK /\ TickOK
  BY DEF TypeInv
<1>4. ASSUME NEW s \in Sa, SaKept(s)
      PROVE  /\ sa'[s].st = "none" =>
                    ~sa'[s].soon /\ ~sa'[s].late /\ s \notin tick'.soon \cup tick'.late
             /\ \A k \in Kind : CountOK(k, s)'
  <2>1. \A k : Flag(k, s)' = Flag(k, s)
    BY <1>4 DEF SaKept, Flag
  <2> QED
    BY <1>1, <1>4, <2>1 DEF NotifyInv, CountOK, SaKept
<1>5. CASE ~CreateSequence(r)
  BY <1>2, <1>3, <1>4, <1>5, DocumentsKept DEF NotifyInv
<1>6. CASE CreateSequence(r)
  <2> PICK n \in Sa : n = NewSa
    BY <1>3, <1>6, Created
  <2>1. \A s \in Sa : s # n => SaKept(s)
    BY <1>3, <1>6, Created DEF SaKept
  <2>2. /\ n \in Sa /\ sa[n].st = "none" /\ sa'[n].st = "pending"
        /\ sa'[n].soon = FALSE /\ sa'[n].late = FALSE
    <3>1. /\ sa[n].st = "none"
          /\ sa'[n] = Planned("pending", Head(req[r].plan), req[r].num,
                              req[r].auto)
      BY <1>3, <1>6, Created
    <3> QED
      BY <3>1 DEF Planned
  <2>3. ASSUME NEW k \in Kind PROVE CountOK(k, n)'
    <3>1. ~AtMark(k, n)
      BY <1>3, <2>2 DEF NotifyInv, AtMark, TickOK, Queue
    <3>2. n \notin Asked(k) /\ ~Flag(k, n) /\ ~Flag(k, n)'
      BY <2>2 DEF NotifyInv, Asked, Flag
    <3>3. CountOK(k, n)
      BY <2>2 DEF NotifyInv
    <3> QED
      BY <1>1, <2>2, <3>1, <3>2, <3>3 DEF CountOK
  <2> QED
    BY <1>4, <2>1, <2>2, <2>3 DEF NotifyInv
<1> QED
  BY <1>5, <1>6

LEMMA TickNotify ==
    ASSUME TypeInv, NotifyInv,
           \/ Scheduler
           \/ \E s \in Sa, some \in BOOLEAN : NotifyFails(s, some)
           \/ TickStops \/ DayPasses
    PROVE  NotifyInv'
<1>0. PlanOK /\ TickOK /\ tick \in TickRec /\ notice \in NoticeRec
  BY DEF TypeInv, TickOK
<1>1. \A s \in Sa : sa'[s].st = sa[s].st
  BY <1>0, SchedulerFrame
<1>2. ASSUME NEW k \in Kind, NEW s \in Sa
      PROVE  notice.sent[k][s] \in Nat /\ notice.failed[k][s] \in Nat
  BY <1>0, Counts
<1>3. ASSUME StartTick PROVE NotifyInv'
  <2>1. /\ tick'.pc = "loop" /\ tick'.soon = SoonUnnotified
        /\ tick'.late = LateUnnotified /\ UNCHANGED <<sa, notice>>
    BY <1>3 DEF StartTick, NoTick, planVars, saVars
  <2>2. ASSUME NEW k \in Kind, NEW s \in Sa PROVE CountOK(k, s)'
    <3>1. ~AtMark(k, s) /\ ~AtMark(k, s)' /\ Flag(k, s)' = Flag(k, s)
      BY <1>3, <2>1 DEF StartTick, AtMark, Flag
    <3>2. s \in Asked(k)' => sa[s].st # "deleted" /\ ~Flag(k, s)
      BY <2>1 DEF Asked, SoonUnnotified, LateUnnotified, Awaited, Flag, Kind
    <3> QED
      BY <2>1, <3>1, <3>2 DEF NotifyInv, CountOK
  <2>3. ASSUME NEW s \in Sa, sa'[s].st = "none"
        PROVE  ~sa'[s].soon /\ ~sa'[s].late /\ s \notin tick'.soon \cup tick'.late
    BY <2>1, <2>3 DEF NotifyInv, SoonUnnotified, LateUnnotified, Awaited
  <2> QED
    BY <2>2, <2>3 DEF NotifyInv
<1>4. ASSUME NEW s \in Sa, Notify(s) PROVE NotifyInv'
  <2> PICK c \in Kind : c = CurrentKind
    BY <1>0, QueueType
  <2>1. /\ tick'.pc = "mark" /\ tick'.s = s /\ tick.pc = "loop"
        /\ tick'.soon = tick.soon /\ tick'.late = tick.late /\ sa' = sa
        /\ s \in Asked(c) /\ c \in Kind
    BY <1>0, <1>4 DEF Notify, TickRec, planVars, saVars, Queue, CurrentKind,
       Asked, Kind
  <2>2. /\ notice'.failed = notice.failed
        /\ \A k \in Kind, t \in Sa : k # c \/ t # s =>
                /\ notice'.sent[k][t] = notice.sent[k][t]
                /\ t \in notice.passed[k] => t \in notice'.passed[k]
        /\ \/ notice'.sent[c][s] = notice.sent[c][s] + 1
           \/ /\ notice'.sent[c][s] = notice.sent[c][s]
              /\ s \in notice'.passed[c]
    BY <1>0, <1>4, <2>1 DEF Notify, NoticeRec
  <2>3. CurrentKind' = c
    BY <2>1 DEF CurrentKind
  <2>4. \A k \in Kind, t \in Sa :
          /\ ~AtMark(k, t) /\ (AtMark(k, t)' <=> (k = c /\ t = s))
          /\ Flag(k, t)' = Flag(k, t) /\ Asked(k)' = Asked(k)
    BY <2>1, <2>3 DEF AtMark, Flag, Asked
  <2>5. ASSUME NEW k \in Kind, NEW t \in Sa, k # c \/ t # s
        PROVE  CountOK(k, t)'
    BY <2>1, <2>2, <2>4, <2>5 DEF NotifyInv, CountOK
  <2>6. CountOK(c, s)'
    <3>1. notice.sent[c][s] <= notice.failed[c][s]
      BY <2>1, <2>4 DEF NotifyInv, CountOK
    <3>2. notice.sent[c][s] \in Nat /\ notice.failed[c][s] \in Nat
      BY <1>2, <2>1
    <3> QED
      BY <2>1, <2>2, <2>4, <3>1, <3>2 DEF CountOK
  <2> QED
    BY <2>1, <2>5, <2>6 DEF NotifyInv
<1>5. ASSUME Mark PROVE NotifyInv'
  <2> PICK c \in Kind, s \in Sa : c = CurrentKind /\ s = tick.s
    BY <1>0, <1>5, QueueType DEF Mark, TickOK
  <2>1. s \in Sa /\ s \in Queue /\ c \in Kind /\ tick' = Done(s)
        /\ notice' = notice /\ tick.pc = "mark"
    BY <1>0, <1>5, QueueType DEF Mark, TickOK
  <2>2. /\ sa[s] \in SaRec /\ sa \in [Sa -> SaRec] /\ s \in tick.soon \cup tick.late
    BY <1>0, <2>1 DEF PlanOK, SaType, Queue
  <2>3. sa[s].st # "none"
    BY <2>1, <2>2 DEF NotifyInv
  <2>4. /\ sa[s].st = "deleted" \/ Flag(c, s)'
        /\ \A k \in Kind, t \in Sa : k # c \/ t # s => Flag(k, t)' = Flag(k, t)
        /\ Flag(c, s) => Flag(c, s)'
    <3>1. CASE ~Live(s)
      <4>1. sa' = sa
        BY <1>5, <3>1 DEF Mark
      <4> QED
        BY <2>2, <2>3, <3>1, <4>1 DEF Live, SaRec, SaStatus, Flag
    <3>2. CASE Live(s) /\ c = "soon"
      <4>1. sa' = [sa EXCEPT ![s].soon = TRUE]
        BY <1>5, <3>2 DEF Mark
      <4> QED
        BY <2>1, <2>2, <3>2, <4>1 DEF Flag, Kind, SaRec
    <3>3. CASE Live(s) /\ c # "soon"
      <4>1. sa' = [sa EXCEPT ![s].late = TRUE]
        BY <1>5, <3>3 DEF Mark
      <4> QED
        BY <2>1, <2>2, <3>3, <4>1 DEF Flag, Kind, SaRec
    <3> QED
      BY <3>1, <3>2, <3>3
  <2>5. /\ \A k \in Kind : Asked(k)' \subseteq Asked(k)
        /\ s \notin Asked(c)'
        /\ \A k \in Kind, t \in Sa : ~AtMark(k, t)'
    BY <1>0, <2>1, DoneFacts
  <2>6. AtMark(c, s) /\ \A k \in Kind, t \in Sa :
                            k # c \/ t # s => ~AtMark(k, t)
    BY <2>1 DEF AtMark
  <2>7. ASSUME NEW k \in Kind, NEW t \in Sa, k # c \/ t # s
        PROVE  CountOK(k, t)'
    <3>1. CountOK(k, t)
      BY DEF NotifyInv
    <3> QED
      BY <1>1, <2>1, <2>4, <2>5, <2>6, <2>7, <3>1 DEF CountOK
  <2>8. CountOK(c, s)'
    <3>1. CountOK(c, s)
      BY <2>1 DEF NotifyInv
    <3> QED
      BY <1>1, <2>1, <2>4, <2>5, <2>6, <3>1 DEF CountOK
  <2>9. ASSUME NEW t \in Sa, sa'[t].st = "none"
        PROVE  ~sa'[t].soon /\ ~sa'[t].late /\ t \notin tick'.soon \cup tick'.late
    <3>1. t # s /\ sa[t].st = "none"
      BY <1>1, <2>3, <2>9
    <3>2. "soon" \in Kind /\ "late" \in Kind
      BY DEF Kind
    <3>3. Flag("soon", t)' = Flag("soon", t) /\ Flag("late", t)' = Flag("late", t)
      BY <2>4, <3>1, <3>2
    <3>4. tick'.soon \subseteq tick.soon /\ tick'.late \subseteq tick.late
      BY <2>5, <3>2 DEF Asked
    <3> QED
      BY <3>1, <3>3, <3>4 DEF NotifyInv, Flag
  <2> QED
    BY <2>7, <2>8, <2>9 DEF NotifyInv
<1>6. ASSUME NEW s \in Sa, NEW some \in BOOLEAN, NotifyFails(s, some)
      PROVE  NotifyInv'
  <2> PICK c \in Kind : c = CurrentKind
    BY <1>0, QueueType
  <2>1. /\ tick.pc = "loop" /\ sa' = sa /\ c \in Kind /\ tick' = Done(s)
    BY <1>0, <1>6, QueueType DEF NotifyFails, AfterFailure, saVars
  <2>2. /\ notice'.passed = notice.passed
        /\ \A k \in Kind, t \in Sa :
            \/ /\ notice'.sent[k][t] = notice.sent[k][t]
               /\ notice'.failed[k][t] = notice.failed[k][t]
            \/ /\ notice'.sent[k][t] = notice.sent[k][t] + 1
               /\ notice'.failed[k][t] = notice.failed[k][t] + 1
    BY <1>0, <1>6, <2>1 DEF NotifyFails, NoticeRec
  <2>3. \A k \in Kind, t \in Sa :
          /\ ~AtMark(k, t) /\ ~AtMark(k, t)'
          /\ Flag(k, t)' = Flag(k, t) /\ Asked(k)' \subseteq Asked(k)
    BY <1>0, <2>1, DoneFacts DEF AtMark, Flag
  <2>4. ASSUME NEW k \in Kind, NEW t \in Sa PROVE CountOK(k, t)'
    BY <1>2, <2>1, <2>2, <2>3 DEF NotifyInv, CountOK
  <2>5. tick'.soon \subseteq tick.soon /\ tick'.late \subseteq tick.late
    BY <2>3 DEF Asked, Kind
  <2> QED
    BY <2>1, <2>4, <2>5 DEF NotifyInv
<1>7. ASSUME TickStops PROVE NotifyInv'
  <2> PICK c \in Kind : c = CurrentKind
    BY <1>0, QueueType
  <2>1. /\ tick' = NoTick /\ sa' = sa /\ c \in Kind
        /\ tick.pc = "mark" => tick.s \in Sa
    BY <1>0, <1>7, QueueType DEF TickStops, AfterCrash, TickOK, saVars
  <2>2. /\ notice'.passed = notice.passed /\ notice'.sent = notice.sent
        /\ \A k \in Kind, t \in Sa : notice'.failed[k][t] =
                IF AtMark(k, t) THEN notice.failed[k][t] + 1
                ELSE notice.failed[k][t]
    BY <1>0, <1>7, <2>1 DEF TickStops, NoticeRec, AtMark
  <2>3. \A k \in Kind, t \in Sa :
          /\ ~AtMark(k, t)' /\ Flag(k, t)' = Flag(k, t) /\ t \notin Asked(k)'
    BY <2>1 DEF AtMark, Flag, NoTick, Asked
  <2>4. ASSUME NEW k \in Kind, NEW t \in Sa PROVE CountOK(k, t)'
    BY <1>2, <2>1, <2>2, <2>3 DEF NotifyInv, CountOK
  <2>5. tick'.soon = {} /\ tick'.late = {}
    BY <2>1 DEF NoTick
  <2> QED
    BY <2>1, <2>4, <2>5 DEF NotifyInv
<1>8. ASSUME DayPasses PROVE NotifyInv'
  BY <1>8 DEF DayPasses, planVars, saVars, NotifyInv, CountOK, Asked, Flag,
     AtMark, CurrentKind
<1> QED
  BY <1>3, <1>4, <1>5, <1>6, <1>7, <1>8 DEF Scheduler

LEMMA NotifyInductive == TypeInv /\ NotifyInv /\ [Next]_vars => NotifyInv'
<1> SUFFICES ASSUME TypeInv, NotifyInv, [Next]_vars PROVE NotifyInv'
  OBVIOUS
<1>1. CASE UNCHANGED vars
  BY <1>1 DEF vars, planVars, saVars, notificationVars, NotifyInv, CountOK,
     Asked, Flag, AtMark, CurrentKind
<1> QED
  BY <1>1, PlanNotify, TickNotify DEF Next

LEMMA NotifyAlways == Spec => []NotifyInv
<1>1. TypeInv /\ NotifyInv /\ [Next]_vars => NotifyInv'
  BY NotifyInductive
<1> QED
  BY <1>1, NotifyInitial, TypesAlways, PTL DEF Spec

\* However ticks, requests, failures and restarts follow one another, each
\* notification of a SA goes out once, and once more for each that stopped
\* before the SA was marked.
THEOREM EachNotifiedOnce == Spec => []NotifiedOnce
<1>1. NotifyInv => NotifiedOnce
  BY DEF NotifyInv, CountOK, NotifiedOnce
<1> QED
  BY <1>1, NotifyAlways, PTL

\* A SA is marked only after a notification, or because its alternant was
\* archived or gone when its turn came.
THEOREM MarkedAlwaysSent == Spec => []MarkedWasSent
<1>1. NotifyInv => MarkedWasSent
  BY DEF NotifyInv, CountOK, Flag, Kind, MarkedWasSent
<1> QED
  BY <1>1, NotifyAlways, PTL
=============================================================================
