-------------------------- MODULE AbOffers_proofs --------------------------
(***************************************************************************)
(* Proofs about AbOffers: the types, and that no overlap of requests takes *)
(* its last offer from an AB that was sent.                                *)
(***************************************************************************)
EXTENDS AbOffers, FiniteSetTheorems, TLAPS

\* What a request at a given step is, and what it holds.
Handler(q) ==
  /\ q.pc = "store" => q.op = "send"
  /\ q.pc \in {"write", "sync"} => q.op = "edit"
  /\ q.pc = "apply" => q.op \in {"edit", "rejected"}
  /\ q.pc = "flag" => q.op = "show"
  /\ q.pc = "clear" => q.op \in {"edit", "show", "delete", "rejected"}
  /\ q.pc = "check" => q.op \in {"send", "mark", "edit", "show"}
  /\ q.op \notin {"none", "show", "delete"} => q.form \in Forms
  /\ q.pc = "insert" => q.form \in Forms
  /\ q.pc = "idle" => q = Idle

\* A request that is rewriting the offers removes only offers of its list, whose
\* numbers are at most k.
Commands(q, k) ==
  /\ q.list \subseteq 1..k
  /\ q.todo \subseteq q.list \cup {0}
  /\ q.todo # {} => q.pc = "apply"
  /\ 0 \in q.todo => Cardinality(q.list) < Len(buildOffers(q.form))

Sound(q, k) == q \in ReqRec /\ Handler(q) /\ Commands(q, k)

\* q will remove the offer n.
Removes(q, n) ==
  n \in q.todo \ {0} /\ RankIn(n, q.list) > Len(buildOffers(q.form))

\* The first of the offers, which nobody is about to remove.
FirstStays ==
  offers # {} =>
    \E m \in Ids : /\ \A n \in Ids : m <= n
                   /\ \A r \in Staff : ~Removes(req[r], m)

\* Before the AB is sent, no copy of its status says it was.
DraftUntilSent ==
  ~sent => /\ ab.status = "BROUILLON"
           /\ \A r \in Staff : req[r].status = "BROUILLON"

\* A request that goes on to mark the AB signed has left it offers.
MarkHasOffers ==
  (\E r \in Staff : req[r].pc = "mark") => offers # {} \/ absent # {}

\* What the types need.
ShapeInv ==
  /\ TypeOK
  /\ \A r \in Staff : Sound(req[r], serial)
  /\ Ids \subseteq 1..serial

\* What the offers of a sent AB need.
OffersInv ==
  /\ ShapeInv
  /\ FirstStays
  /\ DraftUntilSent
  /\ MarkHasOffers
  /\ SentHasOffers

-----------------------------------------------------------------------------
(* Ranks and places.                                                       *)

\* The numbers of a list are finitely many.
LEMMA FiniteList ==
  ASSUME NEW k \in Nat, NEW S \in SUBSET (1..k)
  PROVE  IsFiniteSet(S) /\ Cardinality(S) \in Nat
<1>1. IsFiniteSet(1..k)
  BY FS_Interval
<1>2. IsFiniteSet(S)
  BY <1>1, FS_Subset
<1> QED
  BY <1>2, FS_CardinalityType

\* The rank of a member of a list is at least one.
LEMMA RankPositive ==
  ASSUME NEW k \in Nat, NEW S \in SUBSET (1..k), NEW n \in S
  PROVE  RankIn(n, S) \in Nat /\ RankIn(n, S) >= 1
<1> DEFINE B == {m \in S : m <= n}
<1>0. n \in Nat /\ n <= n
  OBVIOUS
<1>1. B \in SUBSET (1..k) /\ n \in B
  BY <1>0
<1>2. IsFiniteSet(B) /\ Cardinality(B) \in Nat
  BY <1>1, FiniteList
<1>3. Cardinality(B) # 0
  BY <1>1, <1>2, FS_EmptySet
<1> QED
  BY <1>2, <1>3 DEF RankIn

\* The first of a list has rank one.
LEMMA RankOfFirst ==
  ASSUME NEW k \in Nat, NEW S \in SUBSET (1..k), NEW n \in S,
         \A m \in S : n <= m
  PROVE  RankIn(n, S) = 1
<1>0. \A m \in S : m \in Nat
  OBVIOUS
<1>1. \A m \in S : m <= n <=> m = n
  BY <1>0
<1>2. {m \in S : m <= n} = {n}
  BY <1>1
<1> QED
  BY <1>2, FS_Singleton DEF RankIn

\* The places of a form are places, and there is one.
LEMMA FormPlaces ==
  ASSUME NEW form \in Forms
  PROVE  /\ Len(buildOffers(form)) \in Nat /\ Len(buildOffers(form)) >= 1
         /\ \A k \in 1..Len(buildOffers(form)) : buildOffers(form)[k] \in Place
<1> DEFINE b == buildOffers(form)
<1>1. b \in Seq(Place) /\ Len(b) > 0
  BY FormsAssumption DEF FormsAssumption
<1> HIDE DEF b
<1>2. /\ Len(b) \in Nat /\ Len(b) >= 1
      /\ \A k \in 1..Len(b) : b[k] \in Place
  BY <1>1
<1> QED
  BY <1>2 DEF b

\* New offers are offers, and their numbers are new.
LEMMA NewOffersType ==
  ASSUME NEW form \in Forms, NEW k \in Nat, serial \in Nat
  PROVE  /\ NewOffers(form, k) \subseteq OfferRec
         /\ \A o \in NewOffers(form, k) :
              o.id \in (serial + 1)..(serial + Len(buildOffers(form)))
         /\ k < Len(buildOffers(form)) =>
              \E o \in NewOffers(form, k) : o.id = serial + 1
<1> DEFINE b == buildOffers(form)
           n(i) == [id |-> serial + i, place |-> b[k + i], made |-> None]
<1>1. /\ Len(b) \in Nat
      /\ \A i \in 1..Len(b) : b[i] \in Place
  BY FormPlaces
<1>2. NewOffers(form, k) = {n(i) : i \in 1..(Len(b) - k)}
  BY DEF NewOffers
<1> HIDE DEF b
<1>3. \A i \in 1..(Len(b) - k) : /\ n(i) \in OfferRec
                                 /\ n(i).id \in (serial + 1)..(serial + Len(b))
  <2> TAKE i \in 1..(Len(b) - k)
  <2>1. b[k + i] \in Place
    BY <1>1
  <2> QED
    BY <1>1, <2>1 DEF OfferRec
<1>4. ASSUME k < Len(b)
      PROVE  n(1) \in NewOffers(form, k) /\ n(1).id = serial + 1
  <2>1. 1 \in 1..(Len(b) - k)
    BY <1>1, <1>4
  <2> QED
    BY <1>2, <2>1
<1> QED
  BY <1>2, <1>3, <1>4 DEF b

-----------------------------------------------------------------------------
(* Requests.                                                               *)

\* A request that goes to another step keeps its copies.
LEMMA MoveTo ==
  ASSUME NEW q \in ReqRec, NEW p \in Pc
  PROVE  LET u == [q EXCEPT !.pc = p] IN
         /\ u \in ReqRec /\ u.pc = p
         /\ u.op = q.op /\ u.form = q.form /\ u.status = q.status
         /\ u.list = q.list /\ u.todo = q.todo
BY DEF ReqRec

\* Idle is a request in order.
LEMMA IdleSound ==
  ASSUME NEW k \in Nat
  PROVE  /\ Sound(Idle, k)
         /\ Idle.op = "none" /\ Idle.pc = "idle" /\ Idle.todo = {}
         /\ Idle.status = "BROUILLON"
<1>1. Idle \in ReqRec
  BY DEF Idle, ReqRec, Op, Pc, Status
<1>2. Handler(Idle) /\ Commands(Idle, k)
  BY DEF Idle, Handler, Commands
<1> QED
  BY <1>1, <1>2 DEF Sound, Idle

\* Only the request that goes on changes.
LEMMA Continued ==
  ASSUME NEW k \in Nat, NEW k2 \in Nat, k <= k2,
         req \in [Staff -> ReqRec], \A s \in Staff : Sound(req[s], k),
         NEW r \in Staff, NEW q, Continue(r, q),
         q.pc # "idle" => Sound(q, k2)
  PROVE  /\ req' \in [Staff -> ReqRec]
         /\ \A s \in Staff : Sound(req'[s], k2)
         /\ req'[r] = IF q.pc = "idle" THEN Idle ELSE q
         /\ \A s \in Staff : s # r => req'[s] = req[s]
<1> DEFINE n == IF q.pc = "idle" THEN Idle ELSE q
<1>1. Sound(n, k2)
  BY IdleSound
<1>2. n \in ReqRec
  BY <1>1 DEF Sound
<1> HIDE DEF n
<1>3. req' = [req EXCEPT ![r] = n]
  BY DEF Continue, n
<1>4. /\ req' \in [Staff -> ReqRec] /\ req'[r] = n
      /\ \A s \in Staff : s # r => req'[s] = req[s]
  BY <1>2, <1>3
<1>5. \A s \in Staff : Sound(req[s], k2)
  BY DEF Sound, Commands
<1> QED
  BY <1>1, <1>4, <1>5 DEF n

\* A request that is not rewriting the offers may go to any step of its handler.
LEMMA Moves ==
  ASSUME NEW k \in Nat, NEW q, Sound(q, k), q.pc \notin {"apply", "idle"},
         NEW p \in Pc \ {"apply", "idle", "store"},
         p \in {"write", "sync"} => q.op = "edit",
         p = "flag" => q.op = "show",
         p = "clear" => q.op \in {"edit", "show", "delete", "rejected"},
         p = "check" => q.op \in {"send", "mark", "edit", "show"},
         p = "insert" => q.form \in Forms
  PROVE  Sound([q EXCEPT !.pc = p], k)
<1> DEFINE u == [q EXCEPT !.pc = p]
<1>1. /\ u \in ReqRec /\ u.pc = p
      /\ u.op = q.op /\ u.form = q.form /\ u.status = q.status
      /\ u.list = q.list /\ u.todo = q.todo
  BY MoveTo DEF Sound
<1>2. q.todo = {}
  BY DEF Sound, Commands
<1> HIDE DEF u
<1>3. Handler(u)
  BY <1>1 DEF Sound, Handler
<1>4. Commands(u, k)
  BY <1>1, <1>2 DEF Sound, Commands
<1>5. Sound(u, k)
  BY <1>1, <1>3, <1>4 DEF Sound
<1> QED
  BY <1>5 DEF u

\* A step that leaves the offers alone and lets one request go on.
LEMMA ShapeKept ==
  ASSUME ShapeInv, UNCHANGED <<offers, serial>>,
         ab' \in [positions : Forms, status : Status, visible : BOOLEAN,
                  deleted : BOOLEAN],
         sent' \in BOOLEAN, absent' \subseteq {"deleted", "hidden", "uncreated"},
         astray' \subseteq {"stale", "torn"}, ops' \in Nat, faults' \in Nat,
         NEW r \in Staff, NEW q, Continue(r, q),
         q.pc # "idle" => Sound(q, serial)
  PROVE  /\ ShapeInv'
         /\ req'[r] = IF q.pc = "idle" THEN Idle ELSE q
         /\ \A s \in Staff : s # r => req'[s] = req[s]
<1>1. /\ serial \in Nat /\ req \in [Staff -> ReqRec]
      /\ \A s \in Staff : Sound(req[s], serial)
  BY DEF ShapeInv, TypeOK
<1>2. /\ req' \in [Staff -> ReqRec]
      /\ \A s \in Staff : Sound(req'[s], serial)
      /\ req'[r] = IF q.pc = "idle" THEN Idle ELSE q
      /\ \A s \in Staff : s # r => req'[s] = req[s]
  BY <1>1, Continued
<1>3. TypeOK'
  BY <1>2 DEF ShapeInv, TypeOK
<1>4. Ids' = Ids
  BY DEF Ids
<1> QED
  BY <1>2, <1>3, <1>4 DEF ShapeInv

\* The fields of the AB and of a request have their types.
LEMMA Fields ==
  ASSUME ShapeInv, NEW r \in Staff
  PROVE  /\ Sound(req[r], serial) /\ req[r] \in ReqRec /\ serial \in Nat
         /\ req[r].op \in Op /\ req[r].pc \in Pc /\ req[r].status \in Status
         /\ req[r].form \in Forms \cup {<<>>}
         /\ req[r].was \in BOOLEAN /\ req[r].to \in BOOLEAN
         /\ ab.positions \in Forms /\ ab.status \in Status
         /\ ab.visible \in BOOLEAN /\ ab.deleted \in BOOLEAN
<1>1. Sound(req[r], serial) /\ req[r] \in ReqRec /\ serial \in Nat
  BY DEF ShapeInv, TypeOK, Sound
<1>2. /\ req[r].op \in Op /\ req[r].pc \in Pc /\ req[r].status \in Status
      /\ req[r].form \in Forms \cup {<<>>}
      /\ req[r].was \in BOOLEAN /\ req[r].to \in BOOLEAN
  BY <1>1 DEF ReqRec
<1> QED
  BY <1>1, <1>2 DEF ShapeInv, TypeOK

-----------------------------------------------------------------------------
(* The steps keep the types.  Each lemma also says what becomes of the      *)
(* request.                                                                *)

LEMMA CallShape ==
  ASSUME ShapeInv, NEW r \in Staff, NEW op \in Op, NEW pc \in Pc,
         NEW to \in BOOLEAN, NEW form \in Forms \cup {<<>>},
         Call(r, op, pc, to, form),
         pc \notin {"idle", "apply", "sync", "insert"},
         pc = "store" => op = "send", pc = "write" => op = "edit",
         pc = "flag" => op = "show", pc = "clear" => op = "delete",
         pc = "check" => op = "mark",
         op \notin {"show", "delete"} => form \in Forms
  PROVE  /\ ShapeInv'
         /\ UNCHANGED <<ab, offers, sent, absent>>
         /\ req[r].pc = "idle"
         /\ req'[r].pc = pc /\ req'[r].todo = {} /\ req'[r].status = ab.status
         /\ \A s \in Staff : s # r => req'[s] = req[s]
<1> DEFINE u == [op |-> op, pc |-> pc, form |-> form, status |-> ab.status,
                 was |-> ab.visible, to |-> to,
                 list |-> {}, known |-> {}, todo |-> {}]
<1>1. ab.status \in Status /\ ab.visible \in BOOLEAN /\ serial \in Nat
  BY Fields
<1>3. /\ u \in ReqRec
      /\ u.op = op /\ u.pc = pc /\ u.form = form /\ u.status = ab.status
      /\ u.list = {} /\ u.todo = {}
  BY <1>1 DEF ReqRec
<1>4. req' = [req EXCEPT ![r] = u]
  BY DEF Call
<1> HIDE DEF u
<1>5. Sound(u, serial)
  BY <1>1, <1>3 DEF Sound, Handler, Commands
<1>6. Continue(r, u)
  BY <1>3, <1>4 DEF Continue
<1>7. ops' \in Nat /\ UNCHANGED <<ab, offers, serial, sent, absent, astray, faults>>
  BY DEF Call, ShapeInv, TypeOK
<1>8. /\ ShapeInv' /\ req'[r] = u
      /\ \A s \in Staff : s # r => req'[s] = req[s]
  BY <1>3, <1>5, <1>6, <1>7, ShapeKept DEF ShapeInv, TypeOK
<1> QED
  BY <1>3, <1>7, <1>8 DEF Call

\* What a call leaves for the properties below.
LEMMA BeginShape ==
  ASSUME ShapeInv, NEW r \in Staff, Begin(r)
  PROVE  /\ ShapeInv'
         /\ UNCHANGED <<ab, offers, sent, absent>>
         /\ req[r].pc = "idle"
         /\ req'[r].pc # "mark" /\ req'[r].todo = {}
         /\ req'[r].status = ab.status
         /\ \A s \in Staff : s # r => req'[s] = req[s]
<1>0. /\ ab.positions \in Forms
      /\ {"send", "edit", "show", "mark", "delete"} \subseteq Op
      /\ {"store", "write", "flag", "check", "clear"} \subseteq Pc
  BY Fields DEF Op, Pc
<1>1. CASE sendForSignature(r)
  <2>1. PICK form \in Forms : Call(r, "send", "store", FALSE, form)
    BY <1>0, <1>1 DEF sendForSignature
  <2> QED
    BY <1>0, <2>1, CallShape
<1>2. CASE update(r)
  <2> PICK form \in Forms, visible \in BOOLEAN :
             Call(r, "edit", "write", visible, form)
    BY <1>2 DEF update
  <2> QED
    BY <1>0, CallShape
<1>3. CASE setMatchingVisibility(r)
  <2> PICK visible \in BOOLEAN : Call(r, "show", "flag", visible, <<>>)
    BY <1>3 DEF setMatchingVisibility
  <2> QED
    BY <1>0, CallShape
<1>4. CASE markSigned(r)
  <2>1. PICK form \in Forms : Call(r, "mark", "check", FALSE, form)
    BY <1>0, <1>4 DEF markSigned
  <2> QED
    BY <1>0, <2>1, CallShape
<1>5. CASE delete(r)
  <2>1. Call(r, "delete", "clear", FALSE, <<>>)
    BY <1>5 DEF delete
  <2> QED
    BY <1>0, <2>1, CallShape
<1> QED
  BY <1>1, <1>2, <1>3, <1>4, <1>5 DEF Begin

\* Where a request goes from a step at which it holds no list.
LEMMA GoesOn ==
  ASSUME NEW k \in Nat, NEW q, Sound(q, k), q.pc \notin {"apply", "idle"},
         NEW p \in Pc \ {"apply", "store"},
         p \in {"write", "sync"} => q.op = "edit",
         p = "flag" => q.op = "show",
         p = "clear" => q.op \in {"edit", "show", "delete", "rejected"},
         p = "check" => q.op \in {"send", "mark", "edit", "show"},
         p = "insert" => q.form \in Forms
  PROVE  LET u == [q EXCEPT !.pc = p]
             n == IF u.pc = "idle" THEN Idle ELSE u
         IN  /\ u.pc # "idle" => Sound(u, k)
             /\ n.pc = p /\ n.todo = {} /\ n.status \in {q.status, "BROUILLON"}
             /\ p # "idle" => n.op = q.op
<1>1. LET u == [q EXCEPT !.pc = p]
      IN  u.pc = p /\ u.op = q.op /\ u.status = q.status /\ u.todo = q.todo
  BY MoveTo DEF Sound
<1>2. q.todo = {}
  BY DEF Sound, Commands
<1>3. p # "idle" => Sound([q EXCEPT !.pc = p], k)
  BY Moves
<1> QED
  BY <1>1, <1>2, <1>3, IdleSound

\* The steps of AfterOffers and of AfterSync.
LEMMA After ==
  ASSUME NEW q
  PROVE  /\ AfterOffers(q) \in {"mark", "drop", "idle"}
         /\ AfterOffers(q) = "mark" => q.op = "mark"
         /\ AfterSync(q) \in {"check", "clear", "idle"}
         /\ AfterSync(q) # "idle" => q.op # "rejected"
<1>1. AfterOffers(q) \in {"mark", "drop", "idle"}
  BY DEF AfterOffers
<1>2. AfterOffers(q) = "mark" => q.op = "mark"
  BY DEF AfterOffers
<1>3. AfterSync(q) \in {"check", "clear", "idle"}
  BY DEF AfterSync
<1>4. AfterSync(q) # "idle" => q.op # "rejected"
  BY DEF AfterSync
<1> QED
  BY <1>1, <1>2, <1>3, <1>4

LEMMA StoreRequestShape ==
  ASSUME ShapeInv, NEW r \in Staff, StoreRequest(r)
  PROVE  /\ ShapeInv'
         /\ req[r].pc = "store" /\ req[r].op = "send"
         /\ UNCHANGED <<offers, absent>> /\ sent' = TRUE
         /\ req'[r].pc = IF req[r].status = "BROUILLON" THEN "check" ELSE "idle"
         /\ req'[r].todo = {}
         /\ req'[r].pc # "idle" => req'[r].op = "send"
         /\ \A s \in Staff : s # r => req'[s] = req[s]
<1> DEFINE q == req[r]
           p == IF q.status = "BROUILLON" THEN "check" ELSE "idle"
           u == [q EXCEPT !.pc = p]
<1>1. /\ Sound(q, serial) /\ serial \in Nat /\ q.pc = "store" /\ q.op = "send"
      /\ p \in Pc \ {"apply", "store", "write", "sync", "flag", "clear", "insert"}
  BY Fields DEF StoreRequest, Sound, Handler, Pc
<1>2. /\ u.pc # "idle" => Sound(u, serial)
      /\ LET n == IF u.pc = "idle" THEN Idle ELSE u
         IN  n.pc = p /\ n.todo = {} /\ (p # "idle" => n.op = q.op)
  <2> HIDE DEF p
  <2> QED
    BY <1>1, GoesOn
<1>3. Continue(r, u) /\ UNCHANGED <<offers, serial, absent, astray, ops, faults>>
      /\ sent' = TRUE /\ ab' = [ab EXCEPT !.status = "EN_ATTENTE_SIGNATURE"]
  BY DEF StoreRequest
<1>4. ab' \in [positions : Forms, status : Status, visible : BOOLEAN,
               deleted : BOOLEAN]
  BY <1>3 DEF ShapeInv, TypeOK, Status
<1> HIDE DEF u, p
<1>5. /\ ShapeInv' /\ req'[r] = IF u.pc = "idle" THEN Idle ELSE u
      /\ \A s \in Staff : s # r => req'[s] = req[s]
  BY <1>2, <1>3, <1>4, ShapeKept DEF ShapeInv, TypeOK
<1> QED
  BY <1>1, <1>2, <1>3, <1>5 DEF p

LEMMA WriteAbShape ==
  ASSUME ShapeInv, NEW r \in Staff, WriteAb(r)
  PROVE  /\ ShapeInv'
         /\ req[r].pc = "write"
         /\ UNCHANGED <<offers, sent, absent>> /\ ab'.status = req[r].status
         /\ req'[r].pc = "sync" /\ req'[r].todo = {}
         /\ req'[r].status \in {req[r].status, "BROUILLON"}
         /\ \A s \in Staff : s # r => req'[s] = req[s]
<1> DEFINE q == req[r]
           u == [q EXCEPT !.pc = "sync"]
<1>1. /\ Sound(q, serial) /\ serial \in Nat /\ q.pc = "write"
      /\ q.op = "edit" /\ "sync" \in Pc
      /\ q.form \in Forms /\ q.status \in Status /\ q.to \in BOOLEAN
  BY Fields DEF WriteAb, Sound, Handler, Pc
<1>2. Continue(r, u) /\ UNCHANGED <<offers, serial, sent, absent, astray, ops, faults>>
      /\ ab' = [ab EXCEPT !.positions = q.form, !.status = q.status,
                          !.visible = q.to]
  BY DEF WriteAb
<1>3. /\ ab' \in [positions : Forms, status : Status, visible : BOOLEAN,
                  deleted : BOOLEAN]
      /\ ab'.status = q.status
  BY <1>1, <1>2 DEF ShapeInv, TypeOK
<1>4. /\ u.pc # "idle" => Sound(u, serial)
      /\ LET n == IF u.pc = "idle" THEN Idle ELSE u
         IN  n.pc = "sync" /\ n.todo = {} /\ n.status \in {q.status, "BROUILLON"}
  BY <1>1, GoesOn
<1> HIDE DEF u
<1>5. /\ ShapeInv' /\ req'[r] = IF u.pc = "idle" THEN Idle ELSE u
      /\ \A s \in Staff : s # r => req'[s] = req[s]
  BY <1>2, <1>3, <1>4, ShapeKept DEF ShapeInv, TypeOK
<1> QED
  BY <1>1, <1>2, <1>3, <1>4, <1>5

LEMMA SetVisibleShape ==
  ASSUME ShapeInv, NEW r \in Staff, SetVisible(r)
  PROVE  /\ ShapeInv'
         /\ req[r].pc = "flag"
         /\ UNCHANGED <<offers, sent, absent>> /\ ab'.status = ab.status
         /\ req'[r].pc # "mark" /\ req'[r].todo = {}
         /\ req'[r].status \in {req[r].status, "BROUILLON"}
         /\ \A s \in Staff : s # r => req'[s] = req[s]
<1> DEFINE q == req[r]
           p == IF q.to THEN "check" ELSE "clear"
           u == [q EXCEPT !.pc = p]
<1>1. /\ Sound(q, serial) /\ serial \in Nat /\ q.pc = "flag" /\ q.op = "show"
      /\ p \in {"check", "clear"} /\ p \in Pc /\ q.to \in BOOLEAN
  BY Fields DEF SetVisible, Sound, Handler, Pc
<1>2. Continue(r, u) /\ UNCHANGED <<offers, serial, sent, absent, astray, ops, faults>>
      /\ ab' = [ab EXCEPT !.visible = q.to]
  BY DEF SetVisible
<1>3. /\ ab' \in [positions : Forms, status : Status, visible : BOOLEAN,
                  deleted : BOOLEAN]
      /\ ab'.status = ab.status
  BY <1>1, <1>2 DEF ShapeInv, TypeOK
<1> HIDE DEF p
<1>4. /\ u.pc # "idle" => Sound(u, serial)
      /\ LET n == IF u.pc = "idle" THEN Idle ELSE u
         IN  n.pc = p /\ n.todo = {} /\ n.status \in {q.status, "BROUILLON"}
  BY <1>1, GoesOn
<1> HIDE DEF u
<1>5. /\ ShapeInv' /\ req'[r] = IF u.pc = "idle" THEN Idle ELSE u
      /\ \A s \in Staff : s # r => req'[s] = req[s]
  BY <1>2, <1>3, <1>4, ShapeKept DEF ShapeInv, TypeOK
<1> QED
  BY <1>1, <1>2, <1>3, <1>4, <1>5

\* A request that ends.
LEMMA EndShape ==
  ASSUME ShapeInv, NEW r \in Staff, StoreSigned(r) \/ markDeleted(r)
  PROVE  /\ ShapeInv'
         /\ req[r].pc \in {"mark", "drop"}
         /\ UNCHANGED <<offers, absent>>
         /\ StoreSigned(r) => req[r].pc = "mark" /\ sent' = TRUE
         /\ markDeleted(r) => sent' = sent /\ ab'.status = ab.status
         /\ req'[r] = Idle
         /\ \A s \in Staff : s # r => req'[s] = req[s]
<1>1. Continue(r, Idle) /\ UNCHANGED <<offers, serial, absent, astray, ops, faults>>
      /\ req[r].pc \in {"mark", "drop"}
  BY DEF StoreSigned, markDeleted
<1>2. /\ ab' \in [positions : Forms, status : Status, visible : BOOLEAN,
                  deleted : BOOLEAN]
      /\ sent' \in BOOLEAN
      /\ StoreSigned(r) => req[r].pc = "mark" /\ sent' = TRUE
      /\ markDeleted(r) => sent' = sent /\ ab'.status = ab.status
  <2>1. CASE StoreSigned(r)
    BY <2>1 DEF StoreSigned, markDeleted, ShapeInv, TypeOK, Status
  <2>2. CASE markDeleted(r)
    BY <2>2 DEF StoreSigned, markDeleted, ShapeInv, TypeOK
  <2> QED
    BY <2>1, <2>2
<1>3. /\ ShapeInv' /\ req'[r] = IF Idle.pc = "idle" THEN Idle ELSE Idle
      /\ \A s \in Staff : s # r => req'[s] = req[s]
  <2>1. Sound(Idle, serial)
    BY IdleSound, Fields
  <2> QED
    BY <1>1, <1>2, <2>1, ShapeKept DEF ShapeInv, TypeOK
<1> QED
  BY <1>1, <1>2, <1>3

LEMMA CheckShape ==
  ASSUME ShapeInv, NEW r \in Staff, Check(r)
  PROVE  /\ ShapeInv'
         /\ req[r].pc = "check"
         /\ UNCHANGED <<ab, offers, sent, absent>>
         /\ req'[r].pc = "mark" => offers # {}
         /\ req[r].op = "send" /\ offers = {} =>
              req'[r].op = "send" /\ req'[r].pc = "insert"
         /\ req'[r].todo = {}
         /\ req'[r].status \in {req[r].status, "BROUILLON"}
         /\ \A s \in Staff : s # r => req'[s] = req[s]
<1> DEFINE q == req[r]
           p == IF offers # {} THEN AfterOffers(q)
                ELSE IF q.op = "show" THEN "fetch" ELSE "insert"
           v == [q EXCEPT !.known = {}]
           u == [v EXCEPT !.pc = p]
<1>1. /\ Sound(q, serial) /\ serial \in Nat /\ q.pc = "check" /\ q \in ReqRec
      /\ q.op \in {"send", "mark", "edit", "show"}
      /\ q.op # "show" => q.form \in Forms
  BY Fields DEF Check, Sound, Handler
<1>2. /\ p \in {"mark", "drop", "idle", "fetch", "insert"} /\ p \in Pc
      /\ p = "mark" => offers # {}
      /\ offers = {} /\ q.op # "show" => p = "insert"
      /\ p = "insert" => q.op # "show"
  BY After DEF Pc
<1>3. Continue(r, u) /\ UNCHANGED <<ab, offers, serial, sent, absent, astray, ops, faults>>
  <2>1. u = [q EXCEPT !.known = {}, !.pc = p]
    BY <1>1 DEF ReqRec
  <2> QED
    BY <2>1 DEF Check
<1> HIDE DEF p
<1>4. Sound(v, serial) /\ v.pc = q.pc /\ v.op = q.op /\ v.status = q.status
      /\ v.form = q.form
  BY <1>1 DEF Sound, Handler, Commands, ReqRec
<1> HIDE DEF v
<1>5. /\ u.pc # "idle" => Sound(u, serial)
      /\ LET n == IF u.pc = "idle" THEN Idle ELSE u
         IN  /\ n.pc = p /\ n.todo = {} /\ n.status \in {q.status, "BROUILLON"}
             /\ p # "idle" => n.op = q.op
  BY <1>1, <1>2, <1>4, GoesOn
<1> HIDE DEF u
<1>6. /\ ShapeInv' /\ req'[r] = IF u.pc = "idle" THEN Idle ELSE u
      /\ \A s \in Staff : s # r => req'[s] = req[s]
  BY <1>3, <1>5, ShapeKept DEF ShapeInv, TypeOK
<1> QED
  BY <1>1, <1>2, <1>3, <1>5, <1>6

LEMMA FetchShape ==
  ASSUME ShapeInv, NEW r \in Staff, Fetch(r)
  PROVE  /\ ShapeInv'
         /\ req[r].pc = "fetch"
         /\ UNCHANGED <<ab, offers, sent, absent>>
         /\ req'[r].pc = "insert" /\ req'[r].todo = {}
         /\ req'[r].status \in {req[r].status, "BROUILLON"}
         /\ \A s \in Staff : s # r => req'[s] = req[s]
<1> DEFINE q == req[r]
           v == [q EXCEPT !.form = ab.positions]
           u == [v EXCEPT !.pc = "insert"]
<1>1. /\ Sound(q, serial) /\ serial \in Nat /\ q.pc = "fetch" /\ q \in ReqRec
      /\ ab.positions \in Forms /\ "insert" \in Pc
  BY Fields DEF Fetch, Pc
<1>2. Continue(r, u) /\ UNCHANGED <<ab, offers, serial, sent, absent, astray, ops, faults>>
  <2>1. u = [q EXCEPT !.form = ab.positions, !.pc = "insert"]
    BY <1>1 DEF ReqRec
  <2> QED
    BY <2>1 DEF Fetch
<1>3. v \in ReqRec /\ v.pc = q.pc /\ v.op = q.op /\ v.status = q.status
      /\ v.form = ab.positions /\ v.list = q.list /\ v.todo = q.todo
  BY <1>1 DEF ReqRec
<1> HIDE DEF v
<1>4. Sound(v, serial)
  BY <1>1, <1>3 DEF Sound, Handler, Commands
<1>5. /\ u.pc # "idle" => Sound(u, serial)
      /\ LET n == IF u.pc = "idle" THEN Idle ELSE u
         IN  n.pc = "insert" /\ n.todo = {} /\ n.status \in {q.status, "BROUILLON"}
  BY <1>1, <1>3, <1>4, GoesOn
<1> HIDE DEF u
<1>6. /\ ShapeInv' /\ req'[r] = IF u.pc = "idle" THEN Idle ELSE u
      /\ \A s \in Staff : s # r => req'[s] = req[s]
  BY <1>2, <1>5, ShapeKept DEF ShapeInv, TypeOK
<1> QED
  BY <1>1, <1>2, <1>5, <1>6

\* A step that writes offers and lets one request go on.
LEMMA ShapeMoved ==
  ASSUME ShapeInv, UNCHANGED <<ab, sent, ops>>,
         serial' \in Nat, serial <= serial', offers' \subseteq OfferRec,
         \A o \in offers' : o.id \in 1..serial',
         absent' \subseteq {"deleted", "hidden", "uncreated"},
         astray' \subseteq {"stale", "torn"}, faults' \in Nat,
         NEW r \in Staff, NEW q, Continue(r, q),
         q.pc # "idle" => Sound(q, serial')
  PROVE  /\ ShapeInv'
         /\ req'[r] = IF q.pc = "idle" THEN Idle ELSE q
         /\ \A s \in Staff : s # r => req'[s] = req[s]
<1>1. /\ serial \in Nat /\ req \in [Staff -> ReqRec]
      /\ \A s \in Staff : Sound(req[s], serial)
  BY DEF ShapeInv, TypeOK
<1>2. /\ req' \in [Staff -> ReqRec]
      /\ \A s \in Staff : Sound(req'[s], serial')
      /\ req'[r] = IF q.pc = "idle" THEN Idle ELSE q
      /\ \A s \in Staff : s # r => req'[s] = req[s]
  BY <1>1, Continued
<1>3. TypeOK'
  BY <1>2 DEF ShapeInv, TypeOK
<1>4. Ids' \subseteq 1..serial'
  BY DEF Ids
<1> QED
  BY <1>2, <1>3, <1>4 DEF ShapeInv

LEMMA StaleType ==
  ASSUME ShapeInv, NEW q, NoteStale(q)
  PROVE  astray' \subseteq {"stale", "torn"}
BY DEF NoteStale, ShapeInv, TypeOK

\* The offers and their numbers.
LEMMA OfferFields ==
  ASSUME ShapeInv
  PROVE  /\ offers \subseteq OfferRec /\ serial \in Nat
         /\ \A o \in offers : o.id \in 1..serial /\ o.id \in Ids
         /\ Ids \in SUBSET (1..serial)
         /\ faults \in Nat
BY DEF ShapeInv, TypeOK, Ids

LEMMA CreateShape ==
  ASSUME ShapeInv, NEW r \in Staff, createOffers(r)
  PROVE  /\ ShapeInv'
         /\ req[r].pc = "insert"
         /\ UNCHANGED <<ab, sent>>
         /\ offers \subseteq offers'
         /\ \A o \in offers' \ offers : o.id > serial
         /\ \E o \in offers' : o.id = serial + 1
         /\ \A o \in offers' \ offers : o.id >= serial + 1
         /\ req'[r].todo = {} /\ req'[r].status \in {req[r].status, "BROUILLON"}
         /\ \A s \in Staff : s # r => req'[s] = req[s]
<1> DEFINE q == req[r]
           p == AfterOffers(q)
           u == [q EXCEPT !.pc = p]
           new == NewOffers(q.form, 0)
           len == Len(buildOffers(q.form))
<1>1. /\ Sound(q, serial) /\ serial \in Nat /\ q.pc = "insert"
      /\ q.form \in Forms /\ offers \subseteq OfferRec
      /\ \A o \in offers : o.id \in 1..serial
  BY Fields, OfferFields DEF createOffers, Sound, Handler
<1>2. p \in {"mark", "drop", "idle"} /\ p \in Pc
  BY After DEF Pc
<1>3. len \in Nat /\ len >= 1
  BY <1>1, FormPlaces
<1>4. /\ new \subseteq OfferRec
      /\ \A o \in new : o.id \in (serial + 1)..(serial + len)
      /\ \E o \in new : o.id = serial + 1
  BY <1>1, <1>3, NewOffersType
<1>5. /\ Continue(r, u) /\ UNCHANGED <<ab, sent, ops, faults>>
      /\ offers' = offers \cup new /\ serial' = serial + len
      /\ absent' = {} /\ NoteStale(q)
  BY DEF createOffers
<1> HIDE DEF new, len, p
<1>6. /\ serial' \in Nat /\ serial <= serial' /\ offers' \subseteq OfferRec
      /\ \A o \in offers' : o.id \in 1..serial'
  BY <1>1, <1>3, <1>4, <1>5
<1>7. /\ u.pc # "idle" => Sound(u, serial)
      /\ LET n == IF u.pc = "idle" THEN Idle ELSE u
         IN  n.pc = p /\ n.todo = {} /\ n.status \in {q.status, "BROUILLON"}
  BY <1>1, <1>2, GoesOn
<1> HIDE DEF u
<1>8. u.pc # "idle" => Sound(u, serial')
  BY <1>1, <1>6, <1>7 DEF Sound, Commands
<1>9. /\ ShapeInv' /\ req'[r] = IF u.pc = "idle" THEN Idle ELSE u
      /\ \A s \in Staff : s # r => req'[s] = req[s]
  <2>1. astray' \subseteq {"stale", "torn"}
    BY <1>5, StaleType
  <2>2. faults' \in Nat /\ absent' \subseteq {"deleted", "hidden", "uncreated"}
    BY <1>5, OfferFields
  <2> QED
    BY <1>5, <1>6, <1>8, <2>1, <2>2, ShapeMoved
<1>10. \A o \in offers' \ offers : o.id > serial /\ o.id >= serial + 1
  BY <1>1, <1>3, <1>4, <1>5
<1> QED
  BY <1>1, <1>4, <1>5, <1>7, <1>9, <1>10

LEMMA ClearShape ==
  ASSUME ShapeInv, NEW r \in Staff, Clear(r)
  PROVE  /\ ShapeInv'
         /\ req[r].pc = "clear"
         /\ UNCHANGED <<ab, sent>>
         /\ offers' = {}
         /\ absent' # {} \/ (~Committed /\ absent' = absent)
         /\ req'[r].pc # "mark"
         /\ req'[r].todo = {} /\ req'[r].status \in {req[r].status, "BROUILLON"}
         /\ \A s \in Staff : s # r => req'[s] = req[s]
<1> DEFINE q == req[r]
           p == AfterOffers(q)
           u == [q EXCEPT !.pc = p]
<1>1. /\ Sound(q, serial) /\ serial \in Nat /\ q.pc = "clear"
      /\ q.op \in {"edit", "show", "delete", "rejected"}
  BY Fields DEF Clear, Sound, Handler
<1>2. p \in {"drop", "idle"} /\ p \in Pc
  BY <1>1, After DEF Pc
<1>3. /\ Continue(r, u) /\ UNCHANGED <<ab, serial, sent, ops, faults>>
      /\ offers' = {} /\ astray' = {}
      /\ absent' = IF Committed
                   THEN {IF q.op = "delete" THEN "deleted" ELSE "hidden"}
                   ELSE absent
  BY DEF Clear
<1> HIDE DEF p
<1>4. /\ u.pc # "idle" => Sound(u, serial)
      /\ LET n == IF u.pc = "idle" THEN Idle ELSE u
         IN  n.pc = p /\ n.todo = {} /\ n.status \in {q.status, "BROUILLON"}
  BY <1>1, <1>2, GoesOn
<1> HIDE DEF u
<1>5. /\ ShapeInv' /\ req'[r] = IF u.pc = "idle" THEN Idle ELSE u
      /\ \A s \in Staff : s # r => req'[s] = req[s]
  <2>1. /\ serial' \in Nat /\ serial <= serial' /\ offers' \subseteq OfferRec
        /\ \A o \in offers' : o.id \in 1..serial'
    BY <1>1, <1>3
  <2>2. /\ absent' \subseteq {"deleted", "hidden", "uncreated"}
        /\ astray' \subseteq {"stale", "torn"} /\ faults' \in Nat
    BY <1>3 DEF ShapeInv, TypeOK
  <2> QED
    BY <1>3, <1>4, <2>1, <2>2, ShapeMoved
<1> QED
  BY <1>1, <1>2, <1>3, <1>4, <1>5

LEMMA SyncShape ==
  ASSUME ShapeInv, NEW r \in Staff, Sync(r)
  PROVE  /\ ShapeInv'
         /\ req[r].pc = "sync"
         /\ UNCHANGED <<ab, offers, sent, absent>>
         /\ req'[r].pc # "mark"
         /\ req'[r].status \in {req[r].status, "BROUILLON"}
         /\ \/ req'[r].todo = {}
            \/ /\ req'[r].list = Ids /\ req'[r].todo \subseteq Ids \cup {0}
               /\ req'[r].form \in Forms
         /\ \A s \in Staff : s # r => req'[s] = req[s]
<1> DEFINE q == req[r]
           p == AfterSync(q)
           todo == IF Len(buildOffers(q.form)) > Cardinality(Ids)
                   THEN Ids \cup {0} ELSE Ids
           v == [q EXCEPT !.pc = p]
           w == [q EXCEPT !.pc = "apply", !.list = Ids, !.known = Ids,
                          !.todo = todo]
<1>1. /\ Sound(q, serial) /\ serial \in Nat /\ q.pc = "sync" /\ q.op = "edit"
      /\ q.form \in Forms /\ q \in ReqRec
  BY Fields DEF Sync, Sound, Handler
<1>2. p \in {"check", "clear", "idle"} /\ p \in Pc
  BY After DEF Pc
<1>3. Ids \in SUBSET (1..serial) /\ Ids \in SUBSET Nat
  BY OfferFields
<1>4. /\ todo \subseteq Ids \cup {0} /\ todo \in SUBSET Nat
      /\ 0 \in todo => Cardinality(Ids) < Len(buildOffers(q.form))
  <2>1. Cardinality(Ids) \in Nat
    BY <1>1, <1>3, FiniteList
  <2>2. Len(buildOffers(q.form)) \in Nat
    BY <1>1, FormPlaces
  <2>3. 0 \notin Ids
    BY <1>1, <1>3
  <2> QED
    BY <1>3, <2>1, <2>2, <2>3
<1>5. /\ UNCHANGED <<ab, offers, serial, sent, absent, ops, faults>>
      /\ Continue(r, IF offers = {} THEN v ELSE w)
      /\ astray' \subseteq astray \cup {"stale"}
  BY DEF Sync
<1> HIDE DEF todo, p
<1>6. /\ w \in ReqRec /\ w.pc = "apply" /\ w.op = q.op /\ w.status = q.status
      /\ w.form = q.form /\ w.list = Ids /\ w.todo = todo
  BY <1>1, <1>3, <1>4 DEF ReqRec, Pc
<1>7. /\ v.pc # "idle" => Sound(v, serial)
      /\ LET n == IF v.pc = "idle" THEN Idle ELSE v
         IN  n.pc = p /\ n.todo = {} /\ n.status \in {q.status, "BROUILLON"}
  BY <1>1, <1>2, GoesOn
<1> HIDE DEF v, w
<1>8. Sound(w, serial)
  BY <1>1, <1>3, <1>4, <1>6 DEF Sound, Handler, Commands
<1>9. CASE offers = {}
  <2>1. /\ ShapeInv' /\ req'[r] = IF v.pc = "idle" THEN Idle ELSE v
        /\ \A s \in Staff : s # r => req'[s] = req[s]
    BY <1>5, <1>7, <1>9, ShapeKept DEF ShapeInv, TypeOK
  <2> QED
    BY <1>1, <1>2, <1>5, <1>7, <2>1
<1>10. CASE offers # {}
  <2>1. /\ ShapeInv' /\ req'[r] = IF w.pc = "idle" THEN Idle ELSE w
        /\ \A s \in Staff : s # r => req'[s] = req[s]
    BY <1>5, <1>8, <1>10, ShapeKept DEF ShapeInv, TypeOK
  <2> QED
    BY <1>1, <1>4, <1>5, <1>6, <2>1
<1> QED
  BY <1>9, <1>10

\* One command of a sync is over.
LEMMA NextCommandSound ==
  ASSUME NEW k \in Nat, NEW q, Sound(q, k), q.pc = "apply",
         NEW n \in q.todo, NEW known \in SUBSET Nat
  PROVE  LET u == NextCommand(q, n, known)
             m == IF u.pc = "idle" THEN Idle ELSE u
         IN  /\ u.pc # "idle" => Sound(u, k)
             /\ m.pc # "mark" /\ m.todo \subseteq q.todo \ {n}
             /\ m.todo # {} => m.list = q.list /\ m.form = q.form
             /\ m.status \in {q.status, "BROUILLON"}
<1> DEFINE left == q.todo \ {n}
           p == IF left = {} THEN AfterSync(q) ELSE "apply"
           u == [q EXCEPT !.todo = left, !.known = known, !.pc = p]
<1>1. /\ q \in ReqRec /\ q.op \in {"edit", "rejected"} /\ q.form \in Forms
      /\ Handler(q) /\ Commands(q, k)
  BY DEF Sound, Handler
<1>2. /\ p \in {"check", "clear", "idle", "apply"} /\ p \in Pc
      /\ p \in {"check", "clear"} => q.op = "edit"
      /\ left # {} => p = "apply"
  BY <1>1, After DEF Pc
<1>3. left \in SUBSET Nat /\ left \subseteq q.todo
  BY <1>1 DEF ReqRec
<1>4. u = NextCommand(q, n, known)
  BY DEF NextCommand
<1> HIDE DEF left, p
<1>5. /\ u \in ReqRec /\ u.pc = p /\ u.op = q.op /\ u.form = q.form
      /\ u.status = q.status /\ u.list = q.list /\ u.todo = left
  BY <1>1, <1>2, <1>3 DEF ReqRec
<1> HIDE DEF u
<1>6. u.pc # "idle" => Handler(u)
  BY <1>1, <1>2, <1>5 DEF Handler
<1>7. Commands(u, k)
  BY <1>1, <1>2, <1>3, <1>5 DEF Commands
<1>8. u.pc # "idle" => Sound(u, k)
  BY <1>5, <1>6, <1>7 DEF Sound
<1>9. left \subseteq q.todo \ {n}
  BY DEF left
<1> QED
  BY <1>2, <1>4, <1>5, <1>8, <1>9, IdleSound

\* What one command of a sync does to the offers and to its request.
LEMMA ApplyShape ==
  ASSUME ShapeInv, NEW r \in Staff, Apply(r)
  PROVE  /\ ShapeInv'
         /\ req[r].pc = "apply"
         /\ UNCHANGED <<ab, sent>>
         /\ \/ Ids' = Ids /\ absent' = absent
            \/ /\ absent' = absent
               /\ \E n \in req[r].todo : Removes(req[r], n) /\ Ids' = Ids \ {n}
            \/ /\ Ids \subseteq Ids' /\ \A n \in Ids' \ Ids : n >= serial + 1
               /\ serial + 1 \in Ids'
         /\ req'[r].pc # "mark"
         /\ req'[r].todo \subseteq req[r].todo
         /\ req'[r].todo # {} =>
              req'[r].list = req[r].list /\ req'[r].form = req[r].form
         /\ req'[r].status \in {req[r].status, "BROUILLON"}
         /\ \A s \in Staff : s # r => req'[s] = req[s]
<1> DEFINE q == req[r]
           b == buildOffers(q.form)
<1>1. /\ Sound(q, serial) /\ serial \in Nat /\ q.pc = "apply" /\ q \in ReqRec
      /\ q.form \in Forms /\ q.list \in SUBSET (1..serial)
      /\ q.todo \subseteq q.list \cup {0} /\ q.known \in SUBSET Nat
      /\ 0 \in q.todo => Cardinality(q.list) < Len(b)
  <2>1. Sound(q, serial) /\ serial \in Nat /\ q.pc = "apply" /\ q \in ReqRec
    BY Fields DEF Apply
  <2> QED
    BY <2>1 DEF Sound, Handler, Commands, ReqRec
<1>2. /\ offers \subseteq OfferRec /\ faults \in Nat
      /\ \A o \in offers : o.id \in 1..serial
  BY OfferFields
<1>3. /\ UNCHANGED <<ab, sent, ops, faults>>
      /\ astray' \subseteq {"stale", "torn"}
  BY StaleType DEF Apply
<1>4. Len(b) \in Nat /\ \A i \in 1..Len(b) : b[i] \in Place
  BY <1>1, FormPlaces
<1> HIDE DEF b
<1>5. ASSUME NEW n \in q.todo \ {0}, UpdateContent(r, n)
      PROVE  /\ ShapeInv' /\ Ids' = Ids /\ absent' = absent
             /\ LET u == NextCommand(q, n, q.known)
                IN  req'[r] = IF u.pc = "idle" THEN Idle ELSE u
             /\ \A s \in Staff : s # r => req'[s] = req[s]
  <2> DEFINE k == RankIn(n, q.list)
             new(o) == IF o.id = n THEN [o EXCEPT !.place = b[k]] ELSE o
             u == NextCommand(q, n, q.known)
  <2>1. k \in 1..Len(b)
    <3>1. n \in q.list
      BY <1>1
    <3>2. k \in Nat /\ k >= 1
      BY <1>1, <3>1, RankPositive
    <3>3. k <= Len(b)
      BY <1>5 DEF UpdateContent, b
    <3> QED
      BY <1>4, <3>2, <3>3
  <2>2. /\ offers' = {new(o) : o \in offers} /\ Continue(r, u)
        /\ serial' = serial /\ absent' = absent
    BY <1>5 DEF UpdateContent, b
  <2>3. b[k] \in Place
    BY <1>4, <2>1
  <2> HIDE DEF k, u
  <2>4. \A o \in offers : new(o) \in OfferRec /\ new(o).id = o.id
    BY <1>2, <2>3 DEF OfferRec
  <2>5. offers' \subseteq OfferRec /\ \A o \in offers' : o.id \in 1..serial'
    BY <1>2, <2>2, <2>4
  <2>6. Ids' = Ids
    BY <2>2, <2>4 DEF Ids
  <2>7. u.pc # "idle" => Sound(u, serial')
    BY <1>1, <2>2, NextCommandSound DEF u
  <2>8. absent' \subseteq {"deleted", "hidden", "uncreated"}
    BY <2>2 DEF ShapeInv, TypeOK
  <2>9. /\ ShapeInv' /\ req'[r] = IF u.pc = "idle" THEN Idle ELSE u
        /\ \A s \in Staff : s # r => req'[s] = req[s]
    BY <1>1, <1>2, <1>3, <2>2, <2>5, <2>7, <2>8, ShapeMoved
  <2> QED
    BY <2>2, <2>6, <2>9 DEF u
<1>6. ASSUME NEW n \in q.todo \ {0}, DeleteById(r, n)
      PROVE  /\ ShapeInv' /\ Ids' = Ids \ {n} /\ absent' = absent
             /\ Removes(q, n)
             /\ LET u == NextCommand(q, n, q.known \ {n})
                IN  req'[r] = IF u.pc = "idle" THEN Idle ELSE u
             /\ \A s \in Staff : s # r => req'[s] = req[s]
  <2> DEFINE u == NextCommand(q, n, q.known \ {n})
  <2>1. /\ offers' = {o \in offers : o.id # n} /\ Continue(r, u)
        /\ serial' = serial /\ absent' = absent /\ Removes(q, n)
    BY <1>6 DEF DeleteById, Removes
  <2> HIDE DEF u
  <2>2. offers' \subseteq OfferRec /\ \A o \in offers' : o.id \in 1..serial'
    BY <1>2, <2>1
  <2>3. Ids' = Ids \ {n}
    BY <2>1 DEF Ids
  <2>4. u.pc # "idle" => Sound(u, serial')
    BY <1>1, <2>1, NextCommandSound DEF u
  <2>5. absent' \subseteq {"deleted", "hidden", "uncreated"}
    BY <2>1 DEF ShapeInv, TypeOK
  <2>6. /\ ShapeInv' /\ req'[r] = IF u.pc = "idle" THEN Idle ELSE u
        /\ \A s \in Staff : s # r => req'[s] = req[s]
    BY <1>1, <1>2, <1>3, <2>1, <2>2, <2>4, <2>5, ShapeMoved
  <2> QED
    BY <2>1, <2>3, <2>6 DEF u
<1>7. ASSUME 0 \in q.todo, CreateRest(r)
      PROVE  /\ ShapeInv'
             /\ Ids \subseteq Ids' /\ \A n \in Ids' \ Ids : n >= serial + 1
             /\ serial + 1 \in Ids'
             /\ \E known \in SUBSET Nat :
                  LET u == NextCommand(q, 0, known)
                  IN  req'[r] = IF u.pc = "idle" THEN Idle ELSE u
             /\ \A s \in Staff : s # r => req'[s] = req[s]
  <2> DEFINE new == NewOffers(q.form, Cardinality(q.list))
             known == q.known \cup {o.id : o \in new}
             u == NextCommand(q, 0, known)
  <2>1. Cardinality(q.list) \in Nat
    BY <1>1, FiniteList
  <2>2. /\ new \subseteq OfferRec
        /\ \A o \in new : o.id \in (serial + 1)..(serial + Len(b))
        /\ \E o \in new : o.id = serial + 1
    BY <1>1, <1>7, <2>1, NewOffersType DEF b
  <2>3. /\ offers' = offers \cup new /\ serial' = serial + Len(b)
        /\ absent' = {} /\ Continue(r, u)
    BY <1>7 DEF CreateRest, b
  <2> HIDE DEF new
  <2>4. known \in SUBSET Nat
    BY <1>1, <2>2 DEF OfferRec
  <2> HIDE DEF known, u
  <2>5. /\ offers' \subseteq OfferRec /\ serial' \in Nat /\ serial <= serial'
        /\ \A o \in offers' : o.id \in 1..serial'
    BY <1>1, <1>2, <1>4, <2>2, <2>3
  <2>6. /\ Ids \subseteq Ids' /\ \A n \in Ids' \ Ids : n >= serial + 1
        /\ serial + 1 \in Ids'
    BY <1>1, <1>4, <2>2, <2>3 DEF Ids
  <2>7. u.pc # "idle" => Sound(u, serial')
    <3>1. u.pc # "idle" => Sound(u, serial)
      BY <1>1, <1>7, <2>4, NextCommandSound DEF u
    <3> QED
      BY <1>1, <2>5, <3>1 DEF Sound, Commands
  <2>8. /\ ShapeInv' /\ req'[r] = IF u.pc = "idle" THEN Idle ELSE u
        /\ \A s \in Staff : s # r => req'[s] = req[s]
    BY <1>2, <1>3, <2>3, <2>5, <2>7, ShapeMoved
  <2> QED
    BY <2>4, <2>6, <2>8 DEF u
<1>8. ASSUME NEW n \in q.todo, NEW known \in SUBSET Nat,
             LET u == NextCommand(q, n, known)
             IN  req'[r] = IF u.pc = "idle" THEN Idle ELSE u
      PROVE  /\ req'[r].pc # "mark"
             /\ req'[r].todo \subseteq q.todo
             /\ req'[r].todo # {} => req'[r].list = q.list /\ req'[r].form = q.form
             /\ req'[r].status \in {q.status, "BROUILLON"}
  BY <1>1, <1>8, NextCommandSound
<1>9. CASE \E n \in q.todo \ {0} : UpdateContent(r, n)
  <2> PICK n \in q.todo \ {0} : UpdateContent(r, n)
    BY <1>9
  <2> QED
    BY <1>1, <1>3, <1>5, <1>8
<1>10. CASE \E n \in q.todo \ {0} : DeleteById(r, n)
  <2> PICK n \in q.todo \ {0} : DeleteById(r, n)
    BY <1>10
  <2>1. q.known \ {n} \in SUBSET Nat
    BY <1>1
  <2> QED
    BY <1>1, <1>3, <1>6, <1>8, <2>1
<1>11. CASE 0 \in q.todo /\ CreateRest(r)
  BY <1>1, <1>3, <1>7, <1>8, <1>11
<1> QED
  BY <1>9, <1>10, <1>11 DEF Apply

LEMMA FailShape ==
  ASSUME ShapeInv, NEW r \in Staff, Fail(r)
  PROVE  /\ ShapeInv'
         /\ UNCHANGED <<ab, offers, sent>>
         /\ absent \subseteq absent'
         /\ req[r].op = "send" /\ req[r].pc \in {"check", "insert"} /\ offers = {}
              => absent' # {}
         /\ req'[r].pc # "mark"
         /\ req'[r].todo \subseteq req[r].todo
         /\ req'[r].todo # {} =>
              req'[r].list = req[r].list /\ req'[r].form = req[r].form
         /\ req'[r].status \in {req[r].status, "BROUILLON"}
         /\ \A s \in Staff : s # r => req'[s] = req[s]
<1> DEFINE q == req[r]
<1>1. Sound(q, serial) /\ serial \in Nat /\ q \in ReqRec
  BY Fields
<1>2. /\ UNCHANGED <<ab, offers, serial, sent, ops>>
      /\ faults' \in Nat /\ absent' = absent \cup Uncreated(q)
      /\ absent' \subseteq {"deleted", "hidden", "uncreated"}
      /\ astray' \subseteq {"stale", "torn"}
  <2>1. faults' \in Nat
    BY OfferFields DEF Fail
  <2>2. absent' = absent \cup Uncreated(q) /\ astray' = astray \cup Undone(q)
    BY DEF Fail
  <2> QED
    BY <2>1, <2>2 DEF Fail, Uncreated, Undone, ShapeInv, TypeOK
<1>3. /\ absent \subseteq absent'
      /\ q.op = "send" /\ q.pc \in {"check", "insert"} /\ offers = {}
           => absent' # {}
  BY <1>2 DEF Uncreated
<1>4. ASSUME NEW u, Continue(r, u), u.pc # "idle" => Sound(u, serial)
      PROVE  /\ ShapeInv' /\ req'[r] = IF u.pc = "idle" THEN Idle ELSE u
             /\ \A s \in Staff : s # r => req'[s] = req[s]
  BY <1>2, <1>4, ShapeKept DEF ShapeInv, TypeOK
<1>5. CASE q.pc = "clear"
  <2> DEFINE p == AfterOffers(q)
             u == [q EXCEPT !.pc = p]
  <2>1. Continue(r, u)
    BY <1>5 DEF Fail
  <2>2. /\ p \in {"mark", "drop", "idle"} /\ p \in Pc /\ p # "mark"
    BY <1>1, <1>5, After DEF Pc, Sound, Handler
  <2> HIDE DEF p
  <2>3. /\ u.pc # "idle" => Sound(u, serial)
        /\ LET n == IF u.pc = "idle" THEN Idle ELSE u
           IN  n.pc = p /\ n.todo = {} /\ n.status \in {q.status, "BROUILLON"}
    BY <1>1, <1>5, <2>2, GoesOn
  <2> HIDE DEF u
  <2> QED
    BY <1>2, <1>3, <1>4, <2>1, <2>2, <2>3
<1>6. CASE q.pc = "apply"
  <2> DEFINE v == [q EXCEPT !.op = "rejected"]
  <2>1. PICK n \in q.todo : Continue(r, NextCommand(v, n, q.known))
    BY <1>6 DEF Fail
  <2> DEFINE u == NextCommand(v, n, q.known)
  <2>2. /\ v \in ReqRec /\ v.op = "rejected" /\ v.pc = "apply"
        /\ v.list = q.list /\ v.todo = q.todo /\ v.form = q.form
        /\ v.status = q.status /\ q.known \in SUBSET Nat
    BY <1>1, <1>6 DEF ReqRec, Op
  <2> HIDE DEF v
  <2>3. Sound(v, serial)
    BY <1>1, <1>6, <2>2 DEF Sound, Handler, Commands
  <2>4. LET m == IF u.pc = "idle" THEN Idle ELSE u
        IN  /\ u.pc # "idle" => Sound(u, serial)
            /\ m.pc # "mark" /\ m.todo \subseteq v.todo \ {n}
            /\ m.todo # {} => m.list = v.list /\ m.form = v.form
            /\ m.status \in {v.status, "BROUILLON"}
    BY <1>1, <2>1, <2>2, <2>3, NextCommandSound
  <2> HIDE DEF u
  <2>5. Continue(r, u)
    BY <2>1 DEF u
  <2> QED
    BY <1>2, <1>3, <1>4, <2>2, <2>4, <2>5
<1>7. CASE q.pc \notin {"clear", "apply"}
  <2>1. Continue(r, Idle)
    BY <1>7 DEF Fail
  <2>2. req'[r] = Idle
    BY <1>1, <1>4, <2>1, IdleSound
  <2> QED
    BY <1>1, <1>2, <1>3, <1>4, <2>1, <2>2, IdleSound
<1> QED
  BY <1>5, <1>6, <1>7

LEMMA CrashShape ==
  ASSUME ShapeInv, Crash
  PROVE  /\ ShapeInv'
         /\ UNCHANGED <<ab, offers, sent>>
         /\ absent \subseteq absent'
         /\ (\E r \in Staff : /\ req[r].op = "send"
                              /\ req[r].pc \in {"check", "insert"})
            /\ offers = {} => absent' # {}
         /\ \A s \in Staff : req'[s] = Idle
<1>1. /\ UNCHANGED <<ab, offers, serial, sent, ops>>
      /\ req' = [r \in Staff |-> Idle]
      /\ astray' = astray \cup UNION {Undone(req[r]) : r \in Staff}
      /\ absent' = absent \cup UNION {Uncreated(req[r]) : r \in Staff}
  BY DEF Crash
<1>2. faults' \in Nat /\ serial \in Nat
  BY OfferFields DEF Crash
<1>3. /\ \A r \in Staff : Undone(req[r]) \subseteq {"torn"}
      /\ \A r \in Staff : Uncreated(req[r]) \subseteq {"uncreated"}
  BY DEF Undone, Uncreated
<1>4. /\ astray' \subseteq {"stale", "torn"}
      /\ absent' \subseteq {"deleted", "hidden", "uncreated"}
  <2>1. UNION {Undone(req[r]) : r \in Staff} \subseteq {"torn"}
    BY <1>3
  <2>2. UNION {Uncreated(req[r]) : r \in Staff} \subseteq {"uncreated"}
    BY <1>3
  <2>3. /\ astray \subseteq {"stale", "torn"}
        /\ absent \subseteq {"deleted", "hidden", "uncreated"}
    BY DEF ShapeInv, TypeOK
  <2>4. astray' \subseteq {"stale", "torn"}
    BY <1>1, <2>1, <2>3
  <2> QED
    BY <1>1, <2>2, <2>3, <2>4
<1>5. \A s \in Staff : req'[s] = Idle /\ Sound(req'[s], serial)
  BY <1>1, <1>2, IdleSound
<1>6. req' \in [Staff -> ReqRec]
  BY <1>1, <1>2, IdleSound DEF Sound
<1>7. ShapeInv'
  <2>1. TypeOK'
    BY <1>1, <1>2, <1>4, <1>6 DEF ShapeInv, TypeOK
  <2>2. Ids' = Ids
    BY <1>1 DEF Ids
  <2> QED
    BY <1>1, <1>5, <2>1, <2>2 DEF ShapeInv
<1>8. (\E r \in Staff : req[r].op = "send" /\ req[r].pc \in {"check", "insert"})
      /\ offers = {} => absent' # {}
  BY <1>1 DEF Uncreated
<1> QED
  BY <1>1, <1>5, <1>7, <1>8

LEMMA SignShape ==
  ASSUME ShapeInv, Sign
  PROVE  ShapeInv'
<1>1. TypeOK'
  BY DEF Sign, ShapeInv, TypeOK, Status
<1>2. Ids' = Ids
  BY DEF Sign, Ids
<1> QED
  BY <1>1, <1>2 DEF Sign, ShapeInv

LEMMA MatchShape ==
  ASSUME ShapeInv, NEW o \in offers, Match(o)
  PROVE  ShapeInv' /\ Ids' = Ids
<1> DEFINE n == [o EXCEPT !.made = o.place]
<1>1. n \in OfferRec /\ n.id = o.id
  BY OfferFields DEF OfferRec
<1>2. /\ offers' = (offers \ {o}) \cup {n}
      /\ UNCHANGED <<ab, serial, req, sent, absent, astray, ops, faults>>
  BY DEF Match
<1> HIDE DEF n
<1>3. Ids' = Ids
  BY <1>1, <1>2 DEF Ids
<1>4. TypeOK'
  BY <1>1, <1>2 DEF ShapeInv, TypeOK
<1> QED
  BY <1>2, <1>3, <1>4 DEF ShapeInv

LEMMA InitShape ==
  ASSUME Init
  PROVE  ShapeInv /\ offers = {} /\ ~sent /\ ab.status = "BROUILLON"
         /\ \A s \in Staff : req[s].status = "BROUILLON" /\ req[s].pc # "mark"
<1>1. PICK form \in Forms, visible \in BOOLEAN, r \in Staff :
        /\ ab = [positions |-> form, status |-> "BROUILLON",
                 visible |-> visible, deleted |-> FALSE]
        /\ req = [s \in Staff |->
                    IF s = r /\ visible
                    THEN [Idle EXCEPT !.op = "create", !.pc = "insert",
                                      !.form = form]
                    ELSE Idle]
  BY DEF Init
<1> DEFINE c == [Idle EXCEPT !.op = "create", !.pc = "insert", !.form = form]
<1>2. /\ c \in ReqRec /\ c.op = "create" /\ c.pc = "insert" /\ c.form = form
      /\ c.status = "BROUILLON" /\ c.list = {} /\ c.todo = {}
  BY DEF Idle, ReqRec, Op, Pc, Status
<1>3. /\ offers = {} /\ serial = 0 /\ ~sent /\ absent = {} /\ astray = {}
      /\ ops \in Nat /\ faults \in Nat /\ sent \in BOOLEAN
  BY FormsAssumption DEF Init, FormsAssumption
<1>4. Sound(c, 0) /\ Sound(Idle, 0)
  BY <1>2, IdleSound DEF Sound, Handler, Commands
<1>5. \A s \in Staff : req[s] = c \/ req[s] = Idle
  BY <1>1
<1>6. req \in [Staff -> ReqRec]
  BY <1>1, <1>2, <1>4 DEF Sound
<1> HIDE DEF c
<1>7. TypeOK
  BY <1>1, <1>3, <1>6 DEF TypeOK, Status
<1>8. Ids = {}
  BY <1>3 DEF Ids
<1>9. ShapeInv
  BY <1>3, <1>4, <1>5, <1>7, <1>8 DEF ShapeInv
<1>10. \A s \in Staff : req[s].status = "BROUILLON" /\ req[s].pc # "mark"
  BY <1>2, <1>5, IdleSound
<1> QED
  BY <1>1, <1>3, <1>9, <1>10

-----------------------------------------------------------------------------
(* The offers of an AB that was sent.                                      *)

\* Requests that take up no removal leave the first offer alone.
LEMMA FirstKept ==
  ASSUME FirstStays, Ids' = Ids, offers' # {} => offers # {},
         \A s \in Staff :
           /\ req'[s].todo \subseteq req[s].todo
           /\ req'[s].todo # {} => /\ req'[s].list = req[s].list
                                   /\ req'[s].form = req[s].form
  PROVE  FirstStays'
<1>1. ASSUME offers' # {} PROVE FirstStays'
  <2>1. PICK m \in Ids : /\ \A n \in Ids : m <= n
                         /\ \A r \in Staff : ~Removes(req[r], m)
    BY <1>1 DEF FirstStays
  <2>2. \A r \in Staff : ~Removes(req'[r], m)
    BY <2>1 DEF Removes
  <2>3. /\ m \in Ids' /\ \A n \in Ids' : m <= n
        /\ (\A r \in Staff : ~Removes(req[r], m))'
    BY <2>1, <2>2 DEF Removes
  <2> QED
    BY <2>3 DEF FirstStays
<1> QED
  BY <1>1 DEF FirstStays

\* No request removes an offer that is created by another.
LEMMA FirstAdded ==
  ASSUME ShapeInv, FirstStays, Ids \subseteq Ids', serial + 1 \in Ids',
         \A n \in Ids' \ Ids : n >= serial + 1,
         \A s \in Staff :
           /\ req'[s].todo \subseteq req[s].todo
           /\ req'[s].todo # {} => /\ req'[s].list = req[s].list
                                   /\ req'[s].form = req[s].form
  PROVE  FirstStays'
<1>1. /\ serial \in Nat /\ Ids \in SUBSET (1..serial)
      /\ \A s \in Staff : Sound(req[s], serial)
  BY OfferFields DEF ShapeInv
<1>2. \A n \in Ids' : n \in Ids \/ n >= serial + 1
  OBVIOUS
<1>3. CASE offers = {}
  <2>1. Ids = {}
    BY <1>3 DEF Ids
  <2>2. \A n \in Ids' : serial + 1 <= n
    BY <1>1, <1>2, <2>1
  <2>3. \A s \in Staff : serial + 1 \notin req[s].todo \ {0}
    BY <1>1 DEF Sound, Commands
  <2>4. (\A s \in Staff : ~Removes(req[s], serial + 1))
    BY <2>3 DEF Removes
  <2>5. \A s \in Staff : serial + 1 \notin req'[s].todo \ {0}
    BY <2>3
  <2>6. \E m \in Ids' : /\ \A n \in Ids' : m <= n
                        /\ \A s \in Staff : m \notin req'[s].todo \ {0}
    BY <2>2, <2>5
  <2> QED
    BY <2>6 DEF FirstStays, Removes
<1>4. CASE offers # {}
  <2>1. PICK m \in Ids : /\ \A n \in Ids : m <= n
                         /\ \A r \in Staff : ~Removes(req[r], m)
    BY <1>4 DEF FirstStays
  <2>2. m \in Ids' /\ \A n \in Ids' : m <= n
    BY <1>1, <1>2, <2>1
  <2>3. (\A r \in Staff : ~Removes(req[r], m))'
    BY <2>1 DEF Removes
  <2> QED
    BY <2>2, <2>3 DEF FirstStays
<1> QED
  BY <1>3, <1>4

\* While there are offers nothing is owed.
LEMMA OffersThere ==
  ASSUME offers' # {}
  PROVE  MarkHasOffers' /\ SentHasOffers'
BY DEF MarkHasOffers, SentHasOffers

\* Where the offers are left alone, a debt stays with the request that has it or
\* is explained.
LEMMA DebtKept ==
  ASSUME MarkHasOffers, SentHasOffers, offers' = offers, sent' = sent,
         absent \subseteq absent',
         \A s \in Staff :
           /\ req'[s].pc = "mark" => req[s].pc = "mark" \/ offers # {}
           /\ req[s].op = "send" /\ req[s].pc \in {"check", "insert"}
              /\ offers = {} =>
                \/ absent' # {}
                \/ req'[s].op = "send" /\ req'[s].pc \in {"check", "insert"}
  PROVE  MarkHasOffers' /\ SentHasOffers'
<1>1. MarkHasOffers'
  BY DEF MarkHasOffers
<1>2. SentHasOffers'
  BY DEF SentHasOffers
<1> QED
  BY <1>1, <1>2

\* The status of a draft is copied from a draft.
LEMMA DraftKept ==
  ASSUME DraftUntilSent, sent' = sent, NEW r \in Staff,
         ab'.status \in {ab.status, req[r].status},
         req'[r].status \in {req[r].status, ab.status, "BROUILLON"},
         \A s \in Staff : s # r => req'[s] = req[s]
  PROVE  DraftUntilSent'
BY DEF DraftUntilSent

LEMMA InitOffers ==
  ASSUME Init
  PROVE  OffersInv
BY InitShape DEF OffersInv, FirstStays, DraftUntilSent, MarkHasOffers,
                 SentHasOffers

\* An AB has offers exactly when one has a number.
LEMMA Numbered ==
  /\ Ids = {} <=> offers = {}
  /\ Ids' = {} <=> offers' = {}
BY DEF Ids

\* One command of a sync: it never removes the first offer.
LEMMA ApplyOffers ==
  ASSUME OffersInv, NEW r \in Staff, Apply(r)
  PROVE  OffersInv'
<1>1. /\ ShapeInv' /\ req[r].pc = "apply" /\ UNCHANGED <<ab, sent>>
      /\ \/ Ids' = Ids /\ absent' = absent
         \/ /\ absent' = absent
            /\ \E n \in req[r].todo : Removes(req[r], n) /\ Ids' = Ids \ {n}
         \/ /\ Ids \subseteq Ids' /\ \A n \in Ids' \ Ids : n >= serial + 1
            /\ serial + 1 \in Ids'
      /\ req'[r].pc # "mark"
      /\ req'[r].status \in {req[r].status, "BROUILLON"}
      /\ \A s \in Staff : s # r => req'[s] = req[s]
  BY ApplyShape DEF OffersInv
<1>2. \A s \in Staff :
        /\ req'[s].todo \subseteq req[s].todo
        /\ req'[s].todo # {} => /\ req'[s].list = req[s].list
                                /\ req'[s].form = req[s].form
  BY ApplyShape DEF OffersInv
<1>3. DraftUntilSent'
  BY <1>1, DraftKept DEF OffersInv
<1>4. CASE Ids' = Ids /\ absent' = absent
  <2>1. FirstStays'
    BY <1>2, <1>4, FirstKept, Numbered DEF OffersInv
  <2>2. MarkHasOffers' /\ SentHasOffers'
    BY <1>1, <1>4, OffersThere, DebtKept, Numbered DEF OffersInv
  <2> QED
    BY <1>1, <1>3, <2>1, <2>2 DEF OffersInv
<1>5. CASE absent' = absent
           /\ \E n \in req[r].todo : Removes(req[r], n) /\ Ids' = Ids \ {n}
  <2>1. PICK n \in req[r].todo : Removes(req[r], n) /\ Ids' = Ids \ {n}
    BY <1>5
  <2>2. CASE offers = {}
    <3>1. Ids = {} /\ Ids' = {} /\ offers' = {}
      BY <2>1, <2>2, Numbered
    <3>2. FirstStays'
      BY <3>1 DEF FirstStays
    <3>3. MarkHasOffers' /\ SentHasOffers'
      BY <1>1, <1>5, <2>2, <3>1, DebtKept DEF OffersInv
    <3> QED
      BY <1>1, <1>3, <3>2, <3>3 DEF OffersInv
  <2>3. CASE offers # {}
    <3>1. PICK m \in Ids : /\ \A i \in Ids : m <= i
                           /\ \A s \in Staff : ~Removes(req[s], m)
      BY <2>3 DEF OffersInv, FirstStays
    <3>2. m \in Ids' /\ \A i \in Ids' : m <= i
      BY <2>1, <3>1
    <3>3. (\A s \in Staff : ~Removes(req[s], m))'
      BY <1>2, <3>1 DEF Removes
    <3>4. FirstStays'
      BY <3>2, <3>3 DEF FirstStays
    <3>5. offers' # {}
      BY <3>2, Numbered
    <3> QED
      BY <1>1, <1>3, <3>4, <3>5, OffersThere DEF OffersInv
  <2> QED
    BY <2>2, <2>3
<1>6. CASE Ids \subseteq Ids' /\ (\A n \in Ids' \ Ids : n >= serial + 1)
           /\ serial + 1 \in Ids'
  <2>1. FirstStays'
    BY <1>2, <1>6, FirstAdded DEF OffersInv
  <2>2. offers' # {}
    BY <1>6, Numbered
  <2> QED
    BY <1>1, <1>3, <2>1, <2>2, OffersThere DEF OffersInv
<1> QED
  BY <1>1, <1>4, <1>5, <1>6

\* The commands that create or remove all of them.
LEMMA CreateOffers ==
  ASSUME OffersInv, NEW r \in Staff, createOffers(r)
  PROVE  OffersInv'
<1>1. /\ ShapeInv' /\ UNCHANGED <<ab, sent>>
      /\ offers \subseteq offers'
      /\ \A o \in offers' \ offers : o.id >= serial + 1
      /\ \E o \in offers' : o.id = serial + 1
      /\ req'[r].todo = {} /\ req'[r].status \in {req[r].status, "BROUILLON"}
      /\ \A s \in Staff : s # r => req'[s] = req[s]
  BY CreateShape DEF OffersInv
<1>2. /\ Ids \subseteq Ids' /\ serial + 1 \in Ids'
      /\ \A n \in Ids' \ Ids : n >= serial + 1
  BY <1>1 DEF Ids
<1>3. FirstStays'
  BY <1>1, <1>2, FirstAdded DEF OffersInv
<1>4. DraftUntilSent'
  BY <1>1, DraftKept DEF OffersInv
<1>5. MarkHasOffers' /\ SentHasOffers'
  BY <1>1, OffersThere
<1> QED
  BY <1>1, <1>3, <1>4, <1>5 DEF OffersInv

LEMMA ClearOffers ==
  ASSUME OffersInv, NEW r \in Staff, Clear(r)
  PROVE  OffersInv'
<1>1. /\ ShapeInv' /\ req[r].pc = "clear" /\ UNCHANGED <<ab, sent>>
      /\ offers' = {}
      /\ absent' # {} \/ (~Committed /\ absent' = absent)
      /\ req'[r].pc # "mark" /\ req'[r].status \in {req[r].status, "BROUILLON"}
      /\ \A s \in Staff : s # r => req'[s] = req[s]
  BY ClearShape DEF OffersInv
<1>2. FirstStays'
  BY <1>1 DEF FirstStays
<1>3. DraftUntilSent'
  BY <1>1, DraftKept DEF OffersInv
<1>4. CASE absent' # {}
  BY <1>1, <1>2, <1>3, <1>4 DEF OffersInv, MarkHasOffers, SentHasOffers
<1>5. CASE ~Committed /\ absent' = absent
  <2>1. ~sent' /\ \A s \in Staff : req'[s].pc # "mark"
    BY <1>1, <1>5 DEF Committed
  <2>2. MarkHasOffers' /\ SentHasOffers'
    BY <2>1 DEF MarkHasOffers, SentHasOffers
  <2> QED
    BY <1>1, <1>2, <1>3, <2>2 DEF OffersInv
<1> QED
  BY <1>1, <1>4, <1>5

\* The steps that leave the offers alone.
LEMMA OtherOffers ==
  ASSUME OffersInv, NEW r \in Staff, ShapeInv', offers' = offers,
         sent' = sent, absent \subseteq absent',
         ab'.status \in {ab.status, req[r].status},
         req'[r].status \in {req[r].status, ab.status, "BROUILLON"},
         req'[r].todo \subseteq req[r].todo,
         req'[r].todo # {} => /\ req'[r].list = req[r].list
                              /\ req'[r].form = req[r].form,
         req'[r].pc = "mark" => offers # {},
         req[r].op = "send" /\ req[r].pc \in {"check", "insert"} /\ offers = {}
           => \/ absent' # {}
              \/ req'[r].op = "send" /\ req'[r].pc \in {"check", "insert"},
         \A s \in Staff : s # r => req'[s] = req[s]
  PROVE  OffersInv'
<1>1. Ids' = Ids
  BY DEF Ids
<1>2. \A s \in Staff :
        /\ req'[s].todo \subseteq req[s].todo
        /\ req'[s].todo # {} => /\ req'[s].list = req[s].list
                                /\ req'[s].form = req[s].form
  OBVIOUS
<1>3. FirstStays'
  BY <1>1, <1>2, FirstKept DEF OffersInv
<1>4. MarkHasOffers' /\ SentHasOffers'
  BY DebtKept DEF OffersInv
<1>5. DraftUntilSent'
  BY DraftKept DEF OffersInv
<1> QED
  BY <1>3, <1>4, <1>5 DEF OffersInv

\* The offers are read, and the request takes the list of them.
LEMMA SyncOffers ==
  ASSUME OffersInv, NEW r \in Staff, Sync(r)
  PROVE  OffersInv'
<1>1. /\ ShapeInv' /\ req[r].pc = "sync"
      /\ UNCHANGED <<ab, offers, sent, absent>>
      /\ req'[r].pc # "mark"
      /\ req'[r].status \in {req[r].status, "BROUILLON"}
      /\ \/ req'[r].todo = {}
         \/ /\ req'[r].list = Ids /\ req'[r].todo \subseteq Ids \cup {0}
            /\ req'[r].form \in Forms
      /\ \A s \in Staff : s # r => req'[s] = req[s]
  BY SyncShape DEF OffersInv
<1>2. DraftUntilSent'
  BY <1>1, DraftKept DEF OffersInv
<1>3. MarkHasOffers' /\ SentHasOffers'
  BY <1>1, DebtKept DEF OffersInv
<1>4. ASSUME offers # {} PROVE FirstStays'
  <2>1. PICK m \in Ids : /\ \A n \in Ids : m <= n
                         /\ \A s \in Staff : ~Removes(req[s], m)
    BY <1>4 DEF OffersInv, FirstStays
  <2>2. ~Removes(req'[r], m)
    <3>1. CASE req'[r].todo = {}
      BY <3>1 DEF Removes
    <3>2. CASE req'[r].list = Ids /\ req'[r].form \in Forms
      <4>1. RankIn(m, Ids) = 1
        BY <2>1, OfferFields, RankOfFirst DEF OffersInv
      <4>2. /\ Len(buildOffers(req'[r].form)) \in Nat
            /\ Len(buildOffers(req'[r].form)) >= 1
        BY <3>2, FormPlaces
      <4> QED
        BY <3>2, <4>1, <4>2 DEF Removes
    <3> QED
      BY <1>1, <3>1, <3>2
  <2>3. \A s \in Staff : s # r => ~Removes(req'[s], m)
    BY <1>1, <2>1
  <2>4. Ids' = Ids
    BY <1>1 DEF Ids
  <2>5. (\A s \in Staff : ~Removes(req[s], m))'
    BY <2>2, <2>3 DEF Removes
  <2> QED
    BY <2>1, <2>4, <2>5 DEF FirstStays
<1>5. FirstStays'
  BY <1>1, <1>4 DEF FirstStays
<1> QED
  BY <1>1, <1>2, <1>3, <1>5 DEF OffersInv

\* A sending: only a request that read a draft owes the offers; an AB whose
\* status was read as sent has them, or is explained, already.
LEMMA SendOffers ==
  ASSUME OffersInv, NEW r \in Staff, StoreRequest(r) \/ StoreSigned(r)
  PROVE  OffersInv'
<1> DEFINE Rest == /\ ShapeInv' /\ UNCHANGED <<offers, absent>> /\ sent' = TRUE
                   /\ req'[r].pc # "mark" /\ req'[r].todo = {}
                   /\ \A s \in Staff : s # r => req'[s] = req[s]
<1>1. ASSUME Rest
      PROVE  FirstStays' /\ DraftUntilSent' /\ MarkHasOffers'
  <2>1. Ids' = Ids
    BY <1>1 DEF Ids
  <2>2. FirstStays'
    BY <1>1, <2>1, FirstKept DEF OffersInv
  <2>3. DraftUntilSent'
    BY <1>1 DEF DraftUntilSent
  <2>4. MarkHasOffers'
    BY <1>1 DEF OffersInv, MarkHasOffers
  <2> QED
    BY <2>2, <2>3, <2>4
<1>2. CASE StoreRequest(r)
  <2>1. /\ Rest /\ req[r].pc = "store"
        /\ req'[r].pc = IF req[r].status = "BROUILLON" THEN "check" ELSE "idle"
        /\ req'[r].pc # "idle" => req'[r].op = "send"
    BY <1>2, StoreRequestShape DEF OffersInv
  <2>2. CASE req[r].status = "BROUILLON"
    <3>1. req'[r].op = "send" /\ req'[r].pc = "check"
      BY <2>1, <2>2
    <3>2. SentHasOffers'
      BY <3>1 DEF SentHasOffers
    <3> QED
      BY <1>1, <2>1, <3>2 DEF OffersInv
  <2>3. CASE req[r].status # "BROUILLON"
    <3>1. sent
      BY <2>3 DEF OffersInv, DraftUntilSent
    <3>2. SentHasOffers'
      BY <2>1, <3>1 DEF OffersInv, SentHasOffers
    <3> QED
      BY <1>1, <2>1, <3>2 DEF OffersInv
  <2> QED
    BY <2>2, <2>3
<1>3. CASE StoreSigned(r)
  <2>1. Rest /\ req[r].pc = "mark"
    BY <1>3, EndShape, IdleSound, Fields DEF OffersInv
  <2>2. SentHasOffers'
    BY <2>1 DEF OffersInv, MarkHasOffers, SentHasOffers
  <2> QED
    BY <1>1, <2>1, <2>2 DEF OffersInv
<1> QED
  BY <1>2, <1>3

-----------------------------------------------------------------------------
(* The theorems.                                                           *)

\* One step of a request.
LEMMA RequestOffers ==
  ASSUME OffersInv, NEW r \in Staff,
         Begin(r) \/ OnAb(r) \/ OnOffers(r) \/ Fail(r)
  PROVE  OffersInv'
<1>0. ShapeInv
  BY DEF OffersInv
<1>1. CASE Begin(r)
  BY <1>0, <1>1, BeginShape, OtherOffers
<1>2. CASE StoreRequest(r) \/ StoreSigned(r)
  BY <1>2, SendOffers
<1>3. CASE WriteAb(r)
  <2>1. /\ ShapeInv' /\ req[r].pc = "write"
        /\ UNCHANGED <<offers, sent, absent>> /\ ab'.status = req[r].status
        /\ req'[r].pc = "sync" /\ req'[r].todo = {}
        /\ req'[r].status \in {req[r].status, "BROUILLON"}
        /\ \A s \in Staff : s # r => req'[s] = req[s]
    BY <1>0, <1>3, WriteAbShape
  <2> QED
    BY <2>1, OtherOffers
<1>4. CASE SetVisible(r)
  <2>1. /\ ShapeInv' /\ req[r].pc = "flag"
        /\ UNCHANGED <<offers, sent, absent>> /\ ab'.status = ab.status
        /\ req'[r].pc # "mark" /\ req'[r].todo = {}
        /\ req'[r].status \in {req[r].status, "BROUILLON"}
        /\ \A s \in Staff : s # r => req'[s] = req[s]
    BY <1>0, <1>4, SetVisibleShape
  <2> QED
    BY <2>1, OtherOffers
<1>5. CASE markDeleted(r)
  <2>1. /\ ShapeInv' /\ req[r].pc \in {"mark", "drop"}
        /\ UNCHANGED <<offers, absent>> /\ sent' = sent /\ ab'.status = ab.status
        /\ req'[r] = Idle
        /\ \A s \in Staff : s # r => req'[s] = req[s]
    BY <1>0, <1>5, EndShape
  <2>2. req'[r].todo = {} /\ req'[r].status = "BROUILLON" /\ req'[r].pc = "idle"
    BY <2>1, IdleSound, Fields, <1>0
  <2> QED
    BY <2>1, <2>2, OtherOffers
<1>6. CASE Check(r)
  <2>1. /\ ShapeInv' /\ UNCHANGED <<ab, offers, sent, absent>>
        /\ req'[r].pc = "mark" => offers # {}
        /\ req[r].op = "send" /\ offers = {} =>
             req'[r].op = "send" /\ req'[r].pc = "insert"
        /\ req'[r].todo = {} /\ req'[r].status \in {req[r].status, "BROUILLON"}
        /\ \A s \in Staff : s # r => req'[s] = req[s]
    BY <1>0, <1>6, CheckShape
  <2> QED
    BY <2>1, OtherOffers
<1>7. CASE Fetch(r)
  <2>1. /\ ShapeInv' /\ req[r].pc = "fetch"
        /\ UNCHANGED <<ab, offers, sent, absent>>
        /\ req'[r].pc = "insert" /\ req'[r].todo = {}
        /\ req'[r].status \in {req[r].status, "BROUILLON"}
        /\ \A s \in Staff : s # r => req'[s] = req[s]
    BY <1>0, <1>7, FetchShape
  <2> QED
    BY <2>1, OtherOffers
<1>8. CASE createOffers(r)
  BY <1>8, CreateOffers
<1>9. CASE Sync(r)
  BY <1>9, SyncOffers
<1>10. CASE Apply(r)
  BY <1>10, ApplyOffers
<1>11. CASE Clear(r)
  BY <1>11, ClearOffers
<1>12. CASE Fail(r)
  BY <1>0, <1>12, FailShape, OtherOffers
<1> QED
  BY <1>1, <1>2, <1>3, <1>4, <1>5, <1>6, <1>7, <1>8, <1>9, <1>10, <1>11, <1>12
     DEF OnAb, OnOffers

LEMMA CrashOffers ==
  ASSUME OffersInv, Crash
  PROVE  OffersInv'
<1>1. /\ ShapeInv' /\ UNCHANGED <<ab, offers, sent>> /\ absent \subseteq absent'
      /\ (\E r \in Staff : /\ req[r].op = "send"
                           /\ req[r].pc \in {"check", "insert"})
         /\ offers = {} => absent' # {}
      /\ \A s \in Staff : req'[s] = Idle
  BY CrashShape DEF OffersInv
<1>2. \A s \in Staff : /\ req'[s].todo = {} /\ req'[s].pc = "idle"
                       /\ req'[s].status = "BROUILLON"
  <2>1. serial \in Nat
    BY OfferFields DEF OffersInv
  <2> QED
    BY <1>1, <2>1, IdleSound
<1>3. Ids' = Ids
  BY <1>1 DEF Ids
<1>4. FirstStays'
  BY <1>1, <1>2, <1>3, FirstKept DEF OffersInv
<1>5. MarkHasOffers' /\ SentHasOffers'
  BY <1>1, <1>2, DebtKept DEF OffersInv
<1>6. DraftUntilSent'
  BY <1>1, <1>2 DEF OffersInv, DraftUntilSent
<1> QED
  BY <1>1, <1>4, <1>5, <1>6 DEF OffersInv

\* The other actors write neither requests nor numbers.
LEMMA OutsideOffers ==
  ASSUME OffersInv, Sign \/ (\E o \in offers : Match(o)) \/ UNCHANGED vars
  PROVE  OffersInv'
<1>1. ShapeInv' /\ Ids' = Ids
  <2>1. CASE Sign
    BY <2>1, SignShape DEF OffersInv, Sign, Ids
  <2>2. CASE \E o \in offers : Match(o)
    BY <2>2, MatchShape DEF OffersInv
  <2>3. CASE UNCHANGED vars
    BY <2>3 DEF OffersInv, ShapeInv, TypeOK, Ids, vars
  <2> QED
    BY <2>1, <2>2, <2>3
<1>2. UNCHANGED <<req, sent, absent>>
  BY DEF Sign, Match, vars
<1>3. FirstStays'
  BY <1>1, <1>2, FirstKept, Numbered DEF OffersInv
<1>4. MarkHasOffers' /\ SentHasOffers'
  BY <1>1, <1>2, Numbered DEF OffersInv, MarkHasOffers, SentHasOffers
<1>5. DraftUntilSent'
  BY <1>2 DEF OffersInv, DraftUntilSent, Sign, Match, vars
<1> QED
  BY <1>1, <1>3, <1>4, <1>5 DEF OffersInv

\* Every step keeps the invariant, and so it always holds.
THEOREM OffersInvariant == Spec => []OffersInv
<1>1. Init => OffersInv
  BY InitOffers
<1>2. OffersInv /\ [Next]_vars => OffersInv'
  <2> SUFFICES ASSUME OffersInv, [Next]_vars PROVE OffersInv'
    OBVIOUS
  <2>1. CASE \E r \in Staff : Begin(r) \/ OnAb(r) \/ OnOffers(r) \/ Fail(r)
    BY <2>1, RequestOffers
  <2>2. CASE Crash
    BY <2>2, CrashOffers
  <2>3. CASE Sign \/ (\E o \in offers : Match(o)) \/ UNCHANGED vars
    BY <2>3, OutsideOffers
  <2> QED
    BY <2>1, <2>2, <2>3 DEF Next
<1> QED
  BY <1>1, <1>2, PTL DEF Spec

\* The AB, its offers and the requests keep their types.
THEOREM TypeCorrect == Spec => []TypeOK
<1>1. OffersInv => TypeOK
  BY DEF OffersInv, ShapeInv
<1> QED
  BY <1>1, OffersInvariant, PTL

\* Whatever the number of users, the forms and the overlap of their requests, an
\* AB that was sent keeps an offer until it is deleted or hidden, except where
\* the creation itself failed.
THEOREM SentAlwaysHasOffers == Spec => []SentHasOffers
<1>1. OffersInv => SentHasOffers
  BY DEF OffersInv
<1> QED
  BY <1>1, OffersInvariant, PTL
=============================================================================
