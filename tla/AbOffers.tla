------------------------------ MODULE AbOffers ------------------------------
(***************************************************************************)
(* The offers of one AB.  The matching works on documents of their own,   *)
(* one per place the AB asks for.  Six handlers of NeedsAnalysisService   *)
(* create, rewrite or remove them, each after a read of the AB and a read *)
(* of the offers, with no transaction: create, sendForSignature, update,  *)
(* setMatchingVisibility, markSigned and delete.                           *)
(*                                                                         *)
(* A request is followed command by command.  An offer keeps, of its       *)
(* matching, the place for which candidates were looked for (made): what   *)
(* happens inside it is the subject of module Matching.  MongoDB returns   *)
(* the offers of an AB in the order in which they were inserted, which is  *)
(* the order of their numbers here.                                        *)
(***************************************************************************)
EXTENDS Naturals, Sequences, FiniteSets

CONSTANTS
  Staff,      \* users with a request in progress, one each
  Forms,      \* the lists of positions users give to an AB
  Place,      \* a position and one of the trainings it is open to
  None,       \* no place
  Budgets,    \* bounds of a behaviour: <<requests, failures and restarts>>
  MaxMatched  \* bound: offers on which candidates are looked for

VARIABLES
  ab,         \* the AB: positions, status, is_visible_in_matching, is_deleted
  offers,     \* its documents of the collection offers
  serial,     \* no document has a greater number
  req,        \* the request of each user and the copies it holds
  sent,       \* history: the AB was sent or signed
  absent,     \* history: why an AB that was sent has no offers
  astray,     \* history: why the offers may not follow the AB
  ops,        \* requests that may still begin
  faults      \* commands and restarts that may still fail or happen

vars == <<ab, offers, serial, req, sent, absent, astray, ops, faults>>

Status == {"BROUILLON", "EN_ATTENTE_SIGNATURE", "SIGNE"}

-----------------------------------------------------------------------------
(* What an AB asks for.                                                    *)

\* A position of count N open to trainings <<t, u>>: N places for t, then N
\* for u.  No training at all counts as one.
PlacesOf(position) ==
  LET n   == IF position.count > 1 THEN position.count ELSE 1
      tps == IF position.tps = <<>> THEN <<None>> ELSE position.tps
  IN  [k \in 1..(n * Len(tps)) |-> <<position.job, tps[((k - 1) \div n) + 1]>>]

buildOffers(form) ==
  LET upTo[i \in 0..Len(form)] ==
        IF i = 0 THEN <<>> ELSE upTo[i - 1] \o PlacesOf(form[i])
  IN  upTo[Len(form)]

\* validateData refuses an AB without a position.
FormsAssumption ==
  /\ None \notin Place
  /\ <<>> \notin Forms
  /\ \A form \in Forms : /\ buildOffers(form) \in Seq(Place)
                         /\ Len(buildOffers(form)) > 0
  /\ Budgets \subseteq Nat \X Nat /\ MaxMatched \in Nat

ASSUME FormsAssumption

-----------------------------------------------------------------------------
(* Requests.                                                               *)

Op == {"none", "create", "send", "edit", "show", "mark", "delete", "rejected"}

Pc == {"idle", "store", "write", "sync", "apply", "flag", "check", "fetch",
       "insert", "clear", "mark", "drop"}

ReqRec == [op : Op, pc : Pc, form : Forms \cup {<<>>}, status : Status,
           was : BOOLEAN, to : BOOLEAN,
           list : SUBSET Nat, known : SUBSET Nat, todo : SUBSET Nat]

Idle == [op |-> "none", pc |-> "idle", form |-> <<>>, status |-> "BROUILLON",
         was |-> FALSE, to |-> FALSE, list |-> {}, known |-> {}, todo |-> {}]

Ids == {o.id : o \in offers}

\* Mutant: the offers are read in the reverse order.
RankFromEnd(n, list) == Cardinality({m \in list : m >= n})

\* The answer of findByNeedsAnalysisId is ordered: the position of a number in
\* it decides which place an edit gives to that offer.
RankIn(n, list) == Cardinality({m \in list : m <= n})

\* Mutant: an edit that adds places creates all of them again.
NewOffersAll(form, k) ==
  {[id |-> serial + i, place |-> buildOffers(form)[i], made |-> None] :
     i \in 1..Len(buildOffers(form))}

\* New offers for the places of form after the first k.
NewOffers(form, k) ==
  {[id |-> serial + i, place |-> buildOffers(form)[k + i], made |-> None] :
     i \in 1..(Len(buildOffers(form)) - k)}

Continue(r, q) == req' = [req EXCEPT ![r] = IF q.pc = "idle" THEN Idle ELSE q]

\* Where a handler goes once it has seen, created or removed the offers.
AfterOffers(q) == CASE q.op = "mark"   -> "mark"
                    [] q.op = "delete" -> "drop"
                    [] OTHER           -> "idle"

\* The end of update: publish, withdraw or neither.
AfterSync(q) == IF q.op = "rejected" \/ q.to = q.was THEN "idle"
                ELSE IF q.to THEN "check" ELSE "clear"

\* The AB or its offers changed since the request read them.
Stale(q) == q.form # ab.positions \/ q.known # Ids

NoteStale(q) == astray' = IF Stale(q) THEN astray \cup {"stale"} ELSE astray

\* The AB is sent, or about to be marked signed by a request that has seen or
\* created its offers.
Committed == sent \/ \E r \in Staff : req[r].pc = "mark"

\* create: the document is there, its offers still to be made if it is to show.
Init ==
  /\ \E form \in Forms, visible \in BOOLEAN, r \in Staff :
       /\ ab = [positions |-> form, status |-> "BROUILLON",
                visible |-> visible, deleted |-> FALSE]
       /\ req = [s \in Staff |->
                   IF s = r /\ visible
                   THEN [Idle EXCEPT !.op = "create", !.pc = "insert",
                                     !.form = form]
                   ELSE Idle]
  /\ offers = {} /\ serial = 0
  /\ sent = FALSE /\ absent = {} /\ astray = {}
  /\ \E b \in Budgets : ops = b[1] /\ faults = b[2]

-----------------------------------------------------------------------------
(* A user calls a handler, which reads the AB.                             *)

Call(r, op, pc, to, form) ==
  /\ req[r].pc = "idle"
  /\ ops > 0 /\ ops' = ops - 1
  /\ req' = [req EXCEPT ![r] =
               [op |-> op, pc |-> pc, form |-> form, status |-> ab.status,
                was |-> ab.visible, to |-> to,
                list |-> {}, known |-> {}, todo |-> {}]]
  /\ UNCHANGED <<ab, offers, serial, sent, absent, astray, faults>>

sendForSignature(r) == Call(r, "send", "store", FALSE, ab.positions)

\* The form of the front end always gives the positions and the visibility.
update(r) == \E form \in Forms, visible \in BOOLEAN :
               Call(r, "edit", "write", visible, form)

setMatchingVisibility(r) ==
  /\ ~ab.deleted /\ ab.status = "BROUILLON"
  /\ \E visible \in BOOLEAN : Call(r, "show", "flag", visible, <<>>)

markSigned(r) == Call(r, "mark", "check", FALSE, ab.positions)

delete(r) == Call(r, "delete", "clear", FALSE, <<>>)

-----------------------------------------------------------------------------
(* The commands on the AB.                                                 *)

\* Mutant: the status is looked at after it was stored.
StoreRequestLate(r) ==
  /\ req[r].pc = "store"
  /\ ab' = [ab EXCEPT !.status = "EN_ATTENTE_SIGNATURE"]
  /\ sent' = TRUE
  /\ Continue(r, [req[r] EXCEPT !.pc = IF ab'.status = "BROUILLON" THEN "check"
                                       ELSE "idle"])
  /\ UNCHANGED <<offers, serial, absent, astray, ops, faults>>

\* Only a request that read a draft takes charge of the offers.
StoreRequest(r) ==
  LET q == req[r] IN
  /\ q.pc = "store"
  /\ ab' = [ab EXCEPT !.status = "EN_ATTENTE_SIGNATURE"]
  /\ sent' = TRUE
  /\ Continue(r, [q EXCEPT !.pc = IF q.status = "BROUILLON" THEN "check"
                                  ELSE "idle"])
  /\ UNCHANGED <<offers, serial, absent, astray, ops, faults>>

\* Mutant: the form has no status, and nothing replaces it.
WriteAbNull(r) ==
  LET q == req[r] IN
  /\ q.pc = "write"
  /\ ab' = [ab EXCEPT !.positions = q.form, !.status = None, !.visible = q.to]
  /\ Continue(r, [q EXCEPT !.pc = "sync"])
  /\ UNCHANGED <<offers, serial, sent, absent, astray, ops, faults>>

\* A whole document: the status is the one that was read.
WriteAb(r) ==
  LET q == req[r] IN
  /\ q.pc = "write"
  /\ ab' = [ab EXCEPT !.positions = q.form, !.status = q.status,
                      !.visible = q.to]
  /\ Continue(r, [q EXCEPT !.pc = "sync"])
  /\ UNCHANGED <<offers, serial, sent, absent, astray, ops, faults>>

SetVisible(r) ==
  LET q == req[r] IN
  /\ q.pc = "flag"
  /\ ab' = [ab EXCEPT !.visible = q.to]
  /\ Continue(r, [q EXCEPT !.pc = IF q.to THEN "check" ELSE "clear"])
  /\ UNCHANGED <<offers, serial, sent, absent, astray, ops, faults>>

StoreSigned(r) ==
  /\ req[r].pc = "mark"
  /\ ab' = [ab EXCEPT !.status = "SIGNE"]
  /\ sent' = TRUE
  /\ Continue(r, Idle)
  /\ UNCHANGED <<offers, serial, absent, astray, ops, faults>>

markDeleted(r) ==
  /\ req[r].pc = "drop"
  /\ ab' = [ab EXCEPT !.deleted = TRUE]
  /\ Continue(r, Idle)
  /\ UNCHANGED <<offers, serial, sent, absent, astray, ops, faults>>

-----------------------------------------------------------------------------
(* The commands on the offers.                                             *)

\* Are there offers already?
Check(r) ==
  LET q == req[r] IN
  /\ q.pc = "check"
  /\ Continue(r, [q EXCEPT !.known = {},
                           !.pc = IF offers # {} THEN AfterOffers(q)
                                  ELSE IF q.op = "show" THEN "fetch"
                                  ELSE "insert"])
  /\ UNCHANGED <<ab, offers, serial, sent, absent, astray, ops, faults>>

\* setMatchingVisibility reads the AB a second time.
Fetch(r) ==
  LET q == req[r] IN
  /\ q.pc = "fetch"
  /\ Continue(r, [q EXCEPT !.form = ab.positions, !.pc = "insert"])
  /\ UNCHANGED <<ab, offers, serial, sent, absent, astray, ops, faults>>

createOffers(r) ==
  LET q == req[r] IN
  /\ q.pc = "insert"
  /\ offers' = offers \cup NewOffers(q.form, 0)
  /\ serial' = serial + Len(buildOffers(q.form))
  /\ absent' = {}
  /\ NoteStale(q)
  /\ Continue(r, [q EXCEPT !.pc = AfterOffers(q)])
  /\ UNCHANGED <<ab, sent, ops, faults>>

\* syncOffers pairs the offers and the places by their order: one command per
\* offer, its number, and 0 for the insertion of what is left over.  A list that
\* another edit is rewriting is out of date at once.
Sync(r) ==
  LET q == req[r] IN
  /\ q.pc = "sync"
  /\ Continue(r, IF offers = {} THEN [q EXCEPT !.pc = AfterSync(q)]
                 ELSE [q EXCEPT !.pc = "apply", !.list = Ids, !.known = Ids,
                                !.todo = IF Len(buildOffers(q.form))
                                              > Cardinality(Ids)
                                         THEN Ids \cup {0} ELSE Ids])
  /\ astray' = IF \E s \in Staff : req[s].pc = "apply"
               THEN astray \cup {"stale"} ELSE astray
  /\ UNCHANGED <<ab, offers, serial, sent, absent, ops, faults>>

\* The commands were sent together (Promise.all): they end in any order.
NextCommand(q, n, known) ==
  LET left == q.todo \ {n} IN
  [q EXCEPT !.todo = left, !.known = known,
            !.pc = IF left = {} THEN AfterSync(q) ELSE "apply"]

UpdateContent(r, n) ==
  LET q == req[r]
      k == RankIn(n, q.list)
  IN
  /\ k <= Len(buildOffers(q.form))
  /\ offers' = {IF o.id = n THEN [o EXCEPT !.place = buildOffers(q.form)[k]]
                ELSE o : o \in offers}
  /\ Continue(r, NextCommand(q, n, q.known))
  /\ UNCHANGED <<serial, absent>>

DeleteById(r, n) ==
  LET q == req[r] IN
  /\ RankIn(n, q.list) > Len(buildOffers(q.form))
  /\ offers' = {o \in offers : o.id # n}
  /\ Continue(r, NextCommand(q, n, q.known \ {n}))
  /\ UNCHANGED <<serial, absent>>

CreateRest(r) ==
  LET q   == req[r]
      new == NewOffers(q.form, Cardinality(q.list))
  IN
  /\ offers' = offers \cup new
  /\ serial' = serial + Len(buildOffers(q.form))
  /\ absent' = {}
  /\ Continue(r, NextCommand(q, 0, q.known \cup {o.id : o \in new}))

Apply(r) ==
  LET q == req[r] IN
  /\ q.pc = "apply"
  /\ \/ \E n \in q.todo \ {0} : UpdateContent(r, n) \/ DeleteById(r, n)
     \/ 0 \in q.todo /\ CreateRest(r)
  /\ NoteStale(q)
  /\ UNCHANGED <<ab, sent, ops, faults>>

\* deleteByNeedsAnalysisId, called to hide the AB or to delete it.
Clear(r) ==
  LET q == req[r] IN
  /\ q.pc = "clear"
  /\ offers' = {}
  /\ absent' = IF Committed THEN {IF q.op = "delete" THEN "deleted" ELSE "hidden"}
               ELSE absent
  /\ astray' = {}
  /\ Continue(r, [q EXCEPT !.pc = AfterOffers(q)])
  /\ UNCHANGED <<ab, serial, sent, ops, faults>>

-----------------------------------------------------------------------------
(* Failures and the other actors.                                          *)

\* What a request that stops here leaves undone.
Undone(q) == IF q.pc \in {"sync", "apply"} THEN {"torn"} ELSE {}

Uncreated(q) ==
  IF q.op = "send" /\ q.pc \in {"check", "insert"} /\ offers = {}
  THEN {"uncreated"} ELSE {}

\* One command fails.  A failed removal is logged and the handler goes on; the
\* commands of a sync that were sent with the failed one run to their end;
\* everything else ends the request, a failed creation included.
Fail(r) ==
  LET q == req[r] IN
  /\ q.pc # "idle"
  /\ faults > 0 /\ faults' = faults - 1
  /\ CASE q.pc = "clear" -> Continue(r, [q EXCEPT !.pc = AfterOffers(q)])
       [] q.pc = "apply" ->
            \E n \in q.todo :
               Continue(r, NextCommand([q EXCEPT !.op = "rejected"], n, q.known))
       [] OTHER -> Continue(r, Idle)
  /\ astray' = astray \cup Undone(q)
  /\ absent' = absent \cup Uncreated(q)
  /\ UNCHANGED <<ab, offers, serial, sent, ops>>

\* The back end restarts.
Crash ==
  /\ \E r \in Staff : req[r].pc # "idle"
  /\ faults > 0 /\ faults' = faults - 1
  /\ req' = [r \in Staff |-> Idle]
  /\ astray' = astray \cup UNION {Undone(req[r]) : r \in Staff}
  /\ absent' = absent \cup UNION {Uncreated(req[r]) : r \in Staff}
  /\ UNCHANGED <<ab, offers, serial, sent, ops>>

\* The webhook of the signature.
Sign ==
  /\ ab.status = "EN_ATTENTE_SIGNATURE"
  /\ ab' = [ab EXCEPT !.status = "SIGNE"]
  /\ UNCHANGED <<offers, serial, req, sent, absent, astray, ops, faults>>

\* Candidates are looked for on an offer.
Match(o) ==
  /\ o.made = None
  /\ Cardinality({p \in offers : p.made # None}) < MaxMatched
  /\ offers' = (offers \ {o}) \cup {[o EXCEPT !.made = o.place]}
  /\ UNCHANGED <<ab, serial, req, sent, absent, astray, ops, faults>>

Begin(r) == sendForSignature(r) \/ update(r) \/ setMatchingVisibility(r)
            \/ markSigned(r) \/ delete(r)

OnAb(r) == StoreRequest(r) \/ WriteAb(r) \/ SetVisible(r) \/ StoreSigned(r)
           \/ markDeleted(r)

OnOffers(r) == Check(r) \/ Fetch(r) \/ createOffers(r) \/ Sync(r) \/ Apply(r)
               \/ Clear(r)

Next == \/ \E r \in Staff : Begin(r) \/ OnAb(r) \/ OnOffers(r) \/ Fail(r)
        \/ Crash
        \/ Sign
        \/ \E o \in offers : Match(o)

Spec == Init /\ [][Next]_vars

-----------------------------------------------------------------------------
(* Properties.                                                             *)

OfferRec == [id : Nat, place : Place, made : Place \cup {None}]

\* The types of the AB, of its offers and of the requests.
TypeOK ==
  /\ ab \in [positions : Forms, status : Status, visible : BOOLEAN,
             deleted : BOOLEAN]
  /\ offers \subseteq OfferRec
  /\ serial \in Nat
  /\ req \in [Staff -> ReqRec]
  /\ sent \in BOOLEAN
  /\ absent \subseteq {"deleted", "hidden", "uncreated"}
  /\ astray \subseteq {"stale", "torn"}
  /\ ops \in Nat /\ faults \in Nat

\* An AB that was sent or signed has offers, or the sending that owes them is
\* still at work, or its creation failed (the error is swallowed, and no later
\* sending repairs it), or the AB was deleted or hidden.  No overlap of edits
\* ever removes the last offer.
SentHasOffers ==
  sent /\ offers = {} =>
    \/ absent # {}
    \/ \E r \in Staff : req[r].op = "send" /\ req[r].pc \in {"check", "insert"}

\* Between requests the offers are, in order, the places the AB asks for, unless
\* a request wrote from copies that were out of date or stopped half-way.
OffersFollowAb ==
  (\A r \in Staff : req[r].pc = "idle") /\ astray = {} /\ offers # {} =>
    /\ Cardinality(offers) = Len(buildOffers(ab.positions))
    /\ \A o \in offers :
         o.place = buildOffers(ab.positions)[RankIn(o.id, Ids)]

\* Where places are only added and removed at the end, the candidates looked for
\* on an offer were looked for its place, unless a request wrote from copies that
\* were out of date or stopped half-way.
MatchingStays ==
  astray = {} => \A o \in offers : o.made \in {None, o.place}

\* "En preservant leur id stable et leur etat de matching": no step of an edit of
\* an AB that was sent loses the candidates of a place the AB still asks for.
EditKeepsMatching ==
  [][(ab.status # "BROUILLON"
      /\ \E r \in Staff : req[r].op = "edit" /\ (Apply(r) \/ Clear(r)))
     => \A o \in offers :
          o.made = o.place
          /\ (\E k \in DOMAIN buildOffers(ab.positions) :
                buildOffers(ab.positions)[k] = o.made)
          => \E p \in offers' : p.place = o.made /\ p.made = o.made]_vars
=============================================================================
