------------------------------ MODULE Matching ------------------------------
(***************************************************************************)
(* The candidates of one offer: accepted, shown to the company, answered   *)
(* by it, given an interview slot, concluded and hired.  The offer and its *)
(* list of candidates are one MongoDB document, the status of a candidate  *)
(* is on a fiche of his own, and companies and candidates act through the  *)
(* links of ExternalAccess.                                                *)
(*                                                                         *)
(* A request is a sequence of commands and other requests run between two  *)
(* of them: req[r] is where the request r stands and what it has read.     *)
(***************************************************************************)
EXTENDS ExternalAccess, FiniteSets

CONSTANTS
    Cand, Slot, None,
    Selection,      \* purpose of a company's link; a candidate's is himself
    Req,            \* requests served at the same time
    Situation,      \* where the offer may stand at first
    MaxOps,         \* bound: requests received
    MaxFaults       \* bound: requests that end in an error

VARIABLES
    offer,          \* status and interview slots of the offer
    cand,           \* cand[c]: the entry of c in its list
    fiche,          \* fiche[c]: status of the candidate on his fiche
    req,
    ops, faults,
    log             \* history, for the properties

offerVars == <<offer, cand, fiche>>
vars == <<accessVars, offerVars, req, ops, faults, log>>

Stages == {"CV_SEND", "IMMERSING", "CONTRACT"}
OfferStatus == {"NOT_MATCHED", "MATCHED"} \cup Stages
CandStatus == {"PRE_SELECTED", "DECLINED", "ACCEPTED", "SEND", "REFUSED",
               "INTERVIEW", "IMMERSING", "CONTRACT"}
AnswerStatus == {"REFUSED", "INTERVIEW", "IMMERSING"}
InterviewEnd == {"REJECTED", "PRESENT", "IMMERSING", "CONTRACT"}
ImmersionEnd == {"REJECTED", "CONTRACT"}
FicheStatus == {"SEEKING", "IMMERSING", "CONTRACT"}

Entry == [st : CandStatus \cup {"out"}, slot : Slot \cup {None},
          concl : InterviewEnd \cup {"none"}, imm : ImmersionEnd \cup {"none"}]
Fresh(st, s) == [st |-> st, slot |-> s, concl |-> "none", imm |-> "none"]
Out == Fresh("out", None)
Nobody == [c \in Cand |-> Out]

ReqRec ==
    [pc : {"idle", "merge", "list", "invite", "slots", "answers", "interview",
           "book", "close", "fiche", "spread", "sync", "replace", "push",
           "conclude", "immerse"},
     l : Link \cup {None}, c : Cand \cup {None}, s : Slot \cup {None},
     st : CandStatus \cup InterviewEnd \cup FicheStatus \cup {"none"},
     seen : OfferStatus \cup {"none"}, derived : OfferStatus \cup {"none"},
     todo : [Cand -> CandStatus \cup {"out"}], slots : SUBSET Slot,
     first : [Cand -> Entry], copy : [Cand -> Entry]]
NoReq == [pc |-> "idle", l |-> None, c |-> None, s |-> None, st |-> "none",
          seen |-> "none", derived |-> "none",
          todo |-> [c \in Cand |-> "out"], slots |-> {},
          first |-> Nobody, copy |-> Nobody]

LogRec ==
    [told : [Cand -> Slot \cup {None}],    \* slot confirmed to a candidate
     over : SUBSET Cand,        \* entries written over by an old copy
     manual : SUBSET Cand,      \* interviews entered by hand
     asked : [Cand -> Nat],     \* times a candidate was shown
     answered : [Cand -> Nat],  \* times the company answered about him
     overlap : BOOLEAN,         \* two submissions ran at the same time
     stage : OfferStatus,       \* last status somebody meant to give
     outrun : BOOLEAN,          \* given while a deduced one was to be written
     disturbed : SUBSET Cand,   \* fiches written by two requests at once
     attended : SUBSET Cand]    \* hired, and then concluded to be present

Exists == offer.st # "deleted"
InList(c) == cand[c].st # "out"

\* Where the program may be found, with no request in flight.
SituationOK(w) ==
    /\ w.offer \in [st : OfferStatus, slots : SUBSET Slot]
    /\ w.cand \in [Cand -> Entry]
    /\ w.fiche \in [Cand -> FicheStatus]
    /\ \A c \in Cand : w.cand[c].st = "CONTRACT" => w.fiche[c] = "CONTRACT"
    /\ \A c \in Cand : w.cand[c].st = "out" => w.cand[c] = Out
    /\ \A c, d \in Cand :
        w.cand[c].slot = w.cand[d].slot => c = d \/ w.cand[c].slot = None
    /\ w.link \in [Link -> LinkRow]
    /\ \A l \in Link : w.link[l].root = l

ASSUME MatchingAssumption ==
    /\ Purpose = Cand \cup {Selection} /\ Selection \notin Cand
    /\ None \notin Slot /\ None \notin Cand /\ None \notin Link
    /\ MaxOps \in Nat /\ MaxFaults \in Nat
    /\ \A w \in Situation : SituationOK(w)

Init ==
    /\ \E w \in Situation :
        /\ offer = w.offer
        /\ cand = w.cand
        /\ fiche = w.fiche
        /\ link = w.link
        /\ log = [told |-> [c \in Cand |-> w.cand[c].slot], over |-> {}, manual |-> {},
                  asked |-> [c \in Cand |-> IF w.cand[c].st = "SEND" THEN 1
                                            ELSE 0],
                  answered |-> [c \in Cand |-> 0], overlap |-> FALSE,
                  stage |-> w.offer.st, outrun |-> FALSE, disturbed |-> {},
                  attended |-> {}]
    /\ late = {} /\ desk = [d \in Desk |-> NoDesk]
    /\ closed = {} /\ overtaken = {} /\ doubled = {}
    /\ req = [r \in Req |-> NoReq]
    /\ ops = 0 /\ faults = 0

-----------------------------------------------------------------------------
(* Requests: how they start, go on and end.                                *)

Receive(r, rec) ==
    /\ req[r].pc = "idle"
    /\ ops < MaxOps
    /\ ops' = ops + 1
    /\ req' = [req EXCEPT ![r] = rec]

GoTo(r, rec) ==
    /\ req' = [req EXCEPT ![r] = rec]
    /\ UNCHANGED ops

\* Mutant: an offer at a further stage is deduced again.
deriveAlways(list, st) ==
    IF \E c \in Cand : list[c].st = "ACCEPTED" THEN "MATCHED" ELSE "NOT_MATCHED"

\* The status of the offer deduced from its list, as long as nobody has put
\* it at a further stage.
deriveOfferStatus(list, st) ==
    IF \A c \in Cand : list[c].st = "out" THEN "NOT_MATCHED"
    ELSE IF st \in Stages THEN st
    ELSE IF \E c \in Cand : list[c].st = "ACCEPTED" THEN "MATCHED"
    ELSE "NOT_MATCHED"

\* What is left of a request that has the copy (list, st) of the offer: its
\* status is written when the one deduced from the copy is another.
SyncWith(list, st) ==
    LET d == deriveOfferStatus(list, st) IN
    IF d = st THEN NoReq
    ELSE [NoReq EXCEPT !.pc = "sync", !.seen = st, !.derived = d]

\* A request has deduced a status and has not written it yet.
Deducing == \E q \in Req : req[q].derived # "none"

\* Another request is about to write the fiche of c.
FicheBusy(r, c) == \E q \in Req \ {r} : req[q].pc = "fiche" /\ req[q].c = c
Disturb(r, c) ==
    IF FicheBusy(r, c) THEN log.disturbed \cup {c} ELSE log.disturbed

-----------------------------------------------------------------------------
(* createSession: shows accepted candidates to the company.                *)

createSession(r, C) ==
    /\ Exists /\ C # {}
    /\ \A c \in C : cand[c].st = "ACCEPTED"
    /\ Receive(r, [NoReq EXCEPT !.pc = "merge", !.first = cand,
                   !.todo = [c \in Cand |-> IF c \in C THEN "SEND" ELSE "out"]])
    /\ UNCHANGED <<accessVars, offerVars, faults, log>>

ReadList(r) ==
    /\ req[r].pc = "merge"
    /\ GoTo(r, [req[r] EXCEPT !.pc = IF Exists THEN "list" ELSE "invite",
                              !.copy = cand])
    /\ UNCHANGED <<accessVars, offerVars, faults, log>>

\* {...candidate, ...update, status: SEND}: a field the update lacks is kept.
Overlay(e, u) ==
    [st |-> "SEND",
     slot |-> IF u.slot # None THEN u.slot ELSE e.slot,
     concl |-> IF u.concl # "none" THEN u.concl ELSE e.concl,
     imm |-> IF u.imm # "none" THEN u.imm ELSE e.imm]

\* Mutant: the candidates the company has answered about are reset as well.
resetAnswered(e) ==
    IF e.st \in {"SEND", "INTERVIEW"} THEN Fresh("ACCEPTED", None) ELSE e

\* resetProposal: a candidate shown before and not now is merely accepted.
resetProposal(e) == IF e.st = "SEND" THEN Fresh("ACCEPTED", None) ELSE e

Shown(q) == {c \in Cand : q.todo[c] # "out"}
Merge(q) == [c \in Cand |-> IF c \in Shown(q) THEN Overlay(q.copy[c], q.first[c])
                            ELSE resetProposal(q.copy[c])]

\* The list goes back whole: what changed since it was read is lost.
WriteList(r) ==
    /\ req[r].pc = "list"
    /\ LET q == req[r]
           lost == {c \in Cand : cand[c] # q.copy[c]}
                   \cup {c \in Shown(q) : q.first[c] # q.copy[c]}
       IN IF Exists
          THEN /\ cand' = Merge(q)
               /\ offer' = [offer EXCEPT !.st = "CV_SEND"]
               /\ log' = [log EXCEPT
                    !.over = @ \cup lost,
                    !.disturbed = @ \cup lost,
                    !.told = [c \in Cand |->
                        IF q.copy[c].st = "SEND" /\ c \notin Shown(q)
                        THEN None ELSE @[c]],
                    !.asked = [c \in Cand |->
                        IF c \in Shown(q) THEN @[c] + 1 ELSE @[c]],
                    !.stage = "CV_SEND", !.outrun = Deducing]
          ELSE UNCHANGED <<offer, cand, log>>
    /\ GoTo(r, [NoReq EXCEPT !.pc = "invite"])
    /\ UNCHANGED <<accessVars, fiche, faults>>

InviteCompany(r, l) ==
    /\ req[r].pc = "invite"
    /\ Insert(l, Selection, l)
    /\ GoTo(r, NoReq)
    /\ UNCHANGED <<late, desk, accessHistory, offerVars, faults, log>>

-----------------------------------------------------------------------------
(* submitAnswers: the company answers about the candidates it was shown.   *)

GuestOf(l) == link[l].st = "AUTHENTICATED" /\ l \notin late
Submitting(q) == q.pc \in {"slots", "answers", "interview"}

\* Mutant: any candidate of the list can be answered about.
CanAnswerAll(c) == InList(c)

CanAnswer(c) == cand[c].st = "SEND"

submitAnswers(r, l, todo, S) ==
    /\ GuestOf(l) /\ link[l].use = Selection
    /\ Exists
    /\ \E c \in Cand : todo[c] # "out"
    /\ \A c \in Cand : todo[c] # "out" => CanAnswer(c)
    /\ Cardinality({c \in Cand : todo[c] = "IMMERSING"}) <= 1
    /\ Receive(r, [NoReq EXCEPT !.pc = IF S = {} THEN "answers" ELSE "slots",
                                !.l = l, !.todo = todo, !.slots = S])
    /\ log' = [log EXCEPT !.overlap = @ \/ \E q \in Req : Submitting(req[q])]
    /\ UNCHANGED <<accessVars, offerVars, faults>>

setOfferInterviewSlots(r) ==
    /\ req[r].pc = "slots"
    /\ offer' = IF Exists THEN [offer EXCEPT !.slots = req[r].slots] ELSE offer
    /\ GoTo(r, [req[r] EXCEPT !.pc = "answers"])
    /\ UNCHANGED <<accessVars, cand, fiche, faults, log>>

\* setProposedCandidateStatus, whatever the candidate has become.
RecordAnswer(r, c) ==
    /\ req[r].pc = "answers" /\ req[r].todo[c] # "out"
    /\ LET st == req[r].todo[c] IN
       /\ IF InList(c)
          THEN /\ cand' = [cand EXCEPT ![c].st = st]
               /\ log' = [log EXCEPT !.answered[c] = @ + 1]
          ELSE UNCHANGED <<cand, log>>
       /\ GoTo(r, [req[r] EXCEPT !.todo[c] = "out", !.c = c,
                   !.pc = IF st # "REFUSED" /\ req[r].slots # {}
                          THEN "interview" ELSE "answers"])
    /\ UNCHANGED <<accessVars, offer, fiche, faults>>

\* triggerInterviewAccess: a link for the candidate to choose a slot.
InviteCandidate(r, l) ==
    /\ req[r].pc = "interview"
    /\ IF InList(req[r].c) THEN Insert(l, req[r].c, l) ELSE UNCHANGED link
    /\ GoTo(r, [req[r] EXCEPT !.pc = "answers"])
    /\ UNCHANGED <<late, desk, accessHistory, offerVars, faults, log>>

\* The last command of submitAnswers and of bookSlot.
CompleteLink(r) ==
    /\ \/ req[r].pc = "close"
       \/ req[r].pc = "answers" /\ Shown(req[r]) = {}
    /\ SetStatus(req[r].l, "COMPLETED", link[req[r].l].st)
    /\ GoTo(r, NoReq)
    /\ UNCHANGED <<desk, offerVars, faults, log>>

-----------------------------------------------------------------------------
(* bookSlot: the candidate chooses a slot.                                 *)

bookSlot(r, l, s) ==
    /\ GuestOf(l) /\ link[l].use \in Cand
    /\ Receive(r, [NoReq EXCEPT !.pc = "book", !.l = l, !.c = link[l].use,
                                !.s = s])
    /\ UNCHANGED <<accessVars, offerVars, faults, log>>

\* Mutant: nobody looks whether another candidate holds the slot.
SlotOffered(c, s) ==
    Exists /\ s \in offer.slots /\ InList(c) /\ cand[c].slot = None

\* Mutant: a candidate who has a slot may choose another.
SlotMoves(c, s) ==
    /\ Exists /\ s \in offer.slots
    /\ \A d \in Cand : cand[d].slot # s
    /\ InList(c)

\* The filter of bookInterviewSlot: one conditional command.
SlotFree(c, s) ==
    /\ Exists /\ s \in offer.slots
    /\ \A d \in Cand : cand[d].slot # s
    /\ InList(c) /\ cand[c].slot = None

bookInterviewSlot(r) ==
    /\ req[r].pc = "book"
    /\ LET c == req[r].c
           s == req[r].s
       IN IF SlotFree(c, s)
          THEN /\ cand' = [cand EXCEPT ![c].slot = s]
               /\ log' = [log EXCEPT !.told[c] = s]
               /\ GoTo(r, [req[r] EXCEPT !.pc = "close"])
          ELSE /\ GoTo(r, NoReq)
               /\ UNCHANGED <<cand, log>>
    /\ UNCHANGED <<accessVars, offer, fiche, faults>>

-----------------------------------------------------------------------------
(* The staff, and the answer links of the mails.                           *)

\* updateMatchedCandidateStatus.  PRE_SELECTED_MAIL_SEND counts as
\* PRE_SELECTED: no rule tells them apart.
updateMatchedCandidateStatus(r, c, st) ==
    /\ Exists /\ InList(c)
    /\ cand' = [cand EXCEPT ![c].st = st]
    /\ LET sync == SyncWith(cand', offer.st) IN
       Receive(r, IF st = "CONTRACT"
                  THEN [sync EXCEPT !.pc = "fiche", !.c = c, !.st = st]
                  ELSE sync)
    /\ log' = IF st = "CONTRACT"
              THEN [log EXCEPT !.disturbed = Disturb(r, c),
                               !.attended = @ \ {c}] ELSE log
    /\ UNCHANGED <<accessVars, offer, fiche, faults>>

addCandidate(r, c) ==
    /\ Exists /\ ~InList(c)
    /\ cand' = [cand EXCEPT ![c] = Fresh("PRE_SELECTED", None)]
    /\ Receive(r, SyncWith(cand', offer.st))
    /\ UNCHANGED <<accessVars, offer, fiche, faults, log>>

removeCandidate(r, c) ==
    /\ Exists
    /\ cand' = [cand EXCEPT ![c] = Out]
    /\ Receive(r, SyncWith(cand', offer.st))
    /\ log' = [log EXCEPT
         !.told[c] = None,
         !.stage = IF \A d \in Cand \ {c} : ~InList(d) THEN "NOT_MATCHED"
                   ELSE @]
    /\ UNCHANGED <<accessVars, offer, fiche, faults>>

unmatchAll(r) ==
    /\ Exists
    /\ cand' = Nobody
    /\ offer' = [offer EXCEPT !.st = "NOT_MATCHED"]
    /\ Receive(r, NoReq)
    /\ log' = [log EXCEPT !.told = [c \in Cand |-> None],
                          !.stage = "NOT_MATCHED"]
    /\ UNCHANGED <<accessVars, fiche, faults>>

update(r, st) ==
    /\ Exists
    /\ offer' = [offer EXCEPT !.st = st]
    /\ Receive(r, NoReq)
    /\ log' = [log EXCEPT !.stage = st, !.outrun = Deducing]
    /\ UNCHANGED <<accessVars, cand, fiche, faults>>

delete(r) ==
    /\ Exists
    /\ offer' = [st |-> "deleted", slots |-> {}]
    /\ cand' = Nobody
    /\ Receive(r, NoReq)
    /\ log' = [log EXCEPT !.told = [c \in Cand |-> None]]
    /\ UNCHANGED <<accessVars, fiche, faults>>

\* addManualProposedCandidate (st = INTERVIEW, at the slot s) and
\* addManualProposedCandidateForImmersion (st = IMMERSING).
addManual(r, c, st, s) ==
    /\ Exists
    /\ st = "INTERVIEW" <=> s # None
    /\ Receive(r, [NoReq EXCEPT !.pc = "replace", !.c = c, !.st = st, !.s = s])
    /\ UNCHANGED <<accessVars, offerVars, faults, log>>

\* The two commands of addProposedCandidate: replace, or else push.
addProposedCandidate(r) ==
    /\ req[r].pc \in {"replace", "push"}
    /\ LET q == req[r]
           c == q.c
           hit == Exists /\ (InList(c) <=> q.pc = "replace")
       IN IF hit
          THEN /\ cand' = [cand EXCEPT ![c] = Fresh(q.st, q.s)]
               /\ GoTo(r, IF q.st = "IMMERSING" THEN [q EXCEPT !.pc = "fiche"]
                          ELSE NoReq)
               /\ log' = [log EXCEPT
                    !.told[c] = None,
                    !.manual = IF q.s # None THEN @ \cup {c} ELSE @,
                    !.disturbed = IF q.st = "IMMERSING" THEN Disturb(r, c)
                                  ELSE @]
          ELSE /\ GoTo(r, IF q.pc = "replace" THEN [q EXCEPT !.pc = "push"]
                          ELSE NoReq)
               /\ UNCHANGED <<cand, log>>
    /\ UNCHANGED <<accessVars, offer, fiche, faults>>

-----------------------------------------------------------------------------
(* Conclusions.  ABSENT and APPOINTMENT_CANCELLED count as REJECTED: they  *)
(* write the same statuses.                                                *)

setInterviewConclusion(r, c, k) ==
    /\ Exists /\ InList(c)
    /\ cand[c].slot # None
    /\ Receive(r, [NoReq EXCEPT !.pc = "conclude", !.c = c, !.st = k])
    /\ UNCHANGED <<accessVars, offerVars, faults, log>>

setImmersionConclusion(r, c, k) ==
    /\ Exists /\ InList(c)
    /\ cand[c].concl = "IMMERSING"
    /\ Receive(r, [NoReq EXCEPT !.pc = "immerse", !.c = c, !.st = k])
    /\ UNCHANGED <<accessVars, offerVars, faults, log>>

\* Mutant: the conclusion is stored as the status.
ConcludedAsIs(k, st) == IF k = "REJECTED" THEN "REFUSED" ELSE k

ConcludedStatus(k, st) ==
    CASE k = "REJECTED" -> "REFUSED" [] k = "PRESENT" -> st [] OTHER -> k

\* Mutant: being hired does not reach the fiche.
ConcludedNoHire(k) == IF k = "IMMERSING" THEN k ELSE "SEEKING"
ConcludedFiche(k) == IF k \in {"IMMERSING", "CONTRACT"} THEN k ELSE "SEEKING"

WriteConclusion(r) ==
    /\ req[r].pc \in {"conclude", "immerse"}
    /\ LET q == req[r]
           c == q.c
           e == cand[c]
           st == ConcludedStatus(q.st, e.st)
       IN IF Exists /\ InList(c)
          THEN /\ cand' = [cand EXCEPT ![c] =
                    IF q.pc = "conclude"
                    THEN [e EXCEPT !.st = st, !.concl = q.st]
                    ELSE [e EXCEPT !.st = st, !.imm = q.st]]
               /\ GoTo(r, [q EXCEPT !.pc = "fiche", !.st = ConcludedFiche(q.st)])
               /\ log' = [log EXCEPT
                    !.disturbed = Disturb(r, c),
                    !.attended = IF q.st = "PRESENT" /\ e.st = "CONTRACT"
                                 THEN @ \cup {c} ELSE @ \ {c}]
          ELSE /\ GoTo(r, NoReq)
               /\ UNCHANGED <<cand, log>>
    /\ UNCHANGED <<accessVars, offer, fiche, faults>>

\* candidateService.update with a status.
WriteFiche(r) ==
    /\ req[r].pc = "fiche"
    /\ LET q == req[r]
           hired == q.st = "CONTRACT" /\ fiche[q.c] # "CONTRACT"
       IN /\ fiche' = [fiche EXCEPT ![q.c] = q.st]
          /\ GoTo(r, IF hired THEN [q EXCEPT !.pc = "spread"]
                     ELSE IF q.derived # q.seen THEN [q EXCEPT !.pc = "sync"]
                     ELSE NoReq)
    /\ UNCHANGED <<accessVars, offer, cand, faults, log>>

\* syncOffersToContract, on this offer.
syncOffersToContract(r) ==
    /\ req[r].pc = "spread"
    /\ LET q == req[r] IN
       GoTo(r, IF q.derived # q.seen THEN [q EXCEPT !.pc = "sync"] ELSE NoReq)
    /\ IF Exists
       THEN /\ offer' = [offer EXCEPT !.st = "CONTRACT"]
            /\ log' = [log EXCEPT !.stage = "CONTRACT", !.outrun = Deducing]
       ELSE UNCHANGED <<offer, log>>
    /\ UNCHANGED <<accessVars, cand, fiche, faults>>

\* syncDerivedStatus: the write, on the strength of an earlier copy.
syncDerivedStatus(r) ==
    /\ req[r].pc = "sync"
    /\ offer' = IF Exists THEN [offer EXCEPT !.st = req[r].derived] ELSE offer
    /\ GoTo(r, NoReq)
    /\ UNCHANGED <<accessVars, cand, fiche, faults, log>>

\* A command fails or the process stops: the request ends where it is.
Fail(r) ==
    /\ req[r].pc # "idle"
    /\ faults < MaxFaults
    /\ faults' = faults + 1
    /\ GoTo(r, NoReq)
    /\ log' = IF req[r].pc = "fiche"
              THEN [log EXCEPT !.disturbed = @ \cup {req[r].c}] ELSE log
    /\ UNCHANGED <<accessVars, offerVars>>

-----------------------------------------------------------------------------

Staff(r) ==
    \/ \E C \in SUBSET Cand : createSession(r, C)
    \/ \E c \in Cand :
        \/ \E st \in {"PRE_SELECTED", "ACCEPTED", "DECLINED", "CONTRACT"} :
            updateMatchedCandidateStatus(r, c, st)
        \/ addCandidate(r, c) \/ removeCandidate(r, c)
        \/ \E s \in Slot : addManual(r, c, "INTERVIEW", s)
        \/ addManual(r, c, "IMMERSING", None)
        \/ \E k \in InterviewEnd : setInterviewConclusion(r, c, k)
        \/ \E k \in ImmersionEnd : setImmersionConclusion(r, c, k)
    \/ unmatchAll(r) \/ delete(r)
    \/ \E st \in OfferStatus : update(r, st)

Guest(r) ==
    \E l \in Link :
        \/ \E todo \in [Cand -> AnswerStatus \cup {"out"}], S \in SUBSET Slot :
            submitAnswers(r, l, todo, S)
        \/ \E s \in Slot : bookSlot(r, l, s)

Continue(r) ==
    \/ ReadList(r) \/ WriteList(r) \/ setOfferInterviewSlots(r)
    \/ \E c \in Cand : RecordAnswer(r, c)
    \/ \E l \in Link : InviteCompany(r, l) \/ InviteCandidate(r, l)
    \/ CompleteLink(r) \/ bookInterviewSlot(r) \/ addProposedCandidate(r)
    \/ WriteConclusion(r) \/ WriteFiche(r) \/ syncOffersToContract(r)
    \/ syncDerivedStatus(r) \/ Fail(r)

\* The other requests on links, beside those of the offer.
Access ==
    \/ LinkRequest /\ ops < MaxOps /\ ops' = ops + 1
       /\ UNCHANGED <<offerVars, req, faults, log>>
    \/ (LinkWrite \/ LinkTime) /\ UNCHANGED <<offerVars, req, ops, faults, log>>
    \/ (\E d \in Desk : DeskFails(d)) /\ faults < MaxFaults /\ faults' = faults + 1
       /\ UNCHANGED <<offerVars, req, ops, log>>

Next == (\E r \in Req : Staff(r) \/ Guest(r) \/ Continue(r)) \/ Access
Spec == Init /\ [][Next]_vars

-----------------------------------------------------------------------------
(* Properties.                                                             *)

\* What a request knows at each of its steps.
ReqOK(q) ==
    /\ q.pc \in {"slots", "answers", "interview", "book", "close"} => q.l \in Link
    /\ q.pc \in {"interview", "book", "fiche", "replace", "push", "conclude",
                  "immerse"} => q.c \in Cand
    /\ q.pc = "book" => q.s \in Slot
    /\ Submitting(q) => q.todo \in [Cand -> AnswerStatus \cup {"out"}]
    /\ q.pc = "fiche" => q.st \in FicheStatus
    /\ q.pc \in {"replace", "push"} => q.st \in {"INTERVIEW", "IMMERSING"}
    /\ q.pc = "conclude" => q.st \in InterviewEnd
    /\ q.pc = "immerse" => q.st \in ImmersionEnd
    /\ q.pc = "sync" \/ q.derived # q.seen => q.derived \in OfferStatus

\* The variables hold what the code can store in them.
TypeOK ==
    /\ AccessTypeOK
    /\ offer \in [st : OfferStatus \cup {"deleted"}, slots : SUBSET Slot]
    /\ cand \in [Cand -> Entry]
    /\ fiche \in [Cand -> FicheStatus]
    /\ req \in [Req -> ReqRec] /\ \A r \in Req : ReqOK(req[r])
    /\ ops \in Nat /\ faults \in Nat
    /\ log \in LogRec

\* "Atomique, race-safe": two candidates never hold the same slot, however
\* their bookings interleave with a new session, new slots or a removal.  Only
\* an interview entered by hand is not checked, nor a list written from an old
\* copy.
OneHolder ==
    \A c, d \in Cand :
        cand[c].slot = cand[d].slot /\ cand[c].slot # None =>
            c = d \/ {c, d} \cap (log.manual \cup log.over) # {}

\* The slot confirmed to a candidate stays his until somebody takes it from
\* him knowingly (removal, interview entered by hand, shown again and then no
\* more); a list written from an old copy loses it.
ConfirmedSlotKept ==
    \A c \in Cand : log.told[c] # None =>
        cand[c].slot = log.told[c] \/ c \in log.over

\* The company answers about a candidate once each time he is shown to it,
\* unless two submissions run at the same time.
AnsweredOnce ==
    \A c \in Cand : log.answered[c] <= log.asked[c] \/ log.overlap

\* The stage a person, a session or a contract gave to the offer stays until
\* another is given or its list is emptied: a status deduced after that leaves
\* it alone.  One deduced before and written after undoes it, be it of another
\* request or of the very one that gave the stage: updateMatchedCandidateStatus
\* puts the offer under contract, then writes what it deduced from the copy it
\* had before.
StageKept ==
    log.stage \in Stages => offer.st \in {log.stage, "deleted"} \/ log.outrun

\* A candidate hired on the offer is, or is about to be, under contract on his
\* fiche, which other commands write: unless two of them ran together, one
\* failed, or the list was written from an old copy.  Concluding that he came
\* to the interview leaves him hired on the offer and puts his fiche back to
\* seeking.
PlacementShown ==
    \A c \in Cand : cand[c].st = "CONTRACT" =>
        \/ fiche[c] = "CONTRACT"
        \/ \E r \in Req : req[r].pc = "fiche" /\ req[r].c = c
        \/ c \in log.disturbed \cup log.attended

\* What the candidates are promised, see InterviewPromise.
Promised == [c \in Cand |-> IF c \in log.over THEN None ELSE log.told[c]]
Promise == INSTANCE InterviewPromise WITH promise <- Promised

\* Booking implements an exclusive promise that is only withdrawn on purpose.
PromiseRefined == Promise!Spec
=============================================================================
