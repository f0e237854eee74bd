--------------------------- MODULE Matching_proofs ---------------------------
(***************************************************************************)
(* Theorems on Matching and ExternalAccess, for every number of            *)
(* candidates, slots, links and requests: the types first, then the safety *)
(* properties, each of which rests on an inductive invariant of its own    *)
(* beside TypeOK.                                                          *)
(***************************************************************************)
EXTENDS Matching, TLAPS

-----------------------------------------------------------------------------
(* Records.                                                                *)

LEMMA ConstantFacts ==
    /\ Purpose = Cand \cup {Selection} /\ Selection \notin Cand
    /\ None \notin Slot /\ None \notin Cand /\ None \notin Link
    /\ MaxOps \in Nat /\ MaxFaults \in Nat
  BY MatchingAssumption

LEMMA EntryFacts ==
    /\ Out \in Entry
    /\ \A st \in CandStatus, s \in Slot \cup {None} : Fresh(st, s) \in Entry
    /\ Nobody \in [Cand -> Entry]
  BY DEF Out, Fresh, Entry, Nobody

LEMMA NoReqType == NoReq \in ReqRec /\ ReqOK(NoReq)
  BY EntryFacts DEF NoReq, ReqRec, ReqOK, Submitting

Pcs == {"idle", "merge", "list", "invite", "slots", "answers", "interview",
        "book", "close", "fiche", "spread", "sync", "replace", "push",
        "conclude", "immerse"}
Sts == CandStatus \cup InterviewEnd \cup FicheStatus \cup {"none"}

\* A request stays one when one of its fields changes.
LEMMA ReqUpdates ==
    ASSUME NEW q \in ReqRec
    PROVE  /\ \A x \in Pcs : [q EXCEPT !.pc = x] \in ReqRec
           /\ \A x \in Link \cup {None} : [q EXCEPT !.l = x] \in ReqRec
           /\ \A x \in Cand \cup {None} : [q EXCEPT !.c = x] \in ReqRec
           /\ \A x \in Slot \cup {None} : [q EXCEPT !.s = x] \in ReqRec
           /\ \A x \in Sts : [q EXCEPT !.st = x] \in ReqRec
           /\ \A x \in OfferStatus : [q EXCEPT !.seen = x] \in ReqRec
           /\ \A x \in OfferStatus : [q EXCEPT !.derived = x] \in ReqRec
           /\ \A x \in [Cand -> CandStatus \cup {"out"}] :
                [q EXCEPT !.todo = x] \in ReqRec
           /\ \A x \in SUBSET Slot : [q EXCEPT !.slots = x] \in ReqRec
           /\ \A x \in [Cand -> Entry] : [q EXCEPT !.first = x] \in ReqRec
           /\ \A x \in [Cand -> Entry] : [q EXCEPT !.copy = x] \in ReqRec
  <1>1. ASSUME NEW x \in Pcs PROVE [q EXCEPT !.pc = x] \in ReqRec
    BY DEF ReqRec, Pcs, Sts
  <1>2. ASSUME NEW x \in Link \cup {None} PROVE [q EXCEPT !.l = x] \in ReqRec
    BY DEF ReqRec, Pcs, Sts
  <1>3. ASSUME NEW x \in Cand \cup {None} PROVE [q EXCEPT !.c = x] \in ReqRec
    BY DEF ReqRec, Pcs, Sts
  <1>4. ASSUME NEW x \in Slot \cup {None} PROVE [q EXCEPT !.s = x] \in ReqRec
    BY DEF ReqRec, Pcs, Sts
  <1>5. ASSUME NEW x \in Sts PROVE [q EXCEPT !.st = x] \in ReqRec
    BY DEF ReqRec, Pcs, Sts
  <1>6. ASSUME NEW x \in OfferStatus PROVE [q EXCEPT !.seen = x] \in ReqRec
    BY DEF ReqRec, Pcs, Sts
  <1>7. ASSUME NEW x \in OfferStatus PROVE [q EXCEPT !.derived = x] \in ReqRec
    BY DEF ReqRec, Pcs, Sts
  <1>8. ASSUME NEW x \in [Cand -> CandStatus \cup {"out"}] PROVE [q EXCEPT !.todo = x] \in ReqRec
    BY DEF ReqRec, Pcs, Sts
  <1>9. ASSUME NEW x \in SUBSET Slot PROVE [q EXCEPT !.slots = x] \in ReqRec
    BY DEF ReqRec, Pcs, Sts
  <1>10. ASSUME NEW x \in [Cand -> Entry] PROVE [q EXCEPT !.first = x] \in ReqRec
    BY DEF ReqRec, Pcs, Sts
  <1>11. ASSUME NEW x \in [Cand -> Entry] PROVE [q EXCEPT !.copy = x] \in ReqRec
    BY DEF ReqRec, Pcs, Sts
  <1> QED BY <1>1, <1>2, <1>3, <1>4, <1>5, <1>6, <1>7, <1>8, <1>9, <1>10, <1>11

\* So does the history.
LEMMA LogUpdates ==
    ASSUME NEW h \in LogRec
    PROVE  /\ \A x \in [Cand -> Slot \cup {None}] : [h EXCEPT !.told = x] \in LogRec
           /\ \A x \in SUBSET Cand : [h EXCEPT !.over = x] \in LogRec
           /\ \A x \in SUBSET Cand : [h EXCEPT !.manual = x] \in LogRec
           /\ \A x \in [Cand -> Nat] : [h EXCEPT !.asked = x] \in LogRec
           /\ \A x \in [Cand -> Nat] : [h EXCEPT !.answered = x] \in LogRec
           /\ \A x \in BOOLEAN : [h EXCEPT !.overlap = x] \in LogRec
           /\ \A x \in OfferStatus : [h EXCEPT !.stage = x] \in LogRec
           /\ \A x \in BOOLEAN : [h EXCEPT !.outrun = x] \in LogRec
           /\ \A x \in SUBSET Cand : [h EXCEPT !.disturbed = x] \in LogRec
           /\ \A x \in SUBSET Cand : [h EXCEPT !.attended = x] \in LogRec
  BY DEF LogRec

LEMMA LogFields ==
    ASSUME NEW h \in LogRec
    PROVE  /\ h.told \in [Cand -> Slot \cup {None}]
           /\ h.over \subseteq Cand /\ h.manual \subseteq Cand
           /\ h.asked \in [Cand -> Nat] /\ h.answered \in [Cand -> Nat]
           /\ h.overlap \in BOOLEAN /\ h.outrun \in BOOLEAN
           /\ h.stage \in OfferStatus /\ h.disturbed \subseteq Cand
           /\ h.attended \subseteq Cand
  BY DEF LogRec

LEMMA ReqFields ==
    ASSUME NEW q \in ReqRec
    PROVE  /\ q.pc \in Pcs /\ q.st \in Sts
           /\ q.l \in Link \cup {None} /\ q.c \in Cand \cup {None}
           /\ q.s \in Slot \cup {None}
           /\ q.seen \in OfferStatus \cup {"none"}
           /\ q.derived \in OfferStatus \cup {"none"}
           /\ q.todo \in [Cand -> CandStatus \cup {"out"}]
           /\ q.slots \subseteq Slot
           /\ q.first \in [Cand -> Entry] /\ q.copy \in [Cand -> Entry]
  BY DEF ReqRec, Pcs, Sts

LEMMA DeriveType ==
    ASSUME NEW list \in [Cand -> Entry], NEW st \in OfferStatus
    PROVE  deriveOfferStatus(list, st) \in OfferStatus
  BY DEF deriveOfferStatus, OfferStatus, Stages

LEMMA SyncType ==
    ASSUME NEW list \in [Cand -> Entry], NEW st \in OfferStatus
    PROVE  SyncWith(list, st) \in ReqRec /\ ReqOK(SyncWith(list, st))
  <1> DEFINE d == deriveOfferStatus(list, st)
             rec == [NoReq EXCEPT !.pc = "sync", !.seen = st, !.derived = d]
  <1>1. rec \in ReqRec /\ rec.pc = "sync" /\ rec.derived = d
    BY NoReqType, DeriveType, ReqUpdates DEF Pcs, NoReq
  <1>2. d \in OfferStatus BY DeriveType
  <1> HIDE DEF d, rec
  <1>3. ReqOK(rec) BY <1>1, <1>2 DEF ReqOK, Submitting
  <1> QED BY <1>1, <1>3, NoReqType DEF SyncWith, rec, d

LEMMA MergeType ==
    ASSUME NEW q \in ReqRec
    PROVE  Merge(q) \in [Cand -> Entry]
  <1>1. ASSUME NEW e \in Entry, NEW u \in Entry PROVE Overlay(e, u) \in Entry
    BY <1>1 DEF Overlay, Entry, CandStatus
  <1>2. ASSUME NEW e \in Entry PROVE resetProposal(e) \in Entry
    BY <1>2, EntryFacts DEF resetProposal, CandStatus
  <1> QED BY <1>1, <1>2 DEF Merge, ReqRec

-----------------------------------------------------------------------------
(* Types.                                                                  *)

LEMMA LinkUpdates ==
    ASSUME AccessTypeOK, NEW l \in Link
    PROVE  /\ \A s \in LinkStatus : \A seen :
                SetStatus(l, s, seen) =>
                  /\ link' \in [Link -> LinkRow]
                  /\ closed' \subseteq Link /\ overtaken' \subseteq Link
                  /\ late' = late /\ doubled' = doubled
           /\ \A p \in Purpose \cup {NoPurpose}, root \in Link :
                Insert(l, p, root) => link' \in [Link -> LinkRow]
  BY DEF AccessTypeOK, SetStatus, Insert, LinkRow, LinkStatus, Present

LEMMA NoDeskType == NoDesk \in DeskRec
  BY AccessAssumption DEF NoDesk, DeskRec, DeskStep, LinkStatus

LEMMA AccessTypes ==
    ASSUME AccessTypeOK, LinkRequest \/ LinkWrite \/ LinkTime \/
                         (\E d \in Desk : DeskFails(d))
    PROVE  AccessTypeOK'
  <1>1. ASSUME NEW d \in Desk, NEW l \in Link,
               OpenLink(d, l) \/ FindExpired(d, l) \/ CloseLink(d, l)
               \/ RevokeLink(d, l) \/ RegenerateLink(d, l)
        PROVE  AccessTypeOK'
    BY <1>1 DEF AccessTypeOK, OpenLink, FindExpired, CloseLink, RevokeLink,
       RegenerateLink, Read, DeskRec, DeskStep, LinkRow
  <1>2. ASSUME NEW d \in Desk, WriteStatus(d) PROVE AccessTypeOK'
    <2>1. desk[d].l \in Link /\ Target(desk[d].pc) \in LinkStatus
      BY <1>2 DEF AccessTypeOK, WriteStatus, Target, DeskRec, LinkStatus
    <2> QED BY <1>2, <2>1, LinkUpdates, NoDeskType
        DEF WriteStatus, DeskDone, AccessTypeOK
  <1>3. ASSUME NEW d \in Desk, DeleteLink(d) PROVE AccessTypeOK'
    BY <1>3 DEF DeleteLink, AccessTypeOK, DeskRec, DeskStep, LinkRow, LinkStatus
  <1>4. ASSUME NEW d \in Desk, NEW l \in Link, CreateLink(d, l)
        PROVE  AccessTypeOK'
    <2>1. desk[d].l \in Link BY DEF AccessTypeOK, DeskRec
    <2>2. link[desk[d].l] \in LinkRow BY <2>1 DEF AccessTypeOK
    <2>3. link' \in [Link -> LinkRow]
      BY <1>4, <2>2, LinkUpdates DEF CreateLink, LinkRow
    <2> QED BY <1>4, <2>3, NoDeskType
        DEF CreateLink, DeskDone, AccessTypeOK, accessHistory
  <1>5. ASSUME NEW l \in Link, ExpiryPasses(l) \/ PurgeLink(l)
        PROVE  AccessTypeOK'
    BY <1>5 DEF ExpiryPasses, PurgeLink, AccessTypeOK, accessHistory, LinkRow,
       LinkStatus
  <1>6. ASSUME NEW d \in Desk, DeskFails(d) PROVE AccessTypeOK'
    <2>1. desk[d].l \in Link BY DEF AccessTypeOK, DeskRec
    <2> QED BY <1>6, <2>1, NoDeskType
        DEF DeskFails, DeskDone, AccessTypeOK, accessHistory
  <1> QED BY <1>1, <1>2, <1>3, <1>4, <1>5, <1>6
      DEF LinkRequest, LinkWrite, LinkTime

\* The parts of TypeOK that the actions of Matching write.
OfferType == offer \in [st : OfferStatus \cup {"deleted"}, slots : SUBSET Slot]
CandType == cand \in [Cand -> Entry]
FicheType == fiche \in [Cand -> FicheStatus]
ReqType == req \in [Req -> ReqRec] /\ (\A r \in Req : ReqOK(req[r])) /\ ops \in Nat
Sound(q) == q \in ReqRec /\ ReqOK(q)
LogType == log \in LogRec

LEMMA Frames ==
    ASSUME TypeOK
    PROVE  /\ UNCHANGED accessVars => AccessTypeOK'
           /\ UNCHANGED offer => OfferType'
           /\ UNCHANGED cand => CandType'
           /\ UNCHANGED fiche => FicheType'
           /\ UNCHANGED log => LogType'
           /\ UNCHANGED faults => faults' \in Nat
           /\ \A r \in Req : \A rec : Sound(rec) /\ (Receive(r, rec) \/ GoTo(r, rec))
                => ReqType'
           /\ UNCHANGED <<req, ops>> => ReqType'
  <1>1. UNCHANGED accessVars => AccessTypeOK'
    BY DEF TypeOK, AccessTypeOK, accessVars, accessHistory
  <1>2. \A r \in Req : \A rec : Sound(rec) /\ (Receive(r, rec) \/ GoTo(r, rec))
                => ReqType'
    BY DEF TypeOK, Receive, GoTo, ReqType, Sound
  <1> QED BY <1>1, <1>2
      DEF TypeOK, OfferType, CandType, FicheType, LogType, ReqType

LEMMA TypeParts ==
    AccessTypeOK' /\ OfferType' /\ CandType' /\ FicheType' /\ LogType'
    /\ ReqType' /\ faults' \in Nat => TypeOK'
  BY DEF TypeOK, OfferType, CandType, FicheType, ReqType, LogType

LEMMA SessionTypes ==
    ASSUME TypeOK, NEW r \in Req
    PROVE  /\ \A C \in SUBSET Cand : createSession(r, C) => TypeOK'
           /\ ReadList(r) => TypeOK'
           /\ WriteList(r) => TypeOK'
           /\ \A l \in Link : InviteCompany(r, l) => TypeOK'
  <1>1. ASSUME NEW C \in SUBSET Cand, createSession(r, C) PROVE TypeOK'
    <2> DEFINE rec == [NoReq EXCEPT !.pc = "merge", !.first = cand,
                   !.todo = [c \in Cand |-> IF c \in C THEN "SEND" ELSE "out"]]
    <2>1. rec \in ReqRec
      <3> DEFINE todo == [c \in Cand |-> IF c \in C THEN "SEND" ELSE "out"]
      <3>1. todo \in [Cand -> CandStatus \cup {"out"}]
        BY DEF CandStatus
      <3>2. cand \in [Cand -> Entry] BY DEF TypeOK
      <3> HIDE DEF todo
      <3>3. [NoReq EXCEPT !.pc = "merge", !.first = cand, !.todo = todo] \in ReqRec
        <4> DEFINE a == [NoReq EXCEPT !.pc = "merge"]
                   b == [a EXCEPT !.first = cand]
        <4>1. a \in ReqRec BY NoReqType, ReqUpdates DEF Pcs
        <4> HIDE DEF a
        <4>2. b \in ReqRec BY <3>2, <4>1, ReqUpdates
        <4> HIDE DEF b
        <4>3. [b EXCEPT !.todo = todo] \in ReqRec BY <3>1, <4>2, ReqUpdates
        <4>4. [NoReq EXCEPT !.pc = "merge", !.first = cand, !.todo = todo]
              = [b EXCEPT !.todo = todo]
          BY NoReqType DEF a, b, ReqRec
        <4> QED BY <4>3, <4>4
      <3> QED BY <3>3 DEF todo
    <2>3. rec.pc = "merge" /\ rec.derived = rec.seen
      <3>1. NoReq \in ReqRec /\ NoReq.derived = NoReq.seen
        BY NoReqType DEF NoReq
      <3> QED BY <3>1 DEF ReqRec
    <2> HIDE DEF rec
    <2>4. Sound(rec) BY <2>1, <2>3 DEF Sound, ReqOK, Submitting
    <2>2. Receive(r, rec) BY <1>1 DEF createSession, rec
    <2> QED BY <1>1, <2>2, <2>4, Frames, TypeParts DEF createSession, offerVars
  <1>2. ASSUME ReadList(r) PROVE TypeOK'
    <2> DEFINE rec == [req[r] EXCEPT !.pc = IF Exists THEN "list" ELSE "invite",
                                     !.copy = cand]
    <2>1. rec \in ReqRec BY ReqUpdates DEF TypeOK, Pcs
    <2>3. /\ rec.pc \in {"list", "invite"}
          /\ rec.derived = req[r].derived /\ rec.seen = req[r].seen
      BY DEF TypeOK, ReqRec
    <2> HIDE DEF rec
    <2>4. Sound(rec) BY <2>1, <2>3 DEF TypeOK, Sound, ReqOK, Submitting
    <2>2. GoTo(r, rec) BY <1>2 DEF ReadList, rec
    <2> QED BY <1>2, <2>2, <2>4, Frames, TypeParts DEF ReadList, offerVars
  <1>3. ASSUME WriteList(r) PROVE TypeOK'
    <2> DEFINE rec == [NoReq EXCEPT !.pc = "invite"]
    <2>1. Sound(rec) BY NoReqType DEF ReqRec, Sound, ReqOK, Submitting
    <2> HIDE DEF rec
    <2>2. GoTo(r, rec) BY <1>3 DEF WriteList, rec
    <2>3. OfferType'
      BY <1>3, Frames DEF WriteList, TypeOK, OfferType, OfferStatus, Stages
    <2>5. LogType'
      <3> DEFINE lost == {c \in Cand : cand[c] # req[r].copy[c]}
                   \cup {c \in Shown(req[r]) : req[r].first[c] # req[r].copy[c]}
      <3>1. lost \subseteq Cand BY DEF Shown
      <3> HIDE DEF lost
      <3>2. CASE Exists
        <4> DEFINE told == [c \in Cand |->
                        IF req[r].copy[c].st = "SEND" /\ c \notin Shown(req[r])
                        THEN None ELSE log.told[c]]
                   asked == [c \in Cand |->
                        IF c \in Shown(req[r]) THEN log.asked[c] + 1
                        ELSE log.asked[c]]
                   over == log.over \cup lost
                   disturbed == log.disturbed \cup lost
                   outrun == Deducing
        <4>1. log' = [log EXCEPT !.over = over, !.disturbed = disturbed,
                    !.told = told, !.asked = asked, !.stage = "CV_SEND",
                    !.outrun = outrun]
          BY <1>3, <3>2 DEF WriteList, lost
        <4>2. log \in LogRec /\ outrun \in BOOLEAN BY DEF TypeOK, Deducing
        <4>3. /\ told \in [Cand -> Slot \cup {None}] /\ asked \in [Cand -> Nat]
              /\ over \in SUBSET Cand /\ disturbed \in SUBSET Cand
          BY <4>2, <3>1, LogFields
        <4> HIDE DEF told, asked, over, disturbed, outrun
        <4> QED BY <4>1, <4>2, <4>3, LogUpdates
            DEF LogType, OfferStatus, Stages
      <3>3. CASE ~Exists
        BY <1>3, <3>3, Frames DEF WriteList
      <3> QED BY <3>2, <3>3
    <2>4. CandType'
      BY <1>3, Frames, MergeType DEF WriteList, TypeOK, CandType
    <2> QED BY <1>3, <2>1, <2>2, <2>3, <2>4, <2>5, Frames, TypeParts DEF WriteList
  <1>4. ASSUME NEW l \in Link, InviteCompany(r, l) PROVE TypeOK'
    <2>1. AccessTypeOK'
      BY <1>4, LinkUpdates, ConstantFacts
      DEF InviteCompany, TypeOK, AccessTypeOK, accessHistory
    <2> QED BY <1>4, <2>1, NoReqType, Frames, TypeParts
        DEF InviteCompany, offerVars, Sound
  <1> QED BY <1>1, <1>2, <1>3, <1>4

LEMMA AnswerTypes ==
    ASSUME TypeOK, NEW r \in Req
    PROVE  /\ \A l \in Link, S \in SUBSET Slot,
                 todo \in [Cand -> AnswerStatus \cup {"out"}] :
                submitAnswers(r, l, todo, S) => TypeOK'
           /\ setOfferInterviewSlots(r) => TypeOK'
           /\ \A c \in Cand : RecordAnswer(r, c) => TypeOK'
           /\ \A l \in Link : InviteCandidate(r, l) => TypeOK'
           /\ CompleteLink(r) => TypeOK'
  <1> log \in LogRec /\ req[r] \in ReqRec /\ ReqOK(req[r]) BY DEF TypeOK
  <1>1. ASSUME NEW l \in Link, NEW S \in SUBSET Slot,
               NEW todo \in [Cand -> AnswerStatus \cup {"out"}],
               submitAnswers(r, l, todo, S)
        PROVE  TypeOK'
    <2> DEFINE rec == [NoReq EXCEPT !.pc = IF S = {} THEN "answers" ELSE "slots",
                                    !.l = l, !.todo = todo, !.slots = S]
    <2>1. todo \in [Cand -> CandStatus \cup {"out"}]
      BY DEF AnswerStatus, CandStatus
    <2>2. rec \in ReqRec BY <2>1, NoReqType, ReqUpdates DEF Pcs
    <2>3. /\ rec.pc \in {"answers", "slots"} /\ rec.l = l /\ rec.todo = todo
          /\ rec.derived = rec.seen
      BY DEF NoReq
    <2> HIDE DEF rec
    <2>4. Sound(rec) BY <2>2, <2>3 DEF Sound, ReqOK
    <2>5. Receive(r, rec) BY <1>1 DEF submitAnswers, rec
    <2>6. LogType'
      BY <1>1, LogUpdates, LogFields DEF submitAnswers, LogType
    <2> QED BY <1>1, <2>4, <2>5, <2>6, Frames, TypeParts
        DEF submitAnswers, offerVars
  <1>2. ASSUME setOfferInterviewSlots(r) PROVE TypeOK'
    <2> DEFINE rec == [req[r] EXCEPT !.pc = "answers"]
    <2>1. rec \in ReqRec BY ReqUpdates DEF Pcs
    <2>2. /\ rec.pc = "answers" /\ rec.l = req[r].l /\ rec.todo = req[r].todo
          /\ rec.derived = req[r].derived /\ rec.seen = req[r].seen
      BY DEF ReqRec
    <2>3. GoTo(r, rec) BY <1>2 DEF setOfferInterviewSlots
    <2> HIDE DEF rec
    <2>4. Sound(rec)
      BY <1>2, <2>1, <2>2 DEF Sound, ReqOK, Submitting, setOfferInterviewSlots
    <2>5. OfferType'
      BY <1>2, ReqFields, Frames DEF setOfferInterviewSlots, TypeOK, OfferType
    <2> QED BY <1>2, <2>3, <2>4, <2>5, Frames, TypeParts
        DEF setOfferInterviewSlots
  <1>3. ASSUME NEW c \in Cand, RecordAnswer(r, c) PROVE TypeOK'
    <2>0. /\ req[r].pc = "answers" /\ req[r].l \in Link
          /\ req[r].todo \in [Cand -> AnswerStatus \cup {"out"}]
          /\ req[r].todo[c] # "out"
      BY <1>3 DEF RecordAnswer, ReqOK, Submitting
    <2>1. req[r].todo[c] \in CandStatus BY <2>0 DEF AnswerStatus, CandStatus
    <2> DEFINE todo == [req[r].todo EXCEPT ![c] = "out"]
               pc == IF req[r].todo[c] # "REFUSED" /\ req[r].slots # {}
                     THEN "interview" ELSE "answers"
               rec == [req[r] EXCEPT !.todo[c] = "out", !.c = c, !.pc = pc]
    <2>2. rec = [req[r] EXCEPT !.todo = todo, !.c = c, !.pc = pc]
      OBVIOUS
    <2>3. GoTo(r, rec) BY <1>3 DEF RecordAnswer
    <2>4. /\ todo \in [Cand -> AnswerStatus \cup {"out"}]
          /\ todo \in [Cand -> CandStatus \cup {"out"}]
          /\ pc \in {"interview", "answers"}
      BY <2>0 DEF AnswerStatus, CandStatus
    <2> HIDE DEF rec, todo, pc
    <2>5. rec \in ReqRec BY <2>2, <2>4, ReqUpdates DEF Pcs
    <2>6. /\ rec.pc = pc /\ rec.c = c /\ rec.todo = todo /\ rec.l = req[r].l
          /\ rec.derived = req[r].derived /\ rec.seen = req[r].seen
      BY <2>2 DEF ReqRec
    <2>7. Sound(rec) BY <2>0, <2>4, <2>5, <2>6 DEF Sound, ReqOK
    <2>8. CandType'
      BY <1>3, <2>1, Frames DEF RecordAnswer, TypeOK, CandType, Entry
    <2>9. LogType'
      <3>1. CASE InList(c)
        <4> DEFINE answered == [log.answered EXCEPT ![c] = @ + 1]
        <4>1. log' = [log EXCEPT !.answered = answered]
          BY <1>3, <3>1 DEF RecordAnswer
        <4>2. answered \in [Cand -> Nat] BY LogFields
        <4> QED BY <4>1, <4>2, LogUpdates DEF LogType
      <3>2. CASE ~InList(c)
        BY <1>3, <3>2, Frames DEF RecordAnswer
      <3> QED BY <3>1, <3>2
    <2> QED BY <1>3, <2>3, <2>7, <2>8, <2>9, Frames, TypeParts DEF RecordAnswer
  <1>4. ASSUME NEW l \in Link, InviteCandidate(r, l) PROVE TypeOK'
    <2> DEFINE rec == [req[r] EXCEPT !.pc = "answers"]
    <2>1. rec \in ReqRec BY ReqUpdates DEF Pcs
    <2>2. /\ rec.pc = "answers" /\ rec.l = req[r].l /\ rec.todo = req[r].todo
          /\ rec.derived = req[r].derived /\ rec.seen = req[r].seen
      BY DEF ReqRec
    <2>3. GoTo(r, rec) BY <1>4 DEF InviteCandidate
    <2> HIDE DEF rec
    <2>4. Sound(rec)
      BY <1>4, <2>1, <2>2 DEF Sound, ReqOK, Submitting, InviteCandidate
    <2>5. req[r].c \in Cand BY <1>4 DEF InviteCandidate, ReqOK
    <2>6. AccessTypeOK'
      BY <1>4, <2>5, LinkUpdates, ConstantFacts
      DEF InviteCandidate, TypeOK, AccessTypeOK, accessHistory
    <2> QED BY <1>4, <2>3, <2>4, <2>6, Frames, TypeParts
        DEF InviteCandidate, offerVars
  <1>5. ASSUME CompleteLink(r) PROVE TypeOK'
    <2>1. req[r].l \in Link BY <1>5 DEF CompleteLink, ReqOK
    <2>2. AccessTypeOK'
      BY <1>5, <2>1, LinkUpdates
      DEF CompleteLink, TypeOK, AccessTypeOK, LinkStatus
    <2>3. Sound(NoReq) /\ GoTo(r, NoReq)
      BY <1>5, NoReqType DEF CompleteLink, Sound
    <2> QED BY <1>5, <2>2, <2>3, Frames, TypeParts DEF CompleteLink, offerVars
  <1> QED BY <1>1, <1>2, <1>3, <1>4, <1>5

LEMMA BookingTypes ==
    ASSUME TypeOK, NEW r \in Req
    PROVE  /\ \A l \in Link, s \in Slot : bookSlot(r, l, s) => TypeOK'
           /\ bookInterviewSlot(r) => TypeOK'
  <1> log \in LogRec /\ req[r] \in ReqRec /\ ReqOK(req[r]) BY DEF TypeOK
  <1>1. ASSUME NEW l \in Link, NEW s \in Slot, bookSlot(r, l, s) PROVE TypeOK'
    <2> DEFINE rec == [NoReq EXCEPT !.pc = "book", !.l = l, !.c = link[l].use,
                                    !.s = s]
    <2>1. link[l].use \in Cand BY <1>1 DEF bookSlot
    <2>2. rec \in ReqRec BY <2>1, NoReqType, ReqUpdates DEF Pcs
    <2>3. /\ rec.pc = "book" /\ rec.l = l /\ rec.c = link[l].use /\ rec.s = s
          /\ rec.derived = rec.seen
      BY DEF NoReq
    <2>4. Receive(r, rec) BY <1>1 DEF bookSlot
    <2> HIDE DEF rec
    <2>5. Sound(rec) BY <2>1, <2>2, <2>3 DEF Sound, ReqOK, Submitting
    <2> QED BY <1>1, <2>4, <2>5, Frames, TypeParts DEF bookSlot, offerVars
  <1>2. ASSUME bookInterviewSlot(r) PROVE TypeOK'
    <2> DEFINE c == req[r].c
               s == req[r].s
               rec == [req[r] EXCEPT !.pc = "close"]
    <2>1. c \in Cand /\ s \in Slot /\ req[r].l \in Link /\ req[r].pc = "book"
      BY <1>2 DEF bookInterviewSlot, ReqOK
    <2>2. rec \in ReqRec BY ReqUpdates DEF Pcs
    <2>3. /\ rec.pc = "close" /\ rec.l = req[r].l
          /\ rec.derived = req[r].derived /\ rec.seen = req[r].seen
      BY DEF ReqRec
    <2>4. Sound(rec) BY <2>1, <2>2, <2>3 DEF Sound, ReqOK, Submitting
    <2>5. CASE SlotFree(c, s)
      <3>1. CandType'
        BY <1>2, <2>1, <2>5 DEF bookInterviewSlot, TypeOK, CandType, Entry
      <3>2. LogType'
        <4> DEFINE told == [log.told EXCEPT ![c] = s]
        <4>1. log' = [log EXCEPT !.told = told]
          BY <1>2, <2>5 DEF bookInterviewSlot
        <4>2. told \in [Cand -> Slot \cup {None}] BY <2>1, LogFields
        <4> QED BY <4>1, <4>2, LogUpdates DEF LogType
      <3>3. GoTo(r, rec) BY <1>2, <2>5 DEF bookInterviewSlot
      <3> QED BY <1>2, <2>4, <3>1, <3>2, <3>3, Frames, TypeParts
          DEF bookInterviewSlot
    <2>6. CASE ~SlotFree(c, s)
      BY <1>2, <2>6, NoReqType, Frames, TypeParts DEF bookInterviewSlot, Sound
    <2> QED BY <2>5, <2>6
  <1> QED BY <1>1, <1>2

\* Nobody else is in the list.
LastOne(c) == \A d \in Cand \ {c} : ~InList(d)

LEMMA StaffTypes ==
    ASSUME TypeOK, NEW r \in Req
    PROVE  /\ \A c \in Cand :
                /\ \A st \in {"PRE_SELECTED", "ACCEPTED", "DECLINED", "CONTRACT"} :
                    updateMatchedCandidateStatus(r, c, st) => TypeOK'
                /\ addCandidate(r, c) => TypeOK'
                /\ removeCandidate(r, c) => TypeOK'
           /\ unmatchAll(r) => TypeOK'
           /\ \A st \in OfferStatus : update(r, st) => TypeOK'
           /\ delete(r) => TypeOK'
  <1> log \in LogRec BY DEF TypeOK
  <1> /\ \A c \in Cand : [log.told EXCEPT ![c] = None] \in [Cand -> Slot \cup {None}]
      /\ [c \in Cand |-> None] \in [Cand -> Slot \cup {None}]
    BY LogFields
  <1>0. Exists => offer.st \in OfferStatus BY DEF TypeOK, Exists
  <1>1. ASSUME NEW c \in Cand,
               NEW st \in {"PRE_SELECTED", "ACCEPTED", "DECLINED", "CONTRACT"},
               updateMatchedCandidateStatus(r, c, st)
        PROVE  TypeOK'
    <2> DEFINE sync == SyncWith(cand', offer.st)
               rec == IF st = "CONTRACT"
                      THEN [sync EXCEPT !.pc = "fiche", !.c = c, !.st = st]
                      ELSE sync
    <2>1. cand' \in [Cand -> Entry]
      BY <1>1 DEF updateMatchedCandidateStatus, TypeOK, Entry, CandStatus
    <2>2. sync \in ReqRec /\ ReqOK(sync)
      BY <1>0, <1>1, <2>1, SyncType DEF updateMatchedCandidateStatus
    <2> HIDE DEF sync
    <2>3. Sound(rec)
      <3>1. CASE st = "CONTRACT"
        <4> DEFINE q == [sync EXCEPT !.pc = "fiche", !.c = c, !.st = st]
        <4>1. q \in ReqRec BY <2>2, <3>1, ReqUpdates DEF Pcs, Sts, FicheStatus
        <4>2. /\ q.pc = "fiche" /\ q.c = c /\ q.st = "CONTRACT"
              /\ q.derived = sync.derived /\ q.seen = sync.seen
          BY <2>2, <3>1 DEF ReqRec
        <4> HIDE DEF q
        <4>3. ReqOK(q) BY <2>2, <4>2 DEF ReqOK, Submitting, FicheStatus
        <4> QED BY <3>1, <4>1, <4>3 DEF Sound, q
      <3>2. CASE st # "CONTRACT"
        BY <2>2, <3>2 DEF Sound
      <3> QED BY <3>1, <3>2
    <2>4. Receive(r, rec) BY <1>1 DEF updateMatchedCandidateStatus, sync
    <2> HIDE DEF rec
    <2>5. LogType'
      <3> DEFINE attended == log.attended \ {c}
                 disturbed == Disturb(r, c)
      <3>1. \/ log' = log
            \/ log' = [log EXCEPT !.disturbed = disturbed,
                                  !.attended = attended]
        BY <1>1 DEF updateMatchedCandidateStatus
      <3>2. disturbed \in SUBSET Cand /\ attended \in SUBSET Cand
        BY LogFields DEF Disturb
      <3> HIDE DEF attended, disturbed
      <3> DEFINE h == [log EXCEPT !.disturbed = disturbed]
      <3>3. h \in LogRec BY <3>2, LogUpdates
      <3>4. log' \in {log, [h EXCEPT !.attended = attended]} BY <3>1
      <3> HIDE DEF h
      <3>5. [h EXCEPT !.attended = attended] \in LogRec
        BY <3>2, <3>3, LogUpdates
      <3> QED BY <3>4, <3>5 DEF LogType
    <2>6. /\ accessVars' = accessVars /\ offer' = offer /\ fiche' = fiche
          /\ faults' = faults
      BY <1>1 DEF updateMatchedCandidateStatus
    <2> QED BY <2>1, <2>3, <2>4, <2>5, <2>6, Frames, TypeParts DEF CandType
  <1>2. ASSUME NEW c \in Cand, addCandidate(r, c) PROVE TypeOK'
    <2>1. cand' \in [Cand -> Entry]
      BY <1>2, EntryFacts DEF addCandidate, TypeOK, CandStatus
    <2>2. Sound(SyncWith(cand', offer.st))
      BY <1>0, <1>2, <2>1, SyncType DEF addCandidate, Sound
    <2> QED BY <1>2, <2>1, <2>2, Frames, TypeParts DEF addCandidate, CandType
  <1>3. ASSUME NEW c \in Cand, removeCandidate(r, c) PROVE TypeOK'
    <2>1. cand' \in [Cand -> Entry]
      BY <1>3, EntryFacts DEF removeCandidate, TypeOK
    <2>2. Sound(SyncWith(cand', offer.st))
      BY <1>0, <1>3, <2>1, SyncType DEF removeCandidate, Sound
    <2>3. LogType'
      <3> DEFINE told == [log.told EXCEPT ![c] = None]
                 stage == IF LastOne(c) THEN "NOT_MATCHED" ELSE log.stage
      <3>1. log' = [log EXCEPT !.told = told, !.stage = stage]
        BY <1>3 DEF removeCandidate, LastOne
      <3>2. told \in [Cand -> Slot \cup {None}] /\ stage \in OfferStatus
        BY LogFields DEF OfferStatus
      <3> HIDE DEF told, stage
      <3> QED BY <3>1, <3>2, LogUpdates DEF LogType
    <2> QED BY <1>3, <2>1, <2>2, <2>3, Frames, TypeParts
        DEF removeCandidate, CandType
  <1>4. ASSUME unmatchAll(r) PROVE TypeOK'
    <2>1. LogType' BY <1>4, LogUpdates DEF unmatchAll, LogType, OfferStatus
    <2>2. OfferType' BY <1>4 DEF unmatchAll, TypeOK, OfferType, OfferStatus
    <2> QED BY <1>4, <2>1, <2>2, EntryFacts, NoReqType, Frames, TypeParts
        DEF unmatchAll, CandType, Sound
  <1>5. ASSUME NEW st \in OfferStatus, update(r, st) PROVE TypeOK'
    <2>1. LogType'
      <3> DEFINE outrun == Deducing
      <3>1. log' = [log EXCEPT !.stage = st, !.outrun = outrun]
        BY <1>5 DEF update
      <3>2. outrun \in BOOLEAN BY DEF Deducing
      <3> HIDE DEF outrun
      <3> QED BY <3>1, <3>2, LogUpdates DEF LogType
    <2>2. OfferType' BY <1>5 DEF update, TypeOK, OfferType
    <2> QED BY <1>5, <2>1, <2>2, NoReqType, Frames, TypeParts DEF update, Sound
  <1>6. ASSUME delete(r) PROVE TypeOK'
    <2>1. LogType' BY <1>6, LogUpdates DEF delete, LogType
    <2>2. OfferType' BY <1>6 DEF delete, TypeOK, OfferType
    <2> QED BY <1>6, <2>1, <2>2, EntryFacts, NoReqType, Frames, TypeParts
        DEF delete, CandType, Sound
  <1> QED BY <1>1, <1>2, <1>3, <1>4, <1>5, <1>6

LEMMA ManualTypes ==
    ASSUME TypeOK, NEW r \in Req
    PROVE  /\ \A c \in Cand, s \in Slot \cup {None}, st \in {"INTERVIEW", "IMMERSING"} :
                addManual(r, c, st, s) => TypeOK'
           /\ addProposedCandidate(r) => TypeOK'
  <1> log \in LogRec /\ req[r] \in ReqRec /\ ReqOK(req[r]) BY DEF TypeOK
  <1>1. ASSUME NEW c \in Cand, NEW s \in Slot \cup {None},
               NEW st \in {"INTERVIEW", "IMMERSING"}, addManual(r, c, st, s)
        PROVE  TypeOK'
    <2> DEFINE rec == [NoReq EXCEPT !.pc = "replace", !.c = c, !.st = st, !.s = s]
    <2>1. rec \in ReqRec BY NoReqType, ReqUpdates DEF Pcs, Sts, CandStatus
    <2>2. /\ rec.pc = "replace" /\ rec.c = c /\ rec.st = st
          /\ rec.derived = rec.seen
      BY DEF NoReq
    <2>3. Receive(r, rec) BY <1>1 DEF addManual
    <2> HIDE DEF rec
    <2>4. Sound(rec) BY <2>1, <2>2 DEF Sound, ReqOK, Submitting
    <2> QED BY <1>1, <2>3, <2>4, Frames, TypeParts DEF addManual, offerVars
  <1>2. ASSUME addProposedCandidate(r) PROVE TypeOK'
    <2> DEFINE q == req[r]
               c == q.c
               hit == Exists /\ (InList(c) <=> q.pc = "replace")
               fiche1 == [q EXCEPT !.pc = "fiche"]
               push == [q EXCEPT !.pc = "push"]
    <2>1. /\ c \in Cand /\ q.st \in {"INTERVIEW", "IMMERSING"}
          /\ q.pc \in {"replace", "push"}
      BY <1>2 DEF addProposedCandidate, ReqOK
    <2>2. q.st = "IMMERSING" => Sound(fiche1)
      <3>1. fiche1 \in ReqRec BY ReqUpdates DEF Pcs
      <3>2. /\ fiche1.pc = "fiche" /\ fiche1.c = c /\ fiche1.st = q.st
            /\ fiche1.derived = q.derived /\ fiche1.seen = q.seen
        BY DEF ReqRec
      <3> HIDE DEF fiche1
      <3> QED BY <2>1, <3>1, <3>2 DEF Sound, ReqOK, Submitting, FicheStatus
    <2>3. Sound(push)
      <3>1. push \in ReqRec BY ReqUpdates DEF Pcs
      <3>2. /\ push.pc = "push" /\ push.c = c /\ push.st = q.st
            /\ push.derived = q.derived /\ push.seen = q.seen
        BY DEF ReqRec
      <3> HIDE DEF push
      <3> QED BY <2>1, <3>1, <3>2 DEF Sound, ReqOK, Submitting
    <2>4. CASE hit
      <3>1. CandType'
        <4>1. Fresh(q.st, q.s) \in Entry
          BY <2>1, EntryFacts, ReqFields DEF CandStatus
        <4>2. cand' = [cand EXCEPT ![c] = Fresh(q.st, q.s)]
          BY <1>2, <2>4 DEF addProposedCandidate
        <4> QED BY <4>1, <4>2 DEF TypeOK, CandType
      <3>2. LogType'
        <4> DEFINE told == [log.told EXCEPT ![c] = None]
                   manual == IF q.s # None THEN log.manual \cup {c} ELSE log.manual
                   disturbed == IF q.st = "IMMERSING" THEN Disturb(r, c)
                                ELSE log.disturbed
        <4>1. log' = [log EXCEPT !.told = told, !.manual = manual,
                                 !.disturbed = disturbed]
          BY <1>2, <2>4 DEF addProposedCandidate
        <4>2. /\ told \in [Cand -> Slot \cup {None}] /\ manual \in SUBSET Cand
              /\ disturbed \in SUBSET Cand
          BY <2>1, LogFields DEF Disturb
        <4> HIDE DEF told, manual, disturbed
        <4> QED BY <4>1, <4>2, LogUpdates DEF LogType
      <3>3. (GoTo(r, fiche1) /\ q.st = "IMMERSING") \/ GoTo(r, NoReq)
        BY <1>2, <2>4 DEF addProposedCandidate
      <3>4. ReqType' BY <3>3, <2>2, NoReqType, Frames DEF Sound
      <3> QED BY <1>2, <3>1, <3>2, <3>4, Frames, TypeParts
          DEF addProposedCandidate
    <2>5. CASE ~hit
      <3>1. UNCHANGED <<cand, log>> /\ (GoTo(r, push) \/ GoTo(r, NoReq))
        BY <1>2, <2>5 DEF addProposedCandidate
      <3>2. ReqType' BY <3>1, <2>3, NoReqType, Frames DEF Sound
      <3> QED BY <1>2, <3>1, <3>2, Frames, TypeParts DEF addProposedCandidate
    <2> QED BY <2>4, <2>5
  <1> QED BY <1>1, <1>2

LEMMA ConclusionTypes ==
    ASSUME TypeOK, NEW r \in Req
    PROVE  /\ \A c \in Cand, k \in InterviewEnd :
                setInterviewConclusion(r, c, k) => TypeOK'
           /\ \A c \in Cand, k \in ImmersionEnd :
                setImmersionConclusion(r, c, k) => TypeOK'
           /\ WriteConclusion(r) => TypeOK'
  <1> log \in LogRec /\ req[r] \in ReqRec /\ ReqOK(req[r]) BY DEF TypeOK
  <1>1. ASSUME NEW c \in Cand, NEW k \in InterviewEnd \cup ImmersionEnd,
               \/ k \in InterviewEnd /\ setInterviewConclusion(r, c, k)
               \/ k \in ImmersionEnd /\ setImmersionConclusion(r, c, k)
        PROVE  TypeOK'
    <2> DEFINE met == [NoReq EXCEPT !.pc = "conclude", !.c = c, !.st = k]
               tried == [NoReq EXCEPT !.pc = "immerse", !.c = c, !.st = k]
    <2>1. met \in ReqRec /\ tried \in ReqRec
      BY NoReqType, ReqUpdates DEF Pcs, Sts, InterviewEnd, ImmersionEnd
    <2>2. /\ met.pc = "conclude" /\ met.c = c /\ met.st = k
          /\ tried.pc = "immerse" /\ tried.c = c /\ tried.st = k
          /\ met.derived = met.seen /\ tried.derived = tried.seen
      BY DEF NoReq
    <2>3. \/ k \in InterviewEnd /\ Receive(r, met)
          \/ k \in ImmersionEnd /\ Receive(r, tried)
      BY <1>1 DEF setInterviewConclusion, setImmersionConclusion
    <2> HIDE DEF met, tried
    <2>4. /\ k \in InterviewEnd => Sound(met)
          /\ k \in ImmersionEnd => Sound(tried)
      BY <2>1, <2>2 DEF Sound, ReqOK, Submitting
    <2>5. ReqType' BY <2>3, <2>4, Frames
    <2> QED BY <1>1, <2>5, Frames, TypeParts
        DEF setInterviewConclusion, setImmersionConclusion, offerVars
  <1>2. ASSUME WriteConclusion(r) PROVE TypeOK'
    <2> DEFINE q == req[r]
               c == q.c
               st == ConcludedStatus(q.st, cand[c].st)
               e == IF q.pc = "conclude"
                    THEN [cand[c] EXCEPT !.st = st, !.concl = q.st]
                    ELSE [cand[c] EXCEPT !.st = st, !.imm = q.st]
               rec == [q EXCEPT !.pc = "fiche", !.st = ConcludedFiche(q.st)]
    <2>1. /\ c \in Cand /\ q.pc \in {"conclude", "immerse"}
          /\ q.pc = "conclude" => q.st \in InterviewEnd
          /\ q.pc = "immerse" => q.st \in ImmersionEnd
      BY <1>2 DEF WriteConclusion, ReqOK
    <2>2. cand[c] \in Entry /\ st \in CandStatus \cup {"out"}
      BY <2>1 DEF ConcludedStatus, CandStatus, InterviewEnd, ImmersionEnd,
         TypeOK, Entry
    <2>3. e \in Entry
      <3> HIDE DEF st
      <3> QED BY <2>1, <2>2 DEF Entry
    <2>4. ConcludedFiche(q.st) \in FicheStatus
      BY DEF ConcludedFiche, FicheStatus
    <2>5. Sound(rec)
      <3>1. rec \in ReqRec BY <2>4, ReqUpdates DEF Pcs, Sts
      <3>2. /\ rec.pc = "fiche" /\ rec.c = c /\ rec.st = ConcludedFiche(q.st)
            /\ rec.derived = q.derived /\ rec.seen = q.seen
        BY DEF ReqRec
      <3> HIDE DEF rec
      <3> QED BY <2>1, <2>4, <3>1, <3>2 DEF Sound, ReqOK, Submitting
    <2>6. CASE Exists /\ InList(c)
      <3> DEFINE attended == IF q.st = "PRESENT" /\ cand[c].st = "CONTRACT"
                             THEN log.attended \cup {c} ELSE log.attended \ {c}
      <3>1. /\ cand' = [cand EXCEPT ![c] = e] /\ GoTo(r, rec)
            /\ log' = [log EXCEPT !.disturbed = Disturb(r, c),
                                  !.attended = attended]
        BY <1>2, <2>6 DEF WriteConclusion
      <3>a. attended \in SUBSET Cand BY <2>1, LogFields
      <3> HIDE DEF e, rec, attended
      <3>2. CandType' BY <3>1, <2>3 DEF TypeOK, CandType
      <3>3. Disturb(r, c) \in SUBSET Cand BY <2>1, LogFields DEF Disturb
      <3>4. LogType' BY <3>1, <3>3, <3>a, LogUpdates DEF LogType
      <3> QED BY <1>2, <2>5, <3>1, <3>2, <3>4, Frames, TypeParts
          DEF WriteConclusion
    <2>7. CASE ~(Exists /\ InList(c))
      BY <1>2, <2>7, NoReqType, Frames, TypeParts DEF WriteConclusion, Sound
    <2> QED BY <2>6, <2>7
  <1> QED BY <1>1, <1>2

LEMMA EndTypes ==
    ASSUME TypeOK, NEW r \in Req
    PROVE  /\ WriteFiche(r) => TypeOK'
           /\ syncOffersToContract(r) => TypeOK'
           /\ syncDerivedStatus(r) => TypeOK'
           /\ Fail(r) => TypeOK'
  <1> log \in LogRec /\ req[r] \in ReqRec /\ ReqOK(req[r]) BY DEF TypeOK
  <1> DEFINE q == req[r]
  <1>1. ASSUME NEW pc \in {"spread", "sync"}, pc = "sync" => q.derived \in OfferStatus,
               q.derived # q.seen => q.derived \in OfferStatus
        PROVE  Sound([q EXCEPT !.pc = pc])
    <2> DEFINE rec == [q EXCEPT !.pc = pc]
    <2>1. rec \in ReqRec BY ReqUpdates DEF Pcs
    <2>2. rec.pc = pc /\ rec.derived = q.derived /\ rec.seen = q.seen
      BY DEF ReqRec
    <2> HIDE DEF rec
    <2>3. Sound(rec) BY <1>1, <2>1, <2>2 DEF Sound, ReqOK, Submitting
    <2> QED BY <2>3 DEF rec
  <1>2. q.derived # q.seen => q.derived \in OfferStatus BY DEF ReqOK
  <1>3. ASSUME WriteFiche(r) PROVE TypeOK'
    <2>1. q.c \in Cand /\ q.st \in FicheStatus BY <1>3 DEF WriteFiche, ReqOK
    <2>2. FicheType' BY <1>3, <2>1 DEF WriteFiche, TypeOK, FicheType
    <2>3. \/ GoTo(r, [q EXCEPT !.pc = "spread"])
          \/ q.derived # q.seen /\ GoTo(r, [q EXCEPT !.pc = "sync"])
          \/ GoTo(r, NoReq)
      BY <1>3 DEF WriteFiche
    <2>4. ReqType' BY <1>1, <1>2, <2>3, NoReqType, Frames DEF Sound
    <2> QED BY <1>3, <2>2, <2>4, Frames, TypeParts DEF WriteFiche
  <1>4. ASSUME syncOffersToContract(r) PROVE TypeOK'
    <2>1. \/ q.derived # q.seen /\ GoTo(r, [q EXCEPT !.pc = "sync"])
          \/ GoTo(r, NoReq)
      BY <1>4 DEF syncOffersToContract
    <2>2. ReqType' BY <1>1, <1>2, <2>1, NoReqType, Frames DEF Sound
    <2>3. "CONTRACT" \in OfferStatus BY DEF OfferStatus, Stages
    <2>4. OfferType'
      BY <1>4, <2>3, Frames DEF syncOffersToContract, TypeOK, OfferType
    <2>5. LogType'
      <3>1. CASE Exists
        <4> DEFINE outrun == Deducing
        <4>1. log' = [log EXCEPT !.stage = "CONTRACT", !.outrun = outrun]
          BY <1>4, <3>1 DEF syncOffersToContract
        <4>2. outrun \in BOOLEAN BY DEF Deducing
        <4> HIDE DEF outrun
        <4> QED BY <4>1, <4>2, <2>3, LogUpdates DEF LogType
      <3>2. CASE ~Exists
        BY <1>4, <3>2, Frames DEF syncOffersToContract
      <3> QED BY <3>1, <3>2
    <2> QED BY <1>4, <2>2, <2>4, <2>5, Frames, TypeParts
        DEF syncOffersToContract
  <1>5. ASSUME syncDerivedStatus(r) PROVE TypeOK'
    <2>1. q.derived \in OfferStatus BY <1>5 DEF syncDerivedStatus, ReqOK
    <2>2. OfferType'
      BY <1>5, <2>1, Frames DEF syncDerivedStatus, TypeOK, OfferType
    <2>3. LogType' BY <1>5, Frames DEF syncDerivedStatus
    <2>4. Sound(NoReq) /\ GoTo(r, NoReq)
      BY <1>5, NoReqType DEF syncDerivedStatus, Sound
    <2> QED BY <1>5, <2>2, <2>3, <2>4, Frames, TypeParts DEF syncDerivedStatus
  <1>6. ASSUME Fail(r) PROVE TypeOK'
    <2>1. LogType'
      <3>1. CASE q.pc = "fiche"
        <4> DEFINE disturbed == log.disturbed \cup {q.c}
        <4>1. q.c \in Cand BY <3>1 DEF ReqOK
        <4>2. disturbed \in SUBSET Cand BY <4>1, LogFields
        <4>3. log' = [log EXCEPT !.disturbed = disturbed]
          BY <1>6, <3>1 DEF Fail
        <4> HIDE DEF disturbed
        <4> QED BY <4>2, <4>3, LogUpdates DEF LogType
      <3>2. CASE q.pc # "fiche"
        BY <1>6, <3>2, Frames DEF Fail
      <3> QED BY <3>1, <3>2
    <2>2. Sound(NoReq) /\ GoTo(r, NoReq) /\ faults' \in Nat
      BY <1>6, NoReqType DEF Fail, Sound, TypeOK
    <2> QED BY <1>6, <2>1, <2>2, Frames, TypeParts DEF Fail, offerVars
  <1> QED BY <1>3, <1>4, <1>5, <1>6

LEMMA OtherTypes == TypeOK /\ Access => TypeOK'
  <1> SUFFICES ASSUME TypeOK, Access PROVE TypeOK'
    OBVIOUS
  <1>1. AccessTypeOK' BY AccessTypes DEF Access, TypeOK
  <1>2. UNCHANGED <<offerVars, req, log>> /\ ops' \in Nat /\ faults' \in Nat
    BY DEF Access, TypeOK
  <1> QED BY <1>1, <1>2 DEF TypeOK, offerVars

LEMMA TypeInductive == TypeOK /\ [Next]_vars => TypeOK'
  <1> SUFFICES ASSUME TypeOK, [Next]_vars PROVE TypeOK'
    OBVIOUS
  <1>1. ASSUME NEW r \in Req, Staff(r) PROVE TypeOK'
    <2>1. Slot \subseteq Slot \cup {None} OBVIOUS
    <2> QED BY <1>1, <2>1, SessionTypes, StaffTypes, ManualTypes, ConclusionTypes
        DEF Staff
  <1>2. ASSUME NEW r \in Req, Guest(r) PROVE TypeOK'
    BY <1>2, AnswerTypes, BookingTypes DEF Guest
  <1>3. ASSUME NEW r \in Req, Continue(r) PROVE TypeOK'
    BY <1>3, SessionTypes, AnswerTypes, BookingTypes, ManualTypes,
       ConclusionTypes, EndTypes DEF Continue
  <1>4. CASE UNCHANGED vars
    BY <1>4 DEF vars, offerVars, accessVars, accessHistory, TypeOK, AccessTypeOK
  <1> QED BY <1>1, <1>2, <1>3, <1>4, OtherTypes DEF Next

LEMMA TypeInitial == Init => TypeOK
  <1> SUFFICES ASSUME Init PROVE TypeOK
    OBVIOUS
  <1> PICK w \in Situation :
        /\ offer = w.offer /\ cand = w.cand /\ fiche = w.fiche /\ link = w.link
        /\ log = [told |-> [c \in Cand |-> w.cand[c].slot], over |-> {}, manual |-> {},
                  asked |-> [c \in Cand |-> IF w.cand[c].st = "SEND" THEN 1 ELSE 0],
                  answered |-> [c \in Cand |-> 0], overlap |-> FALSE,
                  stage |-> w.offer.st, outrun |-> FALSE, disturbed |-> {},
                  attended |-> {}]
    BY DEF Init
  <1>1. SituationOK(w) BY MatchingAssumption
  <1>2. log \in LogRec BY <1>1 DEF SituationOK, LogRec, Entry
  <1>3. AccessTypeOK
    BY <1>1, NoDeskType DEF Init, SituationOK, AccessTypeOK
  <1> QED BY <1>1, <1>2, <1>3, NoReqType DEF Init, SituationOK, TypeOK

\* Whatever the requests and their order, the variables keep their types and
\* each request knows at each step what its next command needs.
THEOREM TypeCorrect == Spec => []TypeOK
  BY TypeInitial, TypeInductive, PTL DEF Spec

-----------------------------------------------------------------------------
(* Links.                                                                  *)

\* What the offer's requests do to the links: nothing, a new link, or the
\* closing of one.
NewLink == \E l \in Link, p \in Purpose :
    Insert(l, p, l) /\ UNCHANGED <<late, desk, accessHistory>>
ClosesLink == \E l \in Link :
    SetStatus(l, "COMPLETED", link[l].st) /\ UNCHANGED desk
DeskStepTaken == LinkRequest \/ LinkWrite \/ LinkTime \/ \E d \in Desk : DeskFails(d)

LEMMA LinkSteps ==
    ASSUME TypeOK, [Next]_vars
    PROVE  UNCHANGED accessVars \/ NewLink \/ ClosesLink \/ DeskStepTaken
  <1>1. ASSUME NEW r \in Req, Staff(r) PROVE UNCHANGED accessVars
    BY <1>1 DEF Staff, createSession, updateMatchedCandidateStatus, addCandidate,
       removeCandidate, addManual, setInterviewConclusion,
       setImmersionConclusion, unmatchAll, delete, update
  <1>2. ASSUME NEW r \in Req, Guest(r) PROVE UNCHANGED accessVars
    BY <1>2 DEF Guest, submitAnswers, bookSlot
  <1>3. ASSUME NEW r \in Req, Continue(r)
        PROVE  UNCHANGED accessVars \/ NewLink \/ ClosesLink
    <2> req[r] \in ReqRec /\ ReqOK(req[r]) BY DEF TypeOK
    <2>1. ASSUME NEW l \in Link, InviteCompany(r, l) PROVE NewLink
      BY <2>1, ConstantFacts DEF InviteCompany, NewLink
    <2>2. ASSUME NEW l \in Link, InviteCandidate(r, l)
          PROVE  UNCHANGED accessVars \/ NewLink
      BY <2>2, ConstantFacts
      DEF InviteCandidate, NewLink, ReqOK, accessVars
    <2>3. CASE CompleteLink(r)
      BY <2>3 DEF CompleteLink, ClosesLink, ReqOK
    <2>4. ASSUME \/ ReadList(r) \/ WriteList(r) \/ setOfferInterviewSlots(r)
                 \/ \E c \in Cand : RecordAnswer(r, c)
                 \/ bookInterviewSlot(r) \/ addProposedCandidate(r)
                 \/ WriteConclusion(r) \/ WriteFiche(r) \/ syncOffersToContract(r)
                 \/ syncDerivedStatus(r) \/ Fail(r)
          PROVE  UNCHANGED accessVars
      BY <2>4 DEF ReadList, WriteList, setOfferInterviewSlots, RecordAnswer,
         bookInterviewSlot, addProposedCandidate, WriteConclusion, WriteFiche,
         syncOffersToContract, syncDerivedStatus, Fail
    <2> QED BY <1>3, <2>1, <2>2, <2>3, <2>4 DEF Continue
  <1>4. CASE Access
    BY <1>4 DEF Access, DeskStepTaken
  <1>5. CASE UNCHANGED vars
    BY <1>5 DEF vars
  <1> QED BY <1>1, <1>2, <1>3, <1>4, <1>5 DEF Next

\* An UPDATE changes the status of one row, if it is there.
LEMMA StatusEffect ==
    ASSUME AccessTypeOK, NEW l \in Link, NEW s, NEW seen,
           SetStatus(l, s, seen)
    PROVE  /\ \A m \in Link : link'[m].root = link[m].root
           /\ \A m \in Link \ {l} : link'[m] = link[m]
           /\ Present(l) => link'[l].st = s
           /\ ~Present(l) => link' = link
  <1> link \in [Link -> LinkRow] BY DEF AccessTypeOK
  <1>1. CASE Present(l)
    <2>1. link' = [link EXCEPT ![l].st = s] BY <1>1 DEF SetStatus
    <2>2. link' = [link EXCEPT ![l] = [link[l] EXCEPT !.st = s]] BY <2>1
    <2>3. link[l] \in LinkRow OBVIOUS
    <2>4. /\ [link[l] EXCEPT !.st = s].root = link[l].root
          /\ [link[l] EXCEPT !.st = s].st = s
      BY <2>3 DEF LinkRow
    <2> QED BY <1>1, <2>2, <2>4
  <1>2. CASE ~Present(l)
    BY <1>2 DEF SetStatus
  <1> QED BY <1>1, <1>2

\* A request that is about to write a status has not read COMPLETED.
DeskKnows ==
    \A d \in Desk :
        desk[d].pc \in {"authenticate", "expire", "lock", "delete"} =>
            desk[d].st # "COMPLETED"

LEMMA ClosedInitial == Init => DeskKnows /\ ClosedLinkStays
  <1> SUFFICES ASSUME Init PROVE DeskKnows /\ ClosedLinkStays
    OBVIOUS
  <1>1. desk = [d \in Desk |-> NoDesk] /\ closed = {} BY DEF Init
  <1> QED BY <1>1 DEF DeskKnows, ClosedLinkStays, NoDesk

LEMMA ClosedInductive ==
    ASSUME TypeOK, DeskKnows, ClosedLinkStays, [Next]_vars
    PROVE  DeskKnows' /\ ClosedLinkStays'
  <1> AccessTypeOK BY DEF TypeOK
  <1>1. CASE UNCHANGED accessVars
    BY <1>1 DEF accessVars, accessHistory, DeskKnows, ClosedLinkStays
  <1>2. CASE NewLink
    BY <1>2 DEF NewLink, Insert, accessHistory, AccessTypeOK, LinkRow,
       DeskKnows, ClosedLinkStays
  <1>3. CASE ClosesLink
    <2> PICK l \in Link : SetStatus(l, "COMPLETED", link[l].st) /\ UNCHANGED desk
      BY <1>3 DEF ClosesLink
    <2>1. DeskKnows' BY DEF DeskKnows
    <2>2. closed' \subseteq closed \cup {l} /\ overtaken' = overtaken
          /\ (~Present(l) => closed' = closed)
      BY DEF SetStatus
    <2>3. closed \subseteq Link BY DEF AccessTypeOK
    <2>4. ClosedLinkStays' BY <2>2, <2>3, StatusEffect DEF ClosedLinkStays
    <2> QED BY <2>1, <2>4
  <1>4. ASSUME NEW d \in Desk, NEW l \in Link,
               OpenLink(d, l) \/ FindExpired(d, l) \/ CloseLink(d, l)
               \/ RevokeLink(d, l) \/ RegenerateLink(d, l)
        PROVE  DeskKnows' /\ ClosedLinkStays'
    <2>1. UNCHANGED <<link, closed, overtaken>>
      BY <1>4 DEF OpenLink, FindExpired, CloseLink, RevokeLink, RegenerateLink,
         Read
    <2>2. DeskKnows'
      BY <1>4 DEF OpenLink, FindExpired, CloseLink, RevokeLink, RegenerateLink,
         Read, DeskKnows, AccessTypeOK, DeskRec
    <2> QED BY <2>1, <2>2 DEF ClosedLinkStays
  <1>5. ASSUME NEW d \in Desk, WriteStatus(d)
        PROVE  DeskKnows' /\ ClosedLinkStays'
    <2>1. DeskKnows'
      BY <1>5 DEF WriteStatus, DeskDone, DeskKnows, NoDesk, AccessTypeOK
    <2>2. desk[d].l \in Link /\ desk[d].pc \in DeskStep BY DEF AccessTypeOK, DeskRec
    <2>3. SetStatus(desk[d].l, Target(desk[d].pc), desk[d].st)
      BY <1>5 DEF WriteStatus
    <2>4. closed \subseteq Link BY DEF AccessTypeOK
    <2>5. Target(desk[d].pc) # "COMPLETED" => desk[d].st # "COMPLETED"
      BY <1>5 DEF WriteStatus, Target, DeskKnows
    <2>6. /\ closed' \subseteq closed \cup {desk[d].l}
          /\ overtaken \subseteq overtaken'
          /\ ~Present(desk[d].l) => closed' = closed
          /\ Target(desk[d].pc) # "COMPLETED" /\ link[desk[d].l].st # desk[d].st
                => desk[d].l \in overtaken'
          /\ Target(desk[d].pc) # "COMPLETED" => closed' = closed
      BY <2>3 DEF SetStatus
    <2>7. ClosedLinkStays'
      BY <2>2, <2>3, <2>4, <2>5, <2>6, StatusEffect DEF ClosedLinkStays
    <2> QED BY <2>1, <2>7
  <1>6. ASSUME NEW d \in Desk, DeleteLink(d)
        PROVE  DeskKnows' /\ ClosedLinkStays'
    <2>1. desk[d].l \in Link BY DEF AccessTypeOK, DeskRec
    <2>2. DeskKnows'
      BY <1>6 DEF DeleteLink, DeskKnows, AccessTypeOK, DeskRec
    <2>3. desk[d].st # "COMPLETED" BY <1>6 DEF DeleteLink, DeskKnows
    <2>4. ClosedLinkStays'
      BY <1>6, <2>1, <2>3 DEF DeleteLink, ClosedLinkStays, AccessTypeOK, LinkRow
    <2> QED BY <2>2, <2>4
  <1>7. ASSUME NEW d \in Desk, NEW l \in Link, CreateLink(d, l)
        PROVE  DeskKnows' /\ ClosedLinkStays'
    BY <1>7 DEF CreateLink, DeskDone, Insert, accessHistory, AccessTypeOK,
       LinkRow, NoDesk, DeskKnows, ClosedLinkStays
  <1>8. ASSUME NEW l \in Link, ExpiryPasses(l) \/ PurgeLink(l)
        PROVE  DeskKnows' /\ ClosedLinkStays'
    BY <1>8 DEF ExpiryPasses, PurgeLink, accessHistory, AccessTypeOK, LinkRow,
       DeskKnows, ClosedLinkStays
  <1>9. ASSUME NEW d \in Desk, DeskFails(d)
        PROVE  DeskKnows' /\ ClosedLinkStays'
    BY <1>9 DEF DeskFails, DeskDone, accessHistory, AccessTypeOK, NoDesk,
       DeskKnows, ClosedLinkStays
  <1> QED BY <1>1, <1>2, <1>3, <1>4, <1>5, <1>6, <1>7, <1>8, <1>9, LinkSteps
      DEF DeskStepTaken, LinkRequest, LinkWrite, LinkTime

\* A closed link is reopened only by a request that had read its row before the
\* closing, or removed by the purge of old rows: no request that reads a closed
\* row changes it, whatever the number of requests on links.
THEOREM ClosedStaysClosed == Spec => []ClosedLinkStays
  <1>1. Init => DeskKnows /\ ClosedLinkStays BY ClosedInitial
  <1>2. TypeOK /\ (DeskKnows /\ ClosedLinkStays) /\ [Next]_vars =>
            (DeskKnows /\ ClosedLinkStays)'
    BY ClosedInductive
  <1> QED BY <1>1, <1>2, TypeCorrect, PTL DEF Spec

-----------------------------------------------------------------------------
(* Regenerated links.                                                      *)

SameRoot(l, m) == link[l].root = link[m].root

\* A signature that has no row yet has no link regenerated from it.
Rooted ==
    \A l \in Link : link[link[l].root].st = "none" => link[l].root = l

\* What somebody who regenerates a link may rely on, as long as nobody else
\* regenerates it: it is the only row of its family, then there is none.
DeskRows ==
    \A d \in Desk : desk[d].pc \in {"delete", "create"} =>
        /\ link[desk[d].l].st # "none"
        /\ \A m \in Link : Present(m) /\ SameRoot(m, desk[d].l) =>
            \/ desk[d].pc = "delete" /\ m = desk[d].l
            \/ link[m].root \in doubled
        /\ \A e \in Desk : Regenerating(e, desk[d].l) =>
            e = d \/ link[desk[d].l].root \in doubled

RowsInv == Rooted /\ DeskRows /\ OneRowPerLink

LEMMA RowsInitial == Init => RowsInv
  <1> SUFFICES ASSUME Init PROVE RowsInv
    OBVIOUS
  <1>1. PICK w \in Situation : link = w.link BY DEF Init
  <1>2. \A l \in Link : link[l].root = l
    BY <1>1, MatchingAssumption DEF SituationOK
  <1>3. desk = [d \in Desk |-> NoDesk] BY DEF Init
  <1>4. \A d \in Desk : desk[d].pc = "idle" BY <1>3 DEF NoDesk
  <1> QED BY <1>2, <1>4 DEF RowsInv, Rooted, DeskRows, OneRowPerLink

\* A step that brings no row back, moves no link to another family and starts
\* no regeneration.
LEMMA RowsShrink ==
    ASSUME AccessTypeOK, RowsInv,
           \A l \in Link : link'[l].root = link[l].root,
           \A l \in Link : Present(l)' => Present(l),
           \A l \in Link : link'[l].st = "none" <=> link[l].st = "none",
           doubled' = doubled,
           \A d \in Desk : desk'[d].pc \in {"delete", "create"} =>
                desk'[d].pc = desk[d].pc /\ desk'[d].l = desk[d].l
    PROVE  RowsInv'
  <1> \A d \in Desk : desk[d].l \in Link BY DEF AccessTypeOK, DeskRec
  <1> \A l \in Link : link[l].root \in Link BY DEF AccessTypeOK, LinkRow
  <1>1. Rooted' BY DEF RowsInv, Rooted
  <1>2. OneRowPerLink' BY DEF RowsInv, OneRowPerLink
  <1>3. DeskRows'
    <2> SUFFICES ASSUME NEW d \in Desk, desk'[d].pc \in {"delete", "create"}
                 PROVE  /\ link'[desk'[d].l].st # "none"
                        /\ \A m \in Link : Present(m)' /\ SameRoot(m, desk[d].l)' =>
                            \/ desk'[d].pc = "delete" /\ m = desk'[d].l
                            \/ link'[m].root \in doubled'
                        /\ \A e \in Desk : Regenerating(e, desk[d].l)' =>
                            e = d \/ link'[desk'[d].l].root \in doubled'
      BY DEF DeskRows
    <2>1. desk'[d].pc = desk[d].pc /\ desk'[d].l = desk[d].l OBVIOUS
    <2>2. \A m \in Link : SameRoot(m, desk[d].l)' => SameRoot(m, desk[d].l)
      BY <2>1 DEF SameRoot
    <2>3. \A e \in Desk : Regenerating(e, desk[d].l)' => Regenerating(e, desk[d].l)
      BY <2>1 DEF Regenerating
    <2> QED BY <2>1, <2>2, <2>3 DEF RowsInv, DeskRows
  <1> QED BY <1>1, <1>2, <1>3 DEF RowsInv

\* A new row for a family that has none.
LEMMA RowsGrow ==
    ASSUME AccessTypeOK, RowsInv, NEW l \in Link, NEW p, NEW root \in Link,
           Insert(l, p, root), doubled' = doubled,
           \A m \in Link : Present(m) /\ link[m].root = root => root \in doubled,
           root = l \/ link[root].st # "none",
           \A d \in Desk : desk'[d].pc \in {"delete", "create"} =>
                /\ desk'[d].pc = desk[d].pc /\ desk'[d].l = desk[d].l
                /\ link[desk[d].l].root = root => root \in doubled
    PROVE  RowsInv'
  <1> \A d \in Desk : desk[d].l \in Link BY DEF AccessTypeOK, DeskRec
  <1> \A m \in Link : link[m].root \in Link BY DEF AccessTypeOK, LinkRow
  <1>1. /\ link[l].st = "none"
        /\ link' = [link EXCEPT ![l] = [st |-> "SENDING", use |-> p, root |-> root]]
    BY DEF Insert
  <1>2. /\ \A m \in Link \ {l} : link'[m] = link[m]
        /\ link'[l].st = "SENDING" /\ link'[l].root = root
    BY <1>1 DEF AccessTypeOK
  <1>3. \A m \in Link \ {l} : Present(m)' <=> Present(m)
    BY <1>2 DEF Present
  <1>4. Rooted'
    BY <1>1, <1>2 DEF RowsInv, Rooted
  <1>5. OneRowPerLink'
    BY <1>2, <1>3 DEF RowsInv, OneRowPerLink
  <1>6. ASSUME NEW d \in Desk, desk'[d].pc \in {"delete", "create"}
        PROVE  /\ desk'[d].pc = desk[d].pc /\ desk'[d].l = desk[d].l
               /\ desk[d].l \in Link /\ desk[d].l # l
               /\ link'[desk[d].l] = link[desk[d].l]
    BY <1>1, <1>2, <1>6 DEF RowsInv, DeskRows
  <1>7. DeskRows'
    <2> SUFFICES ASSUME NEW d \in Desk, desk'[d].pc \in {"delete", "create"}
                 PROVE  /\ link'[desk'[d].l].st # "none"
                        /\ \A m \in Link : Present(m)' /\ SameRoot(m, desk[d].l)' =>
                            \/ desk'[d].pc = "delete" /\ m = desk'[d].l
                            \/ link'[m].root \in doubled'
                        /\ \A e \in Desk : Regenerating(e, desk[d].l)' =>
                            e = d \/ link'[desk'[d].l].root \in doubled'
      BY DEF DeskRows
    <2>1. link'[desk'[d].l].st # "none"
      BY <1>6 DEF RowsInv, DeskRows
    <2>2. ASSUME NEW m \in Link, Present(m)', SameRoot(m, desk[d].l)'
          PROVE  \/ desk'[d].pc = "delete" /\ m = desk'[d].l
                 \/ link'[m].root \in doubled'
      <3>1. CASE m = l
        BY <1>2, <1>6, <2>2, <3>1 DEF SameRoot
      <3>2. CASE m # l
        BY <1>2, <1>3, <1>6, <2>2, <3>2 DEF SameRoot, RowsInv, DeskRows
      <3> QED BY <3>1, <3>2
    <2>3. ASSUME NEW e \in Desk, Regenerating(e, desk[d].l)'
          PROVE  e = d \/ link'[desk'[d].l].root \in doubled'
      <3>1. desk'[e].pc \in {"delete", "create"}
        BY <2>3 DEF Regenerating
      <3>2. Regenerating(e, desk[d].l)
        BY <1>6, <2>3, <3>1 DEF Regenerating
      <3> QED BY <1>6, <3>2 DEF RowsInv, DeskRows
    <2> QED BY <2>1, <2>2, <2>3
  <1> QED BY <1>4, <1>5, <1>7 DEF RowsInv

LEMMA RowsInductive ==
    ASSUME TypeOK, RowsInv, [Next]_vars
    PROVE  RowsInv'
  <1> AccessTypeOK BY DEF TypeOK
  <1> link \in [Link -> LinkRow] BY DEF AccessTypeOK
  <1> \A d \in Desk : desk[d].l \in Link BY DEF AccessTypeOK, DeskRec
  <1> \A l \in Link : link[l].root \in Link BY DEF LinkRow
  <1>0. NoDesk.pc = "idle" BY DEF NoDesk
  <1>1. CASE UNCHANGED accessVars
    BY <1>1, RowsShrink DEF accessVars, accessHistory, Present
  <1>2. CASE NewLink
    <2> PICK l \in Link, p \in Purpose :
            Insert(l, p, l) /\ UNCHANGED <<late, desk, accessHistory>>
      BY <1>2 DEF NewLink
    <2>1. \A m \in Link : link[m].root = l => m = l
      BY DEF Insert, RowsInv, Rooted
    <2>2. ~Present(l) BY DEF Insert, Present
    <2>3. \A d \in Desk : desk[d].pc \in {"delete", "create"} => desk[d].l # l
      BY DEF Insert, RowsInv, DeskRows
    <2> QED BY <2>1, <2>2, <2>3, RowsGrow DEF accessHistory
  <1>3. ASSUME NEW l \in Link, NEW st \in {"AUTHENTICATED", "EXPIRED", "COMPLETED", "LOCKED"},
               NEW seen, SetStatus(l, st, seen),
               \A d \in Desk : desk'[d] = desk[d] \/ desk'[d] = NoDesk
        PROVE  RowsInv'
    <2>1. doubled' = doubled BY <1>3 DEF SetStatus
    <2>2. \A m \in Link : /\ link'[m].root = link[m].root
                          /\ Present(m)' => Present(m)
                          /\ link'[m].st = "none" <=> link[m].st = "none"
      BY <1>3, StatusEffect DEF Present
    <2>3. \A d \in Desk : desk'[d].pc \in {"delete", "create"} =>
                desk'[d].pc = desk[d].pc /\ desk'[d].l = desk[d].l
      BY <1>0, <1>3
    <2> QED BY <2>1, <2>2, <2>3, RowsShrink
  <1>4. CASE ClosesLink
    BY <1>3, <1>4 DEF ClosesLink
  <1>5. ASSUME NEW d \in Desk, WriteStatus(d) PROVE RowsInv'
    <2>1. Target(desk[d].pc) \in {"AUTHENTICATED", "EXPIRED", "COMPLETED", "LOCKED"}
      BY <1>5 DEF WriteStatus, Target
    <2>2. \A e \in Desk : desk'[e] = desk[e] \/ desk'[e] = NoDesk
      BY <1>5 DEF WriteStatus, DeskDone, AccessTypeOK
    <2> QED BY <1>3, <1>5, <2>1, <2>2 DEF WriteStatus
  <1>6. ASSUME NEW d \in Desk, NEW l \in Link,
               OpenLink(d, l) \/ FindExpired(d, l) \/ CloseLink(d, l)
               \/ RevokeLink(d, l)
        PROVE  RowsInv'
    <2>1. UNCHANGED link /\ UNCHANGED doubled
      BY <1>6 DEF OpenLink, FindExpired, CloseLink, RevokeLink, Read
    <2>2. \A e \in Desk : desk'[e].pc \in {"delete", "create"} =>
                desk'[e].pc = desk[e].pc /\ desk'[e].l = desk[e].l
      BY <1>6 DEF OpenLink, FindExpired, CloseLink, RevokeLink, Read, AccessTypeOK
    <2> QED BY <2>1, <2>2, RowsShrink DEF Present
  <1>7. ASSUME NEW d \in Desk, NEW l \in Link, RegenerateLink(d, l)
        PROVE  RowsInv'
    <2> DEFINE family == link[l].root
    <2>1. /\ UNCHANGED link /\ desk[d].pc = "idle" /\ Present(l)
          /\ desk' = [desk EXCEPT ![d] = [pc |-> "delete", l |-> l, st |-> link[l].st]]
          /\ doubled \subseteq doubled'
          /\ (\E e \in Desk : Regenerating(e, l)) => family \in doubled'
      BY <1>7 DEF RegenerateLink, Read
    <2>2. /\ desk'[d] = [pc |-> "delete", l |-> l, st |-> link[l].st]
          /\ \A e \in Desk \ {d} : desk'[e] = desk[e]
      BY <2>1 DEF AccessTypeOK
    <2>3. Rooted' /\ OneRowPerLink'
      BY <2>1 DEF RowsInv, Rooted, OneRowPerLink, Present
    <2>4. DeskRows'
      <3> SUFFICES ASSUME NEW e \in Desk, desk'[e].pc \in {"delete", "create"}
                   PROVE  /\ link'[desk'[e].l].st # "none"
                          /\ \A m \in Link : Present(m)' /\ SameRoot(m, desk[e].l)' =>
                              \/ desk'[e].pc = "delete" /\ m = desk'[e].l
                              \/ link'[m].root \in doubled'
                          /\ \A f \in Desk : Regenerating(f, desk[e].l)' =>
                              f = e \/ link'[desk'[e].l].root \in doubled'
        BY DEF DeskRows
      <3>1. CASE e = d
        <4>1. \A f \in Desk \ {d} : Regenerating(f, desk[d].l)' => Regenerating(f, l)
          BY <2>1, <2>2 DEF Regenerating
        <4>2. \A m \in Link : Present(m)' /\ SameRoot(m, desk[d].l)' =>
                m = l \/ link[m].root \in doubled'
          BY <2>1, <2>2 DEF Present, SameRoot, RowsInv, OneRowPerLink
        <4> QED BY <2>1, <2>2, <3>1, <4>1, <4>2 DEF Present
      <3>2. CASE e # d
        <4>1. desk'[e] = desk[e] BY <2>2, <3>2
        <4>2. \A f \in Desk \ {d} : Regenerating(f, desk[e].l)' => Regenerating(f, desk[e].l)
          BY <2>1, <2>2, <4>1 DEF Regenerating
        <4>3. Regenerating(d, desk[e].l)' => Regenerating(e, l)
          BY <2>1, <2>2, <4>1 DEF Regenerating
        <4>4. Regenerating(d, desk[e].l)' => link[desk[e].l].root = family
          BY <2>1, <2>2, <4>1 DEF Regenerating
        <4>5. \A m \in Link : Present(m)' /\ SameRoot(m, desk[e].l)' =>
                Present(m) /\ SameRoot(m, desk[e].l)
          BY <2>1, <4>1 DEF Present, SameRoot
        <4> QED BY <2>1, <4>1, <4>2, <4>3, <4>4, <4>5 DEF RowsInv, DeskRows
      <3> QED BY <3>1, <3>2
    <2> QED BY <2>3, <2>4 DEF RowsInv
  <1>8. ASSUME NEW d \in Desk, DeleteLink(d) PROVE RowsInv'
    <2> DEFINE l == desk[d].l
    <2>1. /\ desk[d].pc = "delete" /\ link' = [link EXCEPT ![l].st = "deleted"]
          /\ desk' = [desk EXCEPT ![d].pc = "create"] /\ doubled' = doubled
      BY <1>8 DEF DeleteLink
    <2>2. /\ \A m \in Link : link'[m].root = link[m].root
          /\ link'[l].st = "deleted"
          /\ \A m \in Link \ {l} : link'[m] = link[m]
      BY <2>1 DEF LinkRow
    <2>3. /\ desk'[d].pc = "create" /\ \A e \in Desk : desk'[e].l = desk[e].l
          /\ \A e \in Desk \ {d} : desk'[e].pc = desk[e].pc
      BY <2>1 DEF AccessTypeOK, DeskRec
    <2>4. link[l].st # "none" BY <2>1 DEF RowsInv, DeskRows
    <2>5. \A m \in Link : /\ Present(m)' => Present(m) /\ m # l
                          /\ link'[m].st = "none" <=> link[m].st = "none"
      BY <2>2, <2>4 DEF Present
    <2>6. Rooted' /\ OneRowPerLink'
      BY <2>1, <2>2, <2>5 DEF RowsInv, Rooted, OneRowPerLink
    <2>7. DeskRows'
      <3> SUFFICES ASSUME NEW e \in Desk, desk'[e].pc \in {"delete", "create"}
                   PROVE  /\ link'[desk'[e].l].st # "none"
                          /\ \A m \in Link : Present(m)' /\ SameRoot(m, desk[e].l)' =>
                              \/ desk'[e].pc = "delete" /\ m = desk'[e].l
                              \/ link'[m].root \in doubled'
                          /\ \A f \in Desk : Regenerating(f, desk[e].l)' =>
                              f = e \/ link'[desk'[e].l].root \in doubled'
        BY DEF DeskRows
      <3>1. \A f \in Desk : Regenerating(f, desk[e].l)' => Regenerating(f, desk[e].l)
        BY <2>1, <2>2, <2>3 DEF Regenerating
      <3>2. \A m \in Link : Present(m)' /\ SameRoot(m, desk[e].l)' =>
                Present(m) /\ SameRoot(m, desk[e].l) /\ m # l
        BY <2>2, <2>3, <2>5 DEF SameRoot
      <3>3. desk[e].pc \in {"delete", "create"} /\ (e # d => desk'[e].pc = desk[e].pc)
        BY <2>1, <2>3
      <3> QED BY <2>1, <2>2, <2>3, <2>5, <3>1, <3>2, <3>3 DEF RowsInv, DeskRows
    <2> QED BY <2>6, <2>7 DEF RowsInv
  <1>9. ASSUME NEW d \in Desk, NEW l \in Link, CreateLink(d, l) PROVE RowsInv'
    <2> DEFINE root == link[desk[d].l].root
    <2>1. /\ desk[d].pc = "create" /\ Insert(l, link[desk[d].l].use, root)
          /\ desk' = [desk EXCEPT ![d] = NoDesk] /\ doubled' = doubled
      BY <1>9 DEF CreateLink, DeskDone, accessHistory
    <2>2. \A m \in Link : Present(m) /\ link[m].root = root => root \in doubled
      BY <2>1 DEF RowsInv, DeskRows, SameRoot
    <2>3. link[root].st # "none"
      <3>1. link[desk[d].l].st # "none" BY <2>1 DEF RowsInv, DeskRows
      <3> QED BY <3>1 DEF RowsInv, Rooted
    <2>4. ASSUME NEW e \in Desk, desk'[e].pc \in {"delete", "create"}
          PROVE  /\ desk'[e].pc = desk[e].pc /\ desk'[e].l = desk[e].l
                 /\ link[desk[e].l].root = root => root \in doubled
      <3>1. e # d /\ desk'[e] = desk[e]
        BY <2>1, <2>4 DEF NoDesk, AccessTypeOK
      <3>2. link[desk[e].l].root = root => Regenerating(e, desk[d].l)
        BY <2>4, <3>1 DEF Regenerating
      <3> QED BY <2>1, <3>1, <3>2 DEF RowsInv, DeskRows
    <2> QED BY <2>1, <2>2, <2>3, <2>4, RowsGrow
  <1>10. ASSUME NEW l \in Link, ExpiryPasses(l) \/ PurgeLink(l) PROVE RowsInv'
    <2>1. desk' = desk /\ doubled' = doubled
      BY <1>10 DEF ExpiryPasses, PurgeLink, accessHistory
    <2>2. \/ link' = link
          \/ Present(l) /\ link' = [link EXCEPT ![l].st = "deleted"]
      BY <1>10 DEF ExpiryPasses, PurgeLink, Present
    <2>3. \A m \in Link : /\ link'[m].root = link[m].root
                          /\ Present(m)' => Present(m)
                          /\ link'[m].st = "none" <=> link[m].st = "none"
      BY <2>2 DEF Present, LinkRow
    <2> QED BY <2>1, <2>3, RowsShrink
  <1>11. ASSUME NEW d \in Desk, DeskFails(d) PROVE RowsInv'
    <2>1. /\ link' = link /\ doubled' = doubled
          /\ \A e \in Desk : desk'[e] = desk[e] \/ desk'[e] = NoDesk
      BY <1>11 DEF DeskFails, DeskDone, accessHistory, AccessTypeOK
    <2>2. \A e \in Desk : desk'[e].pc \in {"delete", "create"} =>
                desk'[e].pc = desk[e].pc /\ desk'[e].l = desk[e].l
      BY <1>0, <2>1
    <2>3. \A m \in Link : Present(m)' => Present(m)
      BY <2>1 DEF Present
    <2> QED BY <2>1, <2>2, <2>3, RowsShrink
  <1> QED BY <1>1, <1>2, <1>4, <1>5, <1>6, <1>7, <1>8, <1>9, <1>10, <1>11,
         LinkSteps DEF DeskStepTaken, LinkRequest, LinkWrite, LinkTime

\* Of a link and those regenerated from it one row exists at most, unless two
\* people regenerated it at the same time.
THEOREM OneRowAlways == Spec => []OneRowPerLink
  <1>1. RowsInv => OneRowPerLink BY DEF RowsInv
  <1>2. TypeOK /\ RowsInv /\ [Next]_vars => RowsInv' BY RowsInductive
  <1> QED BY <1>1, <1>2, RowsInitial, TypeCorrect, PTL DEF Spec

-----------------------------------------------------------------------------
(* What each action adds to the history.                                   *)

SameBooking == log'.told = log.told /\ log'.over = log.over /\ log'.manual = log.manual
SameAnswers == /\ log'.asked = log.asked /\ log'.answered = log.answered
               /\ log'.overlap = log.overlap
SameStage == log'.stage = log.stage /\ log'.outrun = log.outrun
Staged(st) == log'.stage = st /\ log'.outrun = Deducing
SameDisturbed == log'.disturbed = log.disturbed /\ log'.attended = log.attended

LEMMA LogSame ==
    UNCHANGED log => SameBooking /\ SameAnswers /\ SameStage /\ SameDisturbed
  BY DEF SameBooking, SameAnswers, SameStage, SameDisturbed

\* Entries the list to be written has lost.
Lost(q) == {c \in Cand : cand[c] # q.copy[c]}
           \cup {c \in Shown(q) : q.first[c] # q.copy[c]}

LEMMA WriteListEffect ==
    ASSUME TypeOK, NEW r \in Req, WriteList(r)
    PROVE  \/ UNCHANGED <<offer, cand, log>>
           \/ /\ cand' = Merge(req[r]) /\ offer' = [offer EXCEPT !.st = "CV_SEND"]
              /\ log'.over = log.over \cup Lost(req[r])
              /\ log'.disturbed = log.disturbed \cup Lost(req[r])
              /\ log'.attended = log.attended
              /\ log'.manual = log.manual
              /\ log'.told = [c \in Cand |->
                    IF req[r].copy[c].st = "SEND" /\ c \notin Shown(req[r])
                    THEN None ELSE log.told[c]]
              /\ log'.asked = [c \in Cand |-> IF c \in Shown(req[r])
                                            THEN log.asked[c] + 1 ELSE log.asked[c]]
              /\ log'.answered = log.answered /\ log'.overlap = log.overlap
              /\ Staged("CV_SEND")
  <1> log \in LogRec BY DEF TypeOK
  <1> DEFINE told == [c \in Cand |->
                    IF req[r].copy[c].st = "SEND" /\ c \notin Shown(req[r])
                    THEN None ELSE log.told[c]]
             asked == [c \in Cand |-> IF c \in Shown(req[r])
                                     THEN log.asked[c] + 1 ELSE log.asked[c]]
             over == log.over \cup Lost(req[r])
             disturbed == log.disturbed \cup Lost(req[r])
             outrun == Deducing
  <1>1. CASE ~Exists
    BY <1>1 DEF WriteList
  <1>2. CASE Exists
    <2>1. /\ cand' = Merge(req[r]) /\ offer' = [offer EXCEPT !.st = "CV_SEND"]
          /\ log' = [log EXCEPT !.over = over, !.disturbed = disturbed,
                    !.told = told, !.asked = asked, !.stage = "CV_SEND",
                    !.outrun = outrun]
      BY <1>2 DEF WriteList, Lost
    <2> HIDE DEF told, asked, over, disturbed, outrun
    <2>2. /\ log'.over = over /\ log'.disturbed = disturbed /\ log'.manual = log.manual
          /\ log'.told = told /\ log'.asked = asked /\ log'.answered = log.answered
          /\ log'.overlap = log.overlap /\ log'.stage = "CV_SEND"
          /\ log'.outrun = outrun /\ log'.attended = log.attended
      BY <2>1 DEF LogRec
    <2> QED BY <2>1, <2>2 DEF told, asked, over, disturbed, outrun, Staged
  <1> QED BY <1>1, <1>2

LEMMA GuestLog ==
    ASSUME TypeOK, NEW r \in Req
    PROVE  /\ \A l \in Link, S \in SUBSET Slot,
                 todo \in [Cand -> AnswerStatus \cup {"out"}] :
                submitAnswers(r, l, todo, S) =>
                  /\ SameBooking /\ SameStage /\ SameDisturbed
                  /\ log'.asked = log.asked /\ log'.answered = log.answered
                  /\ log'.overlap = (log.overlap \/ \E q \in Req : Submitting(req[q]))
           /\ \A c \in Cand : RecordAnswer(r, c) =>
                  /\ SameBooking /\ SameStage /\ SameDisturbed
                  /\ log'.asked = log.asked /\ log'.overlap = log.overlap
                  /\ log'.answered = IF InList(c) THEN [log.answered EXCEPT ![c] = @ + 1]
                                     ELSE log.answered
           /\ bookInterviewSlot(r) =>
                  /\ SameAnswers /\ SameStage /\ SameDisturbed
                  /\ log'.over = log.over /\ log'.manual = log.manual
                  /\ log'.told = IF SlotFree(req[r].c, req[r].s)
                                 THEN [log.told EXCEPT ![req[r].c] = req[r].s]
                                 ELSE log.told
  <1> log \in LogRec BY DEF TypeOK
  <1>1. ASSUME NEW l \in Link, NEW S \in SUBSET Slot,
               NEW todo \in [Cand -> AnswerStatus \cup {"out"}],
               submitAnswers(r, l, todo, S)
        PROVE  /\ SameBooking /\ SameStage /\ SameDisturbed
               /\ log'.asked = log.asked /\ log'.answered = log.answered
               /\ log'.overlap = (log.overlap \/ \E q \in Req : Submitting(req[q]))
    <2> DEFINE overlap == log.overlap \/ \E q \in Req : Submitting(req[q])
    <2>1. log' = [log EXCEPT !.overlap = overlap] BY <1>1 DEF submitAnswers
    <2> HIDE DEF overlap
    <2>2. /\ SameBooking /\ SameStage /\ SameDisturbed
          /\ log'.asked = log.asked /\ log'.answered = log.answered
          /\ log'.overlap = overlap
      BY <2>1 DEF LogRec, SameBooking, SameStage, SameDisturbed
    <2> QED BY <2>2 DEF overlap
  <1>2. ASSUME NEW c \in Cand, RecordAnswer(r, c)
        PROVE  /\ SameBooking /\ SameStage /\ SameDisturbed
               /\ log'.asked = log.asked /\ log'.overlap = log.overlap
               /\ log'.answered = IF InList(c) THEN [log.answered EXCEPT ![c] = @ + 1]
                                  ELSE log.answered
    <2> DEFINE answered == [log.answered EXCEPT ![c] = @ + 1]
    <2>1. IF InList(c) THEN log' = [log EXCEPT !.answered = answered] ELSE log' = log
      BY <1>2 DEF RecordAnswer
    <2> HIDE DEF answered
    <2>2. /\ SameBooking /\ SameStage /\ SameDisturbed
          /\ log'.asked = log.asked /\ log'.overlap = log.overlap
          /\ log'.answered = IF InList(c) THEN answered ELSE log.answered
      BY <2>1 DEF LogRec, SameBooking, SameStage, SameDisturbed
    <2> QED BY <2>2 DEF answered
  <1>3. ASSUME bookInterviewSlot(r)
        PROVE  /\ SameAnswers /\ SameStage /\ SameDisturbed
               /\ log'.over = log.over /\ log'.manual = log.manual
               /\ log'.told = IF SlotFree(req[r].c, req[r].s)
                              THEN [log.told EXCEPT ![req[r].c] = req[r].s]
                              ELSE log.told
    <2> DEFINE told == [log.told EXCEPT ![req[r].c] = req[r].s]
    <2>1. IF SlotFree(req[r].c, req[r].s) THEN log' = [log EXCEPT !.told = told]
          ELSE log' = log
      BY <1>3 DEF bookInterviewSlot
    <2> HIDE DEF told
    <2>2. /\ SameAnswers /\ SameStage /\ SameDisturbed
          /\ log'.over = log.over /\ log'.manual = log.manual
          /\ log'.told = IF SlotFree(req[r].c, req[r].s) THEN told ELSE log.told
      BY <2>1 DEF LogRec, SameAnswers, SameStage, SameDisturbed
    <2> QED BY <2>2 DEF told
  <1> QED BY <1>1, <1>2, <1>3

\* One more command is about to put the fiche of c under contract.
Hired(r, c) == /\ log'.disturbed = Disturb(r, c)
               /\ log'.attended = log.attended \ {c}

LEMMA StaffLog ==
    ASSUME TypeOK, NEW r \in Req
    PROVE  /\ \A c \in Cand, st \in CandStatus :
                updateMatchedCandidateStatus(r, c, st) =>
                  /\ SameBooking /\ SameAnswers /\ SameStage
                  /\ IF st = "CONTRACT" THEN Hired(r, c) ELSE SameDisturbed
           /\ \A c \in Cand : removeCandidate(r, c) =>
                  /\ SameAnswers /\ SameDisturbed /\ log'.outrun = log.outrun
                  /\ log'.stage = IF LastOne(c) THEN "NOT_MATCHED" ELSE log.stage
                  /\ log'.over = log.over /\ log'.manual = log.manual
                  /\ log'.told = [log.told EXCEPT ![c] = None]
           /\ unmatchAll(r) =>
                  /\ SameAnswers /\ SameDisturbed
                  /\ log'.over = log.over /\ log'.manual = log.manual
                  /\ log'.told = [c \in Cand |-> None]
                  /\ log'.stage = "NOT_MATCHED"
           /\ delete(r) =>
                  /\ SameAnswers /\ SameDisturbed /\ SameStage
                  /\ log'.over = log.over /\ log'.manual = log.manual
                  /\ log'.told = [c \in Cand |-> None]
           /\ \A st \in OfferStatus : update(r, st) =>
                  /\ SameBooking /\ SameAnswers /\ SameDisturbed
                  /\ Staged(st)
  <1> log \in LogRec BY DEF TypeOK
  <1>1. ASSUME NEW c \in Cand, NEW st \in CandStatus,
               updateMatchedCandidateStatus(r, c, st)
        PROVE  /\ SameBooking /\ SameAnswers /\ SameStage
               /\ IF st = "CONTRACT" THEN Hired(r, c) ELSE SameDisturbed
    <2> DEFINE attended == log.attended \ {c}
               disturbed == Disturb(r, c)
    <2>1. log' = IF st = "CONTRACT"
                 THEN [log EXCEPT !.disturbed = disturbed, !.attended = attended]
                 ELSE log
      BY <1>1 DEF updateMatchedCandidateStatus
    <2> HIDE DEF attended, disturbed
    <2>2. /\ SameBooking /\ SameAnswers /\ SameStage
          /\ IF st = "CONTRACT"
             THEN log'.disturbed = disturbed /\ log'.attended = attended
             ELSE SameDisturbed
      BY <2>1 DEF LogRec, SameBooking, SameAnswers, SameStage, SameDisturbed
    <2> QED BY <2>2 DEF attended, disturbed, Hired
  <1>2. ASSUME NEW c \in Cand, removeCandidate(r, c)
        PROVE  /\ SameAnswers /\ SameDisturbed /\ log'.outrun = log.outrun
               /\ log'.stage = IF LastOne(c) THEN "NOT_MATCHED" ELSE log.stage
               /\ log'.over = log.over /\ log'.manual = log.manual
               /\ log'.told = [log.told EXCEPT ![c] = None]
    <2> DEFINE told == [log.told EXCEPT ![c] = None]
               stage == IF LastOne(c) THEN "NOT_MATCHED" ELSE log.stage
    <2>1. log' = [log EXCEPT !.told = told, !.stage = stage]
      BY <1>2 DEF removeCandidate, LastOne
    <2> HIDE DEF told, stage
    <2>2. /\ SameAnswers /\ SameDisturbed /\ log'.outrun = log.outrun
          /\ log'.over = log.over /\ log'.manual = log.manual
          /\ log'.told = told /\ log'.stage = stage
      BY <2>1 DEF LogRec, SameAnswers, SameDisturbed
    <2> QED BY <2>2 DEF told, stage
  <1>3. ASSUME unmatchAll(r)
        PROVE  /\ SameAnswers /\ SameDisturbed
               /\ log'.over = log.over /\ log'.manual = log.manual
               /\ log'.told = [c \in Cand |-> None]
               /\ log'.stage = "NOT_MATCHED"
    BY <1>3 DEF unmatchAll, LogRec, SameAnswers, SameDisturbed
  <1>4. ASSUME delete(r)
        PROVE  /\ SameAnswers /\ SameDisturbed /\ SameStage
               /\ log'.over = log.over /\ log'.manual = log.manual
               /\ log'.told = [c \in Cand |-> None]
    BY <1>4 DEF delete, LogRec, SameAnswers, SameDisturbed, SameStage
  <1>5. ASSUME NEW st \in OfferStatus, update(r, st)
        PROVE  /\ SameBooking /\ SameAnswers /\ SameDisturbed
               /\ Staged(st)
    <2> DEFINE outrun == Deducing
    <2>1. log' = [log EXCEPT !.stage = st, !.outrun = outrun] BY <1>5 DEF update
    <2> HIDE DEF outrun
    <2>2. /\ SameBooking /\ SameAnswers /\ SameDisturbed
          /\ log'.stage = st /\ log'.outrun = outrun
      BY <2>1 DEF LogRec, SameBooking, SameAnswers, SameDisturbed
    <2> QED BY <2>2 DEF outrun, Staged
  <1> QED BY <1>1, <1>2, <1>3, <1>4, <1>5

Concludes(r) ==
    /\ log'.disturbed = Disturb(r, req[r].c)
    /\ log'.attended = IF req[r].st = "PRESENT" /\ cand[req[r].c].st = "CONTRACT"
                       THEN log.attended \cup {req[r].c}
                       ELSE log.attended \ {req[r].c}

LEMMA StepLog ==
    ASSUME TypeOK, NEW r \in Req
    PROVE  /\ addProposedCandidate(r) =>
                \/ UNCHANGED <<cand, log>>
                \/ /\ SameAnswers /\ SameStage /\ log'.over = log.over
                   /\ cand' = [cand EXCEPT ![req[r].c] = Fresh(req[r].st, req[r].s)]
                   /\ log'.told = [log.told EXCEPT ![req[r].c] = None]
                   /\ log'.manual = IF req[r].s # None THEN log.manual \cup {req[r].c}
                                    ELSE log.manual
                   /\ log'.attended = log.attended
                   /\ log'.disturbed = IF req[r].st = "IMMERSING"
                                       THEN Disturb(r, req[r].c)
                                       ELSE log.disturbed
           /\ WriteConclusion(r) =>
                  /\ SameBooking /\ SameAnswers /\ SameStage
                  /\ IF Exists /\ InList(req[r].c) THEN Concludes(r)
                     ELSE SameDisturbed
           /\ syncOffersToContract(r) =>
                  /\ SameBooking /\ SameAnswers /\ SameDisturbed
                  /\ IF Exists THEN Staged("CONTRACT") ELSE SameStage
           /\ Fail(r) =>
                  /\ SameBooking /\ SameAnswers /\ SameStage
                  /\ log'.attended = log.attended
                  /\ log'.disturbed = IF req[r].pc = "fiche"
                                      THEN log.disturbed \cup {req[r].c}
                                      ELSE log.disturbed
  <1> log \in LogRec BY DEF TypeOK
  <1> DEFINE q == req[r]
  <1>1. ASSUME addProposedCandidate(r)
        PROVE  \/ UNCHANGED <<cand, log>>
               \/ /\ SameAnswers /\ SameStage /\ log'.over = log.over
                  /\ cand' = [cand EXCEPT ![q.c] = Fresh(q.st, q.s)]
                  /\ log'.told = [log.told EXCEPT ![q.c] = None]
                  /\ log'.manual = IF q.s # None THEN log.manual \cup {q.c}
                                   ELSE log.manual
                  /\ log'.attended = log.attended
                  /\ log'.disturbed = IF q.st = "IMMERSING" THEN Disturb(r, q.c)
                                      ELSE log.disturbed
    <2> DEFINE told == [log.told EXCEPT ![q.c] = None]
               manual == IF q.s # None THEN log.manual \cup {q.c} ELSE log.manual
               disturbed == IF q.st = "IMMERSING" THEN Disturb(r, q.c)
                            ELSE log.disturbed
    <2>1. \/ UNCHANGED <<cand, log>>
          \/ /\ cand' = [cand EXCEPT ![q.c] = Fresh(q.st, q.s)]
             /\ log' = [log EXCEPT !.told = told, !.manual = manual,
                                   !.disturbed = disturbed]
      BY <1>1 DEF addProposedCandidate
    <2> HIDE DEF told, manual, disturbed
    <2>2. \/ UNCHANGED <<cand, log>>
          \/ /\ cand' = [cand EXCEPT ![q.c] = Fresh(q.st, q.s)]
             /\ SameAnswers /\ SameStage /\ log'.over = log.over
             /\ log'.told = told /\ log'.manual = manual
             /\ log'.disturbed = disturbed /\ log'.attended = log.attended
      BY <2>1 DEF LogRec, SameAnswers, SameStage
    <2> QED BY <2>2 DEF told, manual, disturbed
  <1>2. ASSUME WriteConclusion(r)
        PROVE  /\ SameBooking /\ SameAnswers /\ SameStage
               /\ IF Exists /\ InList(q.c) THEN Concludes(r) ELSE SameDisturbed
    <2> DEFINE attended == IF q.st = "PRESENT" /\ cand[q.c].st = "CONTRACT"
                           THEN log.attended \cup {q.c} ELSE log.attended \ {q.c}
               disturbed == Disturb(r, q.c)
    <2>1. IF Exists /\ InList(q.c)
          THEN log' = [log EXCEPT !.disturbed = disturbed, !.attended = attended]
          ELSE log' = log
      BY <1>2 DEF WriteConclusion
    <2> HIDE DEF attended, disturbed
    <2>2. /\ SameBooking /\ SameAnswers /\ SameStage
          /\ IF Exists /\ InList(q.c)
             THEN log'.disturbed = disturbed /\ log'.attended = attended
             ELSE SameDisturbed
      BY <2>1 DEF LogRec, SameBooking, SameAnswers, SameStage, SameDisturbed
    <2> QED BY <2>2 DEF attended, disturbed, Concludes
  <1>3. ASSUME syncOffersToContract(r)
        PROVE  /\ SameBooking /\ SameAnswers /\ SameDisturbed
               /\ IF Exists THEN Staged("CONTRACT") ELSE SameStage
    <2> DEFINE outrun == Deducing
    <2>1. IF Exists THEN log' = [log EXCEPT !.stage = "CONTRACT", !.outrun = outrun]
          ELSE log' = log
      BY <1>3 DEF syncOffersToContract
    <2> HIDE DEF outrun
    <2>2. /\ SameBooking /\ SameAnswers /\ SameDisturbed
          /\ IF Exists THEN log'.stage = "CONTRACT" /\ log'.outrun = outrun
             ELSE SameStage
      BY <2>1 DEF LogRec, SameBooking, SameAnswers, SameDisturbed, SameStage
    <2> QED BY <2>2 DEF outrun, Staged
  <1>5. ASSUME Fail(r)
        PROVE  /\ SameBooking /\ SameAnswers /\ SameStage
               /\ log'.attended = log.attended
               /\ log'.disturbed = IF q.pc = "fiche" THEN log.disturbed \cup {q.c}
                                   ELSE log.disturbed
    BY <1>5 DEF Fail, LogRec, SameBooking, SameAnswers, SameStage
  <1> QED BY <1>1, <1>2, <1>3, <1>5

-----------------------------------------------------------------------------
(* What each action leaves in its request.                                 *)

\* The list a request holds is the one it held, the one of the offer or none.
CopyOK(r) == req'[r].copy \in {Nobody, req[r].copy, cand}

\* The request is not one that answers for the company or writes a fiche.
Elsewhere(r) == req'[r].pc \notin {"fiche", "slots", "answers", "interview"}

LEMMA Moves ==
    ASSUME TypeOK, NEW r \in Req, NEW rec, Receive(r, rec) \/ GoTo(r, rec)
    PROVE  req'[r] = rec /\ \A q \in Req \ {r} : req'[q] = req[q]
  BY DEF TypeOK, Receive, GoTo

LEMMA SyncFields ==
    ASSUME NEW list, NEW st
    PROVE  /\ SyncWith(list, st).pc \in {"idle", "sync"}
           /\ SyncWith(list, st).copy = Nobody
  BY DEF SyncWith, NoReq

LEMMA NoReqFields == NoReq.pc = "idle" /\ NoReq.copy = Nobody
  BY DEF NoReq

LEMMA StaffReq ==
    ASSUME TypeOK, NEW r \in Req, Staff(r)
    PROVE  /\ CopyOK(r) /\ \A q \in Req \ {r} : req'[q] = req[q]
           /\ req[r].pc = "idle"
           /\ \/ Elsewhere(r)
              \/ \E c \in Cand : /\ updateMatchedCandidateStatus(r, c, "CONTRACT")
                               /\ req'[r].pc = "fiche"
                               /\ req'[r].c = c /\ req'[r].st = "CONTRACT"
  <1>0. \A rec : Receive(r, rec) => req[r].pc = "idle" BY DEF Receive
  <1>1. ASSUME NEW C \in SUBSET Cand, createSession(r, C)
        PROVE  /\ CopyOK(r) /\ Elsewhere(r) /\ req[r].pc = "idle"
               /\ \A q \in Req \ {r} : req'[q] = req[q]
    <2> DEFINE rec == [NoReq EXCEPT !.pc = "merge", !.first = cand,
                   !.todo = [c \in Cand |-> IF c \in C THEN "SEND" ELSE "out"]]
    <2>1. Receive(r, rec) BY <1>1 DEF createSession
    <2>2. rec.pc = "merge" /\ rec.copy = Nobody BY DEF NoReq
    <2> HIDE DEF rec
    <2> QED BY <2>1, <2>2, <1>0, Moves DEF CopyOK, Elsewhere
  <1>2. ASSUME NEW c \in Cand, NEW st \in {"PRE_SELECTED", "ACCEPTED", "DECLINED", "CONTRACT"},
               updateMatchedCandidateStatus(r, c, st)
        PROVE  /\ CopyOK(r) /\ req[r].pc = "idle"
               /\ \A q \in Req \ {r} : req'[q] = req[q]
               /\ \/ st # "CONTRACT" /\ Elsewhere(r)
                  \/ /\ st = "CONTRACT" /\ req'[r].pc = "fiche"
                     /\ req'[r].c = c /\ req'[r].st = "CONTRACT"
    <2> DEFINE sync == SyncWith(cand', offer.st)
               rec == [sync EXCEPT !.pc = "fiche", !.c = c, !.st = "CONTRACT"]
    <2>1. \/ st # "CONTRACT" /\ Receive(r, sync)
          \/ st = "CONTRACT" /\ Receive(r, rec)
      BY <1>2 DEF updateMatchedCandidateStatus
    <2>2. /\ rec.pc = "fiche" /\ rec.c = c /\ rec.st = "CONTRACT"
          /\ rec.copy = Nobody
      BY DEF SyncWith, NoReq
    <2>3. sync.pc \in {"idle", "sync"} /\ sync.copy = Nobody BY SyncFields
    <2> HIDE DEF rec, sync
    <2> QED BY <2>1, <2>2, <2>3, <1>0, Moves DEF CopyOK, Elsewhere
  <1>3. ASSUME NEW c \in Cand, addCandidate(r, c) \/ removeCandidate(r, c)
        PROVE  /\ CopyOK(r) /\ Elsewhere(r) /\ req[r].pc = "idle"
               /\ \A q \in Req \ {r} : req'[q] = req[q]
    <2> DEFINE sync == SyncWith(cand', offer.st)
    <2>1. Receive(r, sync) BY <1>3 DEF addCandidate, removeCandidate
    <2>2. sync.pc \in {"idle", "sync"} /\ sync.copy = Nobody BY SyncFields
    <2> HIDE DEF sync
    <2> QED BY <2>1, <2>2, <1>0, Moves DEF CopyOK, Elsewhere
  <1>4. ASSUME NEW c \in Cand, NEW st, NEW s,
               \/ addManual(r, c, st, s)
               \/ setInterviewConclusion(r, c, st)
               \/ setImmersionConclusion(r, c, st)
        PROVE  /\ CopyOK(r) /\ Elsewhere(r) /\ req[r].pc = "idle"
               /\ \A q \in Req \ {r} : req'[q] = req[q]
    <2> DEFINE a == [NoReq EXCEPT !.pc = "replace", !.c = c, !.st = st, !.s = s]
               m == [NoReq EXCEPT !.pc = "conclude", !.c = c, !.st = st]
               t == [NoReq EXCEPT !.pc = "immerse", !.c = c, !.st = st]
    <2>1. Receive(r, a) \/ Receive(r, m) \/ Receive(r, t)
      BY <1>4 DEF addManual, setInterviewConclusion, setImmersionConclusion
    <2>2. /\ a.pc = "replace" /\ m.pc = "conclude" /\ t.pc = "immerse"
          /\ a.copy = Nobody /\ m.copy = Nobody /\ t.copy = Nobody
      BY DEF NoReq
    <2> HIDE DEF a, m, t
    <2> QED BY <2>1, <2>2, <1>0, Moves DEF CopyOK, Elsewhere
  <1>5. ASSUME unmatchAll(r) \/ delete(r) \/ \E st \in OfferStatus : update(r, st)
        PROVE  /\ CopyOK(r) /\ Elsewhere(r) /\ req[r].pc = "idle"
               /\ \A q \in Req \ {r} : req'[q] = req[q]
    <2>1. Receive(r, NoReq) BY <1>5 DEF unmatchAll, delete, update
    <2> QED BY <2>1, <1>0, NoReqFields, Moves DEF CopyOK, Elsewhere
  <1> QED BY <1>1, <1>2, <1>3, <1>4, <1>5 DEF Staff

LEMMA GuestReq ==
    ASSUME TypeOK, NEW r \in Req
    PROVE  /\ \A l \in Link, S \in SUBSET Slot,
                 todo \in [Cand -> AnswerStatus \cup {"out"}] :
                submitAnswers(r, l, todo, S) =>
                  /\ CopyOK(r) /\ \A q \in Req \ {r} : req'[q] = req[q]
                  /\ req[r].pc = "idle"
                  /\ req'[r].pc \in {"answers", "slots"} /\ req'[r].todo = todo
           /\ \A l \in Link, s \in Slot : bookSlot(r, l, s) =>
                  /\ CopyOK(r) /\ \A q \in Req \ {r} : req'[q] = req[q]
                  /\ req[r].pc = "idle" /\ Elsewhere(r)
  <1>1. ASSUME NEW l \in Link, NEW S \in SUBSET Slot,
               NEW todo \in [Cand -> AnswerStatus \cup {"out"}],
               submitAnswers(r, l, todo, S)
        PROVE  /\ CopyOK(r) /\ \A q \in Req \ {r} : req'[q] = req[q]
               /\ req[r].pc = "idle"
               /\ req'[r].pc \in {"answers", "slots"} /\ req'[r].todo = todo
    <2> DEFINE rec == [NoReq EXCEPT !.pc = IF S = {} THEN "answers" ELSE "slots",
                                    !.l = l, !.todo = todo, !.slots = S]
    <2>1. Receive(r, rec) BY <1>1 DEF submitAnswers
    <2>2. rec.pc \in {"answers", "slots"} /\ rec.todo = todo /\ rec.copy = Nobody
      BY DEF NoReq
    <2> HIDE DEF rec
    <2> QED BY <2>1, <2>2, Moves DEF CopyOK, Receive
  <1>2. ASSUME NEW l \in Link, NEW s \in Slot, bookSlot(r, l, s)
        PROVE  /\ CopyOK(r) /\ \A q \in Req \ {r} : req'[q] = req[q]
               /\ req[r].pc = "idle" /\ Elsewhere(r)
    <2> DEFINE rec == [NoReq EXCEPT !.pc = "book", !.l = l, !.c = link[l].use,
                                !.s = s]
    <2>1. Receive(r, rec) BY <1>2 DEF bookSlot
    <2>2. rec.pc = "book" /\ rec.copy = Nobody BY DEF NoReq
    <2> HIDE DEF rec
    <2> QED BY <2>1, <2>2, Moves DEF CopyOK, Elsewhere, Receive
  <1> QED BY <1>1, <1>2

\* The steps of a request that answers or writes a fiche, and the others.
LEMMA ContinueReq ==
    ASSUME TypeOK, NEW r \in Req, Continue(r)
    PROVE  /\ CopyOK(r) /\ \A q \in Req \ {r} : req'[q] = req[q]
           /\ \/ Elsewhere(r)
              \/ /\ setOfferInterviewSlots(r) \/ \E l \in Link : InviteCandidate(r, l)
                 /\ req'[r].pc = "answers" /\ req'[r].todo = req[r].todo
              \/ \E c \in Cand : /\ RecordAnswer(r, c)
                               /\ req'[r].pc \in {"interview", "answers"}
                               /\ req'[r].todo = [req[r].todo EXCEPT ![c] = "out"]
              \/ /\ addProposedCandidate(r)
                 /\ cand' = [cand EXCEPT ![req[r].c] = Fresh("IMMERSING", req[r].s)]
                 /\ req[r].st = "IMMERSING"
                 /\ req'[r].pc = "fiche"
                 /\ req'[r].c = req[r].c /\ req'[r].st = "IMMERSING"
              \/ /\ WriteConclusion(r) /\ Exists /\ InList(req[r].c)
                 /\ req'[r].pc = "fiche" /\ req'[r].c = req[r].c
                 /\ req'[r].st = ConcludedFiche(req[r].st)
  <1> req[r] \in ReqRec BY DEF TypeOK
  <1>0. ASSUME GoTo(r, NoReq)
        PROVE  CopyOK(r) /\ Elsewhere(r) /\ \A q \in Req \ {r} : req'[q] = req[q]
    BY <1>0, NoReqFields, Moves DEF CopyOK, Elsewhere
  <1>1. ASSUME NEW pc \in Pcs, GoTo(r, [req[r] EXCEPT !.pc = pc])
        PROVE  /\ CopyOK(r) /\ \A q \in Req \ {r} : req'[q] = req[q]
               /\ req'[r].pc = pc /\ req'[r].todo = req[r].todo
               /\ req'[r].c = req[r].c /\ req'[r].st = req[r].st
    <2>1. req'[r] = [req[r] EXCEPT !.pc = pc] BY <1>1, Moves
    <2> QED BY <1>1, <2>1, Moves DEF CopyOK, ReqRec
  <1>2. CASE ReadList(r)
    <2> DEFINE pc == IF Exists THEN "list" ELSE "invite"
    <2>1. GoTo(r, [req[r] EXCEPT !.pc = pc, !.copy = cand]) BY <1>2 DEF ReadList
    <2>2. req'[r] = [req[r] EXCEPT !.pc = pc, !.copy = cand] BY <2>1, Moves
    <2>3. pc \in {"list", "invite"} OBVIOUS
    <2> HIDE DEF pc
    <2>4. req'[r].pc = pc /\ req'[r].copy = cand BY <2>2 DEF ReqRec
    <2> QED BY <2>1, <2>3, <2>4, Moves DEF CopyOK, Elsewhere
  <1>3. CASE WriteList(r)
    <2> DEFINE rec == [NoReq EXCEPT !.pc = "invite"]
    <2>1. GoTo(r, rec) BY <1>3 DEF WriteList
    <2>2. rec.pc = "invite" /\ rec.copy = Nobody BY DEF NoReq
    <2> HIDE DEF rec
    <2> QED BY <2>1, <2>2, Moves DEF CopyOK, Elsewhere
  <1>4. CASE setOfferInterviewSlots(r) \/ \E l \in Link : InviteCandidate(r, l)
    <2>1. GoTo(r, [req[r] EXCEPT !.pc = "answers"])
      BY <1>4 DEF setOfferInterviewSlots, InviteCandidate
    <2> QED BY <1>1, <1>4, <2>1 DEF Pcs
  <1>5. ASSUME NEW c \in Cand, RecordAnswer(r, c)
        PROVE  /\ CopyOK(r) /\ \A q \in Req \ {r} : req'[q] = req[q]
               /\ req'[r].pc \in {"interview", "answers"}
               /\ req'[r].todo = [req[r].todo EXCEPT ![c] = "out"]
    <2> DEFINE pc == IF req[r].todo[c] # "REFUSED" /\ req[r].slots # {}
                     THEN "interview" ELSE "answers"
               todo == [req[r].todo EXCEPT ![c] = "out"]
               rec == [req[r] EXCEPT !.todo = todo, !.c = c, !.pc = pc]
    <2>1. GoTo(r, rec) BY <1>5 DEF RecordAnswer
    <2>2. pc \in {"interview", "answers"} OBVIOUS
    <2>3. req'[r] = rec BY <2>1, Moves
    <2> HIDE DEF pc, todo
    <2>4. req'[r].pc = pc /\ req'[r].todo = todo /\ req'[r].copy = req[r].copy
      BY <2>3 DEF ReqRec
    <2>5. \A q \in Req \ {r} : req'[q] = req[q] BY <2>1, Moves
    <2> QED BY <2>2, <2>4, <2>5 DEF CopyOK, todo
  <1>6. CASE bookInterviewSlot(r)
    <2>1. GoTo(r, [req[r] EXCEPT !.pc = "close"]) \/ GoTo(r, NoReq)
      BY <1>6 DEF bookInterviewSlot
    <2> QED BY <1>0, <1>1, <2>1 DEF Pcs, Elsewhere
  <1>7. CASE addProposedCandidate(r)
    <2>1. \/ GoTo(r, [req[r] EXCEPT !.pc = "push"]) \/ GoTo(r, NoReq)
          \/ /\ GoTo(r, [req[r] EXCEPT !.pc = "fiche"])
             /\ req[r].st = "IMMERSING"
             /\ cand' = [cand EXCEPT ![req[r].c] = Fresh("IMMERSING", req[r].s)]
      BY <1>7 DEF addProposedCandidate
    <2> QED BY <1>0, <1>1, <1>7, <2>1 DEF Pcs, Elsewhere
  <1>8. CASE WriteConclusion(r)
    <2> DEFINE st == ConcludedFiche(req[r].st)
    <2>1. \/ GoTo(r, NoReq)
          \/ /\ Exists /\ InList(req[r].c)
             /\ GoTo(r, [req[r] EXCEPT !.pc = "fiche", !.st = st])
      BY <1>8 DEF WriteConclusion
    <2> HIDE DEF st
    <2>2. ASSUME GoTo(r, [req[r] EXCEPT !.pc = "fiche", !.st = st])
          PROVE  /\ CopyOK(r) /\ \A q \in Req \ {r} : req'[q] = req[q]
                 /\ req'[r].pc = "fiche" /\ req'[r].st = st /\ req'[r].c = req[r].c
      <3>1. req'[r] = [req[r] EXCEPT !.pc = "fiche", !.st = st] BY <2>2, Moves
      <3> QED BY <2>2, <3>1, Moves DEF CopyOK, ReqRec
    <2> QED BY <1>0, <1>8, <2>1, <2>2 DEF st
  <1>9. CASE WriteFiche(r) \/ syncOffersToContract(r)
    <2>1. \/ GoTo(r, [req[r] EXCEPT !.pc = "spread"])
          \/ GoTo(r, [req[r] EXCEPT !.pc = "sync"]) \/ GoTo(r, NoReq)
      BY <1>9 DEF WriteFiche, syncOffersToContract
    <2> QED BY <1>0, <1>1, <2>1 DEF Pcs, Elsewhere
  <1>10. CASE \/ (\E l \in Link : InviteCompany(r, l)) \/ CompleteLink(r)
              \/ syncDerivedStatus(r) \/ Fail(r)
    BY <1>0, <1>10 DEF InviteCompany, CompleteLink, syncDerivedStatus, Fail
  <1> QED BY <1>2, <1>3, <1>4, <1>5, <1>6, <1>7, <1>8, <1>9, <1>10 DEF Continue

-----------------------------------------------------------------------------
(* The status of the offer.                                                *)

\* A request that has deduced a status keeps it until it writes it.
LEMMA DerivedKept ==
    ASSUME TypeOK, NEW r \in Req, Guest(r) \/ Continue(r)
    PROVE  req'[r].derived \in {"none", req[r].derived}
  <1> req[r] \in ReqRec BY DEF TypeOK
  <1>0. NoReq.derived = "none" BY DEF NoReq
  <1>1. ASSUME NEW rec, Receive(r, rec) \/ GoTo(r, rec),
               rec.derived \in {"none", req[r].derived}
        PROVE  req'[r].derived \in {"none", req[r].derived}
    BY <1>1, Moves
  <1>2. ASSUME NEW pc, GoTo(r, [req[r] EXCEPT !.pc = pc])
        PROVE  req'[r].derived \in {"none", req[r].derived}
    <2>1. [req[r] EXCEPT !.pc = pc].derived = req[r].derived BY DEF ReqRec
    <2> QED BY <1>1, <1>2, <2>1
  <1>3. ASSUME GoTo(r, NoReq)
        PROVE  req'[r].derived \in {"none", req[r].derived}
    BY <1>0, <1>1, <1>3
  <1>4. CASE Guest(r)
    <2>1. ASSUME NEW l \in Link, NEW S \in SUBSET Slot,
                 NEW todo \in [Cand -> AnswerStatus \cup {"out"}],
                 submitAnswers(r, l, todo, S)
          PROVE  req'[r].derived \in {"none", req[r].derived}
      <3> DEFINE rec == [NoReq EXCEPT !.pc = IF S = {} THEN "answers"
                                             ELSE "slots",
                                      !.l = l, !.todo = todo, !.slots = S]
      <3>1. Receive(r, rec) BY <2>1 DEF submitAnswers
      <3>2. rec.derived = "none" BY DEF NoReq
      <3> HIDE DEF rec
      <3> QED BY <1>1, <3>1, <3>2
    <2>2. ASSUME NEW l \in Link, NEW s \in Slot, bookSlot(r, l, s)
          PROVE  req'[r].derived \in {"none", req[r].derived}
      <3> DEFINE rec == [NoReq EXCEPT !.pc = "book", !.l = l,
                                      !.c = link[l].use, !.s = s]
      <3>1. Receive(r, rec) BY <2>2 DEF bookSlot
      <3>2. rec.derived = "none" BY DEF NoReq
      <3> HIDE DEF rec
      <3> QED BY <1>1, <3>1, <3>2
    <2> QED BY <1>4, <2>1, <2>2 DEF Guest
  <1>5. CASE ReadList(r)
    <2> DEFINE pc == IF Exists THEN "list" ELSE "invite"
               rec == [req[r] EXCEPT !.pc = pc, !.copy = cand]
    <2>1. GoTo(r, rec) BY <1>5 DEF ReadList
    <2> HIDE DEF pc
    <2>2. rec.derived = req[r].derived BY DEF ReqRec
    <2> HIDE DEF rec
    <2> QED BY <1>1, <2>1, <2>2
  <1>6. CASE WriteList(r)
    <2>1. GoTo(r, [NoReq EXCEPT !.pc = "invite"]) BY <1>6 DEF WriteList
    <2>2. [NoReq EXCEPT !.pc = "invite"].derived = "none" BY DEF NoReq
    <2> QED BY <1>1, <2>1, <2>2
  <1>7. ASSUME NEW c \in Cand, RecordAnswer(r, c)
        PROVE  req'[r].derived \in {"none", req[r].derived}
    <2> DEFINE pc == IF req[r].todo[c] # "REFUSED" /\ req[r].slots # {}
                     THEN "interview" ELSE "answers"
               todo == [req[r].todo EXCEPT ![c] = "out"]
               rec == [req[r] EXCEPT !.todo = todo, !.c = c, !.pc = pc]
    <2>1. GoTo(r, rec) BY <1>7 DEF RecordAnswer
    <2> HIDE DEF pc, todo
    <2>2. rec.derived = req[r].derived BY DEF ReqRec
    <2> HIDE DEF rec
    <2> QED BY <1>1, <2>1, <2>2
  <1>8. CASE WriteConclusion(r)
    <2> DEFINE st == ConcludedFiche(req[r].st)
               rec == [req[r] EXCEPT !.pc = "fiche", !.st = st]
    <2>1. GoTo(r, NoReq) \/ GoTo(r, rec) BY <1>8 DEF WriteConclusion
    <2> HIDE DEF st
    <2>2. rec.derived = req[r].derived BY DEF ReqRec
    <2> HIDE DEF rec
    <2> QED BY <1>1, <1>3, <2>1, <2>2
  <1>9. CASE \/ setOfferInterviewSlots(r) \/ \E l \in Link : InviteCandidate(r, l)
             \/ bookInterviewSlot(r) \/ addProposedCandidate(r) \/ WriteFiche(r)
             \/ syncOffersToContract(r)
    <2>1. GoTo(r, NoReq) \/ \E pc \in Pcs : GoTo(r, [req[r] EXCEPT !.pc = pc])
      <3>1. "answers" \in Pcs /\ "close" \in Pcs /\ "push" \in Pcs
            /\ "fiche" \in Pcs /\ "spread" \in Pcs /\ "sync" \in Pcs
        BY DEF Pcs
      <3>2. CASE \/ setOfferInterviewSlots(r)
                 \/ \E l \in Link : InviteCandidate(r, l)
        BY <3>1, <3>2 DEF setOfferInterviewSlots, InviteCandidate
      <3>3. CASE bookInterviewSlot(r) \/ addProposedCandidate(r)
        BY <3>1, <3>3 DEF bookInterviewSlot, addProposedCandidate
      <3>4. CASE WriteFiche(r) \/ syncOffersToContract(r)
        BY <3>1, <3>4 DEF WriteFiche, syncOffersToContract
      <3> QED BY <1>9, <3>2, <3>3, <3>4
    <2> QED BY <1>2, <1>3, <2>1
  <1>10. CASE \/ (\E l \in Link : InviteCompany(r, l)) \/ CompleteLink(r)
              \/ syncDerivedStatus(r) \/ Fail(r)
    BY <1>3, <1>10 DEF InviteCompany, CompleteLink, syncDerivedStatus, Fail
  <1> QED BY <1>4, <1>5, <1>6, <1>7, <1>8, <1>9, <1>10 DEF Continue

\* With somebody in the list, a further stage is not deduced again.
LEMMA SyncDerives ==
    ASSUME NEW list, NEW st, NEW c \in Cand, list[c].st # "out",
           SyncWith(list, st).derived # "none"
    PROVE  st \notin Stages
  BY DEF SyncWith, deriveOfferStatus, NoReq

\* A request of the staff deduces a status at no further stage, or as it
\* empties the list.
LEMMA StaffDerived ==
    ASSUME TypeOK, NEW r \in Req, Staff(r)
    PROVE  \/ req'[r].derived = "none"
           \/ Exists /\ offer.st \notin Stages /\ SameStage
           \/ log'.stage = "NOT_MATCHED"
  <1> cand \in [Cand -> Entry] BY DEF TypeOK
  <1> DEFINE sync == SyncWith(cand', offer.st)
  <1>0. NoReq.derived = "none" BY DEF NoReq
  <1>1. ASSUME NEW c \in Cand,
               NEW st \in {"PRE_SELECTED", "ACCEPTED", "DECLINED", "CONTRACT"},
               updateMatchedCandidateStatus(r, c, st), req'[r].derived # "none"
        PROVE  Exists /\ offer.st \notin Stages /\ SameStage
    <2> DEFINE rec == [sync EXCEPT !.pc = "fiche", !.c = c, !.st = st]
    <2>1. Exists /\ SameStage
      BY <1>1, StaffLog DEF updateMatchedCandidateStatus, CandStatus
    <2>2. Receive(r, sync) \/ Receive(r, rec)
      BY <1>1 DEF updateMatchedCandidateStatus
    <2>3. rec.derived = sync.derived BY DEF SyncWith, NoReq
    <2>4. cand'[c].st # "out" BY <1>1 DEF updateMatchedCandidateStatus, Entry
    <2> HIDE DEF rec, sync
    <2>5. sync.derived # "none" BY <1>1, <2>2, <2>3, Moves
    <2> QED BY <2>1, <2>4, <2>5, SyncDerives DEF sync
  <1>2. ASSUME NEW c \in Cand, addCandidate(r, c), req'[r].derived # "none"
        PROVE  Exists /\ offer.st \notin Stages /\ SameStage
    <2>1. Exists /\ SameStage BY <1>2, LogSame DEF addCandidate
    <2>2. Receive(r, sync) BY <1>2 DEF addCandidate
    <2>3. cand'[c].st # "out" BY <1>2 DEF addCandidate, Fresh
    <2> HIDE DEF sync
    <2>4. sync.derived # "none" BY <1>2, <2>2, Moves
    <2> QED BY <2>1, <2>3, <2>4, SyncDerives DEF sync
  <1>3. ASSUME NEW c \in Cand, removeCandidate(r, c), req'[r].derived # "none",
               log'.stage # "NOT_MATCHED"
        PROVE  Exists /\ offer.st \notin Stages /\ SameStage
    <2>1. ~LastOne(c) /\ Exists /\ SameStage
      BY <1>3, StaffLog DEF removeCandidate, SameStage
    <2>2. PICK d \in Cand \ {c} : InList(d) BY <2>1 DEF LastOne
    <2>3. Receive(r, sync) BY <1>3 DEF removeCandidate
    <2>4. cand'[d].st # "out" BY <1>3, <2>2 DEF removeCandidate, InList
    <2> HIDE DEF sync
    <2>5. sync.derived # "none" BY <1>3, <2>3, Moves
    <2> QED BY <2>1, <2>4, <2>5, SyncDerives DEF sync
  <1>4. ASSUME NEW C \in SUBSET Cand, createSession(r, C)
        PROVE  req'[r].derived = "none"
    <2> DEFINE rec == [NoReq EXCEPT !.pc = "merge", !.first = cand,
                  !.todo = [c \in Cand |-> IF c \in C THEN "SEND" ELSE "out"]]
    <2>1. Receive(r, rec) BY <1>4 DEF createSession
    <2>2. rec.derived = "none" BY DEF NoReq
    <2> HIDE DEF rec
    <2> QED BY <2>1, <2>2, Moves
  <1>5. ASSUME NEW c \in Cand, NEW st, NEW s,
               \/ addManual(r, c, st, s)
               \/ setInterviewConclusion(r, c, st)
               \/ setImmersionConclusion(r, c, st)
        PROVE  req'[r].derived = "none"
    <2> DEFINE a == [NoReq EXCEPT !.pc = "replace", !.c = c, !.st = st, !.s = s]
               m == [NoReq EXCEPT !.pc = "conclude", !.c = c, !.st = st]
               t == [NoReq EXCEPT !.pc = "immerse", !.c = c, !.st = st]
    <2>1. Receive(r, a) \/ Receive(r, m) \/ Receive(r, t)
      BY <1>5 DEF addManual, setInterviewConclusion, setImmersionConclusion
    <2>2. a.derived = "none" /\ m.derived = "none" /\ t.derived = "none"
      BY DEF NoReq
    <2> HIDE DEF a, m, t
    <2> QED BY <2>1, <2>2, Moves
  <1>6. ASSUME unmatchAll(r) \/ delete(r) \/ \E st \in OfferStatus : update(r, st)
        PROVE  req'[r].derived = "none"
    <2>1. Receive(r, NoReq) BY <1>6 DEF unmatchAll, delete, update
    <2> QED BY <1>0, <2>1, Moves
  <1> QED BY <1>1, <1>2, <1>3, <1>4, <1>5, <1>6 DEF Staff

\* What the staff does to the stage in the history.
LEMMA StaffStage ==
    ASSUME TypeOK, NEW r \in Req, Staff(r)
    PROVE  SameStage \/ log'.stage = "NOT_MATCHED" \/ \E st : Staged(st)
  <1>1. CASE UNCHANGED log
    BY <1>1, LogSame
  <1>2. ASSUME NEW c \in Cand, removeCandidate(r, c)
        PROVE  SameStage \/ log'.stage = "NOT_MATCHED"
    BY <1>2, StaffLog DEF SameStage
  <1>3. ASSUME NEW c \in Cand,
               NEW st \in {"PRE_SELECTED", "ACCEPTED", "DECLINED", "CONTRACT"},
               updateMatchedCandidateStatus(r, c, st)
        PROVE  SameStage
    BY <1>3, StaffLog DEF CandStatus
  <1>4. CASE unmatchAll(r) \/ delete(r) \/ \E st \in OfferStatus : update(r, st)
    BY <1>4, StaffLog
  <1> QED BY <1>1, <1>2, <1>3, <1>4
      DEF Staff, createSession, addCandidate, addManual,
          setInterviewConclusion, setImmersionConclusion

\* So does the rest of a request.
LEMMA StepStage ==
    ASSUME TypeOK, NEW r \in Req, Guest(r) \/ Continue(r)
    PROVE  SameStage \/ \E st : Staged(st)
  <1>1. CASE UNCHANGED log
    BY <1>1, LogSame
  <1>2. CASE Guest(r)
    BY <1>1, <1>2, GuestLog DEF Guest, bookSlot
  <1>3. CASE WriteList(r)
    BY <1>1, <1>3, WriteListEffect
  <1>4. CASE (\E c \in Cand : RecordAnswer(r, c)) \/ bookInterviewSlot(r)
    BY <1>4, GuestLog
  <1>5. CASE \/ addProposedCandidate(r) \/ WriteConclusion(r)
             \/ syncOffersToContract(r) \/ Fail(r)
    BY <1>1, <1>5, StepLog
  <1> QED BY <1>1, <1>2, <1>3, <1>4, <1>5
      DEF Continue, ReadList, setOfferInterviewSlots, InviteCompany,
          InviteCandidate, CompleteLink, WriteFiche, syncDerivedStatus

\* No status is waiting to be written that was deduced after the stage was
\* given.
NoneDeduced ==
    \A q \in Req : req[q].derived # "none" =>
        log.stage \notin Stages \/ log.outrun
StageInv == StageKept /\ NoneDeduced

LEMMA DeducedInductive ==
    ASSUME TypeOK, StageInv, [Next]_vars
    PROVE  NoneDeduced'
  <1> offer \in [st : OfferStatus \cup {"deleted"}, slots : SUBSET Slot]
    BY DEF TypeOK
  <1>1. ASSUME SameStage \/ log'.stage = "NOT_MATCHED" \/ \E st : Staged(st),
               \A q \in Req : req'[q].derived \in {"none", req[q].derived}
        PROVE  NoneDeduced'
    <2>1. CASE SameStage
      BY <1>1, <2>1 DEF StageInv, NoneDeduced, SameStage
    <2>2. CASE log'.stage = "NOT_MATCHED"
      BY <2>2 DEF NoneDeduced, Stages
    <2>3. CASE \E st : Staged(st)
      BY <1>1, <2>3 DEF NoneDeduced, Staged, Deducing
    <2> QED BY <1>1, <2>1, <2>2, <2>3
  <1>2. ASSUME NEW r \in Req, Staff(r) PROVE NoneDeduced'
    <2>1. \A q \in Req \ {r} : req'[q] = req[q] BY <1>2, StaffReq
    <2>2. CASE req'[r].derived = "none"
      BY <1>1, <1>2, <2>1, <2>2, StaffStage
    <2>3. CASE Exists /\ offer.st \notin Stages /\ SameStage
      <3>1. log.stage \notin Stages \/ log.outrun
        BY <2>3 DEF StageInv, StageKept, Exists
      <3> QED BY <2>3, <3>1 DEF NoneDeduced, SameStage
    <2>4. CASE log'.stage = "NOT_MATCHED"
      BY <2>4 DEF NoneDeduced, Stages
    <2> QED BY <1>2, <2>2, <2>3, <2>4, StaffDerived
  <1>3. ASSUME NEW r \in Req, Guest(r) PROVE NoneDeduced'
    <2>1. \A q \in Req \ {r} : req'[q] = req[q] BY <1>3, GuestReq DEF Guest
    <2> QED BY <1>1, <1>3, <2>1, DerivedKept, StepStage
  <1>4. ASSUME NEW r \in Req, Continue(r) PROVE NoneDeduced'
    <2>1. \A q \in Req \ {r} : req'[q] = req[q] BY <1>4, ContinueReq
    <2> QED BY <1>1, <1>4, <2>1, DerivedKept, StepStage
  <1>5. CASE Access \/ UNCHANGED vars
    <2>1. UNCHANGED <<req, log>> BY <1>5 DEF Access, vars
    <2> QED BY <1>1, <2>1, LogSame
  <1> QED BY <1>2, <1>3, <1>4, <1>5 DEF Next

LEMMA StageInductive ==
    ASSUME TypeOK, StageInv, [Next]_vars
    PROVE  StageKept'
  <1> /\ offer \in [st : OfferStatus \cup {"deleted"}, slots : SUBSET Slot]
      /\ log \in LogRec
    BY DEF TypeOK
  <1>1. ASSUME offer'.st = offer.st, SameStage PROVE StageKept'
    BY <1>1 DEF StageInv, StageKept, SameStage
  <1>0. ASSUME UNCHANGED offer, SameStage \/ log'.stage = "NOT_MATCHED"
        PROVE  StageKept'
    BY <1>0, <1>1 DEF StageKept, Stages
  <1>2. ASSUME NEW r \in Req, Staff(r) PROVE StageKept'
    <2>1. ASSUME NEW c \in Cand,
                 NEW st \in {"PRE_SELECTED", "ACCEPTED", "DECLINED", "CONTRACT"},
                 updateMatchedCandidateStatus(r, c, st)
          PROVE  StageKept'
      BY <2>1, <1>1, StaffLog DEF updateMatchedCandidateStatus, CandStatus
    <2>2. ASSUME NEW c \in Cand, removeCandidate(r, c) PROVE StageKept'
      <3>1. SameStage \/ log'.stage = "NOT_MATCHED"
        BY <2>2, StaffLog DEF SameStage
      <3> QED BY <2>2, <3>1, <1>0 DEF removeCandidate
    <2>3. CASE unmatchAll(r)
      BY <2>3, StaffLog DEF StageKept, Stages
    <2>4. CASE delete(r)
      BY <2>4 DEF delete, StageKept
    <2>5. ASSUME NEW st \in OfferStatus, update(r, st) PROVE StageKept'
      <3>1. offer'.st = st BY <2>5 DEF update
      <3> QED BY <2>5, <3>1, StaffLog DEF StageKept, Staged
    <2>6. ASSUME UNCHANGED offer, UNCHANGED log PROVE StageKept'
      BY <2>6, <1>1, LogSame
    <2> QED BY <1>2, <2>1, <2>2, <2>3, <2>4, <2>5, <2>6
        DEF Staff, createSession, addCandidate, addManual,
            setInterviewConclusion, setImmersionConclusion, offerVars
  <1>3. ASSUME NEW r \in Req, Guest(r) PROVE StageKept'
    BY <1>1, <1>3, GuestLog, LogSame DEF Guest, submitAnswers, bookSlot, offerVars
  <1>4. ASSUME NEW r \in Req, Continue(r) PROVE StageKept'
    <2>1. CASE WriteList(r)
      <3>1. CASE UNCHANGED <<offer, cand, log>>
        BY <3>1, <1>1, LogSame
      <3>2. CASE offer' = [offer EXCEPT !.st = "CV_SEND"] /\ Staged("CV_SEND")
        BY <3>2 DEF StageKept, Staged
      <3> QED BY <2>1, <3>1, <3>2, WriteListEffect
    <2>2. CASE setOfferInterviewSlots(r)
      BY <2>2, <1>1, LogSame DEF setOfferInterviewSlots
    <2>3. ASSUME NEW c \in Cand, RecordAnswer(r, c) PROVE StageKept'
      BY <2>3, <1>1, GuestLog DEF RecordAnswer
    <2>4. CASE bookInterviewSlot(r)
      BY <2>4, <1>1, GuestLog DEF bookInterviewSlot
    <2>5. CASE addProposedCandidate(r)
      BY <2>5, <1>1, StepLog, LogSame DEF addProposedCandidate
    <2>6. CASE WriteConclusion(r)
      BY <2>6, <1>1, StepLog DEF WriteConclusion
    <2>7. CASE syncOffersToContract(r)
      <3>1. CASE Exists
        <4>1. offer'.st = "CONTRACT"
          BY <2>7, <3>1 DEF syncOffersToContract
        <4> QED BY <2>7, <3>1, <4>1, StepLog DEF StageKept, Staged
      <3>2. CASE ~Exists
        BY <2>7, <3>2, <1>1, StepLog DEF syncOffersToContract
      <3> QED BY <3>1, <3>2
    <2>8. CASE syncDerivedStatus(r)
      <3>1. req[r].derived # "none"
        BY <2>8 DEF syncDerivedStatus, TypeOK, ReqOK, OfferStatus, Stages
      <3>2. log.stage \notin Stages \/ log.outrun
        BY <3>1 DEF StageInv, NoneDeduced
      <3> QED BY <2>8, <3>2 DEF syncDerivedStatus, StageKept
    <2>9. CASE Fail(r)
      BY <2>9, <1>1, StepLog DEF Fail, offerVars
    <2>10. ASSUME UNCHANGED offer, UNCHANGED log PROVE StageKept'
      BY <2>10, <1>1, LogSame
    <2> QED BY <1>4, <2>1, <2>2, <2>3, <2>4, <2>5, <2>6, <2>7, <2>8, <2>9, <2>10
        DEF Continue, ReadList, InviteCompany, InviteCandidate, CompleteLink,
            WriteFiche, offerVars
  <1>5. CASE Access \/ UNCHANGED vars
    BY <1>1, <1>5, LogSame DEF Access, vars, offerVars
  <1> QED BY <1>2, <1>3, <1>4, <1>5 DEF Next

LEMMA StageInitial == Init => StageInv
  <1> SUFFICES ASSUME Init PROVE StageInv
    OBVIOUS
  <1> PICK w \in Situation :
        /\ offer = w.offer
        /\ log = [told |-> [c \in Cand |-> w.cand[c].slot], over |-> {}, manual |-> {},
                  asked |-> [c \in Cand |-> IF w.cand[c].st = "SEND" THEN 1 ELSE 0],
                  answered |-> [c \in Cand |-> 0], overlap |-> FALSE,
                  stage |-> w.offer.st, outrun |-> FALSE, disturbed |-> {},
                  attended |-> {}]
    BY DEF Init
  <1>1. StageKept BY DEF StageKept
  <1>2. req = [r \in Req |-> NoReq] /\ NoReq.derived = "none" BY DEF Init, NoReq
  <1> QED BY <1>1, <1>2 DEF StageInv, NoneDeduced

\* A stage given to an offer by a person, a session or a contract stays until
\* another is given or the list is emptied, however many requests write the
\* offer: of the statuses deduced from its list, only one that a request had
\* already deduced when the stage was given, and still had to write, undoes it.
THEOREM StageAlwaysKept == Spec => []StageKept
  <1>1. TypeOK /\ StageInv /\ [Next]_vars => StageInv'
    BY StageInductive, DeducedInductive DEF StageInv
  <1>2. StageInv => StageKept BY DEF StageInv
  <1> QED BY <1>1, <1>2, StageInitial, TypeCorrect, PTL DEF Spec


-----------------------------------------------------------------------------
(* Bookings.                                                               *)

\* Who is not in the list holds no slot, in the offer or in a copy of it.
OutFree(list) == \A c \in Cand : list[c].st = "out" => list[c].slot = None
OutEmpty == OutFree(cand) /\ \A r \in Req : OutFree(req[r].copy)

BookInv == OutEmpty /\ OneHolder /\ ConfirmedSlotKept

\* Every candidate whose entry was not written over keeps his slot and his
\* promise, or is left with none (or with one entered by hand).
Shrinks ==
    /\ log.over \subseteq log'.over /\ log.manual \subseteq log'.manual
    /\ \A c \in Cand \ log'.over :
        \/ cand'[c].slot = cand[c].slot /\ log'.told[c] = log.told[c]
        \/ /\ log'.told[c] = None
           /\ cand'[c].slot = None \/ c \in log'.manual

LEMMA BookingShrinks ==
    ASSUME BookInv, Shrinks
    PROVE  OneHolder' /\ ConfirmedSlotKept' /\ [Promise!Next]_Promised
  <1>1. OneHolder'
    <2> SUFFICES ASSUME NEW c \in Cand, NEW d \in Cand,
                        cand'[c].slot = cand'[d].slot, cand'[c].slot # None, c # d,
                        {c, d} \cap (log'.manual \cup log'.over) = {}
                 PROVE  FALSE
      BY DEF OneHolder
    <2>1. /\ c \notin log'.manual /\ c \notin log'.over
          /\ d \notin log'.manual /\ d \notin log'.over
      OBVIOUS
    <2>2. cand'[c].slot = cand[c].slot /\ cand'[d].slot = cand[d].slot
      BY <2>1 DEF Shrinks
    <2>3. {c, d} \cap (log.manual \cup log.over) = {}
      BY <2>1 DEF Shrinks
    <2> QED BY <2>2, <2>3 DEF BookInv, OneHolder
  <1>2. ConfirmedSlotKept'
    BY DEF Shrinks, BookInv, ConfirmedSlotKept
  <1>3. Promise!Next
    <2> DEFINE C == {c \in Cand : Promised'[c] = None}
    <2>1. \A c \in Cand \ C : Promised'[c] = Promised[c]
      BY DEF Shrinks, Promised
    <2>2. Promised' = [c \in Cand |-> IF c \in C THEN None ELSE Promised[c]]
      BY <2>1 DEF Promised
    <2>3. C \in SUBSET Cand OBVIOUS
    <2> QED BY <2>2, <2>3 DEF Promise!Next, Promise!Withdraw
  <1> QED BY <1>1, <1>2, <1>3

LEMMA MergeFacts ==
    ASSUME NEW q \in ReqRec, OutFree(q.copy)
    PROVE  /\ OutFree(Merge(q))
           /\ \A c \in Shown(q) : Merge(q)[c].st = "SEND"
           /\ \A c \in Shown(q) : q.first[c] = q.copy[c] => Merge(q)[c].slot = q.copy[c].slot
           /\ \A c \in Cand \ Shown(q) :
                IF q.copy[c].st = "SEND" THEN Merge(q)[c] = Fresh("ACCEPTED", None)
                ELSE Merge(q)[c] = q.copy[c]
  <1>1. \A c \in Cand : Merge(q)[c] = IF c \in Shown(q) THEN Overlay(q.copy[c], q.first[c])
                            ELSE resetProposal(q.copy[c])
    BY DEF Merge
  <1>2. \A e, u : Overlay(e, u).st = "SEND" /\ (u = e => Overlay(e, u).slot = e.slot)
    BY DEF Overlay
  <1>3. Shown(q) \subseteq Cand BY DEF Shown
  <1>4. \A c \in Cand \ Shown(q) :
                IF q.copy[c].st = "SEND" THEN Merge(q)[c] = Fresh("ACCEPTED", None)
                ELSE Merge(q)[c] = q.copy[c]
    BY <1>1 DEF resetProposal
  <1>5. \A c \in Shown(q) : /\ Merge(q)[c].st = "SEND"
                            /\ q.first[c] = q.copy[c] => Merge(q)[c].slot = q.copy[c].slot
    BY <1>1, <1>2, <1>3
  <1>6. OutFree(Merge(q))
    <2> SUFFICES ASSUME NEW c \in Cand, Merge(q)[c].st = "out"
                 PROVE  Merge(q)[c].slot = None
      BY DEF OutFree
    <2>1. c \notin Shown(q) BY <1>5
    <2>2. Fresh("ACCEPTED", None).st = "ACCEPTED" BY DEF Fresh
    <2>3. Merge(q)[c] = q.copy[c] BY <1>4, <2>1, <2>2
    <2> QED BY <2>3 DEF OutFree
  <1> QED BY <1>4, <1>5, <1>6

\* A session written from an old copy.
LEMMA WriteListBooking ==
    ASSUME TypeOK, BookInv, NEW r \in Req, WriteList(r)
    PROVE  Shrinks /\ OutFree(cand)'
  <1> /\ log \in LogRec /\ req[r] \in ReqRec /\ OutFree(req[r].copy)
      /\ OutFree(cand)
    BY DEF TypeOK, BookInv, OutEmpty
  <1>1. CASE UNCHANGED <<offer, cand, log>>
    BY <1>1 DEF Shrinks, OutFree
  <1>2. CASE /\ cand' = Merge(req[r])
             /\ log'.over = log.over \cup Lost(req[r])
             /\ log'.manual = log.manual
             /\ log'.told = [c \in Cand |->
                    IF req[r].copy[c].st = "SEND" /\ c \notin Shown(req[r])
                    THEN None ELSE log.told[c]]
    <2> DEFINE q == req[r]
    <2>1. ASSUME NEW c \in Cand \ log'.over
          PROVE  /\ cand[c] = q.copy[c]
                 /\ c \in Shown(q) => q.first[c] = q.copy[c]
      BY <1>2 DEF Lost
    <2>2. Fresh("ACCEPTED", None).slot = None BY DEF Fresh
    <2>3. ASSUME NEW c \in Cand \ log'.over
          PROVE  \/ cand'[c].slot = cand[c].slot /\ log'.told[c] = log.told[c]
                 \/ log'.told[c] = None /\ cand'[c].slot = None
      <3>1. CASE c \in Shown(q)
        BY <1>2, <2>1, <3>1, MergeFacts
      <3>2. CASE c \notin Shown(q)
        BY <1>2, <2>1, <2>2, <3>2, MergeFacts
      <3> QED BY <3>1, <3>2
    <2> QED BY <1>2, <2>3, MergeFacts DEF Shrinks, OutFree
  <1> QED BY <1>1, <1>2, WriteListEffect

\* A booking: the slot is free and the candidate has none.
LEMMA BookEffect ==
    ASSUME TypeOK, BookInv, NEW r \in Req, bookInterviewSlot(r)
    PROVE  /\ OutFree(cand)' /\ OneHolder' /\ ConfirmedSlotKept'
           /\ [Promise!Next]_Promised
  <1> DEFINE c == req[r].c
             s == req[r].s
  <1> log \in LogRec /\ OutFree(cand) BY DEF TypeOK, BookInv, OutEmpty
  <1>1. CASE ~SlotFree(c, s)
    <2>1. UNCHANGED <<cand, log>> BY <1>1 DEF bookInterviewSlot
    <2>2. Shrinks BY <2>1 DEF Shrinks
    <2> QED BY <2>1, <2>2, BookingShrinks DEF OutFree
  <1>2. CASE SlotFree(c, s)
    <2>1. c \in Cand /\ s \in Slot /\ s # None
      BY ConstantFacts DEF bookInterviewSlot, TypeOK, ReqOK
    <2>2. /\ log'.over = log.over /\ log'.manual = log.manual
          /\ log'.told = [log.told EXCEPT ![c] = s]
      BY <1>2, GuestLog
    <2>3. /\ cand' = [cand EXCEPT ![c].slot = s] BY <1>2 DEF bookInterviewSlot
    <2>4. /\ cand'[c].slot = s /\ cand'[c].st = cand[c].st
          /\ \A d \in Cand \ {c} : cand'[d] = cand[d]
      BY <2>1, <2>3 DEF TypeOK, Entry
    <2>5. /\ cand[c].slot = None /\ cand[c].st # "out"
          /\ \A d \in Cand : cand[d].slot # s
      BY <1>2 DEF SlotFree, InList
    <2>6. /\ log'.told[c] = s /\ \A d \in Cand \ {c} : log'.told[d] = log.told[d]
      BY <2>1, <2>2, LogFields
    <2>7. OutFree(cand)' BY <2>4, <2>5 DEF OutFree
    <2>8. OneHolder' BY <2>2, <2>4, <2>5 DEF BookInv, OneHolder
    <2>9. ConfirmedSlotKept' BY <2>2, <2>4, <2>6 DEF BookInv, ConfirmedSlotKept
    <2>10. [Promise!Next]_Promised
      <3>1. CASE c \in log.over
        <4>1. Promised' = Promised BY <2>2, <2>6, <3>1 DEF Promised
        <4> QED BY <4>1
      <3>2. CASE c \notin log.over
        <4>1. Promised[c] = None
          BY <2>1, <2>5, <3>2 DEF Promised, BookInv, ConfirmedSlotKept
        <4>2. \A d \in Cand : Promised[d] # s
          BY <2>1, <2>5 DEF Promised, BookInv, ConfirmedSlotKept
        <4>3. Promised' = [Promised EXCEPT ![c] = s]
          BY <2>1, <2>2, <2>6, <3>2 DEF Promised
        <4> QED BY <2>1, <4>1, <4>2, <4>3 DEF Promise!Next, Promise!Book
      <3> QED BY <3>1, <3>2
    <2> QED BY <2>7, <2>8, <2>9, <2>10
  <1> QED BY <1>1, <1>2

LEMMA StaffBooking ==
    ASSUME TypeOK, BookInv, NEW r \in Req, Staff(r)
    PROVE  Shrinks /\ OutFree(cand)'
  <1> /\ log \in LogRec /\ cand \in [Cand -> Entry] /\ OutFree(cand)
    BY DEF TypeOK, BookInv, OutEmpty
  <1> log.told \in [Cand -> Slot \cup {None}] BY LogFields
  <1>0. Out.slot = None /\ Fresh("PRE_SELECTED", None).slot = None
    BY DEF Out, Fresh
  <1>1. CASE UNCHANGED <<cand, log>>
    BY <1>1 DEF Shrinks, OutFree
  <1>2. ASSUME NEW c \in Cand, NEW st \in {"PRE_SELECTED", "ACCEPTED", "DECLINED", "CONTRACT"},
               updateMatchedCandidateStatus(r, c, st)
        PROVE  Shrinks /\ OutFree(cand)'
    <2>1. cand' = [cand EXCEPT ![c].st = st] /\ InList(c)
      BY <1>2 DEF updateMatchedCandidateStatus
    <2>2. \A d \in Cand : /\ cand'[d].slot = cand[d].slot
                          /\ cand'[d].st = "out" => cand[d].st = "out"
      BY <2>1 DEF Entry
    <2>3. SameBooking BY <1>2, StaffLog DEF CandStatus
    <2> QED BY <2>2, <2>3 DEF Shrinks, OutFree, SameBooking
  <1>3. ASSUME NEW c \in Cand, addCandidate(r, c)
        PROVE  Shrinks /\ OutFree(cand)'
    <2>1. /\ cand' = [cand EXCEPT ![c] = Fresh("PRE_SELECTED", None)] /\ ~InList(c)
          /\ UNCHANGED log
      BY <1>3 DEF addCandidate
    <2>2. cand[c].slot = None BY <2>1 DEF InList, OutFree
    <2>3. \A d \in Cand : cand'[d].slot = cand[d].slot BY <1>0, <2>1, <2>2
    <2>4. Fresh("PRE_SELECTED", None).st # "out" BY DEF Fresh
    <2> QED BY <2>1, <2>3, <2>4 DEF Shrinks, OutFree
  <1>4. ASSUME NEW c \in Cand, removeCandidate(r, c)
        PROVE  Shrinks /\ OutFree(cand)'
    <2>1. cand' = [cand EXCEPT ![c] = Out] BY <1>4 DEF removeCandidate
    <2>2. /\ log'.over = log.over /\ log'.manual = log.manual
          /\ log'.told = [log.told EXCEPT ![c] = None]
      BY <1>4, StaffLog
    <2> QED BY <1>0, <2>1, <2>2 DEF Shrinks, OutFree
  <1>5. CASE unmatchAll(r) \/ delete(r)
    <2>1. cand' = Nobody BY <1>5 DEF unmatchAll, delete
    <2>2. /\ log'.over = log.over /\ log'.manual = log.manual
          /\ log'.told = [c \in Cand |-> None]
      BY <1>5, StaffLog
    <2> QED BY <1>0, <2>1, <2>2 DEF Shrinks, OutFree, Nobody
  <1>6. ASSUME NEW st \in OfferStatus, update(r, st)
        PROVE  Shrinks /\ OutFree(cand)'
    <2>1. UNCHANGED cand /\ SameBooking BY <1>6, StaffLog DEF update
    <2> QED BY <2>1 DEF Shrinks, OutFree, SameBooking
  <1> QED BY <1>1, <1>2, <1>3, <1>4, <1>5, <1>6
      DEF Staff, createSession, addManual, setInterviewConclusion,
          setImmersionConclusion, offerVars

LEMMA GuestBooking ==
    ASSUME TypeOK, BookInv, NEW r \in Req, Guest(r)
    PROVE  Shrinks /\ OutFree(cand)'
  <1> OutFree(cand) BY DEF BookInv, OutEmpty
  <1>1. UNCHANGED cand BY DEF Guest, submitAnswers, bookSlot, offerVars
  <1>2. SameBooking BY GuestLog, LogSame DEF Guest, bookSlot
  <1> QED BY <1>1, <1>2 DEF Shrinks, OutFree, SameBooking

LEMMA StepBooking ==
    ASSUME TypeOK, BookInv, NEW r \in Req, Continue(r), ~bookInterviewSlot(r)
    PROVE  Shrinks /\ OutFree(cand)'
  <1> /\ log \in LogRec /\ cand \in [Cand -> Entry] /\ OutFree(cand)
      /\ req[r] \in ReqRec /\ ReqOK(req[r])
    BY DEF TypeOK, BookInv, OutEmpty
  <1> log.told \in [Cand -> Slot \cup {None}] BY LogFields
  <1>0. ASSUME SameBooking, \A d \in Cand : /\ cand'[d].slot = cand[d].slot
                                            /\ cand'[d].st = "out" => cand[d].st = "out"
        PROVE  Shrinks /\ OutFree(cand)'
    BY <1>0 DEF Shrinks, OutFree, SameBooking
  <1>1. CASE UNCHANGED cand /\ (UNCHANGED log \/ SameBooking)
    BY <1>0, <1>1, LogSame
  <1>2. CASE WriteList(r)
    BY <1>2, WriteListBooking
  <1>3. ASSUME NEW c \in Cand, RecordAnswer(r, c)
        PROVE  Shrinks /\ OutFree(cand)'
    <2>1. req[r].todo \in [Cand -> AnswerStatus \cup {"out"}] /\ req[r].todo[c] # "out"
      BY <1>3 DEF RecordAnswer, ReqOK, Submitting
    <2>2. UNCHANGED cand \/ cand' = [cand EXCEPT ![c].st = req[r].todo[c]]
      BY <1>3 DEF RecordAnswer
    <2>3. \A d \in Cand : /\ cand'[d].slot = cand[d].slot
                          /\ cand'[d].st = "out" => cand[d].st = "out"
      BY <2>1, <2>2 DEF Entry
    <2> QED BY <1>0, <1>3, <2>3, GuestLog
  <1>4. CASE addProposedCandidate(r)
    <2> DEFINE c == req[r].c
               e == Fresh(req[r].st, req[r].s)
    <2>1. c \in Cand /\ req[r].st \in {"INTERVIEW", "IMMERSING"}
      BY <1>4 DEF addProposedCandidate, ReqOK
    <2>2. e.st # "out" /\ e.slot = req[r].s BY <2>1 DEF Fresh
    <2>3. CASE UNCHANGED <<cand, log>>
      BY <1>1, <2>3
    <2>4. CASE /\ log'.over = log.over /\ cand' = [cand EXCEPT ![c] = e]
               /\ log'.told = [log.told EXCEPT ![c] = None]
               /\ log'.manual = IF req[r].s # None THEN log.manual \cup {c}
                                ELSE log.manual
      <3> HIDE DEF e
      <3>1. OutFree(cand)' BY <2>1, <2>2, <2>4 DEF OutFree
      <3>2. Shrinks BY <2>1, <2>2, <2>4 DEF Shrinks
      <3> QED BY <3>1, <3>2
    <2> QED BY <1>4, <2>3, <2>4, StepLog
  <1>5. CASE WriteConclusion(r)
    <2> DEFINE c == req[r].c
               st == ConcludedStatus(req[r].st, cand[c].st)
               met == [cand[c] EXCEPT !.st = st, !.concl = req[r].st]
               tried == [cand[c] EXCEPT !.st = st, !.imm = req[r].st]
    <2>1. /\ c \in Cand
          /\ req[r].st \in InterviewEnd \cup ImmersionEnd
      BY <1>5 DEF WriteConclusion, ReqOK
    <2>2. \/ UNCHANGED cand
          \/ /\ InList(c)
             /\ \/ cand' = [cand EXCEPT ![c] = met]
                \/ cand' = [cand EXCEPT ![c] = tried]
      BY <1>5 DEF WriteConclusion
    <2>3. InList(c) => st # "out"
      BY <2>1 DEF ConcludedStatus, InterviewEnd, ImmersionEnd, InList
    <2> HIDE DEF st
    <2>4. /\ met.st = st /\ met.slot = cand[c].slot
          /\ tried.st = st /\ tried.slot = cand[c].slot
      BY <2>1 DEF Entry
    <2> HIDE DEF met, tried
    <2>5. \A d \in Cand : /\ cand'[d].slot = cand[d].slot
                          /\ cand'[d].st = "out" => cand[d].st = "out"
      BY <2>1, <2>2, <2>3, <2>4
    <2> QED BY <1>0, <1>5, <2>5, StepLog
  <1>6. CASE syncOffersToContract(r) \/ syncDerivedStatus(r) \/ Fail(r)
    <2>1. UNCHANGED cand
      BY <1>6 DEF syncOffersToContract, syncDerivedStatus, Fail, offerVars
    <2>2. SameBooking BY <1>6, StepLog, LogSame DEF syncDerivedStatus
    <2> QED BY <1>1, <2>1, <2>2
  <1> QED BY <1>1, <1>2, <1>3, <1>4, <1>5, <1>6
      DEF Continue, ReadList, setOfferInterviewSlots, InviteCompany,
          InviteCandidate, CompleteLink, WriteFiche, offerVars

LEMMA BookInductive ==
    ASSUME TypeOK, BookInv, [Next]_vars
    PROVE  BookInv' /\ [Promise!Next]_Promised
  <1> OutFree(Nobody) BY DEF OutFree, Nobody, Out, Fresh
  <1>1. ASSUME NEW r \in Req, Staff(r) \/ Guest(r) \/ Continue(r)
        PROVE  \A q \in Req : OutFree(req[q].copy)'
    <2>1. CopyOK(r) /\ \A q \in Req \ {r} : req'[q] = req[q]
      BY <1>1, StaffReq, GuestReq, ContinueReq DEF Guest
    <2>2. \A q \in Req : req'[q].copy \in {Nobody, req[q].copy, cand}
      BY <2>1 DEF CopyOK
    <2>3. \A q \in Req : OutFree(req'[q].copy)
      BY <2>2 DEF BookInv, OutEmpty
    <2> QED BY <2>3 DEF OutFree
  <1>2. ASSUME NEW r \in Req, Staff(r) \/ Guest(r) \/ Continue(r), ~bookInterviewSlot(r)
        PROVE  Shrinks /\ OutFree(cand)'
    BY <1>2, StaffBooking, GuestBooking, StepBooking
  <1>3. ASSUME NEW r \in Req, Staff(r) \/ Guest(r) \/ Continue(r)
        PROVE  BookInv' /\ [Promise!Next]_Promised
    <2>1. CASE bookInterviewSlot(r)
      BY <1>1, <1>3, <2>1, BookEffect DEF BookInv, OutEmpty
    <2>2. CASE ~bookInterviewSlot(r)
      BY <1>1, <1>2, <1>3, <2>2, BookingShrinks DEF BookInv, OutEmpty
    <2> QED BY <2>1, <2>2
  <1>4. CASE Access \/ UNCHANGED vars
    <2>1. UNCHANGED <<cand, log, req>> BY <1>4 DEF Access, vars, offerVars
    <2>2. Shrinks BY <2>1 DEF Shrinks
    <2>3. OutEmpty' BY <2>1 DEF BookInv, OutEmpty, OutFree
    <2> QED BY <2>2, <2>3, BookingShrinks DEF BookInv
  <1> QED BY <1>3, <1>4 DEF Next

LEMMA BookInitial == Init => BookInv /\ Promise!Init
  <1> SUFFICES ASSUME Init PROVE BookInv /\ Promise!Init
    OBVIOUS
  <1> PICK w \in Situation :
        /\ cand = w.cand
        /\ log = [told |-> [c \in Cand |-> w.cand[c].slot], over |-> {}, manual |-> {},
                  asked |-> [c \in Cand |-> IF w.cand[c].st = "SEND" THEN 1 ELSE 0],
                  answered |-> [c \in Cand |-> 0], overlap |-> FALSE,
                  stage |-> w.offer.st, outrun |-> FALSE, disturbed |-> {},
                  attended |-> {}]
    BY DEF Init
  <1>1. /\ cand \in [Cand -> Entry]
        /\ \A c \in Cand : cand[c].st = "out" => cand[c] = Out
        /\ \A c, d \in Cand : cand[c].slot = cand[d].slot => c = d \/ cand[c].slot = None
    BY MatchingAssumption DEF SituationOK
  <1>2. log.told = [c \in Cand |-> cand[c].slot] /\ log.over = {} /\ log.manual = {}
    OBVIOUS
  <1>3. req = [r \in Req |-> NoReq] BY DEF Init
  <1>4. OutEmpty
    BY <1>1, <1>3, NoReqFields DEF OutEmpty, OutFree, Out, Fresh, Nobody
  <1>5. OneHolder BY <1>1 DEF OneHolder
  <1>6. ConfirmedSlotKept BY <1>2 DEF ConfirmedSlotKept
  <1>7. Promised = [c \in Cand |-> cand[c].slot] BY <1>2 DEF Promised
  <1>8. Promise!Init BY <1>1, <1>7 DEF Promise!Init, Promise!Exclusive, Entry
  <1> QED BY <1>4, <1>5, <1>6, <1>8 DEF BookInv

\* Two candidates hold the same slot only when one of the two has an interview
\* entered by hand, or an entry written over from an old copy of the list:
\* nothing else that overlaps gives a slot twice.
THEOREM OneHolderAlways == Spec => []OneHolder
  <1>1. TypeOK /\ BookInv /\ [Next]_vars => BookInv' BY BookInductive
  <1>2. BookInv => OneHolder BY DEF BookInv
  <1>3. Init => BookInv BY BookInitial
  <1> QED BY <1>1, <1>2, <1>3, TypeCorrect, PTL DEF Spec

\* A confirmed slot stays with its candidate until it is taken from him
\* knowingly, or a list written from an old copy loses it.
THEOREM SlotAlwaysKept == Spec => []ConfirmedSlotKept
  <1>1. TypeOK /\ BookInv /\ [Next]_vars => BookInv' BY BookInductive
  <1>2. BookInv => ConfirmedSlotKept BY DEF BookInv
  <1>3. Init => BookInv BY BookInitial
  <1> QED BY <1>1, <1>2, <1>3, TypeCorrect, PTL DEF Spec

\* Booking implements the exclusive promise: every step keeps the promises,
\* withdraws some, or makes one to a candidate who has none of a slot nobody
\* was promised.
THEOREM PromiseImplemented == Spec => PromiseRefined
  <1>1. TypeOK /\ BookInv /\ [Next]_vars => BookInv' BY BookInductive
  <1>2. TypeOK /\ BookInv /\ [Next]_vars => [Promise!Next]_Promised
    BY BookInductive
  <1>3. Init => BookInv /\ Promise!Init BY BookInitial
  <1> QED BY <1>1, <1>2, <1>3, TypeCorrect, PTL DEF Spec, PromiseRefined, Promise!Spec

\* What the abstract promise gives by itself.
LEMMA PromiseStays ==
    /\ Promise!Init => Promise!Exclusive
    /\ Promise!Exclusive /\ [Promise!Next]_Promised => Promise!Exclusive'
    /\ [Promise!Next]_Promised
         => \A c \in Cand : Promised[c] # None
                              => Promised'[c] \in {Promised[c], None}
<1>1. Promise!Init => Promise!Exclusive
  BY DEF Promise!Init
<1>2. Promised = [c \in Cand |-> Promised[c]]
  BY DEF Promised
<1>3. ASSUME NEW c \in Cand, NEW s \in Slot, Promise!Book(c, s)
      PROVE  /\ \A d \in Cand : Promised'[d] = IF d = c THEN s ELSE Promised[d]
             /\ Promised[c] = None /\ \A d \in Cand : Promised[d] # s
  BY <1>2, <1>3 DEF Promise!Book
<1>4. ASSUME NEW C \in SUBSET Cand, Promise!Withdraw(C)
      PROVE  \A d \in Cand :
               Promised'[d] = IF d \in C THEN None ELSE Promised[d]
  BY <1>4 DEF Promise!Withdraw
<1>5. ASSUME Promise!Exclusive, [Promise!Next]_Promised
      PROVE  Promise!Exclusive'
  BY <1>3, <1>4, <1>5 DEF Promise!Next, Promise!Exclusive
<1>6. ASSUME [Promise!Next]_Promised, NEW c \in Cand, Promised[c] # None
      PROVE  Promised'[c] \in {Promised[c], None}
  BY <1>3, <1>4, <1>6 DEF Promise!Next
<1> QED BY <1>1, <1>5, <1>6

\* "Atomique, race-safe", as the candidates see it: two of them never hold the
\* confirmation of the same slot, interviews entered by hand or not (OneHolder
\* leaves these out, and they are not confirmed to anybody).  Only one whose
\* entry a list written from an old copy has lost is not counted.
THEOREM ToldApart == Spec => []Promise!Exclusive
<1>1. Spec => Promise!Spec
  BY PromiseImplemented DEF PromiseRefined
<1>2. Promise!Spec => []Promise!Exclusive
  BY PromiseStays, PTL DEF Promise!Spec
<1> QED BY <1>1, <1>2, PTL

\* Nothing that choosing again, a new session or a list written late does gives
\* a candidate another slot in the place of the one confirmed to him: he keeps
\* it, or loses it first.
NeverSwapped ==
    [][\A c \in Cand : Promised[c] # None
                         => Promised'[c] \in {Promised[c], None}]_Promised
THEOREM NeverToldAnother == Spec => NeverSwapped
<1>1. Spec => Promise!Spec
  BY PromiseImplemented DEF PromiseRefined
<1>2. Promise!Spec => NeverSwapped
  BY PromiseStays, PTL DEF Promise!Spec, NeverSwapped
<1> QED BY <1>1, <1>2, PTL

-----------------------------------------------------------------------------
(* What each action makes of the statuses of the candidates.               *)

LEMMA StaffStatus ==
    ASSUME TypeOK, NEW r \in Req, Staff(r)
    PROVE  \/ \A d \in Cand : cand'[d].st \in
                {cand[d].st, "PRE_SELECTED", "ACCEPTED", "DECLINED", "out"}
           \/ \E c \in Cand : /\ updateMatchedCandidateStatus(r, c, "CONTRACT")
                            /\ \A d \in Cand \ {c} : cand'[d] = cand[d]
                            /\ cand'[c].st = "CONTRACT"
  <1> cand \in [Cand -> Entry] BY DEF TypeOK
  <1>1. CASE UNCHANGED cand
    BY <1>1
  <1>2. ASSUME NEW c \in Cand, NEW st \in {"PRE_SELECTED", "ACCEPTED", "DECLINED", "CONTRACT"},
               updateMatchedCandidateStatus(r, c, st)
        PROVE  /\ cand'[c].st = st /\ \A d \in Cand \ {c} : cand'[d] = cand[d]
    BY <1>2 DEF updateMatchedCandidateStatus, Entry
  <1>3. ASSUME NEW c \in Cand, addCandidate(r, c) \/ removeCandidate(r, c)
        PROVE  \A d \in Cand : cand'[d].st \in {cand[d].st, "PRE_SELECTED", "out"}
    BY <1>3 DEF addCandidate, removeCandidate, Fresh, Out
  <1>4. CASE unmatchAll(r) \/ delete(r)
    BY <1>4 DEF unmatchAll, delete, Nobody, Out, Fresh
  <1> QED BY <1>1, <1>2, <1>3, <1>4
      DEF Staff, createSession, addManual, setInterviewConclusion,
          setImmersionConclusion, offerVars, update

LEMMA StepStatus ==
    ASSUME TypeOK, NEW r \in Req, Continue(r)
    PROVE  \/ \A d \in Cand : cand'[d].st = cand[d].st
           \/ WriteList(r)
           \/ \E c \in Cand : /\ RecordAnswer(r, c) /\ InList(c)
                            /\ cand'[c].st \in AnswerStatus
                            /\ \A d \in Cand \ {c} : cand'[d] = cand[d]
           \/ /\ addProposedCandidate(r)
              /\ \A d \in Cand : cand'[d].st \in {cand[d].st, "INTERVIEW", "IMMERSING"}
           \/ /\ WriteConclusion(r) /\ req[r].c \in Cand
              /\ Exists /\ InList(req[r].c)
              /\ req[r].st \in InterviewEnd \cup ImmersionEnd
              /\ \A d \in Cand \ {req[r].c} : cand'[d] = cand[d]
              /\ cand'[req[r].c].st = ConcludedStatus(req[r].st, cand[req[r].c].st)
  <1> cand \in [Cand -> Entry] /\ req[r] \in ReqRec /\ ReqOK(req[r]) BY DEF TypeOK
  <1> DEFINE c == req[r].c
  <1>1. CASE UNCHANGED cand
    BY <1>1
  <1>2. ASSUME NEW d \in Cand, RecordAnswer(r, d), ~UNCHANGED cand
        PROVE  /\ InList(d) /\ cand'[d].st \in AnswerStatus
               /\ \A e \in Cand \ {d} : cand'[e] = cand[e]
    BY <1>2 DEF RecordAnswer, Entry, ReqOK, Submitting
  <1>3. CASE bookInterviewSlot(r)
    BY <1>3 DEF bookInterviewSlot, Entry
  <1>4. CASE addProposedCandidate(r)
    <2> DEFINE e == Fresh(req[r].st, req[r].s)
    <2>1. e.st \in {"INTERVIEW", "IMMERSING"}
      BY <1>4 DEF addProposedCandidate, ReqOK, Fresh
    <2>2. UNCHANGED cand \/ cand' = [cand EXCEPT ![c] = e]
      BY <1>4 DEF addProposedCandidate
    <2> HIDE DEF e
    <2>3. \A d \in Cand : cand'[d].st \in {cand[d].st, "INTERVIEW", "IMMERSING"}
      BY <2>1, <2>2
    <2> QED BY <1>4, <2>3
  <1>5. CASE WriteConclusion(r) /\ ~UNCHANGED cand
    <2> DEFINE st == ConcludedStatus(req[r].st, cand[c].st)
               met == [cand[c] EXCEPT !.st = st, !.concl = req[r].st]
               tried == [cand[c] EXCEPT !.st = st, !.imm = req[r].st]
    <2>1. /\ c \in Cand /\ req[r].st \in InterviewEnd \cup ImmersionEnd
      BY <1>5 DEF WriteConclusion, ReqOK
    <2>2. /\ Exists /\ InList(c)
          /\ cand' = [cand EXCEPT ![c] = met] \/ cand' = [cand EXCEPT ![c] = tried]
      BY <1>5 DEF WriteConclusion
    <2>3. met.st = st /\ tried.st = st BY <2>1 DEF Entry
    <2> HIDE DEF met, tried, st
    <2>4. cand'[c].st = st /\ \A d \in Cand \ {c} : cand'[d] = cand[d]
      BY <2>1, <2>2, <2>3
    <2> QED BY <1>5, <2>1, <2>2, <2>4 DEF st
  <1> QED BY <1>1, <1>2, <1>3, <1>4, <1>5
      DEF Continue, ReadList, setOfferInterviewSlots, InviteCompany,
          InviteCandidate, CompleteLink, WriteFiche, syncOffersToContract,
          syncDerivedStatus, Fail, offerVars

-----------------------------------------------------------------------------
(* Candidates hired.                                                       *)

Writes(r, c) == req[r].pc = "fiche" /\ req[r].c = c

\* One request at most is about to write the fiche of a candidate nobody
\* disturbed, and if he is hired (and was not concluded to be present after
\* it) it writes so, or it is written.
PlaceInv ==
    \A c \in Cand \ log.disturbed :
        /\ \A q, r \in Req : Writes(q, c) /\ Writes(r, c) => q = r
        /\ cand[c].st = "CONTRACT" /\ c \notin log.attended =>
            /\ \A r \in Req : Writes(r, c) => req[r].st = "CONTRACT"
            /\ fiche[c] = "CONTRACT" \/ \E r \in Req : Writes(r, c)

\* A step that neither starts nor ends such a request, and hires nobody.
LEMMA PlaceKept ==
    ASSUME PlaceInv, NEW r \in Req, req[r].pc # "fiche", req'[r].pc # "fiche",
           \A q \in Req \ {r} : req'[q] = req[q], UNCHANGED fiche,
           log.disturbed \subseteq log'.disturbed,
           log'.attended = log.attended,
           \A c \in Cand \ log'.disturbed :
                cand'[c].st = "CONTRACT" => cand[c].st = "CONTRACT"
    PROVE  PlaceInv'
  <1>1. \A q \in Req, c \in Cand : Writes(q, c)' <=> Writes(q, c)
    BY DEF Writes
  <1>2. \A q \in Req, c \in Cand : Writes(q, c) => req'[q] = req[q]
    BY DEF Writes
  <1> QED BY <1>1, <1>2 DEF PlaceInv

\* A step after which a request is about to write the fiche of c.
LEMMA PlaceStarts ==
    ASSUME PlaceInv, NEW r \in Req, NEW c \in Cand, req[r].pc # "fiche",
           req'[r].pc = "fiche", req'[r].c = c,
           \A q \in Req \ {r} : req'[q] = req[q], UNCHANGED fiche,
           log.disturbed \subseteq log'.disturbed,
           log.attended \ {c} \subseteq log'.attended,
           FicheBusy(r, c) => c \in log'.disturbed,
           \A d \in Cand \ {c} : cand'[d].st = "CONTRACT" => cand[d].st = "CONTRACT",
           c \in log'.disturbed \cup log'.attended
           \/ (cand'[c].st = "CONTRACT" => req'[r].st = "CONTRACT")
    PROVE  PlaceInv'
  <1>1. \A q \in Req, d \in Cand : Writes(q, d)' <=> Writes(q, d) \/ (q = r /\ d = c)
    BY DEF Writes
  <1>2. \A q \in Req, d \in Cand : Writes(q, d) => req'[q] = req[q]
    BY DEF Writes
  <1>3. ASSUME NEW d \in Cand \ log'.disturbed, d # c
        PROVE  /\ \A p, q \in Req : Writes(p, d)' /\ Writes(q, d)' => p = q
               /\ cand'[d].st = "CONTRACT" /\ d \notin log'.attended =>
                   /\ \A q \in Req : Writes(q, d)' => req'[q].st = "CONTRACT"
                   /\ fiche'[d] = "CONTRACT" \/ \E q \in Req : Writes(q, d)'
    BY <1>1, <1>2, <1>3 DEF PlaceInv
  <1>4. ASSUME c \notin log'.disturbed
        PROVE  /\ \A p, q \in Req : Writes(p, c)' /\ Writes(q, c)' => p = q
               /\ cand'[c].st = "CONTRACT" /\ c \notin log'.attended =>
                   /\ \A q \in Req : Writes(q, c)' => req'[q].st = "CONTRACT"
                   /\ fiche'[c] = "CONTRACT" \/ \E q \in Req : Writes(q, c)'
    <2>1. \A q \in Req : ~Writes(q, c) BY <1>4 DEF FicheBusy, Writes
    <2> QED BY <1>1, <1>4, <2>1
  <1> QED BY <1>3, <1>4 DEF PlaceInv

LEMMA PlaceInductive ==
    ASSUME TypeOK, PlaceInv, [Next]_vars
    PROVE  PlaceInv'
  <1> cand \in [Cand -> Entry] BY DEF TypeOK
  <1>1. ASSUME NEW r \in Req, Staff(r) PROVE PlaceInv'
    <2>1. /\ UNCHANGED fiche /\ req[r].pc = "idle"
          /\ \A q \in Req \ {r} : req'[q] = req[q]
      BY <1>1, StaffReq DEF Staff, createSession, updateMatchedCandidateStatus,
         addCandidate, removeCandidate, addManual, setInterviewConclusion,
         setImmersionConclusion, unmatchAll, delete, update, offerVars
    <2>2. log.disturbed \subseteq log'.disturbed
      BY <1>1, StaffLog, LogSame DEF Staff, createSession, addCandidate, addManual,
         setInterviewConclusion, setImmersionConclusion, SameDisturbed, Disturb,
         Hired, CandStatus
    <2>3. ASSUME NEW c \in Cand, updateMatchedCandidateStatus(r, c, "CONTRACT")
          PROVE  PlaceInv'
      <3>1. req'[r].pc = "fiche" /\ req'[r].c = c /\ req'[r].st = "CONTRACT"
        <4> DEFINE sync == SyncWith(cand', offer.st)
                   rec == [sync EXCEPT !.pc = "fiche", !.c = c, !.st = "CONTRACT"]
        <4>1. Receive(r, rec) BY <2>3 DEF updateMatchedCandidateStatus
        <4>2. rec.pc = "fiche" /\ rec.c = c /\ rec.st = "CONTRACT"
          BY DEF SyncWith, NoReq
        <4> HIDE DEF rec
        <4> QED BY <4>1, <4>2, Moves
      <3>2. \A d \in Cand \ {c} : cand'[d] = cand[d]
        BY <2>3 DEF updateMatchedCandidateStatus
      <3>3. Hired(r, c) BY <2>3, StaffLog DEF CandStatus
      <3>4. /\ FicheBusy(r, c) => c \in log'.disturbed
            /\ log.attended \ {c} \subseteq log'.attended
        BY <3>3 DEF Hired, Disturb
      <3> QED BY <2>1, <2>2, <3>1, <3>2, <3>4, PlaceStarts
    <2>4. CASE ~\E c \in Cand : updateMatchedCandidateStatus(r, c, "CONTRACT")
      <3>1. \A d \in Cand : cand'[d].st \in
                {cand[d].st, "PRE_SELECTED", "ACCEPTED", "DECLINED", "out"}
        BY <1>1, <2>4, StaffStatus
      <3>2. req'[r].pc # "fiche" BY <1>1, <2>4, StaffReq DEF Elsewhere
      <3>3. log'.attended = log.attended
        BY <1>1, <2>4, StaffLog, LogSame DEF Staff, createSession, addCandidate,
           addManual, setInterviewConclusion, setImmersionConclusion,
           SameDisturbed, CandStatus
      <3> QED BY <2>1, <2>2, <3>1, <3>2, <3>3, PlaceKept
    <2> QED BY <2>3, <2>4
  <1>2. ASSUME NEW r \in Req, Guest(r) PROVE PlaceInv'
    <2>1. UNCHANGED <<fiche, cand>>
      BY <1>2 DEF Guest, submitAnswers, bookSlot, offerVars
    <2>2. log'.disturbed = log.disturbed /\ log'.attended = log.attended
      BY <1>2, GuestLog, LogSame DEF Guest, bookSlot, SameDisturbed
    <2>3. /\ \A q \in Req \ {r} : req'[q] = req[q]
          /\ req[r].pc = "idle" /\ req'[r].pc # "fiche"
      BY <1>2, GuestReq DEF Guest, Elsewhere
    <2> QED BY <2>1, <2>2, <2>3, PlaceKept
  <1>3. ASSUME NEW r \in Req, Continue(r) PROVE PlaceInv'
    <2> /\ req[r] \in ReqRec /\ ReqOK(req[r]) /\ log \in LogRec BY DEF TypeOK
    <2>0. \A q \in Req \ {r} : req'[q] = req[q] BY <1>3, ContinueReq
    <2>1. log.disturbed \subseteq log'.disturbed
      BY <1>3, WriteListEffect, GuestLog, StepLog, LogSame
      DEF Continue, ReadList, setOfferInterviewSlots, InviteCompany,
          InviteCandidate, CompleteLink, WriteFiche, syncDerivedStatus,
          SameDisturbed, Disturb, Concludes
    <2>2. CASE WriteFiche(r)
      <3>1. /\ req[r].pc = "fiche" /\ fiche' = [fiche EXCEPT ![req[r].c] = req[r].st]
            /\ UNCHANGED <<cand, log>>
        BY <2>2 DEF WriteFiche
      <3>2. \/ GoTo(r, [req[r] EXCEPT !.pc = "spread"])
            \/ GoTo(r, [req[r] EXCEPT !.pc = "sync"]) \/ GoTo(r, NoReq)
        BY <2>2 DEF WriteFiche
      <3>3. /\ [req[r] EXCEPT !.pc = "spread"].pc = "spread"
            /\ [req[r] EXCEPT !.pc = "sync"].pc = "sync"
        BY DEF ReqRec
      <3>4. req'[r].pc # "fiche" BY <3>2, <3>3, NoReqFields, Moves
      <3>5. \A q \in Req, c \in Cand : Writes(q, c)' <=> q # r /\ Writes(q, c)
        BY <2>0, <3>4 DEF Writes
      <3>6. fiche \in [Cand -> FicheStatus] /\ req[r].c \in Cand
        BY <3>1 DEF TypeOK, ReqOK
      <3>7. Writes(r, req[r].c) BY <3>1 DEF Writes
      <3> SUFFICES ASSUME NEW c \in Cand \ log.disturbed
                   PROVE  /\ \A p, q \in Req : Writes(p, c)' /\ Writes(q, c)' => p = q
                          /\ cand[c].st = "CONTRACT" /\ c \notin log.attended =>
                              /\ \A q \in Req : Writes(q, c)' => req'[q].st = "CONTRACT"
                              /\ fiche'[c] = "CONTRACT" \/ \E q \in Req : Writes(q, c)'
        BY <3>1 DEF PlaceInv
      <3>8. CASE c = req[r].c
        BY <3>1, <3>5, <3>6, <3>7, <3>8 DEF PlaceInv
      <3>9. CASE c # req[r].c
        <4>1. ~Writes(r, c) /\ fiche'[c] = fiche[c] BY <3>1, <3>6, <3>9 DEF Writes
        <4> QED BY <2>0, <3>5, <4>1 DEF PlaceInv
      <3> QED BY <3>8, <3>9
    <2>3. CASE Fail(r) /\ req[r].pc = "fiche"
      <3>1. /\ log'.disturbed = log.disturbed \cup {req[r].c}
            /\ log'.attended = log.attended
            /\ UNCHANGED <<cand, fiche>> /\ req'[r].pc = "idle"
        BY <2>3, StepLog, NoReqFields, Moves DEF Fail, offerVars
      <3>2. \A q \in Req, c \in Cand \ {req[r].c} : Writes(q, c)' <=> Writes(q, c)
        BY <2>0, <3>1 DEF Writes
      <3>3. \A q \in Req, c \in Cand \ {req[r].c} : Writes(q, c) => req'[q] = req[q]
        BY <2>0 DEF Writes
      <3> QED BY <3>1, <3>2, <3>3 DEF PlaceInv
    <2>4. CASE ~WriteFiche(r) /\ ~(Fail(r) /\ req[r].pc = "fiche")
      <3>1. req[r].pc # "fiche" /\ UNCHANGED fiche
        BY <1>3, <2>4 DEF Continue, ReadList, WriteList, setOfferInterviewSlots,
           RecordAnswer, InviteCompany, InviteCandidate, CompleteLink,
           bookInterviewSlot, addProposedCandidate, WriteConclusion,
           syncOffersToContract, syncDerivedStatus, Fail, offerVars
      <3>2. CASE WriteConclusion(r) /\ Exists /\ InList(req[r].c)
        <4>1. req[r].c \in Cand /\ req[r].st \in InterviewEnd \cup ImmersionEnd
          BY <3>2 DEF WriteConclusion, ReqOK
        <4>2. /\ req'[r].pc = "fiche" /\ req'[r].c = req[r].c
              /\ req'[r].st = ConcludedFiche(req[r].st)
          <5> DEFINE rec == [req[r] EXCEPT !.pc = "fiche", !.st = ConcludedFiche(req[r].st)]
          <5>1. GoTo(r, rec) BY <3>2 DEF WriteConclusion
          <5>2. rec.pc = "fiche" /\ rec.c = req[r].c /\ rec.st = ConcludedFiche(req[r].st)
            BY DEF ReqRec
          <5> HIDE DEF rec
          <5> QED BY <5>1, <5>2, Moves
        <4>3. Concludes(r) BY <3>2, StepLog
        <4>4. /\ \A d \in Cand \ {req[r].c} : cand'[d] = cand[d]
              /\ cand'[req[r].c].st = ConcludedStatus(req[r].st, cand[req[r].c].st)
          <5> DEFINE c == req[r].c
                     st == ConcludedStatus(req[r].st, cand[c].st)
                     met == [cand[c] EXCEPT !.st = st, !.concl = req[r].st]
                     tried == [cand[c] EXCEPT !.st = st, !.imm = req[r].st]
          <5>1. cand' = [cand EXCEPT ![c] = met] \/ cand' = [cand EXCEPT ![c] = tried]
            BY <3>2 DEF WriteConclusion
          <5>2. met.st = st /\ tried.st = st BY <4>1 DEF Entry
          <5> HIDE DEF met, tried, st
          <5>3. cand'[c].st = st /\ \A d \in Cand \ {c} : cand'[d] = cand[d]
            BY <4>1, <5>1, <5>2
          <5> QED BY <5>3 DEF st
        <4>5. /\ FicheBusy(r, req[r].c) => req[r].c \in log'.disturbed
              /\ log.attended \ {req[r].c} \subseteq log'.attended
          BY <4>3 DEF Concludes, Disturb
        <4>6. CASE req[r].st = "PRESENT"
          <5>1. \A d \in Cand : cand'[d].st = cand[d].st
            BY <4>4, <4>6 DEF ConcludedStatus
          <5>2. cand'[req[r].c].st = "CONTRACT" => req[r].c \in log'.attended
            BY <4>1, <4>3, <4>6, <5>1 DEF Concludes
          <5> QED BY <2>0, <2>1, <3>1, <4>1, <4>2, <4>5, <5>1, <5>2, PlaceStarts
        <4>7. CASE req[r].st # "PRESENT" 
          <5>1. cand'[req[r].c].st = "CONTRACT" => req'[r].st = "CONTRACT"
            BY <4>1, <4>2, <4>4, <4>7
            DEF ConcludedStatus, ConcludedFiche, InterviewEnd, ImmersionEnd
          <5> QED BY <2>0, <2>1, <3>1, <4>1, <4>2, <4>4, <4>5, <4>7, <5>1, PlaceStarts
        <4> QED BY <4>6, <4>7
      <3>3. CASE addProposedCandidate(r) /\ req'[r].pc = "fiche"
        <4>1. req[r].c \in Cand BY <3>3 DEF addProposedCandidate, ReqOK
        <4>2. /\ cand' = [cand EXCEPT ![req[r].c] = Fresh("IMMERSING", req[r].s)]
              /\ req[r].st = "IMMERSING" /\ req'[r].c = req[r].c
          BY <1>3, <3>3, ContinueReq DEF Elsewhere, addProposedCandidate,
             setOfferInterviewSlots, InviteCandidate, RecordAnswer, WriteConclusion
        <4>3. /\ Fresh("IMMERSING", req[r].s).st = "IMMERSING"
              /\ \A d \in Cand \ {req[r].c} : cand'[d] = cand[d]
          BY <4>2 DEF Fresh
        <4>4. cand'[req[r].c].st = "IMMERSING" BY <4>1, <4>2, <4>3
        <4>5. FicheBusy(r, req[r].c) => req[r].c \in log'.disturbed
          <5>1. log'.disturbed = Disturb(r, req[r].c)
            <6> DEFINE q == req[r]
                       disturbed == IF q.st = "IMMERSING" THEN Disturb(r, q.c)
                                    ELSE log.disturbed
                       manual == IF q.s # None THEN log.manual \cup {q.c} ELSE log.manual
                       told == [log.told EXCEPT ![q.c] = None]
            <6>1. GoTo(r, [q EXCEPT !.pc = "push"]) \/ GoTo(r, NoReq)
                  \/ log' = [log EXCEPT !.told = told, !.manual = manual,
                                        !.disturbed = disturbed]
              BY <3>3 DEF addProposedCandidate
            <6>2. [q EXCEPT !.pc = "push"].pc = "push" BY DEF ReqRec
            <6>3. log' = [log EXCEPT !.told = told, !.manual = manual,
                                        !.disturbed = disturbed]
              BY <3>3, <6>1, <6>2, NoReqFields, Moves
            <6> HIDE DEF told, manual, disturbed
            <6>4. log'.disturbed = disturbed BY <6>3 DEF LogRec
            <6> QED BY <4>2, <6>4 DEF disturbed
          <5> QED BY <5>1 DEF Disturb
        <4>6. log'.attended = log.attended
          <5>1. log' = log => log'.attended = log.attended OBVIOUS
          <5> QED BY <3>3, <5>1, StepLog
        <4> QED BY <2>0, <2>1, <3>1, <3>3, <4>1, <4>2, <4>3, <4>4, <4>5, <4>6,
                PlaceStarts
      <3>4. CASE /\ ~(WriteConclusion(r) /\ Exists /\ InList(req[r].c))
                 /\ ~(addProposedCandidate(r) /\ req'[r].pc = "fiche")
        <4>1. req'[r].pc # "fiche"
          BY <1>3, <3>4, ContinueReq DEF Elsewhere
        <4>2. \A c \in Cand \ log'.disturbed :
                cand'[c].st = "CONTRACT" => cand[c].st = "CONTRACT"
          <5>1. CASE WriteList(r)
            <6> DEFINE q == req[r]
            <6>1. CASE UNCHANGED cand
              BY <6>1
            <6>2. CASE cand' = Merge(q) /\ log'.disturbed = log.disturbed \cup Lost(q)
              <7> SUFFICES ASSUME NEW c \in Cand \ log'.disturbed, cand'[c].st = "CONTRACT"
                           PROVE  cand[c].st = "CONTRACT"
                OBVIOUS
              <7>1. cand[c] = q.copy[c] BY <6>2 DEF Lost
              <7>2. Fresh("ACCEPTED", None).st = "ACCEPTED" BY DEF Fresh
              <7>3. /\ c \in Shown(q) => Merge(q)[c].st = "SEND"
                    /\ c \notin Shown(q) =>
                        \/ Merge(q)[c] = Fresh("ACCEPTED", None)
                        \/ Merge(q)[c] = q.copy[c]
                BY DEF Merge, Overlay, resetProposal
              <7> QED BY <6>2, <7>1, <7>2, <7>3
            <6> QED BY <5>1, <6>1, <6>2, WriteListEffect
          <5>2. CASE ~WriteList(r)
            <6>1. ASSUME WriteConclusion(r)
                  PROVE  UNCHANGED cand
              BY <3>4, <6>1 DEF WriteConclusion
            <6> QED BY <1>3, <5>2, <6>1, StepStatus DEF AnswerStatus
          <5> QED BY <5>1, <5>2
        <4>3. log'.attended = log.attended
          BY <1>3, <3>4, WriteListEffect, GuestLog, StepLog, LogSame
          DEF Continue, ReadList, setOfferInterviewSlots, InviteCompany,
              InviteCandidate, CompleteLink, WriteFiche, syncDerivedStatus,
              SameDisturbed
        <4> QED BY <2>0, <2>1, <3>1, <4>1, <4>2, <4>3, PlaceKept
      <3> QED BY <3>2, <3>3, <3>4
    <2> QED BY <2>2, <2>3, <2>4
  <1>4. CASE Access \/ UNCHANGED vars
    BY <1>4 DEF Access, vars, offerVars, PlaceInv, Writes
  <1> QED BY <1>1, <1>2, <1>3, <1>4 DEF Next

LEMMA PlaceInitial == Init => PlaceInv
  <1> SUFFICES ASSUME Init PROVE PlaceInv
    OBVIOUS
  <1> PICK w \in Situation : cand = w.cand /\ fiche = w.fiche BY DEF Init
  <1>1. \A c \in Cand : cand[c].st = "CONTRACT" => fiche[c] = "CONTRACT"
    BY MatchingAssumption DEF SituationOK
  <1>2. req = [r \in Req |-> NoReq] BY DEF Init
  <1> QED BY <1>1, <1>2, NoReqFields DEF PlaceInv, Writes

\* A candidate hired on the offer is, or is about to be, under contract on his
\* fiche, unless two requests wrote it together, one of them failed, the list
\* was written from an old copy, or he was concluded to be present at the
\* interview after he was hired.
THEOREM PlacementAlwaysShown == Spec => []PlacementShown
  <1>1. TypeOK /\ PlaceInv /\ [Next]_vars => PlaceInv' BY PlaceInductive
  <1>2. PlaceInv => PlacementShown BY DEF PlaceInv, PlacementShown, Writes
  <1> QED BY <1>1, <1>2, PlaceInitial, TypeCorrect, PTL DEF Spec

-----------------------------------------------------------------------------
(* Answers of the company.                                                 *)

Pending(c) == \E r \in Req : Submitting(req[r]) /\ req[r].todo[c] # "out"

\* As long as submissions never ran together: there is one at most, and the
\* company may still answer about who is to be answered or is shown.
AnswersInv ==
    \/ log.overlap
    \/ /\ \A q, r \in Req : Submitting(req[q]) /\ Submitting(req[r]) => q = r
       /\ \A c \in Cand :
            /\ log.answered[c] <= log.asked[c]
            /\ Pending(c) \/ cand[c].st = "SEND" => log.answered[c] < log.asked[c]

\* A step that neither submits nor answers, and shows nobody without saying.
LEMMA AnswersKept ==
    ASSUME TypeOK, AnswersInv, log.overlap => log'.overlap,
           \A r \in Req : Submitting(req'[r]) =>
                /\ Submitting(req[r])
                /\ \A c \in Cand : req'[r].todo[c] # "out" => req[r].todo[c] # "out",
           log'.answered = log.answered,
           \A c \in Cand : /\ log'.asked[c] \in Nat /\ log.asked[c] <= log'.asked[c]
                           /\ cand'[c].st = "SEND" =>
                                cand[c].st = "SEND" \/ log.asked[c] < log'.asked[c]
    PROVE  AnswersInv'
  <1>1. \A c \in Cand : Pending(c)' => Pending(c) BY DEF Pending, Submitting
  <1>2. \A c \in Cand : log.answered[c] \in Nat /\ log.asked[c] \in Nat
    BY LogFields DEF TypeOK
  <1>3. \A r \in Req : Submitting(req[r])' => Submitting(req[r]) BY DEF Submitting
  <1> QED BY <1>1, <1>2, <1>3 DEF AnswersInv

LEMMA AnswersInductive ==
    ASSUME TypeOK, AnswersInv, [Next]_vars
    PROVE  AnswersInv'
  <1> cand \in [Cand -> Entry] /\ log \in LogRec BY DEF TypeOK
  <1> log.asked \in [Cand -> Nat] /\ log.answered \in [Cand -> Nat] BY LogFields
  <1>0. ASSUME NEW r \in Req, \A q \in Req \ {r} : req'[q] = req[q],
               \/ ~Submitting(req'[r])
               \/ Submitting(req[r]) /\ req'[r].todo = req[r].todo,
               SameAnswers,
               \A c \in Cand : cand'[c].st = "SEND" => cand[c].st = "SEND"
        PROVE  AnswersInv'
    BY <1>0, AnswersKept DEF SameAnswers
  <1>1. ASSUME NEW r \in Req, Staff(r) PROVE AnswersInv'
    <2>1. /\ \A q \in Req \ {r} : req'[q] = req[q]
          /\ ~Submitting(req'[r])
      BY <1>1, StaffReq DEF Elsewhere, Submitting
    <2>2. SameAnswers
      BY <1>1, StaffLog, LogSame DEF Staff, createSession, addCandidate, addManual,
         setInterviewConclusion, setImmersionConclusion, CandStatus
    <2>3. \A c \in Cand : cand'[c].st = "SEND" => cand[c].st = "SEND"
      <3>1. CASE ~\E c \in Cand : updateMatchedCandidateStatus(r, c, "CONTRACT")
        <4>1. \A d \in Cand : cand'[d].st \in
                {cand[d].st, "PRE_SELECTED", "ACCEPTED", "DECLINED", "out"}
          BY <1>1, <3>1, StaffStatus
        <4> QED BY <4>1
      <3>2. ASSUME NEW c \in Cand, updateMatchedCandidateStatus(r, c, "CONTRACT")
            PROVE  \A d \in Cand : cand'[d].st = "SEND" => cand[d].st = "SEND"
        <4>1. cand' = [cand EXCEPT ![c].st = "CONTRACT"]
          BY <3>2 DEF updateMatchedCandidateStatus
        <4> QED BY <4>1 DEF Entry
      <3> QED BY <3>1, <3>2
    <2> QED BY <1>0, <2>1, <2>2, <2>3
  <1>2. ASSUME NEW r \in Req, NEW l \in Link, NEW S \in SUBSET Slot,
               NEW todo \in [Cand -> AnswerStatus \cup {"out"}],
               submitAnswers(r, l, todo, S)
        PROVE  AnswersInv'
    <2>1. /\ \A q \in Req \ {r} : req'[q] = req[q]
          /\ req'[r].todo = todo
      BY <1>2, GuestReq
    <2>2. /\ log'.asked = log.asked /\ log'.answered = log.answered
          /\ log'.overlap = (log.overlap \/ \E q \in Req : Submitting(req[q]))
      BY <1>2, GuestLog
    <2>3. UNCHANGED cand BY <1>2 DEF submitAnswers, offerVars
    <2>4. \A c \in Cand : todo[c] # "out" => cand[c].st = "SEND"
      BY <1>2 DEF submitAnswers, CanAnswer
    <2>5. CASE log.overlap \/ \E q \in Req : Submitting(req[q])
      BY <2>2, <2>5 DEF AnswersInv
    <2>6. CASE ~log.overlap /\ \A q \in Req : ~Submitting(req[q])
      <3>1. \A q \in Req : Submitting(req[q])' => q = r
        BY <2>1, <2>6 DEF Submitting
      <3>2. \A c \in Cand : Pending(c)' => todo[c] # "out"
        BY <2>1, <3>1 DEF Pending
      <3> QED BY <2>2, <2>3, <2>4, <2>6, <3>1, <3>2 DEF AnswersInv
    <2> QED BY <2>5, <2>6
  <1>3. ASSUME NEW r \in Req, NEW l \in Link, NEW s \in Slot, bookSlot(r, l, s)
        PROVE  AnswersInv'
    <2>1. /\ \A q \in Req \ {r} : req'[q] = req[q]
          /\ ~Submitting(req'[r])
      BY <1>3, GuestReq DEF Elsewhere, Submitting
    <2>2. UNCHANGED cand /\ SameAnswers
      BY <1>3, LogSame DEF bookSlot, offerVars
    <2> QED BY <1>0, <2>1, <2>2
  <1>4. ASSUME NEW r \in Req, NEW c \in Cand, RecordAnswer(r, c)
        PROVE  AnswersInv'
    <2>1. /\ req[r].pc = "answers" /\ req[r].todo[c] # "out"
          /\ req[r].todo \in [Cand -> AnswerStatus \cup {"out"}]
      BY <1>4 DEF RecordAnswer, TypeOK, ReqOK, Submitting
    <2>2. /\ \A q \in Req \ {r} : req'[q] = req[q]
          /\ req'[r].todo = [req[r].todo EXCEPT ![c] = "out"]
      <3> DEFINE pc == IF req[r].todo[c] # "REFUSED" /\ req[r].slots # {}
                       THEN "interview" ELSE "answers"
                 todo == [req[r].todo EXCEPT ![c] = "out"]
                 rec == [req[r] EXCEPT !.todo = todo, !.c = c, !.pc = pc]
      <3>1. GoTo(r, rec) BY <1>4 DEF RecordAnswer
      <3> HIDE DEF pc, todo
      <3>2. rec.todo = todo BY DEF TypeOK, ReqRec
      <3> HIDE DEF rec
      <3> QED BY <3>1, <3>2, Moves DEF todo
    <2>3. /\ log'.asked = log.asked /\ log'.overlap = log.overlap
          /\ log'.answered = IF InList(c) THEN [log.answered EXCEPT ![c] = @ + 1]
                             ELSE log.answered
      BY <1>4, GuestLog
    <2>4. IF InList(c) THEN cand' = [cand EXCEPT ![c].st = req[r].todo[c]]
          ELSE UNCHANGED cand
      BY <1>4 DEF RecordAnswer
    <2>5. CASE log.overlap
      BY <2>3, <2>5 DEF AnswersInv
    <2>6. CASE ~log.overlap
      <3>1. \A q \in Req \ {r} : ~Submitting(req[q]) /\ ~Submitting(req'[q])
        BY <2>1, <2>2, <2>6 DEF AnswersInv, Submitting
      <3>2. Pending(c) BY <2>1 DEF Pending, Submitting
      <3>3. log.answered[c] < log.asked[c] BY <2>6, <3>2 DEF AnswersInv
      <3>4. ~Pending(c)'
        BY <2>1, <2>2, <3>1 DEF Pending, Submitting
      <3>5. \A d \in Cand \ {c} : Pending(d)' => Pending(d)
        BY <2>1, <2>2, <3>1 DEF Pending, Submitting
      <3>6. \A d \in Cand \ {c} : cand'[d] = cand[d] BY <2>4
      <3>7. cand'[c].st # "SEND"
        BY <2>1, <2>4 DEF InList, Entry, AnswerStatus
      <3>8. \A q, p \in Req : Submitting(req[q])' /\ Submitting(req[p])' => q = p
        BY <3>1 DEF Submitting
      <3>9. /\ log'.answered[c] <= log.asked[c]
            /\ \A d \in Cand \ {c} : log'.answered[d] = log.answered[d]
        BY <2>3, <3>3
      <3>10. \A d \in Cand :
                /\ log'.answered[d] <= log'.asked[d]
                /\ Pending(d)' \/ cand'[d].st = "SEND" => log'.answered[d] < log'.asked[d]
        BY <2>3, <2>6, <3>4, <3>5, <3>6, <3>7, <3>9 DEF AnswersInv
      <3> QED BY <3>8, <3>10 DEF AnswersInv
    <2> QED BY <2>5, <2>6
  <1>5. ASSUME NEW r \in Req, WriteList(r) PROVE AnswersInv'
    <2>1. /\ \A q \in Req \ {r} : req'[q] = req[q]
          /\ ~Submitting(req'[r])
      <3> DEFINE rec == [NoReq EXCEPT !.pc = "invite"]
      <3>1. GoTo(r, rec) BY <1>5 DEF WriteList
      <3>2. rec.pc = "invite" BY DEF NoReq
      <3> HIDE DEF rec
      <3> QED BY <3>1, <3>2, Moves DEF Submitting
    <2>2. CASE UNCHANGED <<offer, cand, log>>
      BY <1>0, <2>1, <2>2, LogSame
    <2>3. CASE /\ cand' = Merge(req[r])
               /\ log'.asked = [c \in Cand |-> IF c \in Shown(req[r])
                                              THEN log.asked[c] + 1 ELSE log.asked[c]]
               /\ log'.answered = log.answered /\ log'.overlap = log.overlap
      <3>1. Fresh("ACCEPTED", None).st = "ACCEPTED" BY DEF Fresh
      <3>2. \A c \in Cand : cand'[c].st = "SEND" => c \in Shown(req[r])
        BY <2>3, <3>1 DEF Merge, resetProposal
      <3> QED BY <2>1, <2>3, <3>2, AnswersKept
    <2> QED BY <1>5, <2>2, <2>3, WriteListEffect
  <1>6. ASSUME NEW r \in Req, Continue(r), ~WriteList(r),
               \A c \in Cand : ~RecordAnswer(r, c)
        PROVE  AnswersInv'
    <2>1. /\ \A q \in Req \ {r} : req'[q] = req[q]
          /\ \/ ~Submitting(req'[r])
             \/ Submitting(req[r]) /\ req'[r].todo = req[r].todo
      BY <1>6, ContinueReq DEF Elsewhere, Submitting, setOfferInterviewSlots,
         InviteCandidate
    <2>2. SameAnswers
      BY <1>6, GuestLog, StepLog, LogSame DEF Continue, ReadList,
         setOfferInterviewSlots, InviteCompany, InviteCandidate, CompleteLink,
         WriteFiche, syncDerivedStatus
    <2>3. \A c \in Cand : cand'[c].st = "SEND" => cand[c].st = "SEND"
      BY <1>6, StepStatus DEF ConcludedStatus, InterviewEnd, ImmersionEnd
    <2> QED BY <1>0, <2>1, <2>2, <2>3
  <1>7. CASE Access \/ UNCHANGED vars
    BY <1>7 DEF Access, vars, offerVars, AnswersInv, Pending, Submitting
  <1> QED BY <1>1, <1>2, <1>3, <1>4, <1>5, <1>6, <1>7 DEF Next, Guest

LEMMA AnswersInitial == Init => AnswersInv
  <1> SUFFICES ASSUME Init PROVE AnswersInv
    OBVIOUS
  <1> PICK w \in Situation :
        /\ cand = w.cand
        /\ log = [told |-> [c \in Cand |-> w.cand[c].slot], over |-> {}, manual |-> {},
                  asked |-> [c \in Cand |-> IF w.cand[c].st = "SEND" THEN 1 ELSE 0],
                  answered |-> [c \in Cand |-> 0], overlap |-> FALSE,
                  stage |-> w.offer.st, outrun |-> FALSE, disturbed |-> {},
                  attended |-> {}]
    BY DEF Init
  <1>1. req = [r \in Req |-> NoReq] BY DEF Init
  <1>2. \A r \in Req : ~Submitting(req[r]) BY <1>1, NoReqFields DEF Submitting
  <1>3. /\ log.answered = [c \in Cand |-> 0]
        /\ log.asked = [c \in Cand |-> IF cand[c].st = "SEND" THEN 1 ELSE 0]
    OBVIOUS
  <1> QED BY <1>2, <1>3 DEF AnswersInv, Pending

\* As long as no two submissions ran at the same time, the company has answered
\* about a candidate at most as many times as he was shown to it.
THEOREM AnsweredOnceEach == Spec => []AnsweredOnce
  <1>1. TypeOK /\ AnswersInv /\ [Next]_vars => AnswersInv' BY AnswersInductive
  <1>2. TypeOK /\ AnswersInv => AnsweredOnce BY DEF AnswersInv, AnsweredOnce
  <1> QED BY <1>1, <1>2, AnswersInitial, TypeCorrect, PTL DEF Spec
=============================================================================
