----------------------- MODULE Questionnaire_proofs -----------------------
(***************************************************************************)
(* Theorems about Questionnaire for any number of attempts, devices,       *)
(* requests, staff members, revisions and failures.                        *)
(***************************************************************************)
EXTENDS Questionnaire, TLAPS

AnyStatus == {"none", "invited", "in_progress", "completed", "expired",
              "cancelled", "purged"}

\* The steps a request goes on to after it is read.
NextSteps == Steps \ {"quiz"}

-----------------------------------------------------------------------------
(* Type correctness.                                                       *)

\* A finished request holds a well-typed nothing.
LEMMA NoReqType == NoReq \in ReqRec /\ NoReq.pc = "idle"
BY QuizAssumption DEF NoReq, ReqRec, Steps, Kind

\* Goto keeps the type and the attempt, and drops what the step does not need.
LEMMA GotoType ==
    ASSUME NEW q \in ReqRec, NEW step \in Steps
    PROVE  /\ Goto(q, step) \in ReqRec
           /\ Goto(q, step).pc = step
           /\ step # "idle" => Goto(q, step).a = q.a
           /\ step \in {"expire", "start", "answer"} =>
                 Goto(q, step).dev = q.dev
           /\ step = "expire" => Goto(q, step).kind = q.kind
           /\ step = "answer" => Goto(q, step).idx = q.idx
<1>1. CASE step = "idle"
  BY <1>1, NoReqType DEF Goto
<1>2. CASE step # "idle"
  <2>1. NoReq \in ReqRec
    BY NoReqType
  <2>2. 1 \in 1..MaxRev
    BY QuizAssumption
  <2>3. Goto(q, step) \in ReqRec
    BY <1>2, <2>1, <2>2, ZenonT(40) DEF Goto, ReqRec, Kind
  <2>. QED BY <1>2, <2>1, <2>2, <2>3 DEF Goto, ReqRec
<1>. QED BY <1>1, <1>2

\* What the handler decides is one of its three outcomes.
LEMMA AdmittedSteps ==
    ASSUME NEW kind, NEW st, NEW own, NEW dev
    PROVE  /\ Admitted(kind, st, own, dev) \in {"start", "answer", "idle"}
           /\ Admitted(kind, st, own, dev) = "start" => kind = "start"
           /\ Admitted(kind, st, own, dev) = "answer" =>
                 kind = "answer" /\ st = "in_progress" /\ own = dev
BY DEF Admitted

\* The writes of an attempt keep it well typed.
LEMMA DocUpdates ==
    ASSUME NEW d \in AttemptDoc
    PROVE  /\ \A s \in AnyStatus : [d EXCEPT !.status = s] \in AttemptDoc
           /\ \A s \in AnyStatus, b \in BOOLEAN :
                 [d EXCEPT !.status = s, !.purge = b] \in AttemptDoc
           /\ \A s \in AnyStatus, x \in Device \cup {NoDevice} :
                 [d EXCEPT !.status = s, !.device = x, !.purge = FALSE]
                    \in AttemptDoc
           /\ \A i, n \in Nat :
                 [d EXCEPT !.index = i, !.points = n] \in AttemptDoc
           /\ \A s \in AnyStatus, n \in Nat :
                 [d EXCEPT !.status = s, !.score = n] \in AttemptDoc
<1>1. \A s \in AnyStatus : [d EXCEPT !.status = s] \in AttemptDoc
  BY DEF AttemptDoc, AnyStatus
<1>2. \A s \in AnyStatus, b \in BOOLEAN :
         [d EXCEPT !.status = s, !.purge = b] \in AttemptDoc
  BY DEF AttemptDoc, AnyStatus
<1>3. \A s \in AnyStatus, x \in Device \cup {NoDevice} :
         [d EXCEPT !.status = s, !.device = x, !.purge = FALSE] \in AttemptDoc
  BY DEF AttemptDoc, AnyStatus
<1>4. \A i, n \in Nat : [d EXCEPT !.index = i, !.points = n] \in AttemptDoc
  BY DEF AttemptDoc
<1>5. \A s \in AnyStatus, n \in Nat :
         [d EXCEPT !.status = s, !.score = n] \in AttemptDoc
  BY DEF AttemptDoc, AnyStatus
<1>. QED BY <1>1, <1>2, <1>3, <1>4, <1>5

\* TypeOK holds in the initial state.
LEMMA InitType == Init => TypeOK
BY NoReqType, QuizAssumption DEF Init, TypeOK, NoAttempt, AttemptDoc

\* Each command of a request keeps the types.
LEMMA ReqStepType ==
    ASSUME TypeOK, NEW r \in Req, ReqStep(r)
    PROVE  TypeOK'
<1>. DEFINE q == req[r]
<1>. q \in ReqRec /\ q.a \in Attempt /\ att[q.a] \in AttemptDoc
     /\ q.rev \in 1..MaxRev
  BY DEF TypeOK, ReqRec
<1>0. ASSUME Idle(r) PROVE req' \in [Req -> ReqRec]
  BY <1>0, NoReqType DEF Idle, TypeOK
<1>1. CASE ReadQuiz(r)
  <2>. DEFINE step == IF ~quiz.exists THEN "idle"
                      ELSE IF q.st = "invited" /\ stale[q.a] THEN "expire"
                      ELSE IF q.st = "in_progress" /\ overdue[q.a] THEN "fresh"
                      ELSE Admitted(q.kind, q.st, q.own, q.dev)
              q2 == [q EXCEPT !.rev = quiz.rev]
  <2>1. step \in Steps
    BY AdmittedSteps DEF Steps
  <2>2. q2 \in ReqRec
    BY DEF TypeOK, ReqRec
  <2>3. req' = [req EXCEPT ![r] = Goto(q2, step)]
    BY <1>1 DEF ReadQuiz
  <2>4. Goto(q2, step) \in ReqRec
    BY <2>1, <2>2, GotoType
  <2>. QED BY <1>1, <2>3, <2>4 DEF ReadQuiz, TypeOK, history
<1>2. CASE Expire(r)
  <2>1. CASE att[q.a].status = "invited"
    <3>. DEFINE d == [att[q.a] EXCEPT !.status = "expired"]
    <3>1. d \in AttemptDoc
      BY DocUpdates DEF AnyStatus
    <3>2. att' = [att EXCEPT ![q.a] = d] /\ req' \in [Req -> ReqRec]
      BY <1>2, <2>1, <1>0 DEF Expire
    <3>3. att' \in [Attempt -> AttemptDoc]
      BY <3>1, <3>2 DEF TypeOK
    <3>. QED BY <1>2, <3>2, <3>3 DEF Expire, TypeOK, history
  <2>2. CASE att[q.a].status # "invited"
    <3>. DEFINE now == att[q.a]
                step == Admitted(q.kind, now.status, now.device, q.dev)
                q2 == [q EXCEPT !.st = now.status, !.idx = now.index,
                                !.own = now.device]
    <3>1. step \in Steps
      BY AdmittedSteps DEF Steps
    <3>2. q2 \in ReqRec
      BY DEF ReqRec, AttemptDoc
    <3>3. req' = [req EXCEPT ![r] = Goto(q2, step)]
      BY <1>2, <2>2 DEF Expire
    <3>4. Goto(q2, step) \in ReqRec
      BY <3>1, <3>2, GotoType
    <3>. QED BY <1>2, <2>2, <3>3, <3>4 DEF Expire, TypeOK, history
  <2>. QED BY <2>1, <2>2
<1>3. CASE Start(r)
  <2>1. Goto(q, "lock") \in ReqRec
    BY GotoType DEF Steps
  <2>2. req' \in [Req -> ReqRec]
    BY <1>3, <2>1, <1>0 DEF Start, TypeOK
  <2>3. att' \in [Attempt -> AttemptDoc]
    <3>. DEFINE d == [att[q.a] EXCEPT !.status = "in_progress",
                                      !.device = q.dev, !.purge = FALSE]
    <3>1. d \in AttemptDoc
      BY DocUpdates DEF AnyStatus, ReqRec
    <3>2. att' = [att EXCEPT ![q.a] = d] \/ att' = att
      BY <1>3 DEF Start
    <3>. QED BY <3>1, <3>2 DEF TypeOK
  <2>. QED BY <1>3, <2>2, <2>3 DEF Start, TypeOK, history
<1>4. CASE Lock(r)
  BY <1>4, <1>0 DEF Lock, TypeOK, history
<1>5. CASE Answer(r)
  <2>. DEFINE step == IF q.idx + 1 < QCount[q.rev] THEN "idle" ELSE "fresh"
  <2>1. Goto(q, step) \in ReqRec
    BY GotoType DEF Steps
  <2>2. req' \in [Req -> ReqRec]
    BY <1>5, <2>1, <1>0 DEF Answer, TypeOK
  <2>3. att' \in [Attempt -> AttemptDoc]
    <3>1. CASE UNCHANGED att
      BY <3>1 DEF TypeOK
    <3>2. CASE att' # att
      <4>1. PICK n \in {0, 1} :
               att' = [att EXCEPT ![q.a] =
                 [att[q.a] EXCEPT !.index = @ + 1, !.points = @ + n]]
        BY <1>5, <3>2 DEF Answer
      <4>2. att[q.a].index + 1 \in Nat /\ att[q.a].points + n \in Nat
        BY DEF AttemptDoc
      <4>3. [att[q.a] EXCEPT !.index = @ + 1, !.points = @ + n] \in AttemptDoc
        BY <4>2, DocUpdates
      <4>. QED BY <4>1, <4>3 DEF TypeOK
    <3>. QED BY <3>1, <3>2
  <2>4. /\ given' \in [Attempt -> SUBSET Nat]
        /\ revs' \in [Attempt -> SUBSET (1..MaxRev)]
    BY <1>5 DEF Answer, TypeOK, ReqRec
  <2>. QED BY <1>5, <2>2, <2>3, <2>4 DEF Answer, TypeOK
<1>6. CASE ReadFresh(r)
  <2>1. [q EXCEPT !.pts = att[q.a].points] \in ReqRec
    BY DEF ReqRec, AttemptDoc
  <2>2. Goto([q EXCEPT !.pts = att[q.a].points], "close") \in ReqRec
    BY <2>1, GotoType DEF Steps
  <2>. QED BY <1>6, <2>2 DEF ReadFresh, TypeOK, history
<1>7. CASE Close(r)
  <2>1. [q EXCEPT !.pts = 0] \in ReqRec
    BY DEF ReqRec
  <2>2. Goto([q EXCEPT !.pts = 0], "save") \in ReqRec
    BY <2>1, GotoType DEF Steps
  <2>3. req' \in [Req -> ReqRec]
    BY <1>7, <2>2, <1>0 DEF Close, TypeOK
  <2>4. att' \in [Attempt -> AttemptDoc]
    <3>. DEFINE d == [att[q.a] EXCEPT !.status = "completed", !.score = q.pts]
    <3>1. d \in AttemptDoc
      BY DocUpdates DEF AnyStatus, ReqRec
    <3>2. att' = [att EXCEPT ![q.a] = d] \/ att' = att
      BY <1>7 DEF Close
    <3>. QED BY <3>1, <3>2 DEF TypeOK
  <2>5. revs' \in [Attempt -> SUBSET (1..MaxRev)]
    BY <1>7 DEF Close, TypeOK
  <2>. QED BY <1>7, <2>3, <2>4, <2>5 DEF Close, TypeOK
<1>8. CASE Save(r)
  BY <1>8, <1>0 DEF Save, TypeOK
<1>. QED BY <1>1, <1>2, <1>3, <1>4, <1>5, <1>6, <1>7, <1>8 DEF ReqStep

LEMMA OpenType ==
    ASSUME TypeOK, NEW r \in Req, NEW a \in Attempt, NEW kind \in Kind,
           NEW dev \in Device \cup {NoDevice}, Open(r, a, kind, dev)
    PROVE  TypeOK'
<1>1. att[a] \in AttemptDoc /\ 1 \in 1..MaxRev
  BY QuizAssumption DEF TypeOK
<1>2. [pc |-> "quiz", kind |-> kind, a |-> a, dev |-> dev,
       st |-> att[a].status, idx |-> att[a].index,
       own |-> att[a].device, rev |-> 1, pts |-> 0] \in ReqRec
  BY <1>1 DEF ReqRec, Steps, AttemptDoc
<1>. QED BY <1>2 DEF Open, TypeOK, history

\* Every step keeps the types.
LEMMA NextType == TypeOK /\ [Next]_vars => TypeOK'
<1>. SUFFICES ASSUME TypeOK, [Next]_vars PROVE TypeOK'
  OBVIOUS
<1>1. ASSUME NEW r \in Req, ReqStep(r) PROVE TypeOK'
  BY <1>1, ReqStepType
<1>2. ASSUME NEW r \in Req, Arrival(r) PROVE TypeOK'
  BY <1>2, OpenType DEF Arrival, Kind
<1>3. ASSUME NEW r \in Req, Abort(r) PROVE TypeOK'
  <2>1. req' \in [Req -> ReqRec]
    BY <1>3, NoReqType DEF Abort, Idle, TypeOK
  <2>2. lost' \subseteq Attempt
    BY <1>3 DEF Abort, TypeOK, ReqRec
  <2>. QED BY <1>3, <2>1, <2>2, QuizAssumption DEF Abort, Fault, TypeOK
<1>4. ASSUME NEW a \in Attempt, AttemptStep(a) PROVE TypeOK'
  <2>0. att[a] \in AttemptDoc
    BY DEF TypeOK
  <2>1. CASE Cancel(a)
    <3>1. [att[a] EXCEPT !.status = "cancelled"] \in AttemptDoc
      BY <2>0, DocUpdates DEF AnyStatus
    <3>2. att' \in [Attempt -> AttemptDoc]
      BY <2>1, <3>1 DEF Cancel, TypeOK
    <3>. QED BY <2>1, <3>2 DEF Cancel, TypeOK, history
  <2>2. CASE InvitationExpires(a)
    BY <2>2 DEF InvitationExpires, TypeOK, history
  <2>3. CASE TimeIsUp(a)
    BY <2>3 DEF TimeIsUp, TypeOK, history
  <2>4. CASE Purge(a)
    <3>1. [att[a] EXCEPT !.status = "purged", !.purge = FALSE] \in AttemptDoc
      BY <2>0, DocUpdates DEF AnyStatus
    <3>2. att' \in [Attempt -> AttemptDoc]
      BY <2>4, <3>1 DEF Purge, TypeOK
    <3>. QED BY <2>4, <3>2 DEF Purge, TypeOK, history
  <2>5. ASSUME NEW s \in Staff, InviteCreate(s, a) PROVE TypeOK'
    <3>1. [att[a] EXCEPT !.status = "invited", !.purge = TRUE] \in AttemptDoc
      BY <2>0, DocUpdates DEF AnyStatus
    <3>2. att' \in [Attempt -> AttemptDoc]
      BY <2>5, <3>1 DEF InviteCreate, TypeOK
    <3>. QED BY <2>5, <3>2 DEF InviteCreate, TypeOK, history
  <2>. QED BY <1>4, <2>1, <2>2, <2>3, <2>4, <2>5 DEF AttemptStep
<1>5. ASSUME NEW s \in Staff, InviteCancel(s) PROVE TypeOK'
  <2>1. \A a \in Attempt : att'[a] \in AttemptDoc
    <3>. SUFFICES ASSUME NEW a \in Attempt PROVE att'[a] \in AttemptDoc
      OBVIOUS
    <3>1. /\ att[a] \in AttemptDoc
          /\ [att[a] EXCEPT !.status = "cancelled"] \in AttemptDoc
      BY DocUpdates DEF TypeOK, AnyStatus
    <3>. QED BY <1>5, <3>1 DEF InviteCancel
  <2>. QED BY <1>5, <2>1 DEF InviteCancel, TypeOK, history
<1>6. CASE Update
  <2>1. quiz.rev \in 1..MaxRev /\ quiz.rev + 1 \in 1..MaxRev
    BY <1>6, QuizAssumption DEF Update, TypeOK
  <2>2. quiz' \in [rev : 1..MaxRev, locked : BOOLEAN, exists : BOOLEAN]
    <3>. DEFINE Q == [rev : 1..MaxRev, locked : BOOLEAN, exists : BOOLEAN]
    <3>1. \A n \in 1..MaxRev, d \in Q : [d EXCEPT !.rev = n] \in Q
      OBVIOUS
    <3>2. quiz \in Q /\ quiz' = [quiz EXCEPT !.rev = quiz.rev + 1]
      BY <1>6 DEF Update, TypeOK
    <3>. QED BY <2>1, <3>1, <3>2
  <2>. QED BY <1>6, <2>2 DEF Update, TypeOK, history
<1>7. CASE Remove
  BY <1>7 DEF Remove, TypeOK, history
<1>8. CASE Crash
  <2>1. req' \in [Req -> ReqRec]
    BY <1>8, NoReqType DEF Crash
  <2>. QED BY <1>8, <2>1, QuizAssumption DEF Crash, Fault, TypeOK
<1>9. CASE UNCHANGED vars
  BY <1>9 DEF vars, history, TypeOK
<1>. QED BY <1>1, <1>2, <1>3, <1>4, <1>5, <1>6, <1>7, <1>8, <1>9 DEF Next

\* The variables hold what the code can store in them, in every behaviour.
THEOREM QuizTypeCorrect == Spec => []TypeOK
<1>1. Init => TypeOK
  BY InitType
<1>2. TypeOK /\ [Next]_vars => TypeOK'
  BY NextType
<1>. QED BY <1>1, <1>2, PTL DEF Spec

-----------------------------------------------------------------------------
(* What a step does to an attempt and to a request, once and for all.      *)

\* The command of request q turns the attempt d into e.
RequestWrites(q, d, e) ==
    \/ e = d
    \/ /\ q.pc = "expire" /\ d.status = "invited" /\ e.status = "expired"
       /\ e.device = d.device /\ e.purge = d.purge /\ e.index = d.index
    \/ /\ q.pc = "start" /\ d.status = "invited" /\ e.status = "in_progress"
       /\ e.device = q.dev /\ ~e.purge /\ e.index = d.index
    \/ /\ q.pc = "answer" /\ d.status = "in_progress" /\ d.index = q.idx
       /\ e.status = d.status /\ e.device = d.device /\ e.purge = d.purge
       /\ e.index = d.index + 1
    \/ /\ q.pc = "close" /\ d.status = "in_progress"
       /\ e.status = "completed" /\ e.device = d.device
       /\ e.purge = d.purge /\ e.index = d.index

\* The request q, about the attempt d, goes on as v.
RequestMoves(q, d, v) ==
    /\ v.pc # "quiz"
    /\ v.pc # "idle" => v.a = q.a
    /\ v.pc = "expire" => q.pc = "quiz" /\ v.kind = q.kind /\ v.dev = q.dev
    /\ v.pc = "start" => /\ q.pc \in {"quiz", "expire"}
                         /\ q.kind = "start" /\ v.dev = q.dev
    /\ v.pc = "answer" =>
          /\ q.kind = "answer" /\ v.dev = q.dev
          /\ \/ q.pc = "quiz" /\ q.st = "in_progress" /\ q.own = q.dev
             \/ q.pc = "expire" /\ d.status = "in_progress" /\ d.device = q.dev
    /\ v.pc = "save" <=> q.pc = "close" /\ d.status = "in_progress"

\* Staff, clock and purge turn the attempt d into e.
OthersWrite(d, e) ==
    \/ e = d
    \/ /\ d.status \in {"invited", "in_progress"} /\ e.status = "cancelled"
       /\ e.device = d.device /\ e.purge = d.purge /\ e.index = d.index
    \/ /\ d.status = "none" /\ e.status = "invited" /\ e.purge
       /\ e.device = d.device /\ e.index = d.index
    \/ /\ d.purge /\ e.status = "purged" /\ ~e.purge
       /\ e.device = d.device /\ e.index = d.index

\* The step of request r, holding q and about d, seen as one move to v and one
\* write of e.
Effect(r, q, d, v, e) ==
    /\ req' = [req EXCEPT ![r] = v]
    /\ att' = [att EXCEPT ![q.a] = e]
    /\ RequestMoves(q, d, v)
    /\ RequestWrites(q, d, e)
    /\ e.status = "completed" /\ e # d => q.pc = "close"
    /\ q.pc = "close" /\ d.status = "in_progress" => e.status = "completed"
    /\ lost' = lost
    /\ saved' = IF q.pc = "save" THEN [saved EXCEPT ![q.a] = @ + 1] ELSE saved
    /\ given' = IF e.index = d.index THEN given
                ELSE [given EXCEPT ![q.a] = @ \cup {q.idx}]

\* Every command of a request has such an effect.
LEMMA RequestEffect ==
    ASSUME TypeOK, NEW r \in Req, ReqStep(r)
    PROVE  \E v \in ReqRec : \E e : Effect(r, req[r], att[req[r].a], v, e)
<1>. DEFINE q == req[r]
            d == att[q.a]
<1>0. /\ q \in ReqRec /\ q.a \in Attempt /\ d \in AttemptDoc
      /\ NoReq \in ReqRec /\ NoReq.pc = "idle"
      /\ att = [att EXCEPT ![q.a] = d] /\ d.index \in Nat
  BY NoReqType DEF TypeOK, ReqRec, AttemptDoc
<1>. HIDE DEF q, d
<1>. SUFFICES \E v \in ReqRec : \E e : Effect(r, q, d, v, e)
  BY DEF q, d
<1>1. CASE ReadQuiz(r)
  <2>. DEFINE step == IF ~quiz.exists THEN "idle"
                      ELSE IF q.st = "invited" /\ stale[q.a] THEN "expire"
                      ELSE IF q.st = "in_progress" /\ overdue[q.a] THEN "fresh"
                      ELSE Admitted(q.kind, q.st, q.own, q.dev)
              q2 == [q EXCEPT !.rev = quiz.rev]
              v == Goto(q2, step)
  <2>1. /\ step \in {"idle", "expire", "fresh", "start", "answer"}
        /\ step = "start" => q.kind = "start"
        /\ step = "answer" => /\ q.kind = "answer"
                              /\ q.st = "in_progress" /\ q.own = q.dev
    BY AdmittedSteps
  <2>2. /\ q2 \in ReqRec /\ q2.a = q.a /\ q2.dev = q.dev
        /\ q2.kind = q.kind
    BY <1>0 DEF TypeOK, ReqRec
  <2>3. /\ q.pc = "quiz" /\ req' = [req EXCEPT ![r] = v]
        /\ att' = att /\ UNCHANGED history
    BY <1>1 DEF ReadQuiz, q
  <2>. HIDE DEF q2, step
  <2>4. step \in Steps
    BY <2>1 DEF Steps
  <2>5. v \in ReqRec /\ RequestMoves(q, d, v)
    BY <2>1, <2>2, <2>3, <2>4, GotoType DEF RequestMoves
  <2>. HIDE DEF v
  <2>9. v \in ReqRec /\ Effect(r, q, d, v, d)
    BY <1>0, <2>3, <2>5 DEF RequestWrites, history, Effect
  <2>. QED BY <2>9
<1>2. CASE Expire(r)
  <2>1. CASE d.status = "invited"
    <3>. DEFINE e == [d EXCEPT !.status = "expired"]
    <3>1. /\ q.pc = "expire" /\ req' = [req EXCEPT ![r] = NoReq]
          /\ att' = [att EXCEPT ![q.a] = e] /\ UNCHANGED history
      BY <1>2, <2>1 DEF Expire, Idle, q, d
    <3>2. RequestWrites(q, d, e) /\ e.index = d.index /\ e.status = "expired"
      BY <1>0, <2>1, <3>1 DEF RequestWrites, AttemptDoc
    <3>. HIDE DEF e
    <3>9. NoReq \in ReqRec /\ Effect(r, q, d, NoReq, e)
      BY <1>0, <2>1, <3>1, <3>2 DEF RequestMoves, history, Effect
    <3>. QED BY <3>9
  <2>2. CASE d.status # "invited"
    <3>. DEFINE step == Admitted(q.kind, d.status, d.device, q.dev)
                q2 == [q EXCEPT !.st = d.status, !.idx = d.index,
                                !.own = d.device]
                v == Goto(q2, step)
    <3>1. /\ step \in {"idle", "start", "answer"}
          /\ step = "start" => q.kind = "start"
          /\ step = "answer" => /\ q.kind = "answer"
                                /\ d.status = "in_progress"
                                /\ d.device = q.dev
      BY AdmittedSteps
    <3>2. /\ q2 \in ReqRec /\ q2.a = q.a /\ q2.dev = q.dev
          /\ q2.kind = q.kind
      BY <1>0 DEF ReqRec, AttemptDoc
    <3>3. /\ q.pc = "expire" /\ req' = [req EXCEPT ![r] = v]
          /\ att' = att /\ UNCHANGED history
      BY <1>2, <2>2 DEF Expire, q, d
    <3>. HIDE DEF q2, step
    <3>4. step \in Steps
      BY <3>1 DEF Steps
    <3>5. v \in ReqRec /\ RequestMoves(q, d, v)
      BY <3>1, <3>2, <3>3, <3>4, GotoType DEF RequestMoves
    <3>. HIDE DEF v
    <3>9. v \in ReqRec /\ Effect(r, q, d, v, d)
      BY <1>0, <3>3, <3>5 DEF RequestWrites, history, Effect
    <3>. QED BY <3>9
  <2>. QED BY <2>1, <2>2
<1>3. CASE Start(r)
  <2>1. CASE d.status = "invited"
    <3>. DEFINE e == [d EXCEPT !.status = "in_progress", !.device = q.dev,
                               !.purge = FALSE]
                v == Goto(q, "lock")
    <3>1. /\ q.pc = "start" /\ req' = [req EXCEPT ![r] = v]
          /\ att' = [att EXCEPT ![q.a] = e] /\ UNCHANGED history
      BY <1>3, <2>1 DEF Start, q, d
    <3>2. RequestWrites(q, d, e) /\ e.index = d.index /\ e.status = "in_progress"
      BY <1>0, <2>1, <3>1 DEF RequestWrites, AttemptDoc
    <3>3. v \in ReqRec /\ v.pc = "lock" /\ v.a = q.a
      BY <1>0, GotoType DEF Steps
    <3>. HIDE DEF e, v
    <3>9. v \in ReqRec /\ Effect(r, q, d, v, e)
      BY <2>1, <3>1, <3>2, <3>3 DEF RequestMoves, history, Effect
    <3>. QED BY <3>9
  <2>2. CASE d.status # "invited"
    <3>1. /\ q.pc = "start" /\ req' = [req EXCEPT ![r] = NoReq]
          /\ att' = att /\ UNCHANGED history
      BY <1>3, <2>2 DEF Start, Idle, q, d
    <3>9. NoReq \in ReqRec /\ Effect(r, q, d, NoReq, d)
      BY <1>0, <3>1 DEF RequestMoves, RequestWrites, history, Effect
    <3>. QED BY <3>9
  <2>. QED BY <2>1, <2>2
<1>4. CASE Lock(r)
  <2>1. /\ q.pc = "lock" /\ req' = [req EXCEPT ![r] = NoReq]
        /\ att' = att /\ UNCHANGED history
    BY <1>4 DEF Lock, Idle, q
  <2>9. NoReq \in ReqRec /\ Effect(r, q, d, NoReq, d)
    BY <1>0, <2>1 DEF RequestMoves, RequestWrites, history, Effect
  <2>. QED BY <2>9
<1>5. CASE Answer(r)
  <2>. DEFINE step == IF q.idx + 1 < QCount[q.rev] THEN "idle" ELSE "fresh"
              v == Goto(q, step)
              accepted == /\ q.idx < QCount[q.rev]
                          /\ d.status = "in_progress"
                          /\ d.index = q.idx
  <2>1. CASE accepted
    <3>1. PICK n \in {0, 1} :
             att' = [att EXCEPT ![q.a] =
                       [d EXCEPT !.index = @ + 1, !.points = @ + n]]
      BY <1>5, <2>1 DEF Answer, q, d
    <3>. DEFINE e == [d EXCEPT !.index = @ + 1, !.points = @ + n]
    <3>2. /\ q.pc = "answer" /\ req' = [req EXCEPT ![r] = v]
          /\ given' = [given EXCEPT ![q.a] = @ \cup {q.idx}]
          /\ saved' = saved /\ lost' = lost
      BY <1>5, <2>1 DEF Answer, q, d
    <3>3. /\ RequestWrites(q, d, e) /\ e.index # d.index
          /\ e.status = "in_progress"
      BY <1>0, <2>1, <3>2 DEF RequestWrites, AttemptDoc
    <3>4. v \in ReqRec /\ v.pc \in {"idle", "fresh"}
          /\ (v.pc # "idle" => v.a = q.a)
      BY <1>0, GotoType DEF Steps
    <3>5. att' = [att EXCEPT ![q.a] = e]
      BY <3>1
    <3>. HIDE DEF e, v
    <3>9. v \in ReqRec /\ Effect(r, q, d, v, e)
      BY <3>2, <3>3, <3>4, <3>5 DEF RequestMoves, Effect
    <3>. QED BY <3>9
  <2>2. CASE ~accepted
    <3>1. /\ q.pc = "answer" /\ req' = [req EXCEPT ![r] = NoReq]
          /\ att' = att /\ given' = given /\ saved' = saved /\ lost' = lost
      BY <1>5, <2>2 DEF Answer, Idle, q, d
    <3>9. NoReq \in ReqRec /\ Effect(r, q, d, NoReq, d)
      BY <1>0, <3>1 DEF RequestMoves, RequestWrites, Effect
    <3>. QED BY <3>9
  <2>. QED BY <2>1, <2>2
<1>6. CASE ReadFresh(r)
  <2>. DEFINE q2 == [q EXCEPT !.pts = d.points]
              v == Goto(q2, "close")
  <2>1. /\ q.pc = "fresh" /\ req' = [req EXCEPT ![r] = v]
        /\ att' = att /\ UNCHANGED history
    BY <1>6 DEF ReadFresh, q, d
  <2>2. q2 \in ReqRec /\ q2.a = q.a
    BY <1>0 DEF ReqRec, AttemptDoc
  <2>. HIDE DEF q2
  <2>3. v \in ReqRec /\ v.pc = "close" /\ v.a = q.a
    BY <2>2, GotoType DEF Steps
  <2>. HIDE DEF v
  <2>9. v \in ReqRec /\ Effect(r, q, d, v, d)
    BY <1>0, <2>1, <2>3 DEF RequestMoves, RequestWrites, history, Effect
  <2>. QED BY <2>9
<1>7. CASE Close(r)
  <2>1. CASE d.status = "in_progress"
    <3>. DEFINE q2 == [q EXCEPT !.pts = 0]
                v == Goto(q2, "save")
                e == [d EXCEPT !.status = "completed", !.score = q.pts]
    <3>1. /\ q.pc = "close" /\ req' = [req EXCEPT ![r] = v]
          /\ att' = [att EXCEPT ![q.a] = e]
          /\ given' = given /\ saved' = saved /\ lost' = lost
      BY <1>7, <2>1 DEF Close, q, d
    <3>2. q2 \in ReqRec /\ q2.a = q.a
      BY <1>0 DEF ReqRec
    <3>. HIDE DEF q2
    <3>3. v \in ReqRec /\ v.pc = "save" /\ v.a = q.a
      BY <3>2, GotoType DEF Steps
    <3>4. /\ RequestWrites(q, d, e) /\ e.index = d.index
          /\ e.status = "completed"
      BY <1>0, <2>1, <3>1 DEF RequestWrites, AttemptDoc
    <3>. HIDE DEF e, v
    <3>9. v \in ReqRec /\ Effect(r, q, d, v, e)
      BY <2>1, <3>1, <3>3, <3>4 DEF RequestMoves, Effect
    <3>. QED BY <3>9
  <2>2. CASE d.status # "in_progress"
    <3>1. /\ q.pc = "close" /\ req' = [req EXCEPT ![r] = NoReq]
          /\ att' = att /\ given' = given /\ saved' = saved /\ lost' = lost
      BY <1>7, <2>2 DEF Close, Idle, q, d
    <3>9. NoReq \in ReqRec /\ Effect(r, q, d, NoReq, d)
      BY <1>0, <2>2, <3>1 DEF RequestMoves, RequestWrites, Effect
    <3>. QED BY <3>9
  <2>. QED BY <2>1, <2>2
<1>8. CASE Save(r)
  <2>1. /\ q.pc = "save" /\ req' = [req EXCEPT ![r] = NoReq]
        /\ saved' = [saved EXCEPT ![q.a] = @ + 1]
        /\ att' = att /\ given' = given /\ lost' = lost
    BY <1>8 DEF Save, Idle, q
  <2>9. NoReq \in ReqRec /\ Effect(r, q, d, NoReq, d)
    BY <1>0, <2>1 DEF RequestMoves, RequestWrites, Effect
  <2>. QED BY <2>9
<1>. QED BY <1>1, <1>2, <1>3, <1>4, <1>5, <1>6, <1>7, <1>8 DEF ReqStep

\* The steps of the staff and of the clock only touch the attempts so.
LEMMA OthersEffect ==
    ASSUME TypeOK, \/ \E a \in Attempt : AttemptStep(a)
                   \/ \E s \in Staff : InviteCancel(s)
                   \/ Update \/ Remove \/ UNCHANGED vars
    PROVE  /\ \A a \in Attempt : OthersWrite(att[a], att'[a])
           /\ req' = req /\ UNCHANGED history
<1>1. ASSUME NEW a \in Attempt, AttemptStep(a)
      PROVE  /\ \A b \in Attempt : OthersWrite(att[b], att'[b])
             /\ req' = req /\ UNCHANGED history
  <2>0. att \in [Attempt -> AttemptDoc] /\ att[a] \in AttemptDoc
    BY DEF TypeOK
  <2>. DEFINE d == att[a]
  <2>. SUFFICES ASSUME NEW e, att' = [att EXCEPT ![a] = e],
                       OthersWrite(d, e) \/ UNCHANGED att,
                       req' = req, UNCHANGED history
                PROVE  \A b \in Attempt : OthersWrite(att[b], att'[b])
    <3>1. CASE Cancel(a)
      <4>. DEFINE e == [d EXCEPT !.status = "cancelled"]
      <4>1. OthersWrite(d, e)
        BY <2>0, <3>1 DEF Cancel, OthersWrite, AttemptDoc
      <4>. QED BY <3>1, <4>1 DEF Cancel
    <3>2. CASE InvitationExpires(a) \/ TimeIsUp(a)
      <4>1. att' = [att EXCEPT ![a] = d] /\ UNCHANGED att
        BY <2>0, <3>2 DEF InvitationExpires, TimeIsUp
      <4>. QED BY <3>2, <4>1 DEF InvitationExpires, TimeIsUp
    <3>3. CASE Purge(a)
      <4>. DEFINE e == [d EXCEPT !.status = "purged", !.purge = FALSE]
      <4>1. OthersWrite(d, e)
        BY <2>0, <3>3 DEF Purge, OthersWrite, AttemptDoc
      <4>. QED BY <3>3, <4>1 DEF Purge
    <3>4. ASSUME NEW s \in Staff, InviteCreate(s, a)
          PROVE  \E e : /\ att' = [att EXCEPT ![a] = e]
                        /\ OthersWrite(d, e) /\ req' = req
                        /\ UNCHANGED history
      <4>. DEFINE e == [d EXCEPT !.status = "invited", !.purge = TRUE]
      <4>1. OthersWrite(d, e)
        BY <2>0, <3>4 DEF InviteCreate, OthersWrite, AttemptDoc
      <4>. QED BY <3>4, <4>1 DEF InviteCreate
    <3>. QED BY <1>1, <3>1, <3>2, <3>3, <3>4 DEF AttemptStep
  <2>. QED BY <2>0 DEF OthersWrite
<1>2. ASSUME NEW s \in Staff, InviteCancel(s)
      PROVE  /\ \A b \in Attempt : OthersWrite(att[b], att'[b])
             /\ req' = req /\ UNCHANGED history
  <2>1. ASSUME NEW b \in Attempt
        PROVE  OthersWrite(att[b], att'[b])
    <3>1. att[b] \in AttemptDoc
      BY DEF TypeOK
    <3>2. CASE att[b].status = "invited"
      <4>1. att'[b] = [att[b] EXCEPT !.status = "cancelled"]
        BY <1>2, <3>2 DEF InviteCancel
      <4>. QED BY <3>1, <3>2, <4>1 DEF OthersWrite, AttemptDoc
    <3>3. CASE att[b].status # "invited"
      <4>1. att'[b] = att[b]
        BY <1>2, <3>3 DEF InviteCancel
      <4>. QED BY <4>1 DEF OthersWrite
    <3>. QED BY <3>2, <3>3
  <2>. QED BY <1>2, <2>1 DEF InviteCancel
<1>3. CASE Update \/ Remove \/ UNCHANGED vars
  <2>1. att' = att /\ req' = req /\ UNCHANGED history
    BY <1>3 DEF Update, Remove, vars
  <2>. QED BY <2>1 DEF OthersWrite
<1>. QED BY <1>1, <1>2, <1>3

\* The ways a step can go.
LEMMA StepKinds ==
    ASSUME [Next]_vars
    PROVE  \/ \E r \in Req : ReqStep(r)
           \/ \E r \in Req : Arrival(r)
           \/ \E r \in Req : Abort(r)
           \/ Crash
           \/ \/ \E a \in Attempt : AttemptStep(a)
              \/ \E s \in Staff : InviteCancel(s)
              \/ Update \/ Remove \/ UNCHANGED vars
BY DEF Next

-----------------------------------------------------------------------------
(* Devices, purge and order of the answers.                                *)

\* Only a started attempt has a device, and no started attempt is purgeable.
DeviceInv ==
    \A a \in Attempt :
        /\ att[a].status \in {"none", "invited", "purged"} =>
              att[a].device = NoDevice
        /\ att[a].status \in {"in_progress", "completed"} =>
              att[a].device # NoDevice
        /\ att[a].device # NoDevice => ~att[a].purge

\* What a request believes of its device is still true when it writes.
ReqInv ==
    \A r \in Req : LET q == req[r] IN
        /\ q.pc = "quiz" /\ q.st = "in_progress" =>
              q.own = att[q.a].device /\ q.own # NoDevice
        /\ q.pc \in {"quiz", "expire"} /\ q.kind # "look" => q.dev \in Device
        /\ q.pc = "start" => q.dev \in Device
        /\ q.pc = "answer" => q.dev = att[q.a].device /\ q.dev # NoDevice

\* A device, once there, is there for good.
LEMMA DeviceKept ==
    ASSUME TypeOK, DeviceInv, [Next]_vars, NEW a \in Attempt
    PROVE  att[a].device # NoDevice => att'[a].device = att[a].device
<1>1. ASSUME NEW r \in Req, ReqStep(r)
      PROVE  att[a].device # NoDevice => att'[a].device = att[a].device
  <2>a. PICK v \in ReqRec : \E e : Effect(r, req[r], att[req[r].a], v, e)
    BY <1>1, RequestEffect
  <2>1. PICK e : Effect(r, req[r], att[req[r].a], v, e)
    BY <2>a
  <2>2. /\ att' = [att EXCEPT ![req[r].a] = e]
        /\ RequestWrites(req[r], att[req[r].a], e)
        /\ req[r].a \in Attempt
    BY <2>1 DEF Effect, TypeOK, ReqRec
  <2>. QED BY <2>2 DEF RequestWrites, DeviceInv, TypeOK
<1>2. CASE (\E r \in Req : Arrival(r) \/ Abort(r)) \/ Crash
  BY <1>2 DEF Arrival, Open, Abort, Crash
<1>3. CASE \/ \E b \in Attempt : AttemptStep(b)
           \/ \E s \in Staff : InviteCancel(s)
           \/ Update \/ Remove \/ UNCHANGED vars
  <2>1. OthersWrite(att[a], att'[a])
    BY <1>3, OthersEffect
  <2>. QED BY <2>1 DEF OthersWrite
<1>. QED BY <1>1, <1>2, <1>3, StepKinds

LEMMA DeviceStep ==
    ASSUME TypeOK, DeviceInv, ReqInv, [Next]_vars
    PROVE  DeviceInv'
<1>. USE QuizAssumption
<1>1. ASSUME NEW r \in Req, ReqStep(r) PROVE DeviceInv'
  <2>a. PICK v \in ReqRec : \E e : Effect(r, req[r], att[req[r].a], v, e)
    BY <1>1, RequestEffect
  <2>1. PICK e : Effect(r, req[r], att[req[r].a], v, e)
    BY <2>a
  <2>2. /\ att' = [att EXCEPT ![req[r].a] = e]
        /\ RequestWrites(req[r], att[req[r].a], e)
        /\ req[r].a \in Attempt
    BY <2>1 DEF Effect, TypeOK, ReqRec
  <2>3. req[r].pc = "start" => req[r].dev \in Device
    BY DEF ReqInv
  <2>. QED BY <2>2, <2>3 DEF RequestWrites, DeviceInv, TypeOK
<1>2. CASE (\E r \in Req : Arrival(r) \/ Abort(r)) \/ Crash
  BY <1>2 DEF Arrival, Open, Abort, Crash, DeviceInv
<1>3. CASE \/ \E b \in Attempt : AttemptStep(b)
           \/ \E s \in Staff : InviteCancel(s)
           \/ Update \/ Remove \/ UNCHANGED vars
  <2>1. \A a \in Attempt : OthersWrite(att[a], att'[a])
    BY <1>3, OthersEffect
  <2>. QED BY <2>1 DEF OthersWrite, DeviceInv
<1>. QED BY <1>1, <1>2, <1>3, StepKinds

LEMMA ReqInvStep ==
    ASSUME TypeOK, DeviceInv, ReqInv, [Next]_vars
    PROVE  ReqInv'
<1>. USE QuizAssumption
<1>0. \A a \in Attempt :
         att[a].device # NoDevice => att'[a].device = att[a].device
  BY DeviceKept
<1>1. ASSUME NEW r \in Req, ReqStep(r) PROVE ReqInv'
  <2>. DEFINE q == req[r]
              d == att[q.a]
  <2>a. PICK v \in ReqRec : \E e : Effect(r, q, d, v, e)
    BY <1>1, RequestEffect
  <2>1. PICK e : Effect(r, q, d, v, e)
    BY <2>a
  <2>2. /\ req' = [req EXCEPT ![r] = v] /\ req \in [Req -> ReqRec]
        /\ RequestMoves(q, d, v)
        /\ q \in ReqRec /\ q.a \in Attempt
    BY <2>1 DEF Effect, TypeOK, ReqRec
  <2>3. /\ v.pc = "start" => v.dev \in Device
        /\ v.pc = "answer" => /\ v.a = q.a /\ v.dev = d.device
                              /\ v.dev # NoDevice
        /\ v.pc = "expire" /\ v.kind # "look" => v.dev \in Device
    BY <2>2 DEF RequestMoves, ReqInv, DeviceInv
  <2>. SUFFICES ASSUME NEW x \in Req
                PROVE  LET y == req'[x] IN
                  /\ y.pc = "quiz" /\ y.st = "in_progress" =>
                        y.own = att'[y.a].device /\ y.own # NoDevice
                  /\ y.pc \in {"quiz", "expire"} /\ y.kind # "look" =>
                        y.dev \in Device
                  /\ y.pc = "start" => y.dev \in Device
                  /\ y.pc = "answer" => y.dev = att'[y.a].device
                                        /\ y.dev # NoDevice
    BY DEF ReqInv
  <2>4. CASE x = r
    <3>1. req'[x] = v /\ v.pc # "quiz"
      BY <2>2, <2>4 DEF RequestMoves
    <3>. QED BY <1>0, <2>2, <2>3, <3>1
  <2>5. CASE x # r
    <3>1. req'[x] = req[x] /\ req[x].a \in Attempt
      BY <2>2, <2>5 DEF ReqRec
    <3>. QED BY <1>0, <3>1 DEF ReqInv
  <2>. QED BY <2>4, <2>5
<1>2. ASSUME NEW r \in Req, NEW a \in Attempt, NEW kind \in Kind,
             NEW dev \in Device \cup {NoDevice}, Open(r, a, kind, dev),
             kind # "look" => dev \in Device
      PROVE  ReqInv'
  <2>1. att' = att /\ req \in [Req -> ReqRec]
    BY <1>2 DEF Open, TypeOK
  <2>2. /\ req'[r].pc = "quiz" /\ req'[r].own = att[a].device
        /\ req'[r].st = att[a].status /\ req'[r].a = a
        /\ req'[r].kind = kind /\ req'[r].dev = dev
        /\ \A x \in Req \ {r} : req'[x] = req[x]
    BY <1>2, <2>1 DEF Open
  <2>3. att[a].status = "in_progress" => att[a].device # NoDevice
    BY DEF DeviceInv
  <2>. QED BY <1>2, <2>1, <2>2, <2>3 DEF ReqInv
<1>3. ASSUME NEW r \in Req, Arrival(r) PROVE ReqInv'
  BY <1>2, <1>3 DEF Arrival, Kind
<1>4. ASSUME NEW r \in Req, Abort(r) PROVE ReqInv'
  <2>1. /\ att' = att /\ req \in [Req -> ReqRec]
        /\ req' = [req EXCEPT ![r] = NoReq] /\ NoReq.pc = "idle"
    BY <1>4, NoReqType DEF Abort, Idle, TypeOK
  <2>. QED BY <2>1 DEF ReqInv
<1>5. CASE Crash
  <2>1. \A x \in Req : req'[x].pc = "idle"
    BY <1>5, NoReqType DEF Crash
  <2>. QED BY <2>1 DEF ReqInv
<1>6. CASE \/ \E b \in Attempt : AttemptStep(b)
           \/ \E s \in Staff : InviteCancel(s)
           \/ Update \/ Remove \/ UNCHANGED vars
  <2>1. req' = req /\ req \in [Req -> ReqRec]
    BY <1>6, OthersEffect DEF TypeOK
  <2>2. \A x \in Req : req[x].a \in Attempt
    BY <2>1 DEF ReqRec
  <2>. QED BY <1>0, <2>1, <2>2 DEF ReqInv
<1>. QED BY <1>1, <1>3, <1>4, <1>5, <1>6, StepKinds

LEMMA OrderStep ==
    ASSUME TypeOK, AnsweredInOrder, [Next]_vars
    PROVE  AnsweredInOrder'
<1>1. ASSUME NEW r \in Req, ReqStep(r) PROVE AnsweredInOrder'
  <2>. DEFINE q == req[r]
              d == att[q.a]
  <2>a. PICK v \in ReqRec : \E e : Effect(r, q, d, v, e)
    BY <1>1, RequestEffect
  <2>1. PICK e : Effect(r, q, d, v, e)
    BY <2>a
  <2>2. /\ att' = [att EXCEPT ![q.a] = e] /\ RequestWrites(q, d, e)
        /\ given' = IF e.index = d.index THEN given
                    ELSE [given EXCEPT ![q.a] = @ \cup {q.idx}]
        /\ q.a \in Attempt /\ d \in AttemptDoc /\ d.index \in Nat
        /\ att \in [Attempt -> AttemptDoc] /\ given \in [Attempt -> SUBSET Nat]
    BY <2>1 DEF Effect, TypeOK, ReqRec, AttemptDoc
  <2>3. CASE e.index = d.index
    BY <2>2, <2>3 DEF AnsweredInOrder
  <2>4. CASE e.index # d.index
    <3>1. e.index = d.index + 1 /\ q.idx = d.index
      BY <2>2, <2>4 DEF RequestWrites
    <3>2. given[q.a] \cup {q.idx} = {k \in 0..e.index : k < e.index}
      BY <2>2, <3>1 DEF AnsweredInOrder
    <3>. QED BY <2>2, <2>4, <3>2 DEF AnsweredInOrder
  <2>. QED BY <2>3, <2>4
<1>2. CASE (\E r \in Req : Arrival(r) \/ Abort(r)) \/ Crash
  BY <1>2 DEF Arrival, Open, Abort, Crash, AnsweredInOrder, history
<1>3. CASE \/ \E b \in Attempt : AttemptStep(b)
           \/ \E s \in Staff : InviteCancel(s)
           \/ Update \/ Remove \/ UNCHANGED vars
  <2>1. /\ \A a \in Attempt : OthersWrite(att[a], att'[a])
        /\ given' = given
    BY <1>3, OthersEffect DEF history
  <2>2. \A a \in Attempt : att'[a].index = att[a].index
    BY <2>1 DEF OthersWrite
  <2>. QED BY <2>1, <2>2 DEF AnsweredInOrder
<1>. QED BY <1>1, <1>2, <1>3, StepKinds

-----------------------------------------------------------------------------
(* Closing and saving.                                                     *)

\* One request at most copies a result, and it is the first to do it.
CloseInv ==
    /\ \A r \in Req : req[r].pc = "save" =>
          /\ att[req[r].a].status = "completed"
          /\ saved[req[r].a] = 0 /\ req[r].a \notin lost
    /\ \A r, x \in Req : req[r].pc = "save" /\ req[x].pc = "save"
                            /\ req[r].a = req[x].a => r = x
    /\ \A a \in Attempt : att[a].status # "completed" =>
          saved[a] = 0 /\ a \notin lost
    /\ ResultAccounted

\* Closed attempts stay as they are, but for the purge of what never started.
LEMMA ClosedStays ==
    ASSUME TypeOK, [Next]_vars, NEW a \in Attempt, att[a].status \in Terminal
    PROVE  \/ att'[a] = att[a]
           \/ att[a].purge /\ att'[a].status = "purged"
<1>1. ASSUME NEW r \in Req, ReqStep(r) PROVE att'[a] = att[a]
  <2>a. PICK v \in ReqRec : \E e : Effect(r, req[r], att[req[r].a], v, e)
    BY <1>1, RequestEffect
  <2>1. PICK e : Effect(r, req[r], att[req[r].a], v, e)
    BY <2>a
  <2>2. /\ att' = [att EXCEPT ![req[r].a] = e]
        /\ RequestWrites(req[r], att[req[r].a], e)
        /\ att \in [Attempt -> AttemptDoc]
    BY <2>1 DEF Effect, TypeOK
  <2>. QED BY <2>2 DEF RequestWrites, Terminal
<1>2. CASE (\E r \in Req : Arrival(r) \/ Abort(r)) \/ Crash
  BY <1>2 DEF Arrival, Open, Abort, Crash
<1>3. CASE \/ \E b \in Attempt : AttemptStep(b)
           \/ \E s \in Staff : InviteCancel(s)
           \/ Update \/ Remove \/ UNCHANGED vars
  <2>1. OthersWrite(att[a], att'[a])
    BY <1>3, OthersEffect
  <2>. QED BY <2>1 DEF OthersWrite, Terminal
<1>. QED BY <1>1, <1>2, <1>3, StepKinds

LEMMA CloseStep ==
    ASSUME TypeOK, DeviceInv, CloseInv, [Next]_vars
    PROVE  CloseInv'
<1>1. ASSUME NEW r \in Req, ReqStep(r) PROVE CloseInv'
  <2>. DEFINE q == req[r]
              d == att[q.a]
  <2>a. PICK v \in ReqRec : \E e : Effect(r, q, d, v, e)
    BY <1>1, RequestEffect
  <2>1. PICK e : Effect(r, q, d, v, e)
    BY <2>a
  <2>2. /\ req' = [req EXCEPT ![r] = v] /\ att' = [att EXCEPT ![q.a] = e]
        /\ RequestWrites(q, d, e)
        /\ e.status = "completed" /\ e # d => q.pc = "close"
        /\ q.pc = "close" /\ d.status = "in_progress" =>
              e.status = "completed"
        /\ lost' = lost
        /\ saved' = IF q.pc = "save" THEN [saved EXCEPT ![q.a] = @ + 1]
                    ELSE saved
        /\ v.pc = "save" <=> q.pc = "close" /\ d.status = "in_progress"
        /\ v.pc # "idle" => v.a = q.a
        /\ q.a \in Attempt /\ q \in ReqRec
        /\ req \in [Req -> ReqRec] /\ att \in [Attempt -> AttemptDoc]
        /\ saved \in [Attempt -> Nat]
    BY <2>1 DEF Effect, RequestMoves, TypeOK, ReqRec
  <2>3. \A x \in Req : req[x].a \in Attempt
    BY <2>2 DEF ReqRec
  <2>4. \A x \in Req \ {r} : req'[x] = req[x]
    BY <2>2
  <2>5. req'[r] = v /\ att'[q.a] = e
    BY <2>2
  <2>6. \A a \in Attempt \ {q.a} : att'[a] = att[a] /\ saved'[a] = saved[a]
    BY <2>2
  <2>7. CASE q.pc = "close" /\ d.status = "in_progress"
    <3>1. v.pc = "save" /\ v.a = q.a /\ e.status = "completed"
      BY <2>2, <2>7
    <3>2. saved' = saved /\ saved[q.a] = 0 /\ q.a \notin lost
      BY <2>2, <2>7 DEF CloseInv
    <3>3. \A x \in Req : req[x].pc = "save" => req[x].a # q.a
      BY <2>7 DEF CloseInv
    <3>4. ResultAccounted'
      BY <2>2, <2>3, <2>4, <2>5, <2>6, <3>1, <3>2, <3>3
      DEF CloseInv, ResultAccounted
    <3>. QED BY <2>2, <2>3, <2>4, <2>5, <2>6, <3>1, <3>2, <3>3, <3>4
         DEF CloseInv
  <2>8. CASE q.pc = "save"
    <3>1. v.pc # "save" /\ e = d
      BY <2>2, <2>8 DEF RequestWrites
    <3>2. /\ d.status = "completed" /\ saved[q.a] = 0 /\ q.a \notin lost
          /\ saved'[q.a] = 1
      BY <2>2, <2>8 DEF CloseInv
    <3>3. \A x \in Req \ {r} : req[x].pc = "save" => req[x].a # q.a
      BY <2>8 DEF CloseInv
    <3>4. ResultAccounted'
      BY <2>2, <2>3, <2>4, <2>5, <2>6, <3>1, <3>2, <3>3
      DEF CloseInv, ResultAccounted
    <3>. QED BY <2>2, <2>3, <2>4, <2>5, <2>6, <3>1, <3>2, <3>3, <3>4
         DEF CloseInv
  <2>9. CASE /\ q.pc # "save"
             /\ ~(q.pc = "close" /\ d.status = "in_progress")
    <3>1. v.pc # "save" /\ saved' = saved
      BY <2>2, <2>9
    <3>2. e = d \/ (d.status # "completed" /\ e.status # "completed")
      <4>. HIDE DEF q, d
      <4>1. RequestWrites(q, d, e)
        BY <2>2
      <4>. QED BY <2>9, <4>1 DEF RequestWrites
    <3>3. ResultAccounted'
      BY <2>2, <2>3, <2>4, <2>5, <2>6, <2>9, <3>1, <3>2
      DEF CloseInv, ResultAccounted
    <3>. QED BY <2>2, <2>3, <2>4, <2>5, <2>6, <2>9, <3>1, <3>2, <3>3
         DEF CloseInv
  <2>. QED BY <2>7, <2>8, <2>9
<1>2. ASSUME NEW r \in Req, Arrival(r) PROVE CloseInv'
  <2>1. /\ req[r].pc = "idle" /\ att' = att /\ UNCHANGED history
        /\ req'[r].pc = "quiz" /\ \A x \in Req \ {r} : req'[x] = req[x]
    BY <1>2 DEF Arrival, Open, TypeOK
  <2>2. ResultAccounted'
    BY <2>1 DEF CloseInv, ResultAccounted, history
  <2>. QED BY <2>1, <2>2 DEF CloseInv, history
<1>3. ASSUME NEW r \in Req, Abort(r) PROVE CloseInv'
  <2>1. /\ att' = att /\ saved' = saved /\ req[r] \in ReqRec
        /\ req'[r].pc = "idle" /\ \A x \in Req \ {r} : req'[x] = req[x]
        /\ lost' = IF req[r].pc = "save" THEN lost \cup {req[r].a} ELSE lost
    BY <1>3, NoReqType DEF Abort, Idle, TypeOK
  <2>2. CASE req[r].pc = "save"
    <3>1. /\ att[req[r].a].status = "completed"
          /\ saved[req[r].a] = 0 /\ lost' = lost \cup {req[r].a}
          /\ \A x \in Req \ {r} : req[x].pc = "save" => req[x].a # req[r].a
      BY <2>1, <2>2 DEF CloseInv
    <3>2. ResultAccounted'
      BY <2>1, <3>1 DEF CloseInv, ResultAccounted
    <3>. QED BY <2>1, <3>1, <3>2 DEF CloseInv
  <2>3. CASE req[r].pc # "save"
    <3>1. lost' = lost
      BY <2>1, <2>3
    <3>2. ResultAccounted'
      BY <2>1, <2>3, <3>1 DEF CloseInv, ResultAccounted
    <3>. QED BY <2>1, <2>3, <3>1, <3>2 DEF CloseInv
  <2>. QED BY <2>2, <2>3
<1>4. CASE Crash
  <2>1. /\ att' = att /\ saved' = saved
        /\ \A x \in Req : req'[x].pc = "idle"
        /\ lost' = lost \cup {a \in Attempt :
                      \E x \in Req : req[x].pc = "save" /\ req[x].a = a}
    BY <1>4, NoReqType DEF Crash
  <2>2. ResultAccounted'
    BY <2>1 DEF CloseInv, ResultAccounted
  <2>3. \A a \in Attempt : att[a].status # "completed" =>
           saved[a] = 0 /\ a \notin lost'
    BY <2>1 DEF CloseInv
  <2>. QED BY <2>1, <2>2, <2>3 DEF CloseInv
<1>5. CASE \/ \E b \in Attempt : AttemptStep(b)
           \/ \E s \in Staff : InviteCancel(s)
           \/ Update \/ Remove \/ UNCHANGED vars
  <2>1. /\ req' = req /\ saved' = saved /\ lost' = lost
        /\ \A a \in Attempt : OthersWrite(att[a], att'[a])
    BY <1>5, OthersEffect DEF history
  <2>2. \A a \in Attempt :
           att'[a].status = "completed" <=> att[a].status = "completed"
    BY <2>1 DEF OthersWrite, DeviceInv
  <2>3. \A x \in Req : req[x].a \in Attempt
    BY DEF TypeOK, ReqRec
  <2>4. ResultAccounted'
    BY <2>1, <2>2 DEF CloseInv, ResultAccounted
  <2>. QED BY <2>1, <2>2, <2>3, <2>4 DEF CloseInv
<1>. QED BY <1>1, <1>2, <1>3, <1>4, <1>5, StepKinds

-----------------------------------------------------------------------------
(* The theorems.                                                           *)

\* The inductive invariant.
QuizInv == TypeOK /\ DeviceInv /\ ReqInv /\ CloseInv /\ AnsweredInOrder

\* QuizInv holds in every reachable state.
LEMMA QuizInvariant == Spec => []QuizInv
<1>1. Init => QuizInv
  <2>. SUFFICES ASSUME Init PROVE QuizInv
    OBVIOUS
  <2>1. TypeOK
    BY InitType
  <2>2. /\ \A a \in Attempt : att[a] = NoAttempt /\ saved[a] = 0
                                /\ given[a] = {}
        /\ \A r \in Req : req[r].pc = "idle"
        /\ lost = {}
    BY NoReqType DEF Init
  <2>3. DeviceInv /\ ReqInv
    BY <2>2 DEF DeviceInv, ReqInv, NoAttempt
  <2>4. CloseInv
    BY <2>2 DEF CloseInv, ResultAccounted, NoAttempt
  <2>5. AnsweredInOrder
    <3>1. {k \in 0..0 : k < 0} = {}
      OBVIOUS
    <3>2. \A a \in Attempt : att[a].index = 0
      <4>1. NoAttempt.index = 0
        BY DEF NoAttempt
      <4>. QED BY <2>2, <4>1
    <3>. QED BY <2>2, <3>1, <3>2 DEF AnsweredInOrder
  <2>. QED BY <2>1, <2>3, <2>4, <2>5 DEF QuizInv
<1>2. QuizInv /\ [Next]_vars => QuizInv'
  BY NextType, DeviceStep, ReqInvStep, CloseStep, OrderStep DEF QuizInv
<1>. QED BY <1>1, <1>2, PTL DEF Spec

\* A result is on the fiche once, of a completed attempt only.
THEOREM ResultSavedOnce == Spec => []SavedOnce
<1>1. QuizInv => SavedOnce
  <2>. SUFFICES ASSUME QuizInv, NEW a \in Attempt
                PROVE  saved[a] <= 1
                       /\ (saved[a] = 1 => att[a].status = "completed")
    BY DEF SavedOnce
  <2>1. CASE att[a].status = "completed"
    <3>1. saved[a] \in {0, 1}
      BY <2>1 DEF QuizInv, CloseInv, ResultAccounted
    <3>. QED BY <2>1, <3>1
  <2>2. CASE att[a].status # "completed"
    <3>1. saved[a] = 0
      BY <2>2 DEF QuizInv, CloseInv
    <3>. QED BY <3>1
  <2>. QED BY <2>1, <2>2
<1>. QED BY <1>1, QuizInvariant, PTL

\* A completed attempt is saved, being saved by one request, or lost to a
\* failure of that request.
THEOREM ResultsAccounted == Spec => []ResultAccounted
<1>1. QuizInv => ResultAccounted
  BY DEF QuizInv, CloseInv
<1>. QED BY <1>1, QuizInvariant, PTL

\* No question is answered twice or passed over.
THEOREM AnswersInOrder == Spec => []AnsweredInOrder
<1>1. QuizInv => AnsweredInOrder
  BY DEF QuizInv
<1>. QED BY <1>1, QuizInvariant, PTL

\* A closed attempt never changes again, unless it was never started and the
\* TTL index purges it.
THEOREM ClosedForGood == Spec => ClosedIsFinal
<1>1. QuizInv /\ [Next]_vars =>
        [\A a \in Attempt : att[a].status \in Terminal =>
           \/ att'[a] = att[a]
           \/ att[a].purge /\ att'[a].status = "purged"]_vars
  BY ClosedStays DEF QuizInv
<1>. QED BY <1>1, QuizInvariant, PTL DEF Spec, ClosedIsFinal

\* Answers come from the one device that started the attempt.
THEOREM AnswersFromOneDevice == Spec => OneDevice
<1>1. ASSUME QuizInv, [Next]_vars, NEW a \in Attempt,
             att'[a].index > att[a].index
      PROVE  /\ att[a].device # NoDevice
             /\ \E r \in Req : /\ req[r].pc = "answer"
                               /\ req[r].a = a
                               /\ req[r].dev = att[a].device
  <2>0. att[a].index \in Nat /\ att \in [Attempt -> AttemptDoc]
    BY <1>1 DEF QuizInv, TypeOK, AttemptDoc
  <2>1. ASSUME NEW r \in Req, ReqStep(r)
        PROVE  req[r].pc = "answer" /\ req[r].a = a
    <3>a. PICK v \in ReqRec : \E e : Effect(r, req[r], att[req[r].a], v, e)
      BY <1>1, <2>1, RequestEffect DEF QuizInv
    <3>1. PICK e : Effect(r, req[r], att[req[r].a], v, e)
      BY <3>a
    <3>2. /\ att' = [att EXCEPT ![req[r].a] = e]
          /\ RequestWrites(req[r], att[req[r].a], e)
      BY <3>1 DEF Effect
    <3>. QED BY <1>1, <2>0, <3>2 DEF RequestWrites
  <2>2. CASE \E r \in Req : ReqStep(r)
    BY <1>1, <2>1, <2>2 DEF QuizInv, ReqInv
  <2>3. CASE (\E r \in Req : Arrival(r) \/ Abort(r)) \/ Crash
    BY <1>1, <2>0, <2>3 DEF Arrival, Open, Abort, Crash
  <2>4. CASE \/ \E b \in Attempt : AttemptStep(b)
             \/ \E s \in Staff : InviteCancel(s)
             \/ Update \/ Remove \/ UNCHANGED vars
    <3>1. OthersWrite(att[a], att'[a])
      BY <1>1, <2>4, OthersEffect DEF QuizInv
    <3>. QED BY <1>1, <2>0, <3>1 DEF OthersWrite
  <2>. QED BY <1>1, <2>2, <2>3, <2>4, StepKinds
<1>2. QuizInv /\ [Next]_vars =>
        [\A a \in Attempt : att'[a].index > att[a].index =>
           /\ att[a].device # NoDevice
           /\ \E r \in Req : /\ req[r].pc = "answer"
                             /\ req[r].a = a
                             /\ req[r].dev = att[a].device]_vars
  BY <1>1
<1>. QED BY <1>2, QuizInvariant, PTL DEF Spec, OneDevice

\* A started attempt is never purged.
THEOREM NeverPurgedOnceStarted == Spec => StartedNeverPurged
<1>1. ASSUME QuizInv, [Next]_vars, NEW a \in Attempt,
             att[a].device # NoDevice
      PROVE  att'[a].status # "purged"
  <2>1. att'[a].device = att[a].device
    BY <1>1, DeviceKept DEF QuizInv
  <2>2. DeviceInv'
    BY <1>1, DeviceStep DEF QuizInv
  <2>. QED BY <1>1, <2>1, <2>2 DEF DeviceInv
<1>2. QuizInv /\ [Next]_vars =>
        [\A a \in Attempt : att[a].device # NoDevice =>
           att'[a].status # "purged"]_vars
  BY <1>1
<1>. QED BY <1>2, QuizInvariant, PTL DEF Spec, StartedNeverPurged

-----------------------------------------------------------------------------
(* The score.                                                              *)

\* The request q, about to score or to close the attempt d whose answers come
\* from the revisions ns, got there by the last answer of the revision it
\* holds, unless time is over (late).
MayClose(q, d, late, ns) ==
    late \/ (q.rev \in ns /\ QCount[q.rev] <= d.index)

\* n is a score of d: the points of all the answers, unless time is over or
\* the questions were edited.
Scored(n, d, late, ns) ==
    /\ n <= d.points
    /\ late \/ (\E k, m \in ns : k # m) \/ n = d.points

ClosingInv ==
    \A r \in Req : LET q == req[r] IN
        /\ q.pc \in {"fresh", "close"} =>
              MayClose(q, att[q.a], overdue[q.a], revs[q.a])
        /\ q.pc = "close" => Scored(q.pts, att[q.a], overdue[q.a], revs[q.a])
ScoreInv ==
    /\ ClosingInv
    /\ \A a \in Attempt : att[a].status = "completed" =>
          Scored(att[a].score, att[a], overdue[a], revs[a])

\* What every step but an answer and a closing leaves of an attempt.
Settled(a) ==
    /\ att'[a].points = att[a].points /\ att'[a].index = att[a].index
    /\ att'[a].status = "completed" =>
          att[a].status = "completed" /\ att'[a].score = att[a].score
    /\ overdue[a] => overdue'[a]
    /\ revs'[a] = revs[a]

\* A request p goes on as q, when it is going to score or to close.
Continues(p, q) ==
    \/ q = p
    \/ q.pc = "fresh" /\ overdue[q.a]
    \/ /\ p.pc = "fresh" /\ q.pc = "close"
       /\ q.a = p.a /\ q.rev = p.rev /\ q.pts = att[q.a].points

LEMMA GotoClosing ==
    ASSUME NEW q \in ReqRec, NEW step \in {"fresh", "close"}
    PROVE  /\ Goto(q, step).pc = step /\ Goto(q, step).a = q.a
           /\ Goto(q, step).rev = q.rev /\ Goto(q, step).pts = q.pts
<1>1. NoReq \in ReqRec
  BY NoReqType
<1>. QED BY <1>1 DEF Goto, ReqRec

\* An attempt that is not written stays settled.
LEMMA SettledSame ==
    ASSUME NEW a \in Attempt, att'[a] = att[a], overdue'[a] = overdue[a],
           revs'[a] = revs[a]
    PROVE  Settled(a)
BY DEF Settled

LEMMA RequestSettles ==
    ASSUME TypeOK, NEW r \in Req,
           ReadQuiz(r) \/ Expire(r) \/ Start(r) \/ Lock(r) \/ ReadFresh(r)
           \/ Save(r)
    PROVE  \A a \in Attempt : Settled(a)
<1>. DEFINE q == req[r]
<1>0. /\ att \in [Attempt -> AttemptDoc] /\ q.a \in Attempt
      /\ att[q.a] \in AttemptDoc
  BY DEF TypeOK, ReqRec
<1>1. overdue' = overdue /\ revs' = revs
  BY DEF ReadQuiz, Expire, Start, Lock, ReadFresh, Save, history
<1>2. CASE Expire(r)
  <2>1. \/ att' = att
        \/ att' = [att EXCEPT ![q.a].status = "expired"]
    BY <1>2 DEF Expire
  <2>. QED BY <1>0, <1>1, <2>1 DEF Settled, AttemptDoc
<1>3. CASE Start(r)
  <2>1. \/ att' = att
        \/ att' = [att EXCEPT ![q.a].status = "in_progress",
                              ![q.a].device = q.dev, ![q.a].purge = FALSE]
    BY <1>3 DEF Start
  <2>2. CASE att' = att
    BY <1>1, <2>2, SettledSame
  <2>3. CASE att' # att
    <3>1. /\ att'[q.a].status = "in_progress"
          /\ att'[q.a].points = att[q.a].points
          /\ att'[q.a].index = att[q.a].index
      BY <1>0, <2>1, <2>3 DEF AttemptDoc
    <3>2. \A a \in Attempt \ {q.a} : att'[a] = att[a]
      BY <1>0, <2>1
    <3>. QED BY <1>1, <3>1, <3>2 DEF Settled
  <2>. QED BY <2>2, <2>3
<1>4. CASE ReadQuiz(r) \/ Lock(r) \/ ReadFresh(r) \/ Save(r)
  <2>1. att' = att
    BY <1>4 DEF ReadQuiz, Lock, ReadFresh, Save
  <2>. QED BY <1>1, <2>1, SettledSame
<1>. QED BY <1>2, <1>3, <1>4

LEMMA OthersSettle ==
    ASSUME TypeOK, \/ \E r \in Req : Arrival(r) \/ Abort(r)
                   \/ Crash
                   \/ \E b \in Attempt : AttemptStep(b)
                   \/ \E s \in Staff : InviteCancel(s)
                   \/ Update \/ Remove \/ UNCHANGED vars
    PROVE  \A a \in Attempt : Settled(a)
<1>0. att \in [Attempt -> AttemptDoc] /\ \A a \in Attempt : att[a] \in AttemptDoc
  BY DEF TypeOK
<1>1. CASE \/ \E r \in Req : Arrival(r) \/ Abort(r)
           \/ Crash \/ Update \/ Remove \/ UNCHANGED vars
  <2>1. att' = att /\ overdue' = overdue /\ revs' = revs
    BY <1>1 DEF Arrival, Open, Abort, Crash, Update, Remove, vars, history
  <2>. QED BY <2>1, SettledSame
<1>2. ASSUME NEW b \in Attempt, AttemptStep(b)
      PROVE  \A a \in Attempt : Settled(a)
  <2>1. revs' = revs /\ \A a \in Attempt : overdue[a] => overdue'[a]
    BY <1>2 DEF AttemptStep, Cancel, InvitationExpires, TimeIsUp, Purge,
                InviteCreate, history, TypeOK
  <2>2. \/ att' = att
        \/ att' = [att EXCEPT ![b].status = "cancelled"]
        \/ att' = [att EXCEPT ![b].status = "purged", ![b].purge = FALSE]
        \/ att' = [att EXCEPT ![b].status = "invited", ![b].purge = TRUE]
    BY <1>2 DEF AttemptStep, Cancel, InvitationExpires, TimeIsUp, Purge,
                InviteCreate
  <2>3. CASE att' = att
    BY <2>1, <2>3 DEF Settled
  <2>4. CASE att' # att
    <3>1. /\ att'[b].status # "completed"
          /\ att'[b].points = att[b].points
          /\ att'[b].index = att[b].index
      BY <1>0, <2>2, <2>4 DEF AttemptDoc
    <3>2. \A a \in Attempt \ {b} : att'[a] = att[a]
      BY <1>0, <2>2
    <3>. QED BY <2>1, <3>1, <3>2 DEF Settled
  <2>. QED BY <2>3, <2>4
<1>3. ASSUME NEW s \in Staff, InviteCancel(s)
      PROVE  \A a \in Attempt : Settled(a)
  <2>1. /\ overdue' = overdue /\ revs' = revs
        /\ \A a \in Attempt :
              att'[a] \in {att[a], [att[a] EXCEPT !.status = "cancelled"]}
    BY <1>3 DEF InviteCancel, history
  <2>. QED BY <1>0, <2>1 DEF Settled, AttemptDoc
<1>. QED BY <1>1, <1>2, <1>3

LEMMA RequestContinues ==
    ASSUME TypeOK, NEW r \in Req, ReqStep(r), ~Answer(r), NEW x \in Req,
           req'[x].pc \in {"fresh", "close"}
    PROVE  Continues(req[x], req'[x])
<1>. DEFINE q == req[r]
<1>0. /\ req \in [Req -> ReqRec] /\ q \in ReqRec /\ q.a \in Attempt
      /\ att[q.a] \in AttemptDoc /\ NoReq.pc = "idle"
  BY NoReqType DEF TypeOK, ReqRec
<1>1. PICK v : req' = [req EXCEPT ![r] = v]
  <2>1. PICK w \in ReqRec : \E e : Effect(r, q, att[q.a], w, e)
    BY RequestEffect
  <2>. QED BY <2>1 DEF Effect
<1>2. CASE x # r
  BY <1>0, <1>1, <1>2 DEF Continues
<1>3. CASE x = r
  <2>0. req'[x] = v
    BY <1>0, <1>1, <1>3
  <2>1. CASE ReadQuiz(r)
    <3>. DEFINE step == IF ~quiz.exists THEN "idle"
                        ELSE IF q.st = "invited" /\ stale[q.a] THEN "expire"
                        ELSE IF q.st = "in_progress" /\ overdue[q.a]
                             THEN "fresh"
                        ELSE Admitted(q.kind, q.st, q.own, q.dev)
                q2 == [q EXCEPT !.rev = quiz.rev]
    <3>1. \/ step \in {"idle", "expire", "start", "answer"}
          \/ step = "fresh" /\ overdue[q.a]
      BY AdmittedSteps
    <3>2. req'[x] = Goto(q2, step) /\ q2 \in ReqRec /\ q2.a = q.a
      BY <1>0, <1>3, <2>1 DEF ReadQuiz, TypeOK, ReqRec
    <3>3. step \in Steps
      BY <3>1 DEF Steps
    <3>. HIDE DEF step, q2
    <3>4. Goto(q2, step).pc = step
      BY <3>2, <3>3, GotoType
    <3>5. step = "fresh"
      BY <3>1, <3>2, <3>4
    <3>6. Goto(q2, "fresh").pc = "fresh" /\ Goto(q2, "fresh").a = q.a
      BY <3>2, GotoClosing
    <3>. QED BY <3>1, <3>2, <3>5, <3>6 DEF Continues
  <2>2. CASE Expire(r)
    <3>. DEFINE step == Admitted(q.kind, att[q.a].status, att[q.a].device, q.dev)
                q2 == [q EXCEPT !.st = att[q.a].status, !.idx = att[q.a].index,
                                !.own = att[q.a].device]
    <3>1. step \in {"start", "answer", "idle"} /\ step \in Steps
      BY AdmittedSteps DEF Steps
    <3>2. q2 \in ReqRec
      BY <1>0 DEF ReqRec, AttemptDoc
    <3>3. req'[x] = NoReq \/ req'[x] = Goto(q2, step)
      BY <1>0, <1>3, <2>2 DEF Expire, Idle
    <3>. HIDE DEF step, q2
    <3>4. Goto(q2, step).pc = step
      BY <3>1, <3>2, GotoType
    <3>. QED BY <1>0, <3>1, <3>3, <3>4
  <2>3. CASE Start(r) \/ Lock(r) \/ Save(r)
    <3>1. Goto(q, "lock").pc = "lock"
      BY <1>0, GotoType DEF Steps
    <3>2. req'[x] \in {NoReq, Goto(q, "lock")}
      BY <1>0, <1>3, <2>3 DEF Start, Lock, Save, Idle
    <3>. QED BY <1>0, <3>1, <3>2
  <2>4. CASE ReadFresh(r)
    <3>. DEFINE q2 == [q EXCEPT !.pts = att[q.a].points]
    <3>1. /\ q2 \in ReqRec /\ q2.a = q.a /\ q2.rev = q.rev
          /\ q2.pts = att[q.a].points
      BY <1>0 DEF ReqRec, AttemptDoc
    <3>2. req'[x] = Goto(q2, "close") /\ q.pc = "fresh"
      BY <1>0, <1>3, <2>4 DEF ReadFresh
    <3>. HIDE DEF q2
    <3>3. /\ Goto(q2, "close").pc = "close" /\ Goto(q2, "close").a = q.a
          /\ Goto(q2, "close").rev = q.rev
          /\ Goto(q2, "close").pts = att[q.a].points
      BY <3>1, GotoClosing
    <3>. QED BY <1>3, <3>2, <3>3 DEF Continues
  <2>5. CASE Close(r)
    <3>1. [q EXCEPT !.pts = 0] \in ReqRec
      BY <1>0 DEF ReqRec
    <3>2. Goto([q EXCEPT !.pts = 0], "save").pc = "save"
      BY <3>1, GotoType DEF Steps
    <3>3. req'[x] \in {NoReq, Goto([q EXCEPT !.pts = 0], "save")}
      BY <1>0, <1>3, <2>5 DEF Close, Idle
    <3>. QED BY <1>0, <3>2, <3>3
  <2>. QED BY <2>1, <2>2, <2>3, <2>4, <2>5 DEF ReqStep
<1>. QED BY <1>2, <1>3

\* What is known of an attempt that settles is still known after the step.
LEMMA SettledKeeps ==
    ASSUME TypeOK, ScoreInv, \A a \in Attempt : Settled(a),
           \A x \in Req : req'[x].pc \in {"fresh", "close"} =>
                Continues(req[x], req'[x]) /\ req'[x].a \in Attempt
    PROVE  ScoreInv'
<1>1. \A a \in Attempt : \A n :
         Scored(n, att[a], overdue[a], revs[a]) =>
            Scored(n, att'[a], overdue'[a], revs'[a])
  BY DEF Scored, Settled
<1>2. \A a \in Attempt : \A q :
         MayClose(q, att[a], overdue[a], revs[a]) =>
            MayClose(q, att'[a], overdue'[a], revs'[a])
  BY DEF MayClose, Settled
<1>3. ClosingInv'
  <2>. SUFFICES ASSUME NEW x \in Req, NEW q, q = req'[x],
                       q.pc \in {"fresh", "close"}
                PROVE  /\ MayClose(q, att'[q.a], overdue'[q.a], revs'[q.a])
                       /\ q.pc = "close" =>
                            Scored(q.pts, att'[q.a], overdue'[q.a], revs'[q.a])
    BY DEF ClosingInv
  <2>. DEFINE p == req[x]
  <2>0. q.a \in Attempt /\ Continues(p, q)
    OBVIOUS
  <2>1. /\ MayClose(q, att[q.a], overdue[q.a], revs[q.a])
        /\ q.pc = "close" => Scored(q.pts, att[q.a], overdue[q.a], revs[q.a])
    <3>1. CASE q = p
      BY <3>1 DEF ScoreInv, ClosingInv
    <3>2. CASE q.pc = "fresh" /\ overdue[q.a]
      BY <3>2 DEF MayClose
    <3>3. CASE /\ p.pc = "fresh" /\ q.pc = "close" /\ q.a = p.a
               /\ q.rev = p.rev /\ q.pts = att[q.a].points
      <4>1. MayClose(p, att[q.a], overdue[q.a], revs[q.a])
        BY <3>3 DEF ScoreInv, ClosingInv
      <4>2. att[q.a].points \in Nat
        BY <2>0 DEF TypeOK, AttemptDoc
      <4>. QED BY <3>3, <4>1, <4>2 DEF MayClose, Scored
    <3>. QED BY <2>0, <3>1, <3>2, <3>3 DEF Continues
  <2>. HIDE DEF p
  <2>. QED BY <1>1, <1>2, <2>0, <2>1
<1>4. ASSUME NEW a \in Attempt, att'[a].status = "completed"
      PROVE  Scored(att'[a].score, att'[a], overdue'[a], revs'[a])
  <2>1. att[a].status = "completed" /\ att'[a].score = att[a].score
    BY <1>4 DEF Settled
  <2>2. Scored(att[a].score, att[a], overdue[a], revs[a])
    BY <2>1 DEF ScoreInv
  <2>. QED BY <1>1, <2>1, <2>2
<1>. QED BY <1>3, <1>4 DEF ScoreInv

\* An answer that is stored: a request that is closing at that time holds
\* another revision, whose questions are all answered.
LEMMA AnswerStored ==
    ASSUME TypeOK, ScoreInv, NEW r \in Req, Answer(r), att' # att
    PROVE  ScoreInv'
<1>. DEFINE q == req[r]
            d == att[q.a]
            e == att'[q.a]
            step == IF q.idx + 1 < QCount[q.rev] THEN "idle" ELSE "fresh"
<1>0. /\ q \in ReqRec /\ q.a \in Attempt /\ q.rev \in 1..MaxRev
      /\ d \in AttemptDoc /\ d.points \in Nat /\ d.index \in Nat
      /\ QCount[q.rev] \in Nat /\ q.idx \in Nat
      /\ req \in [Req -> ReqRec] /\ att \in [Attempt -> AttemptDoc]
      /\ revs \in [Attempt -> SUBSET (1..MaxRev)]
  BY QuizAssumption DEF TypeOK, ReqRec, AttemptDoc
<1>1. /\ q.idx < QCount[q.rev] /\ d.status = "in_progress"
      /\ d.index = q.idx
      /\ revs' = [revs EXCEPT ![q.a] = @ \cup {q.rev}]
      /\ req' = [req EXCEPT ![r] = Goto(q, step)]
      /\ overdue' = overdue
  BY DEF Answer
<1>2. PICK n \in {0, 1} :
         att' = [att EXCEPT ![q.a] =
            [d EXCEPT !.index = d.index + 1, !.points = d.points + n]]
  BY DEF Answer
<1>3. /\ e.index = q.idx + 1 /\ e.points = d.points + n
      /\ e.status = "in_progress"
  BY <1>0, <1>1, <1>2 DEF AttemptDoc
<1>4. \A a \in Attempt \ {q.a} : att'[a] = att[a] /\ revs'[a] = revs[a]
  BY <1>0, <1>1, <1>2
<1>5. revs'[q.a] = revs[q.a] \cup {q.rev}
  BY <1>0, <1>1
<1>6. \A x \in Req \ {r} : req'[x] = req[x]
  BY <1>0, <1>1
<1>7. req'[r] = Goto(q, step)
  BY <1>0, <1>1
<1>. HIDE DEF e
<1>8. ClosingInv'
  <2>. SUFFICES ASSUME NEW x \in Req, NEW p, p = req'[x],
                       p.pc \in {"fresh", "close"}
                PROVE  /\ MayClose(p, att'[p.a], overdue'[p.a], revs'[p.a])
                       /\ p.pc = "close" =>
                            Scored(p.pts, att'[p.a], overdue'[p.a], revs'[p.a])
    BY DEF ClosingInv
  <2>1. CASE x = r
    <3>1. p = Goto(q, step) /\ step \in Steps
      BY <1>7, <2>1 DEF Steps
    <3>2. Goto(q, step).pc = step
      BY <1>0, <3>1, GotoType
    <3>3. step = "fresh" /\ QCount[q.rev] <= q.idx + 1
      BY <1>0, <3>1, <3>2
    <3>4. p.pc = "fresh" /\ p.a = q.a /\ p.rev = q.rev
      BY <1>0, <3>1, <3>3, GotoClosing
    <3>. QED BY <1>3, <1>5, <3>3, <3>4 DEF MayClose, e
  <2>2. CASE x # r
    <3>1. /\ p = req[x] /\ p \in ReqRec /\ p.a \in Attempt
          /\ p.rev \in 1..MaxRev /\ p.pts \in Nat
      BY <1>0, <1>6, <2>2 DEF ReqRec
    <3>2. /\ MayClose(p, att[p.a], overdue[p.a], revs[p.a])
          /\ p.pc = "close" => Scored(p.pts, att[p.a], overdue[p.a], revs[p.a])
      BY <3>1 DEF ScoreInv, ClosingInv
    <3>3. CASE p.a # q.a
      BY <1>1, <1>4, <3>1, <3>2, <3>3
    <3>4. CASE p.a = q.a
      <4>0. QCount[p.rev] \in Nat
        BY <3>1, QuizAssumption
      <4>1. p.pc = "close" => p.pts <= e.points
        BY <1>0, <1>3, <3>1, <3>2, <3>4 DEF Scored
      <4>2. CASE overdue[q.a]
        BY <1>1, <3>4, <4>1, <4>2 DEF MayClose, Scored, e
      <4>3. CASE ~overdue[q.a]
        <5>1. p.rev \in revs[q.a] /\ QCount[p.rev] <= q.idx
          BY <1>1, <3>2, <3>4, <4>3 DEF MayClose
        <5>2. p.rev # q.rev /\ QCount[p.rev] <= e.index
          BY <1>0, <1>1, <1>3, <4>0, <5>1
        <5>3. p.rev \in revs'[q.a] /\ q.rev \in revs'[q.a]
          BY <1>5, <5>1
        <5>4. \E k, m \in revs'[q.a] : k # m
          BY <5>2, <5>3
        <5>. QED BY <3>4, <4>1, <5>2, <5>3, <5>4 DEF MayClose, Scored, e
      <4>. QED BY <4>2, <4>3
    <3>. QED BY <3>3, <3>4
  <2>. QED BY <2>1, <2>2
<1>9. ASSUME NEW a \in Attempt, att'[a].status = "completed"
      PROVE  Scored(att'[a].score, att'[a], overdue'[a], revs'[a])
  <2>1. a # q.a
    BY <1>3, <1>9 DEF e
  <2>2. att'[a] = att[a] /\ revs'[a] = revs[a] /\ overdue' = overdue
    BY <1>1, <1>4, <2>1
  <2>3. Scored(att[a].score, att[a], overdue[a], revs[a])
    BY <1>9, <2>2 DEF ScoreInv
  <2>. QED BY <2>2, <2>3
<1>. QED BY <1>8, <1>9 DEF ScoreInv

LEMMA CloseScores ==
    ASSUME TypeOK, ScoreInv, NEW r \in Req, Close(r)
    PROVE  ScoreInv'
<1>. DEFINE q == req[r]
            d == att[q.a]
<1>0. /\ q \in ReqRec /\ q.a \in Attempt /\ d \in AttemptDoc
      /\ req \in [Req -> ReqRec] /\ att \in [Attempt -> AttemptDoc]
      /\ \A x \in Req : req[x].a \in Attempt
      /\ revs \in [Attempt -> SUBSET (1..MaxRev)]
  BY DEF TypeOK, ReqRec
<1>1. /\ q.pc = "close" /\ overdue' = overdue
      /\ Scored(q.pts, d, overdue[q.a], revs[q.a])
  BY DEF Close, ScoreInv, ClosingInv
<1>2. \A x \in Req : req'[x].pc \in {"fresh", "close"} => req'[x] = req[x]
  <2>1. \A x \in Req \ {r} : req'[x] = req[x]
    BY <1>0 DEF Close, Idle
  <2>2. req'[r].pc \in {"idle", "save"}
    <3>1. [q EXCEPT !.pts = 0] \in ReqRec
      BY <1>0 DEF ReqRec
    <3>2. Goto([q EXCEPT !.pts = 0], "save").pc = "save" /\ NoReq.pc = "idle"
      BY <3>1, GotoType, NoReqType DEF Steps
    <3>3. req'[r] \in {NoReq, Goto([q EXCEPT !.pts = 0], "save")}
      BY <1>0 DEF Close, Idle
    <3>. QED BY <3>2, <3>3
  <2>. QED BY <2>1, <2>2
<1>3. CASE d.status # "in_progress"
  <2>1. att' = att /\ revs' = revs
    BY <1>3 DEF Close
  <2>2. \A a \in Attempt : Settled(a)
    BY <1>1, <2>1, SettledSame
  <2>3. \A x \in Req : req'[x].pc \in {"fresh", "close"} =>
           Continues(req[x], req'[x]) /\ req'[x].a \in Attempt
    BY <1>0, <1>2 DEF Continues
  <2>. QED BY <2>2, <2>3, SettledKeeps
<1>4. CASE d.status = "in_progress"
  <2>1. /\ att' = [att EXCEPT ![q.a] =
                      [d EXCEPT !.status = "completed", !.score = q.pts]]
        /\ revs' = [revs EXCEPT ![q.a] = @ \cup {q.rev}]
    BY <1>4 DEF Close
  <2>2. /\ att'[q.a].points = d.points /\ att'[q.a].index = d.index
        /\ att'[q.a].score = q.pts
        /\ \A a \in Attempt \ {q.a} : att'[a] = att[a]
    BY <1>0, <2>1 DEF AttemptDoc
  <2>3. \A a \in Attempt : /\ revs[a] \subseteq revs'[a]
                           /\ att'[a].points = att[a].points
                           /\ att'[a].index = att[a].index
    BY <1>0, <2>1, <2>2
  <2>4. \A a \in Attempt : \A n :
           Scored(n, att[a], overdue[a], revs[a]) =>
              Scored(n, att'[a], overdue'[a], revs'[a])
    BY <1>1, <2>3 DEF Scored
  <2>5. \A a \in Attempt : \A p :
           MayClose(p, att[a], overdue[a], revs[a]) =>
              MayClose(p, att'[a], overdue'[a], revs'[a])
    BY <1>1, <2>3 DEF MayClose
  <2>6. ClosingInv'
    <3>. SUFFICES ASSUME NEW x \in Req, NEW p, p = req'[x],
                         p.pc \in {"fresh", "close"}
                  PROVE  /\ MayClose(p, att'[p.a], overdue'[p.a], revs'[p.a])
                         /\ p.pc = "close" =>
                              Scored(p.pts, att'[p.a], overdue'[p.a], revs'[p.a])
      BY DEF ClosingInv
    <3>1. p = req[x] /\ p.a \in Attempt
      BY <1>0, <1>2
    <3>2. /\ MayClose(p, att[p.a], overdue[p.a], revs[p.a])
          /\ p.pc = "close" => Scored(p.pts, att[p.a], overdue[p.a], revs[p.a])
      BY <3>1 DEF ScoreInv, ClosingInv
    <3>. QED BY <2>4, <2>5, <3>1, <3>2
  <2>7. ASSUME NEW a \in Attempt, att'[a].status = "completed"
        PROVE  Scored(att'[a].score, att'[a], overdue'[a], revs'[a])
    <3>1. CASE a = q.a
      BY <1>1, <2>2, <2>4, <3>1
    <3>2. CASE a # q.a
      <4>1. att'[a] = att[a]
        BY <2>2, <3>2
      <4>2. Scored(att[a].score, att[a], overdue[a], revs[a])
        BY <2>7, <4>1 DEF ScoreInv
      <4>. QED BY <2>4, <4>1, <4>2
    <3>. QED BY <3>1, <3>2
  <2>. QED BY <2>6, <2>7 DEF ScoreInv
<1>. QED BY <1>3, <1>4

LEMMA ScoreStep ==
    ASSUME TypeOK, ScoreInv, [Next]_vars
    PROVE  ScoreInv'
<1>0. /\ req \in [Req -> ReqRec] /\ NoReq.pc = "idle"
      /\ \A x \in Req : req'[x].a \in Attempt
  <2>1. req' \in [Req -> ReqRec]
    BY NextType DEF TypeOK
  <2>. QED BY <2>1, NoReqType DEF TypeOK, ReqRec
<1>1. ASSUME NEW r \in Req, Answer(r) PROVE ScoreInv'
  <2>1. CASE att' # att
    BY <1>1, <2>1, AnswerStored
  <2>2. CASE att' = att
    <3>1. /\ req' = [req EXCEPT ![r] = NoReq]
          /\ overdue' = overdue /\ revs' = revs
      <4>1. /\ req[r].a \in Attempt /\ att \in [Attempt -> AttemptDoc]
            /\ att[req[r].a] \in AttemptDoc /\ att[req[r].a].index \in Nat
        BY DEF TypeOK, ReqRec, AttemptDoc
      <4>2. \A n \in {0, 1} : att' # [att EXCEPT ![req[r].a].index = @ + 1,
                                                 ![req[r].a].points = @ + n]
        BY <2>2, <4>1 DEF AttemptDoc
      <4>. QED BY <1>1, <4>2 DEF Answer, Idle
    <3>2. \A a \in Attempt : Settled(a)
      BY <2>2, <3>1, SettledSame
    <3>3. \A x \in Req : req'[x].pc \in {"fresh", "close"} =>
             Continues(req[x], req'[x])
      BY <1>0, <3>1 DEF Continues
    <3>. QED BY <1>0, <3>2, <3>3, SettledKeeps
  <2>. QED BY <2>1, <2>2
<1>2. ASSUME NEW r \in Req, ReqStep(r), ~Answer(r), ~Close(r) PROVE ScoreInv'
  <2>1. \A a \in Attempt : Settled(a)
    BY <1>2, RequestSettles DEF ReqStep
  <2>2. \A x \in Req : req'[x].pc \in {"fresh", "close"} =>
           Continues(req[x], req'[x])
    BY <1>2, RequestContinues
  <2>. QED BY <1>0, <2>1, <2>2, SettledKeeps
<1>3. CASE (\E r \in Req : Arrival(r) \/ Abort(r)) \/ Crash
  <2>1. \A a \in Attempt : Settled(a)
    BY <1>3, OthersSettle
  <2>2. \A x \in Req : req'[x].pc \in {"fresh", "close"} =>
           req'[x] = req[x]
    BY <1>0, <1>3 DEF Arrival, Open, Abort, Crash, Idle
  <2>. QED BY <1>0, <2>1, <2>2, SettledKeeps DEF Continues
<1>4. CASE \/ \E b \in Attempt : AttemptStep(b)
           \/ \E s \in Staff : InviteCancel(s)
           \/ Update \/ Remove \/ UNCHANGED vars
  <2>1. \A a \in Attempt : Settled(a)
    BY <1>4, OthersSettle
  <2>2. req' = req
    BY <1>4, OthersEffect
  <2>. QED BY <1>0, <2>1, <2>2, SettledKeeps DEF Continues
<1>. QED BY <1>1, <1>2, <1>3, <1>4, StepKinds, CloseScores

\* An attempt is scored on what its stored answers are worth, and on all of
\* them when it was closed in time and its questions were not edited.
THEOREM ScoredFromAnswers == Spec => []ScoreFromAnswers
<1>1. Init => TypeOK /\ ScoreInv
  <2>. SUFFICES ASSUME Init PROVE ScoreInv
    BY InitType
  <2>1. /\ \A a \in Attempt : att[a].status # "completed"
        /\ \A r \in Req : req[r].pc = "idle"
    BY NoReqType DEF Init, NoAttempt
  <2>. QED BY <2>1 DEF ScoreInv, ClosingInv
<1>2. TypeOK /\ ScoreInv /\ [Next]_vars => TypeOK' /\ ScoreInv'
  BY NextType, ScoreStep
<1>3. ScoreInv => ScoreFromAnswers
  BY DEF ScoreInv, Scored, ScoreFromAnswers
<1>. QED BY <1>1, <1>2, <1>3, PTL DEF Spec

-----------------------------------------------------------------------------
(* The questions of a started attempt: why they can change at all.         *)

\* The second command of a start is reached: the lock is not lost to a
\* failure of it, nor to a restart of the server before it.
LockReached ==
    [][\A r \in Req : req[r].pc = "lock" => Lock(r) \/ req'[r] = req[r]]_vars

\* Nobody edits or deletes the questionnaire between the two commands.
NoEditBeforeLock ==
    [][(\E r \in Req : req[r].pc = "lock") => ~Update /\ ~Remove]_vars

\* Once an attempt has been started the questionnaire is locked, or gone, or
\* the request that started an attempt is about to lock it.
FrozenInv ==
    (\E a \in Attempt : att[a].device # NoDevice) =>
        \/ quiz.locked
        \/ ~quiz.exists
        \/ \E r \in Req : req[r].pc = "lock"

\* The steps that touch the questionnaire.
LEMMA QuizWrites ==
    ASSUME [Next]_vars
    PROVE  \/ quiz' = quiz
           \/ Update \/ Remove
           \/ \E r \in Req : Lock(r)
<1>1. ASSUME NEW r \in Req, ReqStep(r), ~Lock(r) PROVE quiz' = quiz
  <2>1. ReadQuiz(r) \/ Expire(r) => quiz' = quiz
    BY DEF ReadQuiz, Expire
  <2>2. Start(r) \/ Answer(r) => quiz' = quiz
    BY DEF Start, Answer
  <2>3. ReadFresh(r) \/ Close(r) \/ Save(r) => quiz' = quiz
    BY DEF ReadFresh, Close, Save
  <2>. QED BY <1>1, <2>1, <2>2, <2>3 DEF ReqStep
<1>2. CASE (\E r \in Req : Arrival(r) \/ Abort(r)) \/ Crash
  BY <1>2 DEF Arrival, Open, Abort, Crash
<1>3. CASE \E a \in Attempt : AttemptStep(a)
  BY <1>3 DEF AttemptStep, Cancel, InvitationExpires, TimeIsUp, Purge,
              InviteCreate
<1>4. CASE (\E s \in Staff : InviteCancel(s)) \/ UNCHANGED vars
  BY <1>4 DEF InviteCancel, vars
<1>. QED BY <1>1, <1>2, <1>3, <1>4, StepKinds

\* Only the request that starts an attempt gives it a device, and its next
\* command is the lock.
LEMMA DeviceFromStart ==
    ASSUME TypeOK, [Next]_vars, NEW a \in Attempt,
           att[a].device = NoDevice, att'[a].device # NoDevice
    PROVE  \E r \in Req : req'[r].pc = "lock" /\ quiz' = quiz
<1>1. ASSUME NEW r \in Req, ReqStep(r)
      PROVE  \E x \in Req : req'[x].pc = "lock" /\ quiz' = quiz
  <2>. DEFINE q == req[r]
  <2>0. /\ q \in ReqRec /\ q.a \in Attempt /\ req \in [Req -> ReqRec]
        /\ att \in [Attempt -> AttemptDoc]
    BY DEF TypeOK, ReqRec
  <2>a. PICK v \in ReqRec : \E e : Effect(r, q, att[q.a], v, e)
    BY <1>1, RequestEffect
  <2>b. PICK e : Effect(r, q, att[q.a], v, e)
    BY <2>a
  <2>1. att' = [att EXCEPT ![q.a] = e] /\ RequestWrites(q, att[q.a], e)
    BY <2>b DEF Effect
  <2>2. a = q.a /\ e.device # att[q.a].device
    BY <2>0, <2>1
  <2>3. q.pc = "start" /\ att[q.a].status = "invited"
    BY <2>1, <2>2 DEF RequestWrites
  <2>4. Start(r)
    BY <1>1, <2>3 DEF ReqStep, ReadQuiz, Expire, Lock, Answer, ReadFresh,
                      Close, Save
  <2>5. req' = [req EXCEPT ![r] = Goto(q, "lock")] /\ quiz' = quiz
    BY <2>3, <2>4 DEF Start
  <2>6. Goto(q, "lock").pc = "lock"
    BY <2>0, GotoType DEF Steps
  <2>. QED BY <2>0, <2>5, <2>6
<1>2. CASE (\E r \in Req : Arrival(r) \/ Abort(r)) \/ Crash
  <2>1. att' = att
    BY <1>2 DEF Arrival, Open, Abort, Crash
  <2>. QED BY <2>1
<1>3. CASE \/ \E b \in Attempt : AttemptStep(b)
           \/ \E s \in Staff : InviteCancel(s)
           \/ Update \/ Remove \/ UNCHANGED vars
  <2>1. OthersWrite(att[a], att'[a])
    BY <1>3, OthersEffect
  <2>. QED BY <2>1 DEF OthersWrite
<1>. QED BY <1>1, <1>2, <1>3, StepKinds

\* Under the two conditions the lock is never missed, and no question moves.
LEMMA FrozenStep ==
    ASSUME TypeOK, DeviceInv, FrozenInv, [Next]_vars,
           \A r \in Req : req[r].pc = "lock" => Lock(r) \/ req'[r] = req[r],
           (\E r \in Req : req[r].pc = "lock") => ~Update /\ ~Remove
    PROVE  /\ FrozenInv'
           /\ (\E a \in Attempt : att[a].device # NoDevice) =>
                 quiz'.rev = quiz.rev /\ quiz'.exists = quiz.exists
<1>0. quiz \in [rev : 1..MaxRev, locked : BOOLEAN, exists : BOOLEAN]
  BY DEF TypeOK
<1>1. ASSUME NEW r \in Req, Lock(r)
      PROVE  /\ quiz'.rev = quiz.rev /\ quiz'.exists = quiz.exists
             /\ quiz'.locked = quiz.exists
  BY <1>0, <1>1 DEF Lock
<1>2. CASE \A a \in Attempt : att[a].device = NoDevice
  <2>1. ASSUME NEW a \in Attempt, att'[a].device # NoDevice
        PROVE  \E r \in Req : req'[r].pc = "lock"
    BY <1>2, <2>1, DeviceFromStart
  <2>. QED BY <1>2, <2>1 DEF FrozenInv
<1>3. CASE \E a \in Attempt : att[a].device # NoDevice
  <2>1. CASE \E r \in Req : Lock(r)
    BY <1>0, <1>1, <2>1 DEF FrozenInv
  <2>2. CASE ~\E r \in Req : Lock(r)
    <3>1. \A r \in Req : req[r].pc = "lock" => req'[r] = req[r]
      BY <2>2
    <3>2. quiz.locked \/ ~quiz.exists \/ \E r \in Req : req[r].pc = "lock"
      BY <1>3 DEF FrozenInv
    <3>3. ~Update /\ ~Remove
      BY <3>2 DEF Update, Remove
    <3>4. quiz' = quiz
      BY <2>2, <3>3, QuizWrites
    <3>. QED BY <3>1, <3>2, <3>4 DEF FrozenInv
  <2>. QED BY <2>1, <2>2
<1>. QED BY <1>2, <1>3

\* What the questionnaire's header says of itself, "1er passage reel : le
\* questionnaire n'est plus modifiable", holds when the two commands of a
\* start count as one: when the second is neither lost nor overtaken by an
\* edit. So the gap between them is the only way in which the questions of a
\* started attempt can change.
THEOREM FrozenOnceLocked ==
    Spec /\ LockReached /\ NoEditBeforeLock => QuestionsFrozen
<1>. DEFINE Reached ==
              \A r \in Req : req[r].pc = "lock" => Lock(r) \/ req'[r] = req[r]
            NoEdit == (\E r \in Req : req[r].pc = "lock") => ~Update /\ ~Remove
            Kept == (\E a \in Attempt : att[a].device # NoDevice) =>
                       quiz'.rev = quiz.rev /\ quiz'.exists = quiz.exists
            FInv == QuizInv /\ FrozenInv
<1>1. Init => FrozenInv
  BY DEF Init, NoAttempt, FrozenInv
<1>2. QuizInv /\ FrozenInv /\ [Next]_vars /\ [Reached]_vars /\ [NoEdit]_vars
      => FrozenInv' /\ [Kept]_vars
  <2>1. SUFFICES ASSUME QuizInv, FrozenInv, [Next]_vars, [Reached]_vars,
                        [NoEdit]_vars
                 PROVE  FrozenInv' /\ [Kept]_vars
    OBVIOUS
  <2>2. CASE UNCHANGED vars
    <3>1. att' = att /\ req' = req /\ quiz' = quiz
      BY <2>2 DEF vars
    <3>. QED BY <2>1, <2>2, <3>1 DEF FrozenInv
  <2>3. CASE Reached /\ NoEdit
    BY <2>1, <2>3, FrozenStep DEF QuizInv
  <2>. QED BY <2>1, <2>2, <2>3
<1>3. QED
  BY <1>1, <1>2, QuizInvariant, PTL
     DEF Spec, LockReached, NoEditBeforeLock, QuestionsFrozen
-----------------------------------------------------------------------------
(* One open invitation: inviting cancels the open ones in one command and  *)
(* creates the new one in the next.                                        *)

\* The candidate holds one link of this questionnaire that can be started.
OneInvitation ==
    \A a, b \in Attempt :
        att[a].status = "invited" /\ att[b].status = "invited" => a = b

\* No two staff members are between the two commands at the same time.
OneInviter ==
    \A s, t \in Staff :
        inviting[s] = "create" /\ inviting[t] = "create" => s = t

\* Between the two commands no invitation is open.
InvitingInv ==
    (\E s \in Staff : inviting[s] = "create") =>
        \A a \in Attempt : att[a].status # "invited"

LEMMA InvitationStep ==
    ASSUME TypeOK, OneInvitation, InvitingInv, OneInviter, OneInviter',
           [Next]_vars
    PROVE  OneInvitation' /\ InvitingInv'
<1>0. /\ att \in [Attempt -> AttemptDoc]
      /\ inviting \in [Staff -> {"idle", "create"}]
  BY DEF TypeOK
<1>1. ASSUME \A a \in Attempt : att'[a].status = "invited" =>
                                   att[a].status = "invited",
             \A s \in Staff : inviting'[s] = "create" =>
                                 inviting[s] = "create"
      PROVE  OneInvitation' /\ InvitingInv'
  BY <1>1 DEF OneInvitation, InvitingInv
<1>2. ASSUME NEW r \in Req, ReqStep(r)
      PROVE  OneInvitation' /\ InvitingInv'
  <2>a. PICK v \in ReqRec : \E e : Effect(r, req[r], att[req[r].a], v, e)
    BY <1>2, RequestEffect
  <2>b. PICK e : Effect(r, req[r], att[req[r].a], v, e)
    BY <2>a
  <2>1. /\ att' = [att EXCEPT ![req[r].a] = e] /\ req[r].a \in Attempt
        /\ RequestWrites(req[r], att[req[r].a], e)
    BY <2>b DEF Effect, TypeOK, ReqRec
  <2>2. e.status = "invited" => att[req[r].a].status = "invited"
    BY <2>1 DEF RequestWrites
  <2>3. inviting' = inviting
    BY <1>2 DEF ReqStep, ReadQuiz, Expire, Start, Lock, Answer, ReadFresh,
                Close, Save
  <2>. QED BY <1>0, <1>1, <2>1, <2>2, <2>3
<1>3. CASE (\E r \in Req : Arrival(r) \/ Abort(r)) \/ Crash
  <2>1. /\ att' = att
        /\ \A s \in Staff : inviting'[s] = "create" => inviting[s] = "create"
    BY <1>3 DEF Arrival, Open, Abort, Crash
  <2>. QED BY <1>1, <2>1
<1>4. ASSUME NEW a \in Attempt, NEW s \in Staff, InviteCreate(s, a)
      PROVE  OneInvitation' /\ InvitingInv'
  <2>1. /\ inviting[s] = "create"
        /\ inviting' = [inviting EXCEPT ![s] = "idle"]
        /\ att' = [att EXCEPT ![a].status = "invited", ![a].purge = TRUE]
    BY <1>4 DEF InviteCreate
  <2>2. \A b \in Attempt \ {a} : att'[b] = att[b]
    BY <1>0, <2>1
  <2>3. \A b \in Attempt : att'[b].status = "invited" => b = a
    BY <2>1, <2>2 DEF InvitingInv
  <2>4. \A t \in Staff : inviting'[t] # "create"
    BY <1>0, <2>1 DEF OneInviter
  <2>. QED BY <2>3, <2>4 DEF OneInvitation, InvitingInv
<1>5. ASSUME NEW s \in Staff, InviteCancel(s)
      PROVE  OneInvitation' /\ InvitingInv'
  <2>1. \A a \in Attempt : att'[a].status # "invited"
    <3>. TAKE a \in Attempt
    <3>1. att[a] \in AttemptDoc
      BY <1>0
    <3>2. CASE att[a].status = "invited"
      <4>1. att'[a] = [att[a] EXCEPT !.status = "cancelled"]
        BY <1>5, <3>2 DEF InviteCancel
      <4>. QED BY <3>1, <4>1 DEF AttemptDoc
    <3>3. CASE att[a].status # "invited"
      BY <1>5, <3>3 DEF InviteCancel
    <3>. QED BY <3>2, <3>3
  <2>. QED BY <2>1 DEF OneInvitation, InvitingInv
<1>6. ASSUME NEW a \in Attempt, AttemptStep(a),
             ~\E s \in Staff : InviteCreate(s, a)
      PROVE  OneInvitation' /\ InvitingInv'
  <2>1. inviting' = inviting
    BY <1>6 DEF AttemptStep, Cancel, InvitationExpires, TimeIsUp, Purge
  <2>2. \A b \in Attempt : att'[b].status = "invited" =>
                              att[b].status = "invited"
    <3>1. CASE Cancel(a)
      BY <1>0, <3>1 DEF Cancel, AttemptDoc
    <3>2. CASE InvitationExpires(a) \/ TimeIsUp(a)
      BY <3>2 DEF InvitationExpires, TimeIsUp
    <3>3. CASE Purge(a)
      BY <1>0, <3>3 DEF Purge, AttemptDoc
    <3>. QED BY <1>6, <3>1, <3>2, <3>3 DEF AttemptStep
  <2>. QED BY <1>1, <2>1, <2>2
<1>7. CASE Update \/ Remove \/ UNCHANGED vars
  <2>1. att' = att /\ inviting' = inviting
    BY <1>7 DEF Update, Remove, vars
  <2>. QED BY <1>1, <2>1
<1>. QED BY <1>2, <1>3, <1>4, <1>5, <1>6, <1>7 DEF Next

\* As long as no two staff members invite at the same time the candidate has
\* one link at most that can be started, whatever fails between cancelling
\* the open links and creating the new one. Two invitations that overlap can
\* leave two: the create of each comes after the cancel of both.
THEOREM OneLinkAtATime == Spec /\ []OneInviter => []OneInvitation
<1>1. Init => OneInvitation /\ InvitingInv
  BY DEF Init, NoAttempt, OneInvitation, InvitingInv
<1>2. /\ TypeOK /\ OneInviter /\ OneInviter'
      /\ OneInvitation /\ InvitingInv /\ [Next]_vars
      => OneInvitation' /\ InvitingInv'
  BY InvitationStep
<1>3. Init => TypeOK
  BY InitType
<1>4. TypeOK /\ [Next]_vars => TypeOK'
  BY NextType
<1>. QED BY <1>1, <1>2, <1>3, <1>4, PTL DEF Spec
=============================================================================
