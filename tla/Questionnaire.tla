--------------------------- MODULE Questionnaire ---------------------------
(***************************************************************************)
(* One internal questionnaire and the passes ("tentatives") one candidate  *)
(* makes of it: the invitation links, the device that owns a started pass, *)
(* the answers, the server-side clock applied lazily when somebody looks,  *)
(* the score, and its copy on the candidate's record (the "fiche").        *)
(*                                                                         *)
(* An HTTP request reads the attempt, reads the questionnaire, and decides *)
(* on those copies; every write is one conditional command of MongoDB.     *)
(* Requests of the candidate's tabs and of the staff interleave freely.    *)
(***************************************************************************)
EXTENDS Naturals

CONSTANTS
    Attempt,        \* attempts that can be created
    Device,         \* browsers (device cookies) that open a link
    NoDevice,
    Req,            \* requests served at the same time
    Staff,          \* staff members who invite
    MaxRev,         \* revisions of the questions, numbered from 1
    QCount,         \* QCount[n]: number of questions of revision n
    MaxFaults       \* failures in one behaviour: a failed command, a restart

ASSUME QuizAssumption ==
    /\ Attempt # {}
    /\ NoDevice \notin Device
    /\ MaxRev \in Nat \ {0}
    /\ QCount \in [1..MaxRev -> Nat \ {0}]
    /\ MaxFaults \in Nat

VARIABLES
    quiz,           \* [rev, locked, exists]: the questionnaire document
    att,            \* att[a]: the attempt document
    stale,          \* stale[a]: expires_at of the invitation has passed
    overdue,        \* overdue[a]: deadline and grace have passed
    req,            \* req[r]: what the request r holds in memory
    inviting,       \* inviting[s]: step of the invitation made by s
    faults

\* History.
VARIABLES
    saved,          \* saved[a]: times the result reached the fiche
    lost,           \* attempts whose result a failure kept from the fiche
    given,          \* given[a]: positions of the questions answered
    revs            \* revs[a]: revisions the answers and the score came from

history == <<saved, lost, given, revs>>
vars == <<quiz, att, stale, overdue, req, inviting, faults, history>>

NoAttempt == [status |-> "none", device |-> NoDevice, index |-> 0,
              points |-> 0, score |-> 0, purge |-> FALSE]
AttemptDoc == [status : {"none", "invited", "in_progress", "completed",
                         "expired", "cancelled", "purged"},
               device : Device \cup {NoDevice}, index : Nat, points : Nat,
               score : Nat, purge : BOOLEAN]
Terminal == {"completed", "expired", "cancelled"}

\* "look": getState, visibility, and getAttemptDetail of the staff.
Kind == {"look", "start", "answer"}
Steps == {"idle", "quiz", "expire", "start", "lock", "answer", "fresh",
          "close", "save"}

\* a, dev, kind: of the call. st, idx, own, rev: copies of the attempt's
\* status, index and device and of the revision. pts: what finalize scored.
NoReq == [pc |-> "idle", kind |-> "look", a |-> CHOOSE a \in Attempt : TRUE,
          dev |-> NoDevice, st |-> "none", idx |-> 0, own |-> NoDevice,
          rev |-> 1, pts |-> 0]
ReqRec == [pc : Steps, kind : Kind, a : Attempt, dev : Device \cup {NoDevice},
           st : {"none", "invited", "in_progress", "completed", "expired",
                 "cancelled", "purged"},
           idx : Nat, own : Device \cup {NoDevice}, rev : 1..MaxRev, pts : Nat]

\* The request goes on to its next command, with what it still needs.
Goto(q, step) ==
    IF step = "idle" THEN NoReq
    ELSE [NoReq EXCEPT !.pc = step, !.a = q.a, !.pts = q.pts,
            !.rev = IF step \in {"lock", "start", "save"} THEN 1 ELSE q.rev,
            !.kind = IF step = "expire" THEN q.kind ELSE "look",
            !.dev = IF step \in {"expire", "start", "answer"}
                    THEN q.dev ELSE NoDevice,
            !.idx = IF step = "answer" THEN q.idx ELSE 0]
Idle(r) == req' = [req EXCEPT ![r] = NoReq]

Init ==
    /\ quiz = [rev |-> 1, locked |-> FALSE, exists |-> TRUE]
    /\ att = [a \in Attempt |-> NoAttempt]
    /\ stale = [a \in Attempt |-> FALSE]
    /\ overdue = [a \in Attempt |-> FALSE]
    /\ req = [r \in Req |-> NoReq]
    /\ inviting = [s \in Staff |-> "idle"]
    /\ faults = 0
    /\ saved = [a \in Attempt |-> 0]
    /\ lost = {}
    /\ given = [a \in Attempt |-> {}]
    /\ revs = [a \in Attempt |-> {}]

-----------------------------------------------------------------------------
(* Opening a link.                                                         *)

\* findAttemptByTokenHash (findAttemptById for the staff).
Open(r, a, kind, dev) ==
    /\ req[r].pc = "idle"
    /\ att[a].status \notin {"none", "purged"}
    /\ req' = [req EXCEPT ![r] =
                 [pc |-> "quiz", kind |-> kind, a |-> a, dev |-> dev,
                  st |-> att[a].status, idx |-> att[a].index,
                  own |-> att[a].device, rev |-> 1, pts |-> 0]]
    /\ UNCHANGED <<quiz, att, stale, overdue, inviting, faults, history>>

\* Mutant: the device of the caller is not compared.
AdmittedAnyDevice(kind, st, own, dev) ==
    IF kind = "start" /\ st = "invited" THEN "start"
    ELSE IF kind = "answer" /\ st = "in_progress" THEN "answer"
    ELSE "idle"

\* What open() and the handler decide on the copies: the device that owns
\* the attempt goes on, to the one write its handler makes.
Admitted(kind, st, own, dev) ==
    IF kind = "start" /\ st = "invited" THEN "start"
    ELSE IF kind = "answer" /\ st = "in_progress" /\ own = dev THEN "answer"
    ELSE "idle"

\* The questionnaire is read (404 when it is gone), then applyExpiry looks at
\* the copy of the attempt and at the clock.
ReadQuiz(r) ==
    LET q == req[r] IN
    /\ q.pc = "quiz"
    /\ req' = [req EXCEPT ![r] = Goto([q EXCEPT !.rev = quiz.rev],
            IF ~quiz.exists THEN "idle"
            ELSE IF q.st = "invited" /\ stale[q.a] THEN "expire"
            ELSE IF q.st = "in_progress" /\ overdue[q.a] THEN "fresh"
            ELSE Admitted(q.kind, q.st, q.own, q.dev))]
    /\ UNCHANGED <<quiz, att, stale, overdue, inviting, faults, history>>

\* An invitation that was not started in time expires; if it was started or
\* cancelled meanwhile the handler goes on with a new copy.
Expire(r) ==
    LET q == req[r] IN
    /\ q.pc = "expire"
    /\ \/ /\ att[q.a].status = "invited"
          /\ att' = [att EXCEPT ![q.a].status = "expired"]
          /\ Idle(r)
       \/ /\ att[q.a].status # "invited"
          /\ LET now == att[q.a] IN
             req' = [req EXCEPT ![r] =
                       Goto([q EXCEPT !.st = now.status, !.idx = now.index,
                                      !.own = now.device],
                            Admitted(q.kind, now.status, now.device, q.dev))]
          /\ UNCHANGED att
    /\ UNCHANGED <<quiz, stale, overdue, inviting, faults, history>>

-----------------------------------------------------------------------------
(* Starting and answering.                                                 *)

\* Mutant: the invitation stays purgeable once started.
StartPurgeable(r) ==
    LET q == req[r] IN
    /\ q.pc = "start"
    /\ IF att[q.a].status = "invited"
       THEN /\ att' = [att EXCEPT ![q.a].status = "in_progress",
                                  ![q.a].device = q.dev]
            /\ req' = [req EXCEPT ![r] = Goto(q, "lock")]
       ELSE Idle(r) /\ UNCHANGED att
    /\ UNCHANGED <<quiz, stale, overdue, inviting, faults, history>>

\* invited -> in_progress, the device and the end of the purge, at once.
Start(r) ==
    LET q == req[r] IN
    /\ q.pc = "start"
    /\ IF att[q.a].status = "invited"
       THEN /\ att' = [att EXCEPT ![q.a].status = "in_progress",
                                  ![q.a].device = q.dev,
                                  ![q.a].purge = FALSE]
            /\ req' = [req EXCEPT ![r] = Goto(q, "lock")]
       ELSE Idle(r) /\ UNCHANGED att
    /\ UNCHANGED <<quiz, stale, overdue, inviting, faults, history>>

\* The questionnaire is locked in a command of its own.
Lock(r) ==
    /\ req[r].pc = "lock"
    /\ quiz' = [quiz EXCEPT !.locked = quiz.exists]
    /\ Idle(r)
    /\ UNCHANGED <<att, stale, overdue, inviting, faults, history>>

\* Mutant: the push does not filter on the status.
AnswerBlind(r) ==
    LET q == req[r] IN
    /\ q.pc = "answer"
    /\ IF q.idx < QCount[q.rev] /\ att[q.a].index = q.idx
       THEN /\ \E p \in {0, 1} :
                 att' = [att EXCEPT ![q.a].index = @ + 1, ![q.a].points = @ + p]
            /\ given' = [given EXCEPT ![q.a] = @ \cup {q.idx}]
            /\ revs' = [revs EXCEPT ![q.a] = @ \cup {q.rev}]
            /\ req' = [req EXCEPT ![r] =
                 Goto(q, IF q.idx + 1 < QCount[q.rev] THEN "idle" ELSE "fresh")]
       ELSE Idle(r) /\ UNCHANGED <<att, given, revs>>
    /\ UNCHANGED <<quiz, stale, overdue, inviting, faults, saved, lost>>

\* Mutant: the push does not filter on the current question.
AnswerAnyIndex(r) ==
    LET q == req[r] IN
    /\ q.pc = "answer"
    /\ IF q.idx < QCount[q.rev] /\ att[q.a].status = "in_progress"
       THEN /\ \E p \in {0, 1} :
                 att' = [att EXCEPT ![q.a].index = @ + 1, ![q.a].points = @ + p]
            /\ given' = [given EXCEPT ![q.a] = @ \cup {q.idx}]
            /\ revs' = [revs EXCEPT ![q.a] = @ \cup {q.rev}]
            /\ req' = [req EXCEPT ![r] =
                 Goto(q, IF q.idx + 1 < QCount[q.rev] THEN "idle" ELSE "fresh")]
       ELSE Idle(r) /\ UNCHANGED <<att, given, revs>>
    /\ UNCHANGED <<quiz, stale, overdue, inviting, faults, saved, lost>>

\* pushAnswer: right or wrong, skipped or not, only on a running attempt that
\* is still on the question of the copy. The last one closes the attempt.
Answer(r) ==
    LET q == req[r] IN
    /\ q.pc = "answer"
    /\ IF /\ q.idx < QCount[q.rev]
          /\ att[q.a].status = "in_progress"
          /\ att[q.a].index = q.idx
       THEN /\ \E p \in {0, 1} :
                 att' = [att EXCEPT ![q.a].index = @ + 1, ![q.a].points = @ + p]
            /\ given' = [given EXCEPT ![q.a] = @ \cup {q.idx}]
            /\ revs' = [revs EXCEPT ![q.a] = @ \cup {q.rev}]
            /\ req' = [req EXCEPT ![r] =
                 Goto(q, IF q.idx + 1 < QCount[q.rev] THEN "idle" ELSE "fresh")]
       ELSE Idle(r) /\ UNCHANGED <<att, given, revs>>
    /\ UNCHANGED <<quiz, stale, overdue, inviting, faults, saved, lost>>

-----------------------------------------------------------------------------
(* Closing: finalize() is called by the last answer and by whoever looks at*)
(* an attempt whose time is over.                                          *)

\* The answers are read again and scored.
ReadFresh(r) ==
    /\ req[r].pc = "fresh"
    /\ req' = [req EXCEPT ![r] =
                 Goto([@ EXCEPT !.pts = att[req[r].a].points], "close")]
    /\ UNCHANGED <<quiz, att, stale, overdue, inviting, faults, history>>

\* Mutant: any attempt can be completed, again and again.
CloseBlind(r) ==
    LET q == req[r] IN
    /\ q.pc = "close"
    /\ att' = [att EXCEPT ![q.a].status = "completed", ![q.a].score = q.pts]
    /\ revs' = [revs EXCEPT ![q.a] = @ \cup {q.rev}]
    /\ req' = [req EXCEPT ![r] = Goto([q EXCEPT !.pts = 0], "save")]
    /\ UNCHANGED <<quiz, stale, overdue, inviting, faults, saved, lost, given>>

\* Mutant: every question the request has seen counts as right.
CloseEarlyScore(r) ==
    LET q == req[r] IN
    /\ q.pc = "close"
    /\ IF att[q.a].status = "in_progress"
       THEN /\ att' = [att EXCEPT ![q.a].status = "completed",
                                  ![q.a].score = @ + att[q.a].index]
            /\ revs' = [revs EXCEPT ![q.a] = @ \cup {q.rev}]
            /\ req' = [req EXCEPT ![r] = Goto([q EXCEPT !.pts = 0], "save")]
       ELSE Idle(r) /\ UNCHANGED <<att, revs>>
    /\ UNCHANGED <<quiz, stale, overdue, inviting, faults, saved, lost, given>>

\* in_progress -> completed with that score; one caller at most wins.
Close(r) ==
    LET q == req[r] IN
    /\ q.pc = "close"
    /\ IF att[q.a].status = "in_progress"
       THEN /\ att' = [att EXCEPT ![q.a].status = "completed",
                                  ![q.a].score = q.pts]
            /\ revs' = [revs EXCEPT ![q.a] = @ \cup {q.rev}]
            /\ req' = [req EXCEPT ![r] = Goto([q EXCEPT !.pts = 0], "save")]
       ELSE Idle(r) /\ UNCHANGED <<att, revs>>
    /\ UNCHANGED <<quiz, stale, overdue, inviting, faults, saved, lost, given>>

\* Mutant: the winner of the transition answers without the copy.
SaveForgotten(r) ==
    /\ req[r].pc = "save"
    /\ Idle(r)
    /\ UNCHANGED <<quiz, att, stale, overdue, inviting, faults, history>>

\* The winner copies the result on the fiche.
Save(r) ==
    /\ req[r].pc = "save"
    /\ saved' = [saved EXCEPT ![req[r].a] = @ + 1]
    /\ Idle(r)
    /\ UNCHANGED <<quiz, att, stale, overdue, inviting, faults, lost, given,
                   revs>>

-----------------------------------------------------------------------------
(* The staff, the clock, MongoDB's purge and restarts.                     *)

\* Inviting cancels the open invitations first ...
InviteCancel(s) ==
    /\ inviting[s] = "idle"
    /\ quiz.exists
    /\ att' = [a \in Attempt |-> IF att[a].status = "invited"
                                 THEN [att[a] EXCEPT !.status = "cancelled"]
                                 ELSE att[a]]
    /\ inviting' = [inviting EXCEPT ![s] = "create"]
    /\ UNCHANGED <<quiz, stale, overdue, req, faults, history>>

\* ... and creates the new one in a second command.
InviteCreate(s, a) ==
    /\ inviting[s] = "create"
    /\ att[a].status = "none"
    /\ att' = [att EXCEPT ![a].status = "invited", ![a].purge = TRUE]
    /\ inviting' = [inviting EXCEPT ![s] = "idle"]
    /\ UNCHANGED <<quiz, stale, overdue, req, faults, history>>

\* Mutant: a status that is not one of the type.
CancelMisspelt(a) ==
    /\ att[a].status \in {"invited", "in_progress"}
    /\ att' = [att EXCEPT ![a].status = "canceled"]
    /\ UNCHANGED <<quiz, stale, overdue, req, inviting, faults, history>>

\* cancelAttempt.
Cancel(a) ==
    /\ att[a].status \in {"invited", "in_progress"}
    /\ att' = [att EXCEPT ![a].status = "cancelled"]
    /\ UNCHANGED <<quiz, stale, overdue, req, inviting, faults, history>>

\* update(): only an unlocked questionnaire gets new questions.
Update ==
    /\ quiz.exists /\ ~quiz.locked
    /\ quiz.rev < MaxRev
    /\ quiz' = [quiz EXCEPT !.rev = @ + 1]
    /\ UNCHANGED <<att, stale, overdue, req, inviting, faults, history>>

\* remove(): only an unlocked questionnaire is deleted.
Remove ==
    /\ quiz.exists /\ ~quiz.locked
    /\ quiz' = [quiz EXCEPT !.exists = FALSE]
    /\ UNCHANGED <<att, stale, overdue, req, inviting, faults, history>>

InvitationExpires(a) ==
    /\ att[a].purge /\ ~stale[a]
    /\ stale' = [stale EXCEPT ![a] = TRUE]
    /\ UNCHANGED <<quiz, att, overdue, req, inviting, faults, history>>

TimeIsUp(a) ==
    /\ att[a].status = "in_progress" /\ ~overdue[a]
    /\ overdue' = [overdue EXCEPT ![a] = TRUE]
    /\ UNCHANGED <<quiz, att, stale, req, inviting, faults, history>>

\* The TTL index on purge_at removes what was never started.
Purge(a) ==
    /\ att[a].purge /\ stale[a]
    /\ att' = [att EXCEPT ![a].status = "purged", ![a].purge = FALSE]
    /\ UNCHANGED <<quiz, stale, overdue, req, inviting, faults, history>>

Fault == faults < MaxFaults /\ faults' = faults + 1

\* The next command of a request fails: nothing after it is done.
Abort(r) ==
    /\ req[r].pc # "idle"
    /\ Idle(r)
    /\ lost' = IF req[r].pc = "save" THEN lost \cup {req[r].a} ELSE lost
    /\ Fault
    /\ UNCHANGED <<quiz, att, stale, overdue, inviting, saved, given, revs>>

Crash ==
    /\ Fault
    /\ req' = [r \in Req |-> NoReq]
    /\ inviting' = [s \in Staff |-> "idle"]
    /\ lost' = lost \cup {a \in Attempt :
                             \E r \in Req : req[r].pc = "save" /\ req[r].a = a}
    /\ UNCHANGED <<quiz, att, stale, overdue, saved, given, revs>>

-----------------------------------------------------------------------------
ReqStep(r) ==
    \/ ReadQuiz(r) \/ Expire(r) \/ Start(r) \/ Lock(r) \/ Answer(r)
    \/ ReadFresh(r) \/ Close(r) \/ Save(r)

\* Whose device it is matters to the handlers that write.
Arrival(r) ==
    \E a \in Attempt :
        \/ Open(r, a, "look", NoDevice)
        \/ \E dev \in Device : Open(r, a, "start", dev)
        \/ \E dev \in Device : Open(r, a, "answer", dev)

AttemptStep(a) ==
    \/ Cancel(a) \/ InvitationExpires(a) \/ TimeIsUp(a) \/ Purge(a)
    \/ \E s \in Staff : InviteCreate(s, a)

Next ==
    \/ \E r \in Req : ReqStep(r) \/ Arrival(r) \/ Abort(r)
    \/ \E a \in Attempt : AttemptStep(a)
    \/ \E s \in Staff : InviteCancel(s)
    \/ Update \/ Remove
    \/ Crash

Spec == Init /\ [][Next]_vars

-----------------------------------------------------------------------------
(* Properties.                                                             *)

\* The variables hold what the code can store in them.
TypeOK ==
    /\ quiz \in [rev : 1..MaxRev, locked : BOOLEAN, exists : BOOLEAN]
    /\ att \in [Attempt -> AttemptDoc]
    /\ stale \in [Attempt -> BOOLEAN]
    /\ overdue \in [Attempt -> BOOLEAN]
    /\ req \in [Req -> ReqRec]
    /\ inviting \in [Staff -> {"idle", "create"}]
    /\ faults \in 0..MaxFaults
    /\ saved \in [Attempt -> Nat]
    /\ lost \subseteq Attempt
    /\ given \in [Attempt -> SUBSET Nat]
    /\ revs \in [Attempt -> SUBSET (1..MaxRev)]

\* However many requests close an attempt (the last answer, a page that
\* reloads, the staff looking), its result is written once on the fiche, and
\* only for a completed attempt.
SavedOnce ==
    \A a \in Attempt :
        /\ saved[a] <= 1
        /\ saved[a] = 1 => att[a].status = "completed"

\* The result of a completed attempt is on the fiche, or the one request that
\* closed the attempt is about to copy it, or that request failed and nobody
\* will: the copy has no second chance.
ResultAccounted ==
    \A a \in Attempt : att[a].status = "completed" =>
        \/ saved[a] = 1 /\ a \notin lost
        \/ saved[a] = 0 /\ a \in lost
        \/ /\ saved[a] = 0 /\ a \notin lost
           /\ \E r \in Req : req[r].pc = "save" /\ req[r].a = a

\* The score is never more than the stored answers are worth, and an attempt
\* closed in time, with questions nobody edited, is scored on all of them:
\* only the end of the clock can leave an accepted answer out of the score.
ScoreFromAnswers ==
    \A a \in Attempt : att[a].status = "completed" =>
        /\ att[a].score <= att[a].points
        /\ \/ overdue[a]
           \/ \E m, n \in revs[a] : m # n
           \/ att[a].score = att[a].points

\* A closed attempt is closed for good: no late answer, second score or
\* reopening, whatever the requests in flight believe.
ClosedIsFinal ==
    [][\A a \in Attempt : att[a].status \in Terminal =>
          \/ att'[a] = att[a]
          \/ att[a].purge /\ att'[a].status = "purged"]_vars

\* "Pas de retour arriere ni de double reponse, meme en cas de requetes
\* concurrentes": the attempt stands on question n when each of the n before
\* it was answered, whatever revision and index the requests hold.
AnsweredInOrder ==
    \A a \in Attempt : given[a] = {k \in 0..att[a].index : k < att[a].index}

\* The answers of an attempt all come from the device that started it.
OneDevice ==
    [][\A a \in Attempt : att'[a].index > att[a].index =>
          /\ att[a].device # NoDevice
          /\ \E r \in Req : /\ req[r].pc = "answer"
                            /\ req[r].a = a
                            /\ req[r].dev = att[a].device]_vars

\* "Une tentative commencee n'est jamais purgee" (questionnaire.schema.ts).
StartedNeverPurged ==
    [][\A a \in Attempt : att[a].device # NoDevice =>
          att'[a].status # "purged"]_vars

\* "1er passage reel : le questionnaire n'est plus modifiable": once an
\* attempt has been started, the questions neither change nor disappear.
QuestionsFrozen ==
    [][(\E a \in Attempt : att[a].device # NoDevice) =>
          quiz'.rev = quiz.rev /\ quiz'.exists = quiz.exists]_vars

=============================================================================
