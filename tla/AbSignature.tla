---------------------------- MODULE AbSignature ----------------------------
(***************************************************************************)
(* The signature of one "analyse du besoin" (AB) of one region: its Mongo  *)
(* document, the signature requests sent for it, the webhook deliveries    *)
(* that announce a completed signature, the in-memory guard of every       *)
(* backend instance, the two notification mails, the edits of the users    *)
(* and the automatic relance.                                              *)
(*                                                                         *)
(* Every action is the code between two awaits: what a handler does before *)
(* it next gives up the event loop, or one atomic command of MongoDB.      *)
(* Whatever can go wrong is a fault kind; a behaviour takes at most        *)
(* MaxFaults of the kinds in Faults.                                       *)
(***************************************************************************)
EXTENDS Naturals

CONSTANTS
    Inst,           \* instances of the backend (one inflightSubmissions each)
    Pass,           \* concurrent webhook requests the backend can be serving
    Senders,        \* users who send the AB for signature
    Editors,        \* users who edit, mark, delete or mute the AB
    Schedulers,     \* instances that run the relance scheduler
    InstOf,         \* the instance that serves a request or a user
    Sub,            \* signature requests (DocuSeal submissions)
    NoSub,          \* no request
    Provider,       \* "docuseal" or "yousign": which webhook announces them
    Faults,         \* the kinds of failure allowed
    MaxFaults       \* how many of them in one behaviour

FaultKinds == {"duplicate", "timeout", "region", "crash", "lookup", "claim",
               "claimApplied", "sign", "empty", "prepare", "sender", "mail",
               "release", "releaseApplied", "store", "earlySign", "mark"}

ASSUME ConstantsAssumption ==
    /\ Schedulers \subseteq Inst
    /\ \A x \in Pass \cup Senders \cup Editors : InstOf[x] \in Inst
    /\ NoSub \notin Sub
    /\ Provider \in {"docuseal", "yousign"}
    /\ Faults \subseteq FaultKinds
    /\ MaxFaults \in Nat

Recipient == {"commercial", "referent"}

VARIABLES
    doc,            \* the AB document
    pc,             \* pc[p]: where the request p is in processSignedAb
    on,             \* on[p]: the submission it is about
    answered,       \* answered[p]: the provider has its answer already
    inflight,       \* inflight[i]: inflightSubmissions of instance i
    acked,          \* submissions whose completion got a 200
    subs,           \* subs[s]: "unused", "open" or "signed"
    send,           \* send[u]: request u mailed and has not stored yet
    edit,           \* edit[u]: what the update of u has read
    relance,        \* relance[i]: step of relanceOne on instance i
    faults          \* failures so far

\* History: what left the backend and what became of the batch of mails.
VARIABLES
    copies,         \* copies[r]: notification mails sent to r
    relances,       \* relance mails sent
    lostMarks,      \* relance mails whose last_relance_at was never written
    recorded,       \* submissions recorded as signed on the AB
    outcome         \* fate of the batch: "none", "mailed", "noSender", "lost"

hookVars == <<pc, on, answered, inflight, acked>>
userVars == <<subs, send, edit>>
relanceVars == <<relance, relances, lostMarks>>
batchVars == <<copies, recorded, outcome>>
vars == <<doc, hookVars, userVars, relanceVars, batchVars, faults>>

Status == {"BROUILLON", "EN_ATTENTE_SIGNATURE", "SIGNE"}

AbDoc == [status : Status, reqId : Sub \cup {NoSub}, url : Sub \cup {NoSub},
          notifAt : BOOLEAN, signedAt : BOOLEAN,
          sentAt : {"never", "recent", "old"},
          relanced : BOOLEAN, deleted : BOOLEAN, relanceOff : BOOLEAN]

\* A pass between a successful claim and the end of its catch block.
OwnerPcs == {"sign", "download", "prepare", "archive", "sender",
             "commercial", "referent", "releaseEmpty", "releaseErr"}
PassPcs == {"idle", "wait", "lookup", "claim"} \cup OwnerPcs

\* Each pass that holds signed_notification_sent_at for itself.
Owner(p) == pc[p] \in OwnerPcs

\* The AB is SIGNE and no webhook said so: markSigned, or an old archive.
SignedByHand == doc.status = "SIGNE" /\ ~doc.signedAt

NoEdit == [open |-> FALSE, status |-> "BROUILLON", reqId |-> NoSub]

Init ==
    /\ doc = [status |-> "BROUILLON", reqId |-> NoSub, url |-> NoSub,
              notifAt |-> FALSE, signedAt |-> FALSE, sentAt |-> "never",
              relanced |-> FALSE, deleted |-> FALSE, relanceOff |-> FALSE]
    /\ pc = [p \in Pass |-> "idle"]
    /\ on = [p \in Pass |-> NoSub]
    /\ answered = [p \in Pass |-> FALSE]
    /\ inflight = [i \in Inst |-> {}]
    /\ acked = {}
    /\ subs = [s \in Sub |-> "unused"]
    /\ send = [u \in Senders |-> NoSub]
    /\ edit = [u \in Editors |-> NoEdit]
    /\ relance = [i \in Schedulers |-> "idle"]
    /\ faults = 0
    /\ copies = [r \in Recipient |-> 0]
    /\ relances = 0
    /\ lostMarks = 0
    /\ recorded = {}
    /\ outcome = "none"

-----------------------------------------------------------------------------
(* Faults, and the two ways a pass moves.                                  *)

Fault(kind) ==
    /\ kind \in Faults
    /\ faults < MaxFaults
    /\ faults' = faults + 1

NoFault == faults' = faults

\* The pass goes on to its next await.
Move(p, from, to) ==
    /\ pc[p] = from
    /\ pc' = [pc EXCEPT ![p] = to]
    /\ UNCHANGED <<on, answered, inflight, acked>>

\* Mutant: the finally block is left out when the pass throws.
FinishLeaky(p, code) ==
    /\ pc' = [pc EXCEPT ![p] = "idle"]
    /\ on' = [on EXCEPT ![p] = NoSub]
    /\ answered' = [answered EXCEPT ![p] = FALSE]
    /\ inflight' = IF answered[p] \/ code = 500 THEN inflight
                   ELSE [inflight EXCEPT ![InstOf[p]] = @ \ {on[p]}]
    /\ acked' = IF answered[p] \/ code # 200 THEN acked
                ELSE acked \cup {on[p]}

\* The pass ends with an HTTP code: the finally block forgets the
\* submission and the provider stops retrying when the code is 200. A pass
\* the provider was answered about early (OtherRegionFails) just stops.
Finish(p, code) ==
    /\ pc' = [pc EXCEPT ![p] = "idle"]
    /\ on' = [on EXCEPT ![p] = NoSub]
    /\ answered' = [answered EXCEPT ![p] = FALSE]
    /\ inflight' = IF answered[p] THEN inflight
                   ELSE [inflight EXCEPT ![InstOf[p]] = @ \ {on[p]}]
    /\ acked' = IF answered[p] \/ code # 200 THEN acked
                ELSE acked \cup {on[p]}

\* Takes the place in inflightSubmissions and starts processSignedAbOnce.
Enter(p, s) ==
    /\ pc' = [pc EXCEPT ![p] = "lookup"]
    /\ inflight' = [inflight EXCEPT ![InstOf[p]] = @ \cup {s}]

-----------------------------------------------------------------------------
(* Webhook deliveries.                                                     *)

\* A completion event reaches the backend; it waits when this instance is
\* already processing the same submission.
Receive(p, s) ==
    /\ pc[p] = "idle"
    /\ subs[s] = "signed"
    /\ on' = [on EXCEPT ![p] = s]
    /\ \/ /\ s \in inflight[InstOf[p]]
          /\ pc' = [pc EXCEPT ![p] = "wait"]
          /\ UNCHANGED inflight
       \/ /\ s \notin inflight[InstOf[p]]
          /\ Enter(p, s)
    /\ UNCHANGED <<doc, answered, acked, userVars, relanceVars, batchVars>>

\* The provider delivers, and retries, until it gets a 200.
Deliver(p, s) ==
    /\ s \notin acked
    /\ Receive(p, s)
    /\ NoFault

\* At-least-once delivery: an acknowledged event can still come again.
Redeliver(p, s) ==
    /\ s \in acked
    /\ Receive(p, s)
    /\ Fault("duplicate")

\* waitForInflight sees the submission gone.
WakeUp(p) ==
    /\ pc[p] = "wait"
    /\ on[p] \notin inflight[InstOf[p]]
    /\ Enter(p, on[p])
    /\ NoFault
    /\ UNCHANGED <<doc, on, answered, acked, userVars, relanceVars, batchVars>>

\* waitForInflight gives up after 30 seconds and goes on all the same.
WaitTimeout(p) ==
    /\ pc[p] = "wait"
    /\ on[p] \in inflight[InstOf[p]]
    /\ Enter(p, on[p])
    /\ Fault("timeout")
    /\ UNCHANGED <<doc, on, answered, acked, userVars, relanceVars, batchVars>>

-----------------------------------------------------------------------------
(* One pass of processSignedAbOnce.                                        *)

\* The AB is found and none of the guards turns the delivery away.
LookupFound(p) ==
    /\ doc.reqId = on[p]
    /\ ~doc.notifAt
    /\ ~SignedByHand
    /\ Move(p, "lookup", "claim")
    /\ NoFault
    /\ UNCHANGED <<doc, userVars, relanceVars, batchVars>>

\* No AB of the region, a replay, or an AB signed by hand: nothing to do.
LookupIgnored(p) ==
    /\ pc[p] = "lookup"
    /\ doc.reqId # on[p] \/ doc.notifAt \/ SignedByHand
    /\ Finish(p, 200)
    /\ NoFault
    /\ UNCHANGED <<doc, userVars, relanceVars, batchVars>>

\* The lookup throws before "handled" is set: logged, and answered 200.
LookupFails(p) ==
    /\ pc[p] = "lookup"
    /\ Finish(p, 200)
    /\ Fault("lookup")
    /\ UNCHANGED <<doc, userVars, relanceVars, batchVars>>

\* claimSignedNotification wins: the field was empty and is set at once.
Claim(p) ==
    /\ ~doc.notifAt
    /\ doc' = [doc EXCEPT !.notifAt = TRUE]
    /\ Move(p, "claim", "sign")
    /\ NoFault
    /\ UNCHANGED <<userVars, relanceVars, batchVars>>

\* Another pass claimed first.
ClaimLost(p) ==
    /\ pc[p] = "claim"
    /\ doc.notifAt
    /\ Finish(p, 200)
    /\ NoFault
    /\ UNCHANGED <<doc, userVars, relanceVars, batchVars>>

\* The command throws, applied by the server or not: claimedAbId is still
\* null, so the catch block releases nothing.
ClaimFails(p) ==
    /\ pc[p] = "claim"
    /\ Finish(p, 500)
    /\ \/ /\ Fault("claim")
          /\ UNCHANGED <<doc, outcome>>
       \/ /\ Fault("claimApplied")
          /\ ~doc.notifAt
          /\ doc' = [doc EXCEPT !.notifAt = TRUE]
          /\ outcome' = "lost"
    /\ UNCHANGED <<copies, recorded, userVars, relanceVars>>

\* Mutant: a status the type does not have.
SignMisspelt(p) ==
    /\ Move(p, "sign", "download")
    /\ doc' = [doc EXCEPT !.status = "SIGNEE", !.signedAt = TRUE]
    /\ recorded' = recorded \cup {on[p]}
    /\ NoFault
    /\ UNCHANGED <<copies, outcome, userVars, relanceVars>>

\* status SIGNE and signed_at, in one update.
Sign(p) ==
    /\ Move(p, "sign", "download")
    /\ doc' = [doc EXCEPT !.status = "SIGNE", !.signedAt = TRUE]
    /\ recorded' = recorded \cup {on[p]}
    /\ NoFault
    /\ UNCHANGED <<copies, outcome, userVars, relanceVars>>

\* A throw before any mail: to the catch block, which releases the claim.
Throw(p, from, kind) ==
    /\ Move(p, from, "releaseErr")
    /\ Fault(kind)
    /\ UNCHANGED <<doc, userVars, relanceVars, batchVars>>

SignFails(p) == Throw(p, "sign", "sign")

Download(p) ==
    /\ Move(p, "download", "prepare")
    /\ NoFault
    /\ UNCHANGED <<doc, userVars, relanceVars, batchVars>>

\* No signed PDF; docusealService answers [] whatever went wrong.
DownloadEmpty(p) ==
    /\ Move(p, "download", "releaseEmpty")
    /\ Fault("empty")
    /\ UNCHANGED <<doc, userVars, relanceVars, batchVars>>

AfterPrepare == IF Provider = "docuseal" THEN "archive" ELSE "sender"

\* Reads the commercial and the company, notifies in the application. Only
\* the DocuSeal flow archives on the Drive.
Prepare(p) ==
    /\ Move(p, "prepare", AfterPrepare)
    /\ NoFault
    /\ UNCHANGED <<doc, userVars, relanceVars, batchVars>>

PrepareFails(p) == Throw(p, "prepare", "prepare")

\* Best effort: archiveAbPdf never throws; a retry archives again.
Archive(p) ==
    /\ Move(p, "archive", "sender")
    /\ NoFault
    /\ UNCHANGED <<doc, userVars, relanceVars, batchVars>>

ResolveSender(p) ==
    /\ Move(p, "sender", "commercial")
    /\ NoFault
    /\ UNCHANGED <<doc, userVars, relanceVars, batchVars>>

\* No address for the commercial or no Google account: both mails are
\* skipped and the claim is kept.
NoSenderFound(p) ==
    /\ pc[p] = "sender"
    /\ Finish(p, 200)
    /\ outcome' = "noSender"
    /\ NoFault
    /\ UNCHANGED <<doc, copies, recorded, userVars, relanceVars>>

ResolveSenderFails(p) == Throw(p, "sender", "sender")

\* From here mailsAttempted is set: an error is logged and the claim kept.
MailCommercial(p) ==
    /\ Move(p, "commercial", "referent")
    /\ \/ /\ NoFault
          /\ copies' = [copies EXCEPT !["commercial"] = @ + 1]
       \/ /\ Fault("mail")
          /\ UNCHANGED copies
    /\ UNCHANGED <<doc, recorded, outcome, userVars, relanceVars>>

\* Mutant: an error of the second mail reaches the catch block.
MailReferentThrows(p) ==
    /\ pc[p] = "referent"
    /\ \/ /\ Finish(p, 200)
          /\ NoFault
          /\ copies' = [copies EXCEPT !["referent"] = @ + 1]
          /\ outcome' = "mailed"
       \/ /\ Move(p, "referent", "releaseErr")
          /\ Fault("mail")
          /\ UNCHANGED <<copies, outcome>>
    /\ UNCHANGED <<doc, recorded, userVars, relanceVars>>

\* The second mail leaves, is skipped (no referent, or the same address) or
\* fails; the pass is over.
MailReferent(p) ==
    /\ pc[p] = "referent"
    /\ Finish(p, 200)
    /\ outcome' = "mailed"
    /\ \/ /\ NoFault
          /\ copies' = [copies EXCEPT !["referent"] = @ + 1]
       \/ /\ NoFault
          /\ UNCHANGED copies
       \/ /\ Fault("mail")
          /\ UNCHANGED copies
    /\ UNCHANGED <<doc, recorded, userVars, relanceVars>>

\* The answer when there was nothing to download.
EmptyCode == IF Provider = "docuseal" THEN 200 ELSE 500

\* Mutant: an empty download just returns, as it would without the release.
ReleaseEmptyForgotten(p) ==
    /\ pc[p] = "releaseEmpty"
    /\ Finish(p, EmptyCode)
    /\ NoFault
    /\ UNCHANGED <<doc, batchVars, userVars, relanceVars>>

\* releaseSignedNotification after an empty download. DocuSeal's controller
\* answers 200 all the same, Yousign's 500.
ReleaseEmpty(p) ==
    /\ pc[p] = "releaseEmpty"
    /\ doc' = [doc EXCEPT !.notifAt = FALSE]
    /\ Finish(p, EmptyCode)
    /\ NoFault
    /\ UNCHANGED <<batchVars, userVars, relanceVars>>

\* That release throws, applied or not: the catch block releases again.
ReleaseEmptyFails(p) ==
    /\ Move(p, "releaseEmpty", "releaseErr")
    /\ \/ /\ Fault("release")
          /\ UNCHANGED doc
       \/ /\ Fault("releaseApplied")
          /\ doc' = [doc EXCEPT !.notifAt = FALSE]
    /\ UNCHANGED <<batchVars, userVars, relanceVars>>

\* The release of the catch block, which filters on the id only.
ReleaseErr(p) ==
    /\ pc[p] = "releaseErr"
    /\ doc' = [doc EXCEPT !.notifAt = FALSE]
    /\ Finish(p, 500)
    /\ NoFault
    /\ UNCHANGED <<batchVars, userVars, relanceVars>>

\* It fails too: logged, and the claim stays with nobody.
ReleaseErrFails(p) ==
    /\ pc[p] = "releaseErr"
    /\ Finish(p, 500)
    /\ outcome' = IF doc.notifAt THEN "lost" ELSE outcome
    /\ Fault("release")
    /\ UNCHANGED <<doc, copies, recorded, userVars, relanceVars>>

\* runForAllRegions is Promise.all: when the lookup in the other region
\* throws after "handled" is set, the request is answered 500 and leaves
\* inflightSubmissions while its pass in this region runs on.
OtherRegionFails(p) ==
    /\ pc[p] = "claim" \/ Owner(p)
    /\ ~answered[p]
    /\ answered' = [answered EXCEPT ![p] = TRUE]
    /\ inflight' = [inflight EXCEPT ![InstOf[p]] = @ \ {on[p]}]
    /\ Fault("region")
    /\ UNCHANGED <<doc, pc, on, acked, userVars, relanceVars, batchVars>>

-----------------------------------------------------------------------------
(* Sending for signature, and signing.                                     *)

\* sendForSignature creates the submission and mails its link ...
SendMail(u, s) ==
    /\ send[u] = NoSub
    /\ subs[s] = "unused"
    /\ subs' = [subs EXCEPT ![s] = "open"]
    /\ send' = [send EXCEPT ![u] = s]
    /\ NoFault
    /\ UNCHANGED <<doc, edit, hookVars, relanceVars, batchVars>>

\* Mutant: the link is not kept with the request.
SendStoreNoUrl(u) ==
    /\ send[u] # NoSub
    /\ doc' = [doc EXCEPT !.status = "EN_ATTENTE_SIGNATURE",
                          !.reqId = send[u], !.sentAt = "recent"]
    /\ send' = [send EXCEPT ![u] = NoSub]
    /\ NoFault
    /\ UNCHANGED <<subs, edit, hookVars, relanceVars, batchVars>>

\* ... and writes it on the AB afterwards, whatever the AB has become.
\* last_relance_at and signed_notification_sent_at are kept as they are.
SendStore(u) ==
    /\ send[u] # NoSub
    /\ doc' = [doc EXCEPT !.status = "EN_ATTENTE_SIGNATURE", !.reqId = send[u],
                          !.url = send[u], !.sentAt = "recent"]
    /\ send' = [send EXCEPT ![u] = NoSub]
    /\ NoFault
    /\ UNCHANGED <<subs, edit, hookVars, relanceVars, batchVars>>

SendStoreFails(u) ==
    /\ send[u] # NoSub
    /\ send' = [send EXCEPT ![u] = NoSub]
    /\ Fault("store")
    /\ UNCHANGED <<doc, subs, edit, hookVars, relanceVars, batchVars>>

\* The company signs. Signing before the request is stored is a fault.
Complete(s) ==
    /\ subs[s] = "open"
    /\ subs' = [subs EXCEPT ![s] = "signed"]
    /\ IF \E u \in Senders : send[u] = s THEN Fault("earlySign") ELSE NoFault
    /\ UNCHANGED <<doc, send, edit, hookVars, relanceVars, batchVars>>

-----------------------------------------------------------------------------
(* Users of the AB.                                                        *)

\* update() reads the AB ...
EditRead(u) ==
    /\ ~edit[u].open
    /\ edit' = [edit EXCEPT ![u] = [open |-> TRUE, status |-> doc.status,
                                    reqId |-> doc.reqId]]
    /\ NoFault
    /\ UNCHANGED <<doc, subs, send, hookVars, relanceVars, batchVars>>

\* ... and, three reads later, writes a whole document built from what it
\* read: the status and the request of then, but not the link.
EditWrite(u) ==
    /\ edit[u].open
    /\ doc' = [doc EXCEPT !.status = edit[u].status, !.reqId = edit[u].reqId]
    /\ edit' = [edit EXCEPT ![u] = NoEdit]
    /\ NoFault
    /\ UNCHANGED <<subs, send, hookVars, relanceVars, batchVars>>

\* Signed outside the flow: no signed_at.
MarkSigned ==
    /\ Editors # {}
    /\ doc' = [doc EXCEPT !.status = "SIGNE"]
    /\ NoFault
    /\ UNCHANGED <<userVars, hookVars, relanceVars, batchVars>>

Delete ==
    /\ Editors # {}
    /\ ~doc.deleted
    /\ doc' = [doc EXCEPT !.deleted = TRUE]
    /\ NoFault
    /\ UNCHANGED <<userVars, hookVars, relanceVars, batchVars>>

SetRelanceDisabled ==
    /\ Editors # {}
    /\ ~doc.deleted
    /\ \E b \in BOOLEAN : doc' = [doc EXCEPT !.relanceOff = b]
    /\ NoFault
    /\ UNCHANGED <<userVars, hookVars, relanceVars, batchVars>>

-----------------------------------------------------------------------------
(* The relance, two weeks after the last send. Time matters to nothing     *)
(* else: without a scheduler it does not pass.                             *)

TwoWeeksPass ==
    /\ Schedulers # {}
    /\ doc.sentAt = "recent"
    /\ doc' = [doc EXCEPT !.sentAt = "old"]
    /\ NoFault
    /\ UNCHANGED <<userVars, hookVars, relanceVars, batchVars>>

\* findDueSignatureRelance.
Due ==
    /\ doc.status = "EN_ATTENTE_SIGNATURE"
    /\ ~doc.deleted
    /\ ~doc.relanceOff
    /\ doc.sentAt = "old"
    /\ ~doc.relanced
    /\ doc.url # NoSub

RelanceSelect(i) ==
    /\ relance[i] = "idle"
    /\ Due
    /\ relance' = [relance EXCEPT ![i] = "mail"]
    /\ NoFault
    /\ UNCHANGED <<doc, relances, lostMarks, userVars, hookVars, batchVars>>

\* The mail leaves; or relanceOne throws before it and the next tick retries.
RelanceMail(i) ==
    /\ relance[i] = "mail"
    /\ \/ /\ relance' = [relance EXCEPT ![i] = "mark"]
          /\ relances' = relances + 1
       \/ /\ relance' = [relance EXCEPT ![i] = "idle"]
          /\ UNCHANGED relances
    /\ NoFault
    /\ UNCHANGED <<doc, lostMarks, userVars, hookVars, batchVars>>

\* Mutant: last_relance_at is not written.
RelanceMarkForgotten(i) ==
    /\ relance[i] = "mark"
    /\ relance' = [relance EXCEPT ![i] = "idle"]
    /\ NoFault
    /\ UNCHANGED <<doc, relances, lostMarks, userVars, hookVars, batchVars>>

RelanceMark(i) ==
    /\ relance[i] = "mark"
    /\ relance' = [relance EXCEPT ![i] = "idle"]
    /\ doc' = [doc EXCEPT !.relanced = TRUE]
    /\ NoFault
    /\ UNCHANGED <<relances, lostMarks, userVars, hookVars, batchVars>>

RelanceMarkFails(i) ==
    /\ relance[i] = "mark"
    /\ relance' = [relance EXCEPT ![i] = "idle"]
    /\ lostMarks' = lostMarks + 1
    /\ Fault("mark")
    /\ UNCHANGED <<doc, relances, userVars, hookVars, batchVars>>

-----------------------------------------------------------------------------
(* An instance dies: its passes, its guard, its users' requests and its    *)
(* scheduler start again from nothing; what is in MongoDB stays.           *)

OnInst(i, x) == InstOf[x] = i

Crash(i) ==
    /\ pc' = [p \in Pass |-> IF OnInst(i, p) THEN "idle" ELSE pc[p]]
    /\ on' = [p \in Pass |-> IF OnInst(i, p) THEN NoSub ELSE on[p]]
    /\ answered' = [p \in Pass |-> ~OnInst(i, p) /\ answered[p]]
    /\ inflight' = [inflight EXCEPT ![i] = {}]
    /\ send' = [u \in Senders |-> IF OnInst(i, u) THEN NoSub ELSE send[u]]
    /\ edit' = [u \in Editors |-> IF OnInst(i, u) THEN NoEdit ELSE edit[u]]
    /\ relance' = [j \in Schedulers |-> IF j = i THEN "idle" ELSE relance[j]]
    /\ lostMarks' = IF i \in Schedulers /\ relance[i] = "mark"
                    THEN lostMarks + 1 ELSE lostMarks
    /\ outcome' = IF \E p \in Pass : OnInst(i, p) /\ Owner(p) /\ doc.notifAt
                  THEN "lost" ELSE outcome
    /\ Fault("crash")
    /\ UNCHANGED <<doc, acked, subs, copies, relances, recorded>>

-----------------------------------------------------------------------------
\* What a pass does of itself; the faults that can strike it.
PassStep(p) ==
    \/ LookupFound(p) \/ LookupIgnored(p)
    \/ Claim(p) \/ ClaimLost(p)
    \/ Sign(p) \/ Download(p) \/ Prepare(p) \/ Archive(p)
    \/ ResolveSender(p) \/ NoSenderFound(p)
    \/ MailCommercial(p) \/ MailReferent(p)
    \/ ReleaseEmpty(p) \/ ReleaseErr(p)

PassFault(p) ==
    \/ LookupFails(p) \/ ClaimFails(p) \/ SignFails(p) \/ DownloadEmpty(p)
    \/ PrepareFails(p) \/ ResolveSenderFails(p)
    \/ ReleaseEmptyFails(p) \/ ReleaseErrFails(p) \/ OtherRegionFails(p)

Delivery(p) ==
    \/ \E s \in Sub : Deliver(p, s) \/ Redeliver(p, s)
    \/ WakeUp(p) \/ WaitTimeout(p)

UserStep ==
    \/ \E u \in Senders :
          (\E s \in Sub : SendMail(u, s)) \/ SendStore(u) \/ SendStoreFails(u)
    \/ \E s \in Sub : Complete(s)
    \/ \E u \in Editors : EditRead(u) \/ EditWrite(u)
    \/ MarkSigned \/ Delete \/ SetRelanceDisabled

RelanceStep ==
    \/ TwoWeeksPass
    \/ \E i \in Schedulers : \/ RelanceSelect(i) \/ RelanceMail(i)
                             \/ RelanceMark(i) \/ RelanceMarkFails(i)

Next ==
    \/ \E p \in Pass : PassStep(p) \/ PassFault(p) \/ Delivery(p)
    \/ UserStep
    \/ RelanceStep
    \/ \E i \in Inst : Crash(i)

Spec == Init /\ [][Next]_vars

\* The event loop resumes every pass and every waiter, and the provider
\* retries until it is answered 200.
Fairness ==
    /\ \A p \in Pass : WF_vars(PassStep(p)) /\ WF_vars(WakeUp(p))
    /\ \A s \in Sub : WF_vars(\E p \in Pass : Deliver(p, s))

FairSpec == Spec /\ Fairness

-----------------------------------------------------------------------------
(* Properties.                                                             *)

DocType == doc \in AbDoc

HookType ==
    /\ pc \in [Pass -> PassPcs]
    /\ on \in [Pass -> Sub \cup {NoSub}]
    /\ answered \in [Pass -> BOOLEAN]
    /\ inflight \in [Inst -> SUBSET Sub]
    /\ acked \subseteq Sub
    /\ \A p \in Pass : pc[p] # "idle" => on[p] \in Sub

UserType ==
    /\ subs \in [Sub -> {"unused", "open", "signed"}]
    /\ send \in [Senders -> Sub \cup {NoSub}]
    /\ edit \in [Editors -> [open : BOOLEAN, status : Status,
                             reqId : Sub \cup {NoSub}]]

RelanceType ==
    /\ relance \in [Schedulers -> {"idle", "mail", "mark"}]
    /\ relances \in Nat
    /\ lostMarks \in Nat

BatchType ==
    /\ copies \in [Recipient -> Nat]
    /\ recorded \subseteq Sub
    /\ outcome \in {"none", "mailed", "noSender", "lost"}

\* The variables hold what the code can store in them.
TypeOK ==
    /\ DocType
    /\ HookType
    /\ UserType
    /\ RelanceType
    /\ BatchType
    /\ faults \in 0..MaxFaults

\* Whatever deliveries, retries, instances, crashes and re-sends: neither the
\* commercial nor the referent gets the "AB signee" mail twice
\* (claimSignedNotification and the kept reservation).
NoDuplicateCopies == \A r \in Recipient : copies[r] <= 1

\* signed_notification_sent_at is never left behind by accident: when no
\* pass holds it, the batch has a recorded fate, and a batch whose fate is
\* settled keeps the field for ever (the release logic of the catch block).
ClaimAccounted ==
    (doc.notifAt /\ ~\E p \in Pass : Owner(p)) <=> outcome # "none"

\* Every entry of inflightSubmissions belongs to a request this instance is
\* still processing, so no delivery waits for a submission nobody removes
\* (the finally block, with waiters that time out and re-enter).
NoLeakedInflight ==
    \A i \in Inst : \A s \in inflight[i] :
        \E p \in Pass : /\ InstOf[p] = i
                       /\ on[p] = s
                       /\ pc[p] \notin {"idle", "wait"}
                       /\ ~answered[p]

\* An AB that waits for a signature always has a request, the link the
\* relance needs and a sending date, even when update() writes back a
\* status and a request it read before somebody else sent the AB.
AwaitingHasLink ==
    doc.status = "EN_ATTENTE_SIGNATURE" =>
        doc.reqId # NoSub /\ doc.url # NoSub /\ doc.sentAt # "never"

\* With one scheduler an AB is relanced once, plus once for each relance
\* whose last_relance_at was lost to a crash or a failed write; re-sending
\* the AB does not earn it a second relance.
RelancesExplained == relances <= 1 + lostMarks

\* A relance is started only for a request whose signature was not recorded
\* (abSignatureRelance.test.ts, "ignore une AB deja signee").
RelanceOnlyUnsigned ==
    [][\A i \in Schedulers : relance[i] = "idle" /\ relance'[i] = "mail"
                                => doc.reqId \notin recorded]_vars

\* The notification batch behaves as AbNotification promises.
BatchPhase == IF ~doc.notifAt THEN "open"
              ELSE IF \E p \in Pass : Owner(p) THEN "reserved" ELSE "closed"
Batch == INSTANCE AbNotification WITH phase <- BatchPhase
BatchRefined == Batch!BatchSpec

\* A completed signature ends in the mails being attempted (or skipped for
\* want of any sender), unless the AB was sent again or signed by hand in
\* between: a failure before the first mail is made up for by a retry.
SignedGetsNotified ==
    \A s \in Sub : (subs[s] = "signed" /\ doc.reqId = s) ~>
                      \/ outcome \in {"mailed", "noSender"}
                      \/ doc.reqId # s
                      \/ SignedByHand

\* No delivery is left without an answer: every waiter is resumed and every
\* pass ends.
DeliveryAnswered == \A p \in Pass : pc[p] # "idle" ~> pc[p] = "idle"

=============================================================================
