------------------------ MODULE AbSignature_proofs ------------------------
(***************************************************************************)
(* Theorems about AbSignature for any number of instances, requests,       *)
(* users, submissions and failures.                                        *)
(***************************************************************************)
EXTENDS AbSignature, TLAPS

-----------------------------------------------------------------------------
(* Type correctness.                                                       *)

\* What an action leaves alone keeps its type, and a fault stays in budget.
LEMMA Frame ==
    ASSUME TypeOK
    PROVE  /\ UNCHANGED doc => DocType'
           /\ UNCHANGED hookVars => HookType'
           /\ UNCHANGED userVars => UserType'
           /\ UNCHANGED relanceVars => RelanceType'
           /\ UNCHANGED batchVars => BatchType'
           /\ NoFault => faults' \in 0..MaxFaults
           /\ \A kind : Fault(kind) => faults' \in 0..MaxFaults
<1>1. UNCHANGED doc => DocType'
  BY DEF TypeOK, DocType
<1>2. UNCHANGED hookVars => HookType'
  BY DEF TypeOK, HookType, hookVars
<1>3. UNCHANGED userVars => UserType'
  BY DEF TypeOK, UserType, userVars
<1>4. UNCHANGED relanceVars => RelanceType'
  BY DEF TypeOK, RelanceType, relanceVars
<1>5. UNCHANGED batchVars => BatchType'
  BY DEF TypeOK, BatchType, batchVars
<1>6. NoFault => faults' \in 0..MaxFaults
  BY DEF TypeOK, NoFault
<1>7. \A kind : Fault(kind) => faults' \in 0..MaxFaults
  BY ConstantsAssumption DEF TypeOK, Fault
<1>. QED BY <1>1, <1>2, <1>3, <1>4, <1>5, <1>6, <1>7

LEMMA MoveType ==
    ASSUME HookType, NEW p \in Pass, NEW from \in PassPcs \ {"idle"},
           NEW to \in PassPcs, Move(p, from, to)
    PROVE  HookType'
BY DEF HookType, Move

LEMMA FinishType ==
    ASSUME HookType, NEW p \in Pass, pc[p] # "idle", NEW code, Finish(p, code)
    PROVE  HookType'
<1>1. pc' \in [Pass -> PassPcs] /\ on' \in [Pass -> Sub \cup {NoSub}]
  BY DEF HookType, Finish, PassPcs
<1>2. answered' \in [Pass -> BOOLEAN] /\ acked' \subseteq Sub
  BY DEF HookType, Finish
<1>3. inflight' \in [Inst -> SUBSET Sub]
  BY DEF HookType, Finish
<1>4. \A q \in Pass : pc'[q] # "idle" => on'[q] \in Sub
  BY DEF HookType, Finish, PassPcs
<1>. QED BY <1>1, <1>2, <1>3, <1>4 DEF HookType

LEMMA PassStepType ==
    ASSUME TypeOK, NEW p \in Pass, PassStep(p)
    PROVE  TypeOK'
<1>1. CASE LookupFound(p)
  <2>1. HookType'
    BY <1>1, MoveType DEF TypeOK, LookupFound, PassPcs
  <2>. QED BY <1>1, <2>1, Frame DEF LookupFound, TypeOK
<1>2. CASE LookupIgnored(p)
  <2>1. HookType'
    BY <1>2, FinishType DEF TypeOK, LookupIgnored
  <2>. QED BY <1>2, <2>1, Frame DEF LookupIgnored, TypeOK
<1>3. CASE Claim(p)
  <2>1. HookType'
    BY <1>3, MoveType DEF TypeOK, Claim, PassPcs, OwnerPcs
  <2>2. DocType'
    BY <1>3 DEF TypeOK, Claim, DocType, AbDoc, Status
  <2>. QED BY <1>3, <2>1, <2>2, Frame DEF Claim, TypeOK
<1>4. CASE ClaimLost(p)
  <2>1. HookType'
    BY <1>4, FinishType DEF TypeOK, ClaimLost
  <2>. QED BY <1>4, <2>1, Frame DEF ClaimLost, TypeOK
<1>5. CASE Sign(p)
  <2>1. HookType'
    BY <1>5, MoveType DEF TypeOK, Sign, PassPcs, OwnerPcs
  <2>2. DocType'
    BY <1>5 DEF TypeOK, Sign, DocType, AbDoc, Status
  <2>3. BatchType'
    BY <1>5 DEF TypeOK, HookType, Sign, Move, BatchType
  <2>. QED BY <1>5, <2>1, <2>2, <2>3, Frame DEF Sign, TypeOK
<1>6. CASE Download(p)
  <2>1. HookType'
    BY <1>6, MoveType DEF TypeOK, Download, PassPcs, OwnerPcs
  <2>. QED BY <1>6, <2>1, Frame DEF Download, TypeOK
<1>7. CASE Prepare(p)
  <2>1. HookType'
    BY <1>7, MoveType
    DEF TypeOK, Prepare, AfterPrepare, PassPcs, OwnerPcs
  <2>. QED BY <1>7, <2>1, Frame DEF Prepare, TypeOK
<1>8. CASE Archive(p)
  <2>1. HookType'
    BY <1>8, MoveType DEF TypeOK, Archive, PassPcs, OwnerPcs
  <2>2. BatchType'
    BY <1>8 DEF TypeOK, Archive, BatchType, Recipient, batchVars
  <2>. QED BY <1>8, <2>1, <2>2, Frame DEF Archive, TypeOK
<1>9. CASE ResolveSender(p)
  <2>1. HookType'
    BY <1>9, MoveType DEF TypeOK, ResolveSender, PassPcs, OwnerPcs
  <2>. QED BY <1>9, <2>1, Frame DEF ResolveSender, TypeOK
<1>10. CASE NoSenderFound(p)
  <2>1. HookType'
    BY <1>10, FinishType DEF TypeOK, NoSenderFound
  <2>2. BatchType'
    BY <1>10 DEF TypeOK, NoSenderFound, BatchType, Recipient
  <2>. QED BY <1>10, <2>1, <2>2, Frame DEF NoSenderFound, TypeOK
<1>11. CASE MailCommercial(p)
  <2>1. HookType'
    BY <1>11, MoveType DEF TypeOK, MailCommercial, PassPcs, OwnerPcs
  <2>2. BatchType'
    BY <1>11 DEF TypeOK, MailCommercial, BatchType, Recipient
  <2>. QED BY <1>11, <2>1, <2>2, Frame DEF MailCommercial, TypeOK
<1>12. CASE MailReferent(p)
  <2>1. HookType'
    BY <1>12, FinishType DEF TypeOK, MailReferent
  <2>2. BatchType'
    BY <1>12 DEF TypeOK, MailReferent, BatchType, Recipient
  <2>. QED BY <1>12, <2>1, <2>2, Frame DEF MailReferent, TypeOK
<1>13. CASE ReleaseEmpty(p)
  <2>1. HookType'
    BY <1>13, FinishType DEF TypeOK, ReleaseEmpty
  <2>2. DocType'
    BY <1>13 DEF TypeOK, ReleaseEmpty, DocType, AbDoc, Status
  <2>. QED BY <1>13, <2>1, <2>2, Frame DEF ReleaseEmpty, TypeOK
<1>14. CASE ReleaseErr(p)
  <2>1. HookType'
    BY <1>14, FinishType DEF TypeOK, ReleaseErr
  <2>2. DocType'
    BY <1>14 DEF TypeOK, ReleaseErr, DocType, AbDoc, Status
  <2>. QED BY <1>14, <2>1, <2>2, Frame DEF ReleaseErr, TypeOK
<1>. QED
  BY <1>1, <1>2, <1>3, <1>4, <1>5, <1>6, <1>7, <1>8, <1>9, <1>10, <1>11,
     <1>12, <1>13, <1>14 DEF PassStep

LEMMA PassFaultType ==
    ASSUME TypeOK, NEW p \in Pass, PassFault(p)
    PROVE  TypeOK'
<1>1. CASE LookupFails(p)
  <2>1. HookType'
    BY <1>1, FinishType DEF TypeOK, LookupFails
  <2>. QED BY <1>1, <2>1, Frame DEF LookupFails, TypeOK
<1>2. CASE ClaimFails(p)
  <2>1. HookType'
    BY <1>2, FinishType DEF TypeOK, ClaimFails
  <2>2. DocType'
    BY <1>2 DEF TypeOK, ClaimFails, DocType, AbDoc, Status
  <2>3. BatchType'
    BY <1>2 DEF TypeOK, ClaimFails, BatchType, Recipient
  <2>. QED BY <1>2, <2>1, <2>2, <2>3, Frame DEF ClaimFails, TypeOK
<1>3. CASE SignFails(p)
  <2>1. HookType'
    BY <1>3, MoveType DEF TypeOK, SignFails, Throw, PassPcs, OwnerPcs
  <2>. QED BY <1>3, <2>1, Frame DEF SignFails, Throw, TypeOK
<1>4. CASE DownloadEmpty(p)
  <2>1. HookType'
    BY <1>4, MoveType DEF TypeOK, DownloadEmpty, PassPcs, OwnerPcs
  <2>. QED BY <1>4, <2>1, Frame DEF DownloadEmpty, TypeOK
<1>5. CASE PrepareFails(p)
  <2>1. HookType'
    BY <1>5, MoveType DEF TypeOK, PrepareFails, Throw, PassPcs, OwnerPcs
  <2>. QED BY <1>5, <2>1, Frame DEF PrepareFails, Throw, TypeOK
<1>6. CASE ResolveSenderFails(p)
  <2>1. HookType'
    BY <1>6, MoveType DEF TypeOK, ResolveSenderFails, Throw, PassPcs, OwnerPcs
  <2>. QED BY <1>6, <2>1, Frame DEF ResolveSenderFails, Throw, TypeOK
<1>7. CASE ReleaseEmptyFails(p)
  <2>1. HookType'
    BY <1>7, MoveType DEF TypeOK, ReleaseEmptyFails, PassPcs, OwnerPcs
  <2>2. DocType'
    BY <1>7 DEF TypeOK, ReleaseEmptyFails, DocType, AbDoc, Status
  <2>. QED BY <1>7, <2>1, <2>2, Frame DEF ReleaseEmptyFails, TypeOK
<1>8. CASE ReleaseErrFails(p)
  <2>1. HookType'
    BY <1>8, FinishType DEF TypeOK, ReleaseErrFails
  <2>2. BatchType'
    BY <1>8 DEF TypeOK, ReleaseErrFails, BatchType, Recipient
  <2>. QED BY <1>8, <2>1, <2>2, Frame DEF ReleaseErrFails, TypeOK
<1>9. CASE OtherRegionFails(p)
  <2>1. HookType'
    BY <1>9 DEF TypeOK, HookType, OtherRegionFails
  <2>. QED BY <1>9, <2>1, Frame DEF OtherRegionFails, TypeOK
<1>. QED BY <1>1, <1>2, <1>3, <1>4, <1>5, <1>6, <1>7, <1>8, <1>9 DEF PassFault

LEMMA DeliveryType ==
    ASSUME TypeOK, NEW p \in Pass, Delivery(p)
    PROVE  TypeOK'
<1>1. ASSUME NEW s \in Sub, Receive(p, s)
      PROVE  HookType'
  BY <1>1 DEF TypeOK, HookType, Receive, Enter, PassPcs
<1>2. CASE \E s \in Sub : Deliver(p, s) \/ Redeliver(p, s)
  BY <1>1, <1>2, Frame DEF TypeOK, Deliver, Redeliver, Receive
<1>3. ASSUME pc[p] = "wait", Enter(p, on[p]), UNCHANGED <<on, answered, acked>>
      PROVE  HookType'
  BY <1>3 DEF TypeOK, HookType, Enter, PassPcs
<1>4. CASE WakeUp(p)
  BY <1>3, <1>4, Frame DEF TypeOK, WakeUp
<1>5. CASE WaitTimeout(p)
  BY <1>3, <1>5, Frame DEF TypeOK, WaitTimeout
<1>. QED BY <1>2, <1>4, <1>5 DEF Delivery

LEMMA UserStepType ==
    ASSUME TypeOK, UserStep
    PROVE  TypeOK'
<1>1. ASSUME NEW u \in Senders, NEW s \in Sub, SendMail(u, s)
      PROVE  TypeOK'
  <2>1. UserType'
    BY <1>1 DEF TypeOK, UserType, SendMail
  <2>. QED BY <1>1, <2>1, Frame DEF TypeOK, SendMail
<1>2. ASSUME NEW u \in Senders, SendStore(u)
      PROVE  TypeOK'
  <2>1. UserType'
    BY <1>2 DEF TypeOK, UserType, SendStore
  <2>2. DocType'
    BY <1>2 DEF TypeOK, DocType, UserType, SendStore, AbDoc, Status
  <2>. QED BY <1>2, <2>1, <2>2, Frame DEF TypeOK, SendStore
<1>3. ASSUME NEW u \in Senders, SendStoreFails(u)
      PROVE  TypeOK'
  <2>1. UserType'
    BY <1>3 DEF TypeOK, UserType, SendStoreFails
  <2>. QED BY <1>3, <2>1, Frame DEF TypeOK, SendStoreFails
<1>4. ASSUME NEW s \in Sub, Complete(s)
      PROVE  TypeOK'
  <2>1. UserType'
    BY <1>4 DEF TypeOK, UserType, Complete
  <2>. QED BY <1>4, <2>1, Frame DEF TypeOK, Complete
<1>5. ASSUME NEW u \in Editors, EditRead(u)
      PROVE  TypeOK'
  <2>1. UserType'
    BY <1>5 DEF TypeOK, UserType, EditRead, DocType, AbDoc
  <2>. QED BY <1>5, <2>1, Frame DEF TypeOK, EditRead
<1>6. ASSUME NEW u \in Editors, EditWrite(u)
      PROVE  TypeOK'
  <2>1. UserType'
    BY <1>6 DEF TypeOK, UserType, EditWrite, NoEdit, Status
  <2>2. DocType'
    BY <1>6 DEF TypeOK, DocType, UserType, EditWrite, AbDoc
  <2>. QED BY <1>6, <2>1, <2>2, Frame DEF TypeOK, EditWrite
<1>7. CASE MarkSigned \/ Delete \/ SetRelanceDisabled
  <2>1. DocType'
    BY <1>7 DEF TypeOK, DocType, AbDoc, Status, MarkSigned, Delete,
                SetRelanceDisabled
  <2>. QED BY <1>7, <2>1, Frame
           DEF TypeOK, MarkSigned, Delete, SetRelanceDisabled
<1>. QED BY <1>1, <1>2, <1>3, <1>4, <1>5, <1>6, <1>7 DEF UserStep

LEMMA RelanceStepType ==
    ASSUME TypeOK, RelanceStep
    PROVE  TypeOK'
<1>1. CASE TwoWeeksPass
  <2>1. DocType'
    BY <1>1 DEF TypeOK, DocType, AbDoc, TwoWeeksPass
  <2>. QED BY <1>1, <2>1, Frame DEF TypeOK, TwoWeeksPass
<1>2. ASSUME NEW i \in Schedulers, RelanceSelect(i)
      PROVE  TypeOK'
  <2>1. RelanceType'
    BY <1>2 DEF TypeOK, RelanceType, RelanceSelect
  <2>. QED BY <1>2, <2>1, Frame DEF TypeOK, RelanceSelect
<1>3. ASSUME NEW i \in Schedulers, RelanceMail(i)
      PROVE  TypeOK'
  <2>1. RelanceType'
    BY <1>3 DEF TypeOK, RelanceType, RelanceMail
  <2>. QED BY <1>3, <2>1, Frame DEF TypeOK, RelanceMail
<1>4. ASSUME NEW i \in Schedulers, RelanceMark(i)
      PROVE  TypeOK'
  <2>1. RelanceType'
    BY <1>4 DEF TypeOK, RelanceType, RelanceMark
  <2>2. DocType'
    BY <1>4 DEF TypeOK, DocType, AbDoc, RelanceMark
  <2>. QED BY <1>4, <2>1, <2>2, Frame DEF TypeOK, RelanceMark
<1>5. ASSUME NEW i \in Schedulers, RelanceMarkFails(i)
      PROVE  TypeOK'
  <2>1. RelanceType'
    BY <1>5 DEF TypeOK, RelanceType, RelanceMarkFails
  <2>. QED BY <1>5, <2>1, Frame DEF TypeOK, RelanceMarkFails
<1>. QED BY <1>1, <1>2, <1>3, <1>4, <1>5 DEF RelanceStep

LEMMA CrashType ==
    ASSUME TypeOK, NEW i \in Inst, Crash(i)
    PROVE  TypeOK'
<1>1. HookType'
  BY DEF TypeOK, HookType, Crash, PassPcs
<1>2. UserType'
  BY DEF TypeOK, UserType, Crash, NoEdit, Status
<1>3. RelanceType'
  BY DEF TypeOK, RelanceType, Crash
<1>4. BatchType'
  BY DEF TypeOK, BatchType, Crash
<1>. QED BY <1>1, <1>2, <1>3, <1>4, Frame DEF TypeOK, Crash

LEMMA InitType == Init => TypeOK
<1>. SUFFICES ASSUME Init PROVE TypeOK
  OBVIOUS
<1>1. DocType
  BY DEF Init, DocType, AbDoc, Status
<1>2. HookType
  BY DEF Init, HookType, PassPcs
<1>3. UserType
  BY DEF Init, UserType, NoEdit, Status
<1>4. RelanceType
  BY DEF Init, RelanceType
<1>5. BatchType
  BY DEF Init, BatchType, Recipient
<1>. QED BY <1>1, <1>2, <1>3, <1>4, <1>5, ConstantsAssumption DEF Init, TypeOK

LEMMA NextType == TypeOK /\ [Next]_vars => TypeOK'
<1>. SUFFICES ASSUME TypeOK, [Next]_vars PROVE TypeOK'
  OBVIOUS
<1>1. CASE Next
  BY <1>1, PassStepType, PassFaultType, DeliveryType, UserStepType,
     RelanceStepType, CrashType DEF Next
<1>2. CASE UNCHANGED vars
  BY <1>2, Frame DEF TypeOK, vars, NoFault
<1>. QED BY <1>1, <1>2

\* Every variable keeps its type in every behaviour.
THEOREM TypeCorrect == Spec => []TypeOK
BY InitType, NextType, PTL DEF Spec

-----------------------------------------------------------------------------
(* The notification batch: one holder, no duplicate.                       *)

NoCopy == \A r \in Recipient : copies[r] = 0

\* The inductive invariant. One pass at most holds the claim, and holds it
\* in the document; the copies that left belong to a claim that is never
\* released: the holder that has not reached the mails has sent nothing.
CopiesInv ==
    /\ \A p, q \in Pass : Owner(p) /\ Owner(q) => p = q
    /\ \A p \in Pass : Owner(p) => doc.notifAt
    /\ NoDuplicateCopies
    /\ ~doc.notifAt => NoCopy
    /\ \A p \in Pass : Owner(p) /\ pc[p] # "referent" => NoCopy
    /\ \A p \in Pass : pc[p] = "referent" => copies["referent"] = 0
    /\ ClaimAccounted

\* A step that neither touches the claim, the copies and the outcome nor
\* moves a pass into or out of the owners.
Quiet ==
    /\ doc'.notifAt = doc.notifAt
    /\ copies' = copies
    /\ outcome' = outcome
    /\ \A p \in Pass : Owner(p)' <=> Owner(p)
    /\ \A p \in Pass : pc'[p] = "referent" <=> pc[p] = "referent"

\* The other steps of a pass.
Noisy(p) ==
    \/ Claim(p) \/ ClaimFails(p) \/ NoSenderFound(p)
    \/ MailCommercial(p) \/ MailReferent(p)
    \/ ReleaseEmpty(p) \/ ReleaseErr(p) \/ ReleaseErrFails(p)

\* Moving among the owners, short of the second mail, or among the others.
LEMMA QuietMove ==
    ASSUME TypeOK, NEW p \in Pass, NEW from \in PassPcs \ {"referent"},
           NEW to \in PassPcs \ {"referent"}, Move(p, from, to),
           from \in OwnerPcs <=> to \in OwnerPcs
    PROVE  /\ \A q \in Pass : Owner(q)' <=> Owner(q)
           /\ \A q \in Pass : pc'[q] = "referent" <=> pc[q] = "referent"
BY DEF TypeOK, HookType, Move, Owner

LEMMA QuietFinish ==
    ASSUME TypeOK, NEW p \in Pass, ~Owner(p), NEW code, Finish(p, code)
    PROVE  /\ \A q \in Pass : Owner(q)' <=> Owner(q)
           /\ \A q \in Pass : pc'[q] = "referent" <=> pc[q] = "referent"
BY DEF TypeOK, HookType, Finish, Owner, OwnerPcs

LEMMA PassStepQuiet ==
    ASSUME TypeOK, NEW p \in Pass, PassStep(p)
    PROVE  Quiet \/ Noisy(p)
<1>1. CASE LookupFound(p)
  BY <1>1, QuietMove DEF LookupFound, Quiet, PassPcs, OwnerPcs, batchVars
<1>2. CASE LookupIgnored(p)
  BY <1>2, QuietFinish DEF LookupIgnored, Quiet, Owner, OwnerPcs, batchVars
<1>3. CASE ClaimLost(p)
  BY <1>3, QuietFinish DEF ClaimLost, Quiet, Owner, OwnerPcs, batchVars
<1>4. CASE Sign(p)
  <2>1. doc'.notifAt = doc.notifAt
    BY <1>4 DEF Sign, TypeOK, DocType, AbDoc
  <2>. QED BY <1>4, <2>1, QuietMove DEF Sign, Quiet, PassPcs, OwnerPcs
<1>5. CASE Download(p)
  BY <1>5, QuietMove DEF Download, Quiet, PassPcs, OwnerPcs, batchVars
<1>6. CASE Prepare(p)
  BY <1>6, QuietMove
  DEF Prepare, AfterPrepare, Quiet, PassPcs, OwnerPcs, batchVars
<1>7. CASE Archive(p)
  BY <1>7, QuietMove DEF Archive, Quiet, PassPcs, OwnerPcs, batchVars
<1>8. CASE ResolveSender(p)
  BY <1>8, QuietMove DEF ResolveSender, Quiet, PassPcs, OwnerPcs, batchVars
<1>. QED
  BY <1>1, <1>2, <1>3, <1>4, <1>5, <1>6, <1>7, <1>8 DEF PassStep, Noisy

LEMMA PassFaultQuiet ==
    ASSUME TypeOK, NEW p \in Pass, PassFault(p), "releaseApplied" \notin Faults
    PROVE  Quiet \/ Noisy(p)
<1>1. CASE LookupFails(p)
  BY <1>1, QuietFinish DEF LookupFails, Quiet, Owner, OwnerPcs, batchVars
<1>2. CASE SignFails(p)
  BY <1>2, QuietMove DEF SignFails, Throw, Quiet, PassPcs, OwnerPcs, batchVars
<1>3. CASE DownloadEmpty(p)
  BY <1>3, QuietMove DEF DownloadEmpty, Quiet, PassPcs, OwnerPcs, batchVars
<1>4. CASE PrepareFails(p)
  BY <1>4, QuietMove
  DEF PrepareFails, Throw, Quiet, PassPcs, OwnerPcs, batchVars
<1>5. CASE ResolveSenderFails(p)
  BY <1>5, QuietMove
  DEF ResolveSenderFails, Throw, Quiet, PassPcs, OwnerPcs, batchVars
<1>6. CASE ReleaseEmptyFails(p)
  BY <1>6, QuietMove
  DEF ReleaseEmptyFails, Fault, Quiet, PassPcs, OwnerPcs, batchVars
<1>7. CASE OtherRegionFails(p)
  BY <1>7 DEF OtherRegionFails, Quiet, Owner, batchVars
<1>. QED
  BY <1>1, <1>2, <1>3, <1>4, <1>5, <1>6, <1>7 DEF PassFault, Noisy

LEMMA DeliveryQuiet ==
    ASSUME TypeOK, NEW p \in Pass, Delivery(p)
    PROVE  Quiet
<1>1. ASSUME NEW s \in Sub, pc[p] \in {"idle", "wait"}, Enter(p, s)
      PROVE  /\ \A q \in Pass : Owner(q)' <=> Owner(q)
             /\ \A q \in Pass : pc'[q] = "referent" <=> pc[q] = "referent"
  BY <1>1 DEF TypeOK, HookType, Enter, Owner, OwnerPcs
<1>2. ASSUME NEW s \in Sub, Receive(p, s)
      PROVE  Quiet
  <2>1. CASE Enter(p, s)
    BY <1>1, <1>2, <2>1 DEF Receive, Quiet, batchVars
  <2>2. CASE pc' = [pc EXCEPT ![p] = "wait"]
    BY <1>2, <2>2
    DEF TypeOK, HookType, Receive, Quiet, Owner, OwnerPcs, batchVars
  <2>. QED BY <1>2, <2>1, <2>2 DEF Receive
<1>3. CASE WakeUp(p) \/ WaitTimeout(p)
  <2>1. on[p] \in Sub
    BY <1>3 DEF TypeOK, HookType, WakeUp, WaitTimeout
  <2>. QED BY <1>1, <1>3, <2>1 DEF WakeUp, WaitTimeout, Quiet, batchVars
<1>. QED BY <1>2, <1>3 DEF Delivery, Deliver, Redeliver

\* No user, and no relance, touches the claim.
LEMMA UserStepQuiet ==
    ASSUME TypeOK, UserStep \/ RelanceStep
    PROVE  Quiet
<1>1. doc'.notifAt = doc.notifAt
  BY DEF TypeOK, DocType, AbDoc, UserStep, RelanceStep, SendMail, SendStore,
         SendStoreFails, Complete, EditRead, EditWrite, MarkSigned, Delete,
         SetRelanceDisabled, TwoWeeksPass, RelanceSelect, RelanceMail,
         RelanceMark, RelanceMarkFails
<1>2. UNCHANGED <<hookVars, batchVars>>
  BY DEF UserStep, RelanceStep, SendMail, SendStore,
         SendStoreFails, Complete, EditRead, EditWrite, MarkSigned, Delete,
         SetRelanceDisabled, TwoWeeksPass, RelanceSelect, RelanceMail,
         RelanceMark, RelanceMarkFails
<1>. QED BY <1>1, <1>2 DEF Quiet, Owner, hookVars, batchVars

\* A step is quiet, one of the noisy steps of a pass, or a crash.
LEMMA QuietOrNoisy ==
    ASSUME TypeOK, [Next]_vars, "releaseApplied" \notin Faults
    PROVE  \/ Quiet
           \/ \E p \in Pass : Noisy(p)
           \/ \E i \in Inst : Crash(i)
<1>1. CASE UNCHANGED vars
  BY <1>1 DEF vars, hookVars, batchVars, Quiet, Owner
<1>. QED
  BY <1>1, PassStepQuiet, PassFaultQuiet, DeliveryQuiet, UserStepQuiet DEF Next

\* A pass that ends is an owner no more, and the others are what they were.
LEMMA OwnerFinish ==
    ASSUME TypeOK, NEW p \in Pass, NEW code, Finish(p, code)
    PROVE  /\ ~Owner(p)' /\ pc'[p] # "referent"
           /\ \A q \in Pass \ {p} : pc'[q] = pc[q] /\ Owner(q)' = Owner(q)
BY DEF TypeOK, HookType, Finish, Owner, OwnerPcs

LEMMA OwnerMove ==
    ASSUME TypeOK, NEW p \in Pass, NEW from, NEW to, Move(p, from, to)
    PROVE  /\ pc[p] = from
           /\ pc'[p] = to
           /\ \A q \in Pass \ {p} : pc'[q] = pc[q] /\ Owner(q)' = Owner(q)
BY DEF TypeOK, HookType, Move, Owner

LEMMA QuietCopies ==
    ASSUME CopiesInv, Quiet
    PROVE  CopiesInv'
<1>1. UNCHANGED <<NoCopy, NoDuplicateCopies>>
  BY DEF Quiet, NoCopy, NoDuplicateCopies
<1>2. ClaimAccounted'
  BY DEF CopiesInv, Quiet, ClaimAccounted
<1>. QED BY <1>1, <1>2 DEF CopiesInv, Quiet

LEMMA NoisyCopies ==
    ASSUME TypeOK, CopiesInv, NEW p \in Pass, Noisy(p)
    PROVE  CopiesInv'
<1>1. CASE Claim(p)
  <2>1. /\ ~doc.notifAt
        /\ doc'.notifAt
        /\ UNCHANGED <<copies, outcome>>
    BY <1>1 DEF Claim, TypeOK, DocType, AbDoc, batchVars
  <2>2. NoCopy /\ NoCopy' /\ copies["referent"] = 0
    BY <2>1 DEF CopiesInv, NoCopy, Recipient
  <2>3. \A q \in Pass : ~Owner(q)
    BY <2>1 DEF CopiesInv
  <2>4. pc'[p] = "sign" /\ Owner(p)' /\ \A q \in Pass \ {p} : ~Owner(q)'
    BY <1>1, <2>3, OwnerMove DEF Claim, Owner, OwnerPcs
  <2>5. ClaimAccounted'
    BY <2>1, <2>3, <2>4 DEF CopiesInv, ClaimAccounted
  <2>6. \A q \in Pass : pc'[q] # "referent"
    BY <2>4 DEF Owner, OwnerPcs
  <2>. QED BY <2>1, <2>2, <2>4, <2>5, <2>6
           DEF CopiesInv, NoCopy, NoDuplicateCopies
<1>2. CASE ClaimFails(p)
  <2>1. ~Owner(p)
    BY <1>2 DEF ClaimFails, Owner, OwnerPcs
  <2>2. CASE UNCHANGED <<doc, outcome>>
    <3>1. Quiet
      BY <1>2, <2>1, <2>2, QuietFinish DEF ClaimFails, Quiet
    <3>. QED BY <3>1, QuietCopies
  <2>3. CASE /\ ~doc.notifAt
             /\ doc' = [doc EXCEPT !.notifAt = TRUE]
             /\ outcome' = "lost"
    <3>1. doc'.notifAt /\ UNCHANGED copies
      BY <1>2, <2>3 DEF ClaimFails, TypeOK, DocType, AbDoc
    <3>2. \A q \in Pass : ~Owner(q)'
      BY <1>2, <2>3, OwnerFinish DEF ClaimFails, CopiesInv
    <3>3. \A q \in Pass : pc'[q] # "referent"
      BY <3>2 DEF Owner, OwnerPcs
    <3>4. NoDuplicateCopies' /\ ClaimAccounted'
      BY <2>3, <3>1, <3>2
      DEF CopiesInv, NoDuplicateCopies, ClaimAccounted
    <3>. QED BY <3>1, <3>2, <3>3, <3>4 DEF CopiesInv
  <2>. QED BY <1>2, <2>2, <2>3 DEF ClaimFails
<1>3. CASE NoSenderFound(p)
  <2>1. Owner(p) /\ doc.notifAt /\ UNCHANGED <<doc, copies>>
    BY <1>3 DEF NoSenderFound, Owner, OwnerPcs, CopiesInv
  <2>2. \A q \in Pass : ~Owner(q)'
    BY <1>3, <2>1, OwnerFinish DEF NoSenderFound, CopiesInv
  <2>3. \A q \in Pass : pc'[q] # "referent"
    BY <2>2 DEF Owner, OwnerPcs
  <2>4. NoDuplicateCopies' /\ ClaimAccounted'
    BY <1>3, <2>1, <2>2
    DEF NoSenderFound, CopiesInv, NoDuplicateCopies, ClaimAccounted
  <2>. QED BY <2>1, <2>2, <2>3, <2>4 DEF CopiesInv
<1>4. CASE MailCommercial(p)
  <2>1. /\ pc[p] = "commercial"
        /\ pc'[p] = "referent"
        /\ UNCHANGED <<doc, outcome>>
        /\ \A q \in Pass \ {p} : pc'[q] = pc[q] /\ Owner(q)' = Owner(q)
    BY <1>4, OwnerMove DEF MailCommercial
  <2>2. Owner(p) /\ Owner(p)' /\ doc.notifAt
    BY <2>1 DEF Owner, OwnerPcs, CopiesInv
  <2>3. \A q \in Pass \ {p} : ~Owner(q) /\ ~Owner(q)'
    BY <2>1, <2>2 DEF CopiesInv
  <2>4. NoCopy
    BY <2>1, <2>2 DEF CopiesInv
  <2>5. NoDuplicateCopies' /\ copies'["referent"] = 0
    BY <1>4, <2>4
    DEF MailCommercial, NoCopy, NoDuplicateCopies, Recipient, TypeOK, BatchType
  <2>6. ClaimAccounted'
    BY <2>1, <2>2 DEF CopiesInv, ClaimAccounted
  <2>7. \A q \in Pass : Owner(q)' => q = p
    BY <2>3
  <2>8. \A q \in Pass : pc'[q] = "referent" => q = p
    BY <2>7 DEF Owner, OwnerPcs
  <2>. QED BY <2>1, <2>2, <2>5, <2>6, <2>7, <2>8 DEF CopiesInv
<1>5. CASE MailReferent(p)
  <2>1. /\ Owner(p) /\ doc.notifAt /\ UNCHANGED doc
        /\ pc[p] = "referent" /\ copies["referent"] = 0
        /\ outcome' = "mailed"
    BY <1>5 DEF MailReferent, Owner, OwnerPcs, CopiesInv
  <2>2. \A q \in Pass : ~Owner(q)'
    BY <1>5, <2>1, OwnerFinish DEF MailReferent, CopiesInv
  <2>3. \A q \in Pass : pc'[q] # "referent"
    BY <2>2 DEF Owner, OwnerPcs
  <2>4. NoDuplicateCopies'
    BY <1>5, <2>1
    DEF MailReferent, CopiesInv, NoDuplicateCopies, Recipient, TypeOK, BatchType
  <2>5. ClaimAccounted'
    BY <2>1, <2>2 DEF ClaimAccounted
  <2>. QED BY <2>1, <2>2, <2>3, <2>4, <2>5 DEF CopiesInv
<1>6. CASE ReleaseEmpty(p) \/ ReleaseErr(p)
  <2>1. /\ Owner(p) /\ pc[p] # "referent" /\ ~doc'.notifAt
        /\ UNCHANGED <<copies, outcome>>
    BY <1>6 DEF ReleaseEmpty, ReleaseErr, Owner, OwnerPcs, TypeOK, DocType,
                AbDoc, batchVars
  <2>2. \A q \in Pass : ~Owner(q)'
    BY <1>6, <2>1, OwnerFinish DEF ReleaseEmpty, ReleaseErr, CopiesInv
  <2>3. \A q \in Pass : pc'[q] # "referent"
    BY <2>2 DEF Owner, OwnerPcs
  <2>4. NoCopy' /\ NoDuplicateCopies'
    BY <2>1 DEF CopiesInv, NoCopy, NoDuplicateCopies
  <2>5. ClaimAccounted'
    BY <2>1 DEF CopiesInv, ClaimAccounted
  <2>. QED BY <2>1, <2>2, <2>3, <2>4, <2>5 DEF CopiesInv
<1>7. CASE ReleaseErrFails(p)
  <2>1. /\ Owner(p) /\ doc.notifAt /\ UNCHANGED <<doc, copies>>
        /\ outcome' = "lost"
    BY <1>7 DEF ReleaseErrFails, Owner, OwnerPcs, CopiesInv
  <2>2. \A q \in Pass : ~Owner(q)'
    BY <1>7, <2>1, OwnerFinish DEF ReleaseErrFails, CopiesInv
  <2>3. \A q \in Pass : pc'[q] # "referent"
    BY <2>2 DEF Owner, OwnerPcs
  <2>4. NoDuplicateCopies' /\ ClaimAccounted'
    BY <2>1, <2>2 DEF CopiesInv, NoDuplicateCopies, ClaimAccounted
  <2>. QED BY <2>1, <2>2, <2>3, <2>4 DEF CopiesInv
<1>. QED BY <1>1, <1>2, <1>3, <1>4, <1>5, <1>6, <1>7 DEF Noisy

LEMMA CrashCopies ==
    ASSUME TypeOK, CopiesInv, NEW i \in Inst, Crash(i)
    PROVE  CopiesInv'
<1>1. UNCHANGED <<doc, copies>>
  BY DEF Crash
<1>2. \A q \in Pass : IF OnInst(i, q) THEN pc'[q] = "idle" ELSE pc'[q] = pc[q]
  BY DEF Crash
<1>3. \A q \in Pass : Owner(q)' <=> Owner(q) /\ ~OnInst(i, q)
  BY <1>2 DEF Owner, OwnerPcs
<1>4. UNCHANGED <<NoCopy, NoDuplicateCopies>>
  BY <1>1 DEF NoCopy, NoDuplicateCopies
<1>5. ClaimAccounted'
  <2>1. CASE \E q \in Pass : OnInst(i, q) /\ Owner(q)
    <3>1. doc.notifAt /\ outcome' = "lost"
      BY <2>1 DEF Crash, CopiesInv
    <3>2. \A q \in Pass : ~Owner(q)'
      BY <1>3, <2>1 DEF CopiesInv
    <3>. QED BY <1>1, <3>1, <3>2 DEF ClaimAccounted
  <2>2. CASE ~ \E q \in Pass : OnInst(i, q) /\ Owner(q)
    <3>1. UNCHANGED outcome
      BY <2>2 DEF Crash
    <3>. QED BY <1>1, <1>3, <2>2, <3>1 DEF CopiesInv, ClaimAccounted
  <2>. QED BY <2>1, <2>2
<1>. QED BY <1>1, <1>2, <1>3, <1>4, <1>5 DEF CopiesInv

LEMMA InitCopies == Init => CopiesInv
BY DEF Init, CopiesInv, Owner, OwnerPcs, NoCopy, NoDuplicateCopies,
       ClaimAccounted, Recipient

LEMMA NextCopies ==
    ASSUME TypeOK, CopiesInv, [Next]_vars, "releaseApplied" \notin Faults
    PROVE  CopiesInv'
BY QuietOrNoisy, QuietCopies, NoisyCopies, CrashCopies

LEMMA CopiesInvariant ==
    ASSUME "releaseApplied" \notin Faults
    PROVE  Spec => []CopiesInv
<1>1. TypeOK /\ CopiesInv /\ [Next]_vars => CopiesInv'
  BY NextCopies
<1>. QED BY <1>1, InitCopies, TypeCorrect, PTL DEF Spec

\* No recipient gets a second copy, provided no release is applied by
\* MongoDB and reported as failed.
THEOREM NoDuplicates ==
    ASSUME "releaseApplied" \notin Faults
    PROVE  Spec => []NoDuplicateCopies
<1>1. CopiesInv => NoDuplicateCopies
  BY DEF CopiesInv
<1>. QED BY <1>1, CopiesInvariant, PTL

\* The claim is never left behind by accident, under the same proviso.
THEOREM ClaimsAccounted ==
    ASSUME "releaseApplied" \notin Faults
    PROVE  Spec => []ClaimAccounted
<1>1. CopiesInv => ClaimAccounted
  BY DEF CopiesInv
<1>. QED BY <1>1, CopiesInvariant, PTL

-----------------------------------------------------------------------------
(* The batch of mails implements AbNotification.                           *)

\* Each noisy step is a step of the batch, or is not seen by it.
LEMMA NoisyBatch ==
    ASSUME TypeOK, CopiesInv, CopiesInv', NEW p \in Pass, Noisy(p)
    PROVE  [Batch!BatchNext]_(Batch!batchVars)
<1>1. CASE Claim(p)
  <2>1. BatchPhase = "open" /\ UNCHANGED copies
    BY <1>1 DEF Claim, BatchPhase, batchVars
  <2>2. Owner(p)' /\ doc'.notifAt
    BY <1>1, OwnerMove DEF Claim, Owner, OwnerPcs, CopiesInv
  <2>3. BatchPhase' = "reserved"
    BY <2>2 DEF BatchPhase
  <2>. QED BY <2>1, <2>3 DEF Batch!BatchNext, Batch!Reserve
<1>2. CASE ClaimFails(p)
  <2>1. UNCHANGED copies
    BY <1>2 DEF ClaimFails
  <2>2. CASE UNCHANGED doc
    <3>1. \A q \in Pass : Owner(q)' <=> Owner(q)
      BY <1>2, QuietFinish DEF ClaimFails, Owner, OwnerPcs
    <3>. QED BY <2>1, <2>2, <3>1 DEF BatchPhase, Batch!batchVars
  <2>3. CASE ~doc.notifAt /\ doc' = [doc EXCEPT !.notifAt = TRUE]
    <3>1. BatchPhase = "open"
      BY <2>3 DEF BatchPhase
    <3>2. doc'.notifAt
      BY <2>3 DEF TypeOK, DocType, AbDoc
    <3>3. \A q \in Pass : ~Owner(q)'
      BY <1>2, <2>3, OwnerFinish DEF ClaimFails, CopiesInv
    <3>4. BatchPhase' = "closed"
      BY <3>2, <3>3 DEF BatchPhase
    <3>. QED BY <2>1, <3>1, <3>4 DEF Batch!BatchNext, Batch!Close
  <2>. QED BY <1>2, <2>2, <2>3 DEF ClaimFails
<1>3. CASE NoSenderFound(p) \/ ReleaseErrFails(p)
  <2>1. Owner(p) /\ doc.notifAt /\ UNCHANGED <<doc, copies>>
    BY <1>3 DEF NoSenderFound, ReleaseErrFails, Owner, OwnerPcs, CopiesInv
  <2>2. \A q \in Pass : ~Owner(q)'
    BY <1>3, <2>1, OwnerFinish DEF NoSenderFound, ReleaseErrFails, CopiesInv
  <2>3. BatchPhase = "reserved" /\ BatchPhase' = "closed"
    BY <2>1, <2>2 DEF BatchPhase
  <2>. QED BY <2>1, <2>3 DEF Batch!BatchNext, Batch!Close
<1>4. CASE MailCommercial(p)
  <2>1. Owner(p) /\ pc[p] # "referent" /\ Owner(p)' /\ UNCHANGED doc
    BY <1>4, OwnerMove DEF MailCommercial, Owner, OwnerPcs
  <2>2. BatchPhase = "reserved" /\ BatchPhase' = "reserved"
    BY <2>1 DEF BatchPhase, CopiesInv
  <2>3. CASE UNCHANGED copies
    BY <2>2, <2>3 DEF Batch!batchVars
  <2>4. CASE copies' = [copies EXCEPT !["commercial"] = @ + 1]
    <3>1. copies["commercial"] = 0 /\ "commercial" \in Recipient
      BY <2>1 DEF CopiesInv, NoCopy, Recipient
    <3>2. copies' = [copies EXCEPT !["commercial"] = 1]
      BY <2>4, <3>1
    <3>3. Batch!SendCopy("commercial")
      BY <2>2, <3>1, <3>2 DEF Batch!SendCopy
    <3>. QED BY <3>1, <3>3 DEF Batch!BatchNext
  <2>. QED BY <1>4, <2>3, <2>4 DEF MailCommercial
<1>5. CASE MailReferent(p)
  <2>1. /\ Owner(p) /\ doc.notifAt /\ UNCHANGED doc
        /\ copies["referent"] = 0 /\ "referent" \in Recipient
    BY <1>5 DEF MailReferent, Owner, OwnerPcs, CopiesInv, Recipient
  <2>2. \A q \in Pass : ~Owner(q)'
    BY <1>5, <2>1, OwnerFinish DEF MailReferent, CopiesInv
  <2>3. BatchPhase = "reserved" /\ BatchPhase' = "closed"
    BY <2>1, <2>2 DEF BatchPhase
  <2>4. CASE UNCHANGED copies
    BY <2>3, <2>4 DEF Batch!BatchNext, Batch!Close
  <2>5. CASE copies' = [copies EXCEPT !["referent"] = @ + 1]
    <3>1. copies' = [copies EXCEPT !["referent"] = 1]
      BY <2>1, <2>5
    <3>2. Batch!SendCopy("referent")
      BY <2>1, <2>3, <3>1 DEF Batch!SendCopy
    <3>. QED BY <2>1, <3>2 DEF Batch!BatchNext
  <2>. QED BY <1>5, <2>4, <2>5 DEF MailReferent
<1>6. CASE ReleaseEmpty(p) \/ ReleaseErr(p)
  <2>1. /\ Owner(p) /\ pc[p] # "referent" /\ doc.notifAt /\ ~doc'.notifAt
        /\ UNCHANGED copies
    BY <1>6 DEF ReleaseEmpty, ReleaseErr, Owner, OwnerPcs, CopiesInv, TypeOK,
                DocType, AbDoc, batchVars
  <2>2. BatchPhase = "reserved" /\ BatchPhase' = "open"
    BY <2>1 DEF BatchPhase
  <2>3. Batch!NothingSent
    BY <2>1 DEF CopiesInv, NoCopy, Batch!NothingSent
  <2>. QED BY <2>1, <2>2, <2>3 DEF Batch!BatchNext, Batch!GiveBack
<1>. QED BY <1>1, <1>2, <1>3, <1>4, <1>5, <1>6 DEF Noisy

LEMMA CrashBatch ==
    ASSUME CopiesInv, CopiesInv', NEW i \in Inst, Crash(i)
    PROVE  [Batch!BatchNext]_(Batch!batchVars)
<1>1. UNCHANGED <<doc, copies>>
  BY DEF Crash
<1>2. \A q \in Pass : Owner(q)' => Owner(q)
  BY DEF Crash, Owner, OwnerPcs
<1>3. CASE UNCHANGED BatchPhase
  BY <1>1, <1>3 DEF Batch!batchVars
<1>4. CASE BatchPhase' # BatchPhase
  <2>1. BatchPhase = "reserved" /\ BatchPhase' = "closed"
    BY <1>1, <1>2, <1>4 DEF BatchPhase
  <2>. QED BY <1>1, <2>1 DEF Batch!BatchNext, Batch!Close
<1>. QED BY <1>3, <1>4

\* AbSignature implements AbNotification: a reservation is taken before the
\* mails, given back only when none has left, and closed for ever.
THEOREM BatchImplemented ==
    ASSUME "releaseApplied" \notin Faults
    PROVE  Spec => BatchRefined
<1>1. Init => Batch!BatchInit
  BY DEF Init, Batch!BatchInit, BatchPhase
<1>2. ASSUME TypeOK, CopiesInv, CopiesInv', [Next]_vars
      PROVE  [Batch!BatchNext]_(Batch!batchVars)
  <2>1. CASE Quiet
    BY <2>1 DEF Quiet, BatchPhase, Batch!batchVars
  <2>. QED BY <1>2, <2>1, QuietOrNoisy, NoisyBatch, CrashBatch
<1>. QED
  BY <1>1, <1>2, TypeCorrect, CopiesInvariant, PTL
  DEF Spec, BatchRefined, Batch!BatchSpec

\* What readers get from AbNotification: once the fate of the batch is known
\* the AB keeps its reservation and no mail of the batch leaves any more.
THEOREM SettledForGood ==
    ASSUME "releaseApplied" \notin Faults
    PROVE  Spec => [][outcome # "none" => /\ outcome' # "none"
                                          /\ doc'.notifAt
                                          /\ UNCHANGED copies]_vars
<1>1. ASSUME CopiesInv, CopiesInv', outcome # "none",
             [Batch!BatchNext]_(Batch!batchVars)
      PROVE  outcome' # "none" /\ doc'.notifAt /\ UNCHANGED copies
  <2>1. BatchPhase = "closed"
    BY <1>1 DEF CopiesInv, ClaimAccounted, BatchPhase
  <2>2. BatchPhase' = "closed" /\ UNCHANGED copies
    BY <1>1, <2>1
    DEF Batch!BatchNext, Batch!Reserve, Batch!GiveBack, Batch!SendCopy,
        Batch!Close, Batch!batchVars
  <2>3. doc'.notifAt /\ ~\E p \in Pass : Owner(p)'
    BY <2>2 DEF BatchPhase
  <2>. QED BY <1>1, <2>2, <2>3 DEF CopiesInv, ClaimAccounted
<1>2. CopiesInv /\ CopiesInv' /\ [Batch!BatchNext]_(Batch!batchVars)
      => [outcome # "none" => /\ outcome' # "none"
                              /\ doc'.notifAt
                              /\ UNCHANGED copies]_vars
  BY <1>1
<1>. QED
  BY <1>2, BatchImplemented, CopiesInvariant, PTL
  DEF BatchRefined, Batch!BatchSpec

-----------------------------------------------------------------------------
(* The guard of each instance.                                             *)

\* The pass p justifies the entry s of inflightSubmissions of instance i.
Backs(p, i, s) ==
    InstOf[p] = i /\ on[p] = s /\ pc[p] \notin {"idle", "wait"} /\ ~answered[p]

InflightInv ==
    /\ NoLeakedInflight
    /\ \A p \in Pass : pc[p] \in {"idle", "wait", "lookup"} => ~answered[p]

\* How a step moves the passes: not at all, one ends, one goes on, one
\* enters, one is answered early, or all those of an instance die.
Ends(p) == pc[p] # "idle" /\ \E code : Finish(p, code)
GoesOn(p) == \E from \in PassPcs, to \in PassPcs :
                /\ from \notin {"idle", "wait"}
                /\ to \notin {"idle", "wait", "lookup"}
                /\ Move(p, from, to)
Enters(p) == \E s \in Sub : /\ pc[p] \in {"idle", "wait"}
                             /\ Enter(p, s)
                             /\ on' = [on EXCEPT ![p] = s]
                             /\ UNCHANGED answered
Waits(p) == \E s \in Sub : /\ pc[p] = "idle"
                            /\ pc' = [pc EXCEPT ![p] = "wait"]
                            /\ on' = [on EXCEPT ![p] = s]
                            /\ UNCHANGED <<answered, inflight>>

LEMMA PassMoves ==
    ASSUME TypeOK, NEW p \in Pass, PassStep(p) \/ PassFault(p) \/ Delivery(p)
    PROVE  Ends(p) \/ GoesOn(p) \/ Enters(p) \/ Waits(p) \/ OtherRegionFails(p)
<1>1. CASE \/ LookupIgnored(p) \/ ClaimLost(p) \/ NoSenderFound(p)
           \/ MailReferent(p) \/ ReleaseEmpty(p) \/ ReleaseErr(p)
           \/ LookupFails(p) \/ ClaimFails(p) \/ ReleaseErrFails(p)
  BY <1>1 DEF LookupIgnored, ClaimLost, NoSenderFound, MailReferent,
              ReleaseEmpty, ReleaseErr, LookupFails, ClaimFails,
              ReleaseErrFails, Ends
<1>2. CASE \/ LookupFound(p) \/ Claim(p) \/ Sign(p) \/ Download(p)
           \/ Prepare(p) \/ Archive(p) \/ ResolveSender(p)
           \/ MailCommercial(p)
  BY <1>2 DEF LookupFound, Claim, Sign, Download, Prepare, AfterPrepare,
              Archive, ResolveSender, MailCommercial, GoesOn, PassPcs, OwnerPcs
<1>3. CASE \/ SignFails(p) \/ DownloadEmpty(p) \/ PrepareFails(p)
           \/ ResolveSenderFails(p) \/ ReleaseEmptyFails(p)
  BY <1>3 DEF SignFails, DownloadEmpty, PrepareFails, ResolveSenderFails,
              ReleaseEmptyFails, Throw, GoesOn, PassPcs, OwnerPcs
<1>4. ASSUME NEW s \in Sub, Receive(p, s)
      PROVE  Enters(p) \/ Waits(p)
  BY <1>4 DEF Receive, Enters, Waits
<1>5. CASE WakeUp(p) \/ WaitTimeout(p)
  <2>1. on[p] \in Sub /\ on' = [on EXCEPT ![p] = on[p]]
    BY <1>5 DEF TypeOK, HookType, WakeUp, WaitTimeout
  <2>. QED BY <1>5, <2>1 DEF WakeUp, WaitTimeout, Enters
<1>. QED
  BY <1>1, <1>2, <1>3, <1>4, <1>5
  DEF PassStep, PassFault, Delivery, Deliver, Redeliver

LEMMA OthersUntouched ==
    ASSUME UserStep \/ RelanceStep
    PROVE  UNCHANGED hookVars
BY DEF UserStep, RelanceStep, SendMail, SendStore, SendStoreFails, Complete,
       EditRead, EditWrite, MarkSigned, Delete, SetRelanceDisabled,
       TwoWeeksPass, RelanceSelect, RelanceMail, RelanceMark, RelanceMarkFails

LEMMA InflightBacked ==
    ASSUME TypeOK, InflightInv, [Next]_vars
    PROVE  NoLeakedInflight'
<1>. SUFFICES ASSUME NEW i \in Inst, NEW s \in inflight'[i]
              PROVE  \E p \in Pass : Backs(p, i, s)'
  BY DEF NoLeakedInflight, Backs
<1>0. s \in inflight[i] => \E p \in Pass : Backs(p, i, s)
  BY DEF InflightInv, NoLeakedInflight, Backs
<1>1. CASE UNCHANGED hookVars
  BY <1>0, <1>1 DEF hookVars, Backs
<1>2. ASSUME NEW p \in Pass, Ends(p)
      PROVE  \E q \in Pass : Backs(q, i, s)'
  <2>1. PICK code : Finish(p, code)
    BY <1>2 DEF Ends
  <2>2. s \in inflight[i]
    BY <2>1 DEF Finish, TypeOK, HookType
  <2>3. PICK q \in Pass : Backs(q, i, s)
    BY <1>0, <2>2
  <2>4. q # p
    BY <2>1, <2>3 DEF Finish, Backs, TypeOK, HookType
  <2>. QED BY <2>1, <2>3, <2>4 DEF Finish, Backs, TypeOK, HookType
<1>3. ASSUME NEW p \in Pass, GoesOn(p)
      PROVE  \E q \in Pass : Backs(q, i, s)'
  <2>1. PICK q \in Pass : Backs(q, i, s)
    BY <1>0, <1>3 DEF GoesOn, Move
  <2>. QED BY <1>3, <2>1 DEF GoesOn, Move, Backs, TypeOK, HookType
<1>4. ASSUME NEW p \in Pass, Enters(p)
      PROVE  \E q \in Pass : Backs(q, i, s)'
  <2>1. PICK t \in Sub : /\ pc[p] \in {"idle", "wait"}
                         /\ Enter(p, t)
                         /\ on' = [on EXCEPT ![p] = t]
                         /\ UNCHANGED answered
    BY <1>4 DEF Enters
  <2>2. CASE i = InstOf[p] /\ s = t
    BY <2>1, <2>2 DEF Enter, Backs, InflightInv, TypeOK, HookType
  <2>3. CASE ~(i = InstOf[p] /\ s = t)
    <3>1. PICK q \in Pass : Backs(q, i, s)
      BY <1>0, <2>1, <2>3 DEF Enter, TypeOK, HookType
    <3>2. q # p
      BY <2>1, <3>1 DEF Backs
    <3>. QED BY <2>1, <3>1, <3>2 DEF Enter, Backs, TypeOK, HookType
  <2>. QED BY <2>2, <2>3
<1>5. ASSUME NEW p \in Pass, Waits(p)
      PROVE  \E q \in Pass : Backs(q, i, s)'
  <2>1. PICK q \in Pass : Backs(q, i, s)
    BY <1>0, <1>5 DEF Waits
  <2>2. q # p
    BY <1>5, <2>1 DEF Waits, Backs
  <2>. QED BY <1>5, <2>1, <2>2 DEF Waits, Backs, TypeOK, HookType
<1>6. ASSUME NEW p \in Pass, OtherRegionFails(p)
      PROVE  \E q \in Pass : Backs(q, i, s)'
  <2>1. s \in inflight[i] /\ ~(i = InstOf[p] /\ s = on[p])
    BY <1>6 DEF OtherRegionFails, TypeOK, HookType
  <2>2. PICK q \in Pass : Backs(q, i, s)
    BY <1>0, <2>1
  <2>3. q # p
    BY <2>1, <2>2 DEF Backs
  <2>. QED BY <1>6, <2>2, <2>3 DEF OtherRegionFails, Backs, TypeOK, HookType
<1>7. ASSUME NEW j \in Inst, Crash(j)
      PROVE  \E q \in Pass : Backs(q, i, s)'
  <2>1. i # j /\ s \in inflight[i]
    BY <1>7 DEF Crash, TypeOK, HookType
  <2>2. PICK q \in Pass : Backs(q, i, s)
    BY <1>0, <2>1
  <2>3. ~OnInst(j, q)
    BY <2>1, <2>2 DEF Backs, OnInst
  <2>. QED BY <1>7, <2>2, <2>3 DEF Crash, Backs, TypeOK, HookType
<1>. QED
  BY <1>1, <1>2, <1>3, <1>4, <1>5, <1>6, <1>7, PassMoves, OthersUntouched
  DEF Next, vars, hookVars

LEMMA AnsweredLate ==
    ASSUME TypeOK, InflightInv, [Next]_vars
    PROVE  \A p \in Pass : pc'[p] \in {"idle", "wait", "lookup"} => ~answered'[p]
<1>1. CASE UNCHANGED hookVars
  BY <1>1 DEF hookVars, InflightInv
<1>2. ASSUME NEW p \in Pass, Ends(p) \/ GoesOn(p) \/ Enters(p) \/ Waits(p)
      PROVE  \A q \in Pass : pc'[q] \in {"idle", "wait", "lookup"} => ~answered'[q]
  BY <1>2
  DEF Ends, Finish, GoesOn, Move, Enters, Enter, Waits, InflightInv, TypeOK,
      HookType
<1>3. ASSUME NEW p \in Pass, OtherRegionFails(p)
      PROVE  \A q \in Pass : pc'[q] \in {"idle", "wait", "lookup"} => ~answered'[q]
  BY <1>3
  DEF OtherRegionFails, Owner, OwnerPcs, InflightInv, TypeOK, HookType
<1>4. ASSUME NEW i \in Inst, Crash(i)
      PROVE  \A q \in Pass : pc'[q] \in {"idle", "wait", "lookup"} => ~answered'[q]
  BY <1>4 DEF Crash, InflightInv
<1>. QED
  BY <1>1, <1>2, <1>3, <1>4, PassMoves, OthersUntouched
  DEF Next, vars, hookVars

\* inflightSubmissions never keeps a submission nobody is processing: no
\* delivery waits behind an entry that will not be removed.
THEOREM NothingLeaks == Spec => []NoLeakedInflight
<1>1. Init => InflightInv
  BY DEF Init, InflightInv, NoLeakedInflight
<1>2. TypeOK /\ InflightInv /\ [Next]_vars => InflightInv'
  <2>. SUFFICES ASSUME TypeOK, InflightInv, [Next]_vars PROVE InflightInv'
    OBVIOUS
  <2>. QED BY InflightBacked, AnsweredLate DEF InflightInv
<1>3. InflightInv => NoLeakedInflight
  BY DEF InflightInv
<1>. QED BY <1>1, <1>2, <1>3, TypeCorrect, PTL DEF Spec

\* A pass beyond its lookup.
Inside(p) == pc[p] \notin {"idle", "wait", "lookup"}

\* What a webhook request does to what the users see: nothing, or Sign.
LEMMA PassEffect ==
    ASSUME TypeOK, NEW p \in Pass, PassStep(p) \/ PassFault(p) \/ Delivery(p)
    PROVE  /\ UNCHANGED <<userVars, relanceVars>>
           /\ doc'.reqId = doc.reqId /\ doc'.relanced = doc.relanced
           /\ \/ recorded' = recorded /\ doc'.status = doc.status
              \/ /\ recorded' = recorded \cup {on[p]}
                 /\ doc'.status = "SIGNE"
                 /\ Inside(p)
<1>1. UNCHANGED <<userVars, relanceVars>>
  BY DEF PassStep, PassFault, Delivery, LookupFound, LookupIgnored, Claim,
         ClaimLost, Sign, Download, Prepare, Archive, ResolveSender,
         NoSenderFound, MailCommercial, MailReferent, ReleaseEmpty,
         ReleaseErr, LookupFails, ClaimFails, SignFails, DownloadEmpty,
         PrepareFails, ResolveSenderFails, Throw, ReleaseEmptyFails,
         ReleaseErrFails, OtherRegionFails, Deliver, Redeliver, Receive,
         WakeUp, WaitTimeout
<1>2. CASE Sign(p)
  <2>1. /\ doc'.reqId = doc.reqId /\ doc'.status = "SIGNE"
        /\ doc'.relanced = doc.relanced
    BY <1>2 DEF Sign, TypeOK, DocType, AbDoc
  <2>2. recorded' = recorded \cup {on[p]} /\ Inside(p)
    BY <1>2 DEF Sign, Move, Inside
  <2>. QED BY <1>1, <2>1, <2>2
<1>3. CASE ~Sign(p)
  <2>1. recorded' = recorded
    BY <1>3
    DEF PassStep, PassFault, Delivery, LookupFound, LookupIgnored, Claim,
        ClaimLost, Download, Prepare, Archive, ResolveSender, NoSenderFound,
        MailCommercial, MailReferent, ReleaseEmpty, ReleaseErr, LookupFails,
        ClaimFails, SignFails, DownloadEmpty, PrepareFails,
        ResolveSenderFails, Throw, ReleaseEmptyFails, ReleaseErrFails,
        OtherRegionFails, Deliver, Redeliver, Receive, WakeUp, WaitTimeout,
        batchVars
  <2>2. UNCHANGED doc \/ \E b \in BOOLEAN : doc' = [doc EXCEPT !.notifAt = b]
    BY <1>3
    DEF PassStep, PassFault, Delivery, LookupFound, LookupIgnored, Claim,
        ClaimLost, Download, Prepare, Archive, ResolveSender, NoSenderFound,
        MailCommercial, MailReferent, ReleaseEmpty, ReleaseErr, LookupFails,
        ClaimFails, SignFails, DownloadEmpty, PrepareFails,
        ResolveSenderFails, Throw, ReleaseEmptyFails, ReleaseErrFails,
        OtherRegionFails, Deliver, Redeliver, Receive, WakeUp, WaitTimeout
  <2>3. /\ doc'.reqId = doc.reqId /\ doc'.status = doc.status
        /\ doc'.relanced = doc.relanced
    BY <2>2 DEF TypeOK, DocType, AbDoc
  <2>. QED BY <1>1, <2>1, <2>3
<1>. QED BY <1>2, <1>3

-----------------------------------------------------------------------------
(* The link of an AB that waits, and the relance.                          *)

\* A status read as awaiting by an update was awaiting then, and the link
\* and the date are never taken back.
LinkInv ==
    /\ AwaitingHasLink
    /\ \A u \in Editors : edit[u].status = "EN_ATTENTE_SIGNATURE" =>
          edit[u].reqId # NoSub /\ doc.url # NoSub /\ doc.sentAt # "never"

LEMMA LinkNext ==
    ASSUME TypeOK, LinkInv, [Next]_vars
    PROVE  LinkInv'
<1>1. CASE UNCHANGED <<doc, edit>>
  BY <1>1 DEF LinkInv, AwaitingHasLink
<1>2. ASSUME NEW p \in Pass, PassStep(p) \/ PassFault(p) \/ Delivery(p)
      PROVE  LinkInv'
  <2>1. UNCHANGED edit
    BY <1>2
    DEF PassStep, PassFault, Delivery, LookupFound, LookupIgnored, Claim,
        ClaimLost, Sign, Download, Prepare, Archive, ResolveSender,
        NoSenderFound, MailCommercial, MailReferent, ReleaseEmpty, ReleaseErr,
        LookupFails, ClaimFails, SignFails, DownloadEmpty, PrepareFails,
        ResolveSenderFails, Throw, ReleaseEmptyFails, ReleaseErrFails,
        OtherRegionFails, Deliver, Redeliver, Receive, WakeUp, WaitTimeout,
        userVars
  <2>2. \/ UNCHANGED doc
        \/ \E b \in BOOLEAN : doc' = [doc EXCEPT !.notifAt = b]
        \/ doc' = [doc EXCEPT !.status = "SIGNE", !.signedAt = TRUE]
    BY <1>2
    DEF PassStep, PassFault, Delivery, LookupFound, LookupIgnored, Claim,
        ClaimLost, Sign, Download, Prepare, Archive, ResolveSender,
        NoSenderFound, MailCommercial, MailReferent, ReleaseEmpty, ReleaseErr,
        LookupFails, ClaimFails, SignFails, DownloadEmpty, PrepareFails,
        ResolveSenderFails, Throw, ReleaseEmptyFails, ReleaseErrFails,
        OtherRegionFails, Deliver, Redeliver, Receive, WakeUp, WaitTimeout
  <2>. QED BY <2>1, <2>2 DEF LinkInv, AwaitingHasLink, TypeOK, DocType, AbDoc
<1>3. ASSUME NEW u \in Senders, SendStore(u)
      PROVE  LinkInv'
  <2>1. send[u] \in Sub /\ send[u] # NoSub /\ UNCHANGED edit
    BY <1>3, ConstantsAssumption DEF SendStore, TypeOK, UserType
  <2>2. doc'.reqId = send[u] /\ doc'.url = send[u] /\ doc'.sentAt = "recent"
    BY <1>3 DEF SendStore, TypeOK, DocType, AbDoc
  <2>. QED BY <2>1, <2>2 DEF LinkInv, AwaitingHasLink
<1>4. ASSUME NEW u \in Editors, EditRead(u)
      PROVE  LinkInv'
  BY <1>4 DEF EditRead, LinkInv, AwaitingHasLink, TypeOK, UserType
<1>5. ASSUME NEW u \in Editors, EditWrite(u)
      PROVE  LinkInv'
  BY <1>5 DEF EditWrite, LinkInv, AwaitingHasLink, NoEdit, TypeOK, UserType,
              DocType, AbDoc
<1>6. CASE \/ MarkSigned \/ Delete \/ SetRelanceDisabled
           \/ TwoWeeksPass \/ \E i \in Schedulers : RelanceMark(i)
  BY <1>6 DEF MarkSigned, Delete, SetRelanceDisabled, TwoWeeksPass,
              RelanceMark, LinkInv, AwaitingHasLink, userVars, TypeOK, DocType,
              AbDoc
<1>7. ASSUME NEW i \in Inst, Crash(i)
      PROVE  LinkInv'
  BY <1>7 DEF Crash, LinkInv, AwaitingHasLink, NoEdit, TypeOK, UserType
<1>8. CASE UserStep \/ RelanceStep
  BY <1>1, <1>3, <1>4, <1>5, <1>6, <1>8
  DEF UserStep, RelanceStep, SendMail, SendStoreFails, Complete,
      RelanceSelect, RelanceMail, RelanceMarkFails, userVars
<1>. QED BY <1>1, <1>2, <1>7, <1>8 DEF Next, vars, userVars

\* An AB that waits for its signature has a request, a link and a date.
THEOREM AwaitingAlwaysHasLink == Spec => []AwaitingHasLink
<1>1. Init => LinkInv
  BY DEF Init, LinkInv, AwaitingHasLink, NoEdit
<1>2. TypeOK /\ LinkInv /\ [Next]_vars => LinkInv'
  BY LinkNext
<1>3. LinkInv => AwaitingHasLink
  BY DEF LinkInv
<1>. QED BY <1>1, <1>2, <1>3, TypeCorrect, PTL DEF Spec

\* With one scheduler: a relance under way is the first one the AB has no
\* trace of, and every mail is accounted for by a lost mark, by the date
\* written on the AB, or by the mark still to be written.
OneScheduler == \A i, j \in Schedulers : i = j
Marking == \E i \in Schedulers : relance[i] = "mark"
RelanceInv ==
    /\ \A i \in Schedulers : relance[i] # "idle" => ~doc.relanced
    /\ Marking \/ doc.relanced => relances <= lostMarks + 1
    /\ ~Marking /\ ~doc.relanced => relances <= lostMarks

LEMMA RelanceNext ==
    ASSUME OneScheduler, TypeOK, RelanceInv, [Next]_vars
    PROVE  RelanceInv'
<1>1. ASSUME doc'.relanced = doc.relanced, UNCHANGED relanceVars
      PROVE  RelanceInv'
  BY <1>1 DEF RelanceInv, Marking, relanceVars
<1>2. ASSUME NEW p \in Pass, PassStep(p) \/ PassFault(p) \/ Delivery(p)
      PROVE  RelanceInv'
  <2>1. /\ relance' = relance /\ relances' = relances
        /\ lostMarks' = lostMarks /\ doc'.relanced = doc.relanced
    BY <1>2, PassEffect DEF userVars, relanceVars
  <2>. QED BY <2>1 DEF RelanceInv, Marking
<1>3. ASSUME UserStep \/ TwoWeeksPass
      PROVE  UNCHANGED relanceVars /\ doc'.relanced = doc.relanced
  BY <1>3
  DEF UserStep, SendMail, SendStore, SendStoreFails, Complete, EditRead,
      EditWrite, MarkSigned, Delete, SetRelanceDisabled, TwoWeeksPass,
      TypeOK, DocType, AbDoc
<1>4. ASSUME NEW i \in Schedulers, RelanceSelect(i)
      PROVE  RelanceInv'
  <2>1. ~doc.relanced /\ UNCHANGED <<doc, relances, lostMarks>>
    BY <1>4 DEF RelanceSelect, Due
  <2>2. Marking' <=> Marking
    BY <1>4 DEF RelanceSelect, Marking, TypeOK, RelanceType
  <2>. QED BY <2>1, <2>2 DEF RelanceInv
<1>5. ASSUME NEW i \in Schedulers, RelanceMail(i)
      PROVE  RelanceInv'
  <2>1. /\ ~doc.relanced /\ ~Marking /\ UNCHANGED <<doc, lostMarks>>
        /\ relances <= lostMarks
    BY <1>5 DEF RelanceMail, RelanceInv, OneScheduler, Marking
  <2>2. CASE relance' = [relance EXCEPT ![i] = "mark"] /\ relances' = relances + 1
    <3>1. Marking'
      BY <2>2 DEF Marking, TypeOK, RelanceType
    <3>2. relances' <= lostMarks' + 1
      BY <2>1, <2>2 DEF TypeOK, RelanceType
    <3>. QED BY <2>1, <3>1, <3>2 DEF RelanceInv
  <2>3. CASE relance' = [relance EXCEPT ![i] = "idle"] /\ UNCHANGED relances
    <3>1. ~Marking'
      BY <2>1, <2>3 DEF Marking, TypeOK, RelanceType
    <3>. QED BY <2>1, <2>3, <3>1 DEF RelanceInv
  <2>. QED BY <1>5, <2>2, <2>3 DEF RelanceMail
<1>6. ASSUME NEW i \in Schedulers, RelanceMark(i)
      PROVE  RelanceInv'
  <2>1. Marking /\ relances <= lostMarks + 1 /\ UNCHANGED <<relances, lostMarks>>
    BY <1>6 DEF RelanceMark, RelanceInv, Marking
  <2>2. \A j \in Schedulers : relance'[j] = "idle"
    BY <1>6 DEF RelanceMark, OneScheduler, TypeOK, RelanceType
  <2>3. doc'.relanced
    BY <1>6 DEF RelanceMark, TypeOK, DocType, AbDoc
  <2>. QED BY <2>1, <2>2, <2>3 DEF RelanceInv
<1>7. ASSUME NEW i \in Schedulers, RelanceMarkFails(i)
      PROVE  RelanceInv'
  <2>1. /\ ~doc.relanced /\ UNCHANGED <<doc, relances>>
        /\ relances <= lostMarks + 1 /\ lostMarks' = lostMarks + 1
    BY <1>7 DEF RelanceMarkFails, RelanceInv, Marking
  <2>2. \A j \in Schedulers : relance'[j] = "idle"
    BY <1>7 DEF RelanceMarkFails, OneScheduler, TypeOK, RelanceType
  <2>. QED BY <2>1, <2>2 DEF RelanceInv, Marking
<1>8. ASSUME NEW i \in Inst, Crash(i)
      PROVE  RelanceInv'
  <2>1. UNCHANGED <<doc, relances>>
    BY <1>8 DEF Crash
  <2>2. CASE i \in Schedulers /\ relance[i] = "mark"
    <3>1. ~doc.relanced /\ relances <= lostMarks + 1 /\ lostMarks' = lostMarks + 1
      BY <1>8, <2>2 DEF Crash, RelanceInv, Marking
    <3>2. \A j \in Schedulers : relance'[j] = "idle"
      BY <1>8, <2>2 DEF Crash, OneScheduler
    <3>. QED BY <2>1, <3>1, <3>2 DEF RelanceInv, Marking
  <2>3. CASE ~(i \in Schedulers /\ relance[i] = "mark")
    <3>1. UNCHANGED lostMarks
      BY <1>8, <2>3 DEF Crash
    <3>2. \A j \in Schedulers : relance'[j] = "idle" \/ relance'[j] = relance[j]
      BY <1>8 DEF Crash
    <3>3. Marking' <=> Marking
      BY <1>8, <2>3 DEF Crash, Marking
    <3>. QED BY <2>1, <3>1, <3>2, <3>3 DEF RelanceInv
  <2>. QED BY <2>2, <2>3
<1>9. CASE UNCHANGED vars
  BY <1>1, <1>9 DEF vars
<1>. QED
  BY <1>1, <1>2, <1>3, <1>4, <1>5, <1>6, <1>7, <1>8, <1>9
  DEF Next, RelanceStep

\* With one scheduler an AB is relanced once, plus once per lost mark.
THEOREM RelancedOnce ==
    ASSUME OneScheduler
    PROVE  Spec => []RelancesExplained
<1>1. Init => RelanceInv
  BY DEF Init, RelanceInv, Marking
<1>2. TypeOK /\ RelanceInv /\ [Next]_vars => RelanceInv'
  BY RelanceNext
<1>3. TypeOK /\ RelanceInv => RelancesExplained
  BY DEF RelanceInv, RelancesExplained, TypeOK, RelanceType
<1>. QED BY <1>1, <1>2, <1>3, TypeCorrect, PTL DEF Spec

-----------------------------------------------------------------------------
(* A relance and a signature: the one race that lets a signed AB be        *)
(* relanced.                                                               *)

\* Nothing in the system has met the request s yet, but who sends it.
Fresh(s) ==
    /\ doc.reqId # s
    /\ s \notin recorded
    /\ \A e \in Editors : edit[e].reqId # s
    /\ \A p \in Pass : Inside(p) => on[p] # s

\* A request is fresh until it is stored, and one user sends it.
SendInv ==
    /\ \A s \in Sub : subs[s] = "unused" => Fresh(s)
    /\ \A u \in Senders : send[u] # NoSub =>
          subs[send[u]] # "unused" /\ Fresh(send[u])
    /\ \A u, v \in Senders : send[u] = send[v] /\ send[u] # NoSub => u = v

\* A pass gets past the lookup only with the request of the AB.
LEMMA PassGoesIn ==
    ASSUME TypeOK, NEW p \in Pass, PassStep(p) \/ PassFault(p) \/ Delivery(p)
    PROVE  /\ \A q \in Pass \ {p} : pc'[q] = pc[q] /\ on'[q] = on[q]
           /\ Inside(p)' => on'[p] = on[p] /\ (Inside(p) \/ doc.reqId = on[p])
<1>1. CASE LookupFound(p)
  BY <1>1 DEF LookupFound, Move, Inside, TypeOK, HookType
<1>2. ASSUME ~LookupFound(p), GoesOn(p)
      PROVE  pc[p] # "lookup"
  BY <1>2
  DEF PassStep, PassFault, Delivery, LookupIgnored, Claim,
      ClaimLost, Sign, Download, Prepare, Archive, ResolveSender,
      NoSenderFound, MailCommercial, MailReferent, ReleaseEmpty, ReleaseErr,
      LookupFails, ClaimFails, SignFails, DownloadEmpty, PrepareFails,
      ResolveSenderFails, Throw, ReleaseEmptyFails, ReleaseErrFails,
      OtherRegionFails, Owner, OwnerPcs, Deliver, Redeliver, Receive, WakeUp,
      WaitTimeout, GoesOn, Move, Finish, TypeOK, HookType
<1>3. CASE ~LookupFound(p) /\ GoesOn(p)
  BY <1>2, <1>3 DEF GoesOn, Move, Inside, TypeOK, HookType
<1>4. CASE Ends(p)
  BY <1>4 DEF Ends, Finish, Inside, TypeOK, HookType
<1>5. CASE Enters(p) \/ Waits(p)
  BY <1>5 DEF Enters, Enter, Waits, Inside, TypeOK, HookType
<1>6. CASE OtherRegionFails(p)
  BY <1>6 DEF OtherRegionFails, Inside, Owner, OwnerPcs
<1>. QED BY <1>1, <1>3, <1>4, <1>5, <1>6, PassMoves

LEMMA SendNext ==
    ASSUME TypeOK, SendInv, [Next]_vars
    PROVE  SendInv'
<1>0. ASSUME NEW s, Fresh(s),
             doc'.reqId = doc.reqId \/ doc'.reqId # s,
             recorded' = recorded,
             \A e \in Editors : edit'[e].reqId # s,
             UNCHANGED <<pc, on>>
      PROVE  Fresh(s)'
  BY <1>0 DEF Fresh, Inside
<1>1. ASSUME NEW p \in Pass, PassStep(p) \/ PassFault(p) \/ Delivery(p)
      PROVE  SendInv'
  <2>1. UNCHANGED <<subs, send, edit>> /\ doc'.reqId = doc.reqId
    BY <1>1, PassEffect DEF userVars
  <2>2. ASSUME NEW s, Fresh(s) PROVE Fresh(s)'
    <3>1. s \notin recorded'
      BY <1>1, <2>2, PassEffect DEF Fresh
    <3>2. \A q \in Pass : Inside(q)' => on'[q] # s
      BY <1>1, <2>2, PassGoesIn DEF Fresh, Inside
    <3>. QED BY <2>1, <2>2, <3>1, <3>2 DEF Fresh
  <2>. QED BY <2>1, <2>2 DEF SendInv
<1>2. ASSUME NEW u \in Senders, NEW s \in Sub, SendMail(u, s)
      PROVE  SendInv'
  <2>1. /\ \A t \in Sub : subs'[t] = "unused" => subs[t] = "unused"
        /\ subs'[s] # "unused" /\ subs[s] = "unused" /\ send'[u] = s
        /\ \A t \in Sub \ {s} : subs'[t] = subs[t]
        /\ \A v \in Senders \ {u} : send'[v] = send[v]
    BY <1>2 DEF SendMail, TypeOK, UserType
  <2>2. ASSUME NEW t, Fresh(t) PROVE Fresh(t)'
    BY <1>2, <2>2 DEF SendMail, Fresh, Inside, hookVars, batchVars
  <2>3. \A v \in Senders : send[v] # NoSub => send[v] # s /\ send[v] \in Sub
    BY <2>1 DEF SendInv, TypeOK, UserType
  <2>. QED BY <2>1, <2>2, <2>3 DEF SendInv
<1>3. ASSUME NEW u \in Senders, SendStore(u)
      PROVE  SendInv'
  <2>1. /\ send[u] # NoSub /\ send'[u] = NoSub /\ doc'.reqId = send[u]
        /\ \A v \in Senders \ {u} : send'[v] = send[v]
        /\ UNCHANGED <<subs, edit, pc, on, recorded>>
    BY <1>3 DEF SendStore, TypeOK, UserType, DocType, AbDoc, hookVars, batchVars
  <2>2. ASSUME NEW t, Fresh(t), t # send[u] PROVE Fresh(t)'
    BY <2>1, <2>2 DEF Fresh, Inside
  <2>3. \A v \in Senders \ {u} : send[v] # NoSub => send[v] # send[u]
    BY <2>1 DEF SendInv
  <2>4. \A t \in Sub : subs[t] = "unused" => t # send[u]
    BY <2>1 DEF SendInv
  <2>. QED BY <2>1, <2>2, <2>3, <2>4 DEF SendInv
<1>4. ASSUME NEW u \in Senders, SendStoreFails(u)
      PROVE  SendInv'
  <2>1. /\ send'[u] = NoSub
        /\ \A v \in Senders \ {u} : send'[v] = send[v]
        /\ UNCHANGED <<doc, subs, edit, pc, on, recorded>>
    BY <1>4 DEF SendStoreFails, TypeOK, UserType, hookVars, batchVars
  <2>2. ASSUME NEW t, Fresh(t) PROVE Fresh(t)'
    BY <2>1, <2>2 DEF Fresh, Inside
  <2>. QED BY <2>1, <2>2 DEF SendInv
<1>5. ASSUME NEW s \in Sub, Complete(s)
      PROVE  SendInv'
  <2>1. /\ subs[s] = "open"
        /\ \A t \in Sub : subs'[t] = "unused" <=> subs[t] = "unused"
        /\ UNCHANGED <<doc, send, edit, pc, on, recorded>>
    BY <1>5 DEF Complete, TypeOK, UserType, hookVars, batchVars
  <2>2. ASSUME NEW t, Fresh(t) PROVE Fresh(t)'
    BY <2>1, <2>2 DEF Fresh, Inside
  <2>3. \A v \in Senders : send[v] # NoSub => send[v] \in Sub
    BY DEF TypeOK, UserType
  <2>. QED BY <2>1, <2>2, <2>3 DEF SendInv
<1>6. ASSUME NEW e \in Editors, EditRead(e) \/ EditWrite(e)
      PROVE  SendInv'
  <2>1. UNCHANGED <<subs, send, pc, on, recorded>>
    BY <1>6 DEF EditRead, EditWrite, hookVars, batchVars
  <2>2. ASSUME NEW t \in Sub, Fresh(t) PROVE Fresh(t)'
    <3>1. doc.reqId # t /\ edit[e].reqId # t /\ NoEdit.reqId # t
      BY <2>2, ConstantsAssumption DEF Fresh, NoEdit
    <3>2. doc'.reqId # t
      BY <1>6, <3>1 DEF EditRead, EditWrite, TypeOK, DocType, AbDoc
    <3>3. edit'[e].reqId # t
      BY <1>6, <3>1 DEF EditRead, EditWrite, TypeOK, UserType
    <3>4. \A f \in Editors \ {e} : edit'[f] = edit[f]
      BY <1>6 DEF EditRead, EditWrite, TypeOK, UserType
    <3>. QED BY <2>1, <2>2, <3>2, <3>3, <3>4 DEF Fresh, Inside
  <2>3. \A v \in Senders : send[v] # NoSub => send[v] \in Sub
    BY DEF TypeOK, UserType
  <2>. QED BY <2>1, <2>2, <2>3 DEF SendInv
<1>7. CASE MarkSigned \/ Delete \/ SetRelanceDisabled \/ RelanceStep
  <2>1. UNCHANGED <<subs, send, edit, pc, on, recorded>>
    BY <1>7
    DEF MarkSigned, Delete, SetRelanceDisabled, RelanceStep, TwoWeeksPass,
        RelanceSelect, RelanceMail, RelanceMark, RelanceMarkFails, userVars,
        hookVars, batchVars
  <2>2. doc'.reqId = doc.reqId
    BY <1>7
    DEF MarkSigned, Delete, SetRelanceDisabled, RelanceStep, TwoWeeksPass,
        RelanceSelect, RelanceMail, RelanceMark, RelanceMarkFails, TypeOK,
        DocType, AbDoc
  <2>. QED BY <2>1, <2>2 DEF SendInv, Fresh, Inside
<1>8. ASSUME NEW i \in Inst, Crash(i)
      PROVE  SendInv'
  <2>1. /\ UNCHANGED <<doc, subs, recorded>>
        /\ \A v \in Senders : send'[v] = NoSub \/ send'[v] = send[v]
        /\ \A e \in Editors : edit'[e] = NoEdit \/ edit'[e] = edit[e]
        /\ \A p \in Pass : \/ pc'[p] = "idle"
                           \/ pc'[p] = pc[p] /\ on'[p] = on[p]
    BY <1>8 DEF Crash
  <2>2. ASSUME NEW t \in Sub, Fresh(t) PROVE Fresh(t)'
    <3>1. NoEdit.reqId # t
      BY ConstantsAssumption DEF NoEdit
    <3>. QED BY <2>1, <2>2, <3>1 DEF Fresh, Inside
  <2>3. \A v \in Senders : send[v] # NoSub => send[v] \in Sub
    BY DEF TypeOK, UserType
  <2>. QED BY <2>1, <2>2, <2>3 DEF SendInv
<1>9. CASE UNCHANGED vars
  BY <1>9 DEF vars, userVars, hookVars, batchVars, SendInv, Fresh, Inside
<1>. QED
  BY <1>1, <1>2, <1>3, <1>4, <1>5, <1>6, <1>7, <1>8, <1>9 DEF Next, UserStep

LEMMA InitSend == Init => SendInv
BY ConstantsAssumption DEF Init, SendInv, Fresh, Inside, NoEdit

\* No signature is recorded while an update is between its read and its
\* write: the two handlers do not overlap.
NoEditOverSignature ==
    [][recorded' # recorded => \A e \in Editors : ~edit[e].open]_vars

\* An AB that waits, and an AB an update has read waiting, is not signed.
UnsignedInv ==
    /\ doc.status = "EN_ATTENTE_SIGNATURE" => doc.reqId \notin recorded
    /\ \A e \in Editors : /\ ~edit[e].open => edit[e] = NoEdit
                          /\ edit[e].status = "EN_ATTENTE_SIGNATURE" =>
                                edit[e].reqId \notin recorded

LEMMA UnsignedNext ==
    ASSUME TypeOK, SendInv, UnsignedInv, [Next]_vars,
           recorded' # recorded => \A e \in Editors : ~edit[e].open
    PROVE  UnsignedInv'
<1>0. NoEdit.status # "EN_ATTENTE_SIGNATURE"
  BY DEF NoEdit
<1>1. ASSUME NEW p \in Pass, PassStep(p) \/ PassFault(p) \/ Delivery(p)
      PROVE  UnsignedInv'
  <2>1. UNCHANGED edit /\ doc'.reqId = doc.reqId
    BY <1>1, PassEffect DEF userVars
  <2>2. CASE recorded' = recorded /\ doc'.status = doc.status
    BY <2>1, <2>2 DEF UnsignedInv
  <2>3. CASE recorded' # recorded /\ doc'.status = "SIGNE"
    <3>1. \A e \in Editors : edit'[e] = NoEdit
      BY <2>1, <2>3 DEF UnsignedInv
    <3>. QED BY <1>0, <2>3, <3>1 DEF UnsignedInv
  <2>4. CASE recorded' = recorded /\ doc'.status = "SIGNE"
    BY <2>1, <2>4 DEF UnsignedInv
  <2>. QED BY <1>1, <2>2, <2>3, <2>4, PassEffect
<1>2. ASSUME NEW u \in Senders, SendStore(u)
      PROVE  UnsignedInv'
  <2>1. UNCHANGED <<edit, recorded>> /\ doc'.reqId = send[u]
    BY <1>2 DEF SendStore, TypeOK, DocType, AbDoc, batchVars
  <2>2. send[u] \notin recorded
    BY <1>2 DEF SendStore, SendInv, Fresh
  <2>. QED BY <2>1, <2>2 DEF UnsignedInv
<1>3. ASSUME NEW e \in Editors, EditRead(e)
      PROVE  UnsignedInv'
  BY <1>3 DEF EditRead, UnsignedInv, TypeOK, UserType, batchVars
<1>4. ASSUME NEW e \in Editors, EditWrite(e)
      PROVE  UnsignedInv'
  <2>1. /\ doc'.reqId = edit[e].reqId /\ doc'.status = edit[e].status
        /\ edit'[e] = NoEdit /\ recorded' = recorded
        /\ \A f \in Editors \ {e} : edit'[f] = edit[f]
    BY <1>4 DEF EditWrite, TypeOK, DocType, AbDoc, UserType, batchVars
  <2>. QED BY <1>0, <2>1 DEF UnsignedInv
<1>5. CASE \/ MarkSigned \/ Delete \/ SetRelanceDisabled \/ RelanceStep
           \/ \E u \in Senders : \/ \E s \in Sub : SendMail(u, s)
                                 \/ SendStoreFails(u)
           \/ \E s \in Sub : Complete(s)
  <2>1. UNCHANGED <<edit, recorded>>
    BY <1>5
    DEF MarkSigned, Delete, SetRelanceDisabled, RelanceStep, TwoWeeksPass,
        RelanceSelect, RelanceMail, RelanceMark, RelanceMarkFails, SendMail,
        SendStoreFails, Complete, userVars, batchVars
  <2>2. /\ doc'.reqId = doc.reqId
        /\ doc'.status = doc.status \/ doc'.status = "SIGNE"
    BY <1>5
    DEF MarkSigned, Delete, SetRelanceDisabled, RelanceStep, TwoWeeksPass,
        RelanceSelect, RelanceMail, RelanceMark, RelanceMarkFails, SendMail,
        SendStoreFails, Complete, TypeOK, DocType, AbDoc
  <2>. QED BY <2>1, <2>2 DEF UnsignedInv
<1>6. ASSUME NEW i \in Inst, Crash(i)
      PROVE  UnsignedInv'
  <2>1. /\ UNCHANGED <<doc, recorded>>
        /\ \A e \in Editors : edit'[e] = NoEdit \/ edit'[e] = edit[e]
    BY <1>6 DEF Crash
  <2>. QED BY <1>0, <2>1 DEF UnsignedInv
<1>7. CASE UNCHANGED vars
  BY <1>7 DEF vars, userVars, batchVars, UnsignedInv
<1>. QED BY <1>1, <1>2, <1>3, <1>4, <1>5, <1>6, <1>7 DEF Next, UserStep

\* What ab_relance_signed refutes holds as soon as no signature is recorded
\* between the read and the write of an update: that race is the only way a
\* signed AB can be relanced, whatever else fails, crashes or is sent again.
THEOREM RelancedOnlyUnsigned == Spec /\ NoEditOverSignature => RelanceOnlyUnsigned
<1>1. Init => UnsignedInv
  BY DEF Init, UnsignedInv, NoEdit
<1>2. /\ TypeOK /\ SendInv /\ UnsignedInv /\ [Next]_vars
      /\ [recorded' # recorded => \A e \in Editors : ~edit[e].open]_vars
      => UnsignedInv'
  <2>1. UNCHANGED vars => recorded' = recorded
    BY DEF vars, batchVars
  <2>. QED BY <2>1, UnsignedNext
<1>3. ASSUME TypeOK, UnsignedInv, [Next]_vars, NEW i \in Schedulers,
             relance[i] = "idle", relance'[i] = "mail"
      PROVE  doc.reqId \notin recorded
  <2>1. relance' # relance
    BY <1>3
  <2>2. ASSUME NEW p \in Pass, PassStep(p) \/ PassFault(p) \/ Delivery(p)
        PROVE  FALSE
    <3>1. relance' = relance
      BY ONLY <2>2, PassEffect, TypeOK DEF userVars, relanceVars
    <3>. QED BY <2>1, <3>1
  <2>3. ~UserStep /\ ~TwoWeeksPass /\ ~UNCHANGED vars
    BY <2>1
    DEF UserStep, SendMail, SendStore, SendStoreFails, Complete, EditRead,
        EditWrite, MarkSigned, Delete, SetRelanceDisabled, TwoWeeksPass,
        vars, relanceVars
  <2>4. ASSUME NEW j \in Inst, Crash(j) PROVE FALSE
    BY <1>3, <2>4 DEF Crash
  <2>5. PICK j \in Schedulers : \/ RelanceSelect(j) \/ RelanceMail(j)
                                \/ RelanceMark(j) \/ RelanceMarkFails(j)
    BY <1>3, <2>2, <2>3, <2>4 DEF Next, RelanceStep
  <2>6. RelanceSelect(j)
    BY <1>3, <2>5 DEF RelanceMail, RelanceMark, RelanceMarkFails, TypeOK,
                      RelanceType
  <2>. QED BY <1>3, <2>6 DEF RelanceSelect, Due, UnsignedInv
<1>4. /\ TypeOK /\ UnsignedInv /\ [Next]_vars
      => [\A i \in Schedulers : relance[i] = "idle" /\ relance'[i] = "mail"
                                => doc.reqId \notin recorded]_vars
  BY <1>3
<1>5. TypeOK /\ SendInv /\ [Next]_vars => SendInv'
  BY SendNext
<1>. QED
  BY <1>1, <1>2, <1>4, <1>5, InitSend, TypeCorrect, PTL
  DEF Spec, NoEditOverSignature, RelanceOnlyUnsigned

-----------------------------------------------------------------------------
(* inflightSubmissions as a lock, and what an answer 200 may forget.       *)

Processing(p) == pc[p] \notin {"idle", "wait"}

\* An instance processes a submission in one request at a time: what
\* inflightSubmissions is there for.
OneAtATime ==
    \A p, q \in Pass : /\ InstOf[p] = InstOf[q]
                       /\ on[p] = on[q]
                       /\ Processing(p)
                       /\ Processing(q)
                       => p = q

LockInv ==
    /\ OneAtATime
    /\ \A p \in Pass : Processing(p) => on[p] \in inflight[InstOf[p]]
    /\ \A p \in Pass : ~answered[p]

\* Enters(p), and the submission was free.
EntersFree(p) == \E s \in Sub : /\ pc[p] \in {"idle", "wait"}
                                /\ s \notin inflight[InstOf[p]]
                                /\ Enter(p, s)
                                /\ on' = [on EXCEPT ![p] = s]
                                /\ UNCHANGED answered

LEMMA DeliveryFree ==
    ASSUME TypeOK, "timeout" \notin Faults, NEW p \in Pass, Delivery(p)
    PROVE  EntersFree(p) \/ Waits(p)
<1>1. ASSUME NEW s \in Sub, Receive(p, s)
      PROVE  EntersFree(p) \/ Waits(p)
  BY <1>1 DEF Receive, EntersFree, Waits
<1>2. CASE WakeUp(p)
  <2>1. on[p] \in Sub /\ on' = [on EXCEPT ![p] = on[p]]
    BY <1>2 DEF TypeOK, HookType, WakeUp
  <2>. QED BY <1>2, <2>1 DEF WakeUp, EntersFree
<1>3. ~WaitTimeout(p)
  BY DEF WaitTimeout, Fault
<1>. QED BY <1>1, <1>2, <1>3 DEF Delivery, Deliver, Redeliver

\* A step of a pass is a step of a request that is being processed.
LEMMA StepOfProcessing ==
    ASSUME NEW p \in Pass, PassStep(p) \/ PassFault(p)
    PROVE  Processing(p)
BY DEF PassStep, PassFault, LookupFound, LookupIgnored, Claim, ClaimLost,
       Sign, Download, Prepare, Archive, ResolveSender, NoSenderFound,
       MailCommercial, MailReferent, ReleaseEmpty, ReleaseErr, LookupFails,
       ClaimFails, SignFails, DownloadEmpty, PrepareFails,
       ResolveSenderFails, Throw, ReleaseEmptyFails, ReleaseErrFails,
       OtherRegionFails, Move, Owner, OwnerPcs, Processing

LEMMA StepsGoOnOrEnd ==
    ASSUME TypeOK, "region" \notin Faults, NEW p \in Pass,
           PassStep(p) \/ PassFault(p)
    PROVE  Ends(p) \/ GoesOn(p)
<1>1. ~OtherRegionFails(p)
  BY DEF OtherRegionFails, Fault
<1>2. ~Enters(p) /\ ~Waits(p)
  BY StepOfProcessing DEF Enters, Waits, Processing
<1>. QED BY <1>1, <1>2, PassMoves

LEMMA LockNext ==
    ASSUME TypeOK, LockInv, [Next]_vars, "timeout" \notin Faults,
           "region" \notin Faults
    PROVE  LockInv'
<1>1. CASE UNCHANGED hookVars
  BY <1>1 DEF hookVars, LockInv, OneAtATime, Processing
<1>2. ASSUME NEW p \in Pass, Processing(p), Ends(p)
      PROVE  LockInv'
  <2>1. PICK code : Finish(p, code)
    BY <1>2 DEF Ends
  <2>2. /\ pc'[p] = "idle"
        /\ \A q \in Pass \ {p} : pc'[q] = pc[q] /\ on'[q] = on[q]
        /\ inflight' = [inflight EXCEPT ![InstOf[p]] = @ \ {on[p]}]
        /\ \A q \in Pass : ~answered'[q]
    BY <2>1 DEF Finish, LockInv, TypeOK, HookType
  <2>3. OneAtATime'
    BY <2>2 DEF LockInv, OneAtATime, Processing
  <2>4. ASSUME NEW q \in Pass, Processing(q)'
        PROVE  on'[q] \in inflight'[InstOf[q]]
    <3>1. q # p /\ Processing(q) /\ on'[q] = on[q]
      BY <2>2, <2>4 DEF Processing
    <3>2. ~(InstOf[p] = InstOf[q] /\ on[p] = on[q])
      BY <1>2, <3>1 DEF LockInv, OneAtATime
    <3>3. on[q] \in inflight[InstOf[q]]
      BY <3>1 DEF LockInv
    <3>4. InstOf[q] \in Inst /\ InstOf[p] \in Inst
      BY ConstantsAssumption
    <3>. QED BY <2>2, <3>1, <3>2, <3>3, <3>4 DEF TypeOK, HookType
  <2>. QED BY <2>2, <2>3, <2>4 DEF LockInv
<1>3. ASSUME NEW p \in Pass, GoesOn(p)
      PROVE  LockInv'
  <2>1. /\ Processing(p)
        /\ \A q \in Pass \ {p} : pc'[q] = pc[q]
        /\ UNCHANGED <<on, answered, inflight>>
    BY <1>3 DEF GoesOn, Move, Processing, TypeOK, HookType
  <2>2. \A q \in Pass : Processing(q)' => Processing(q)
    BY <2>1 DEF Processing
  <2>. QED BY <2>1, <2>2 DEF LockInv, OneAtATime
<1>4. ASSUME NEW p \in Pass, EntersFree(p)
      PROVE  LockInv'
  <2>1. PICK s \in Sub : /\ pc[p] \in {"idle", "wait"}
                         /\ s \notin inflight[InstOf[p]]
                         /\ Enter(p, s)
                         /\ on' = [on EXCEPT ![p] = s]
                         /\ UNCHANGED answered
    BY <1>4 DEF EntersFree
  <2>2. InstOf[p] \in Inst
    BY ConstantsAssumption
  <2>3. /\ on'[p] = s
        /\ \A q \in Pass \ {p} : pc'[q] = pc[q] /\ on'[q] = on[q]
        /\ \A i \in Inst : inflight[i] \subseteq inflight'[i]
        /\ s \in inflight'[InstOf[p]]
    BY <2>1, <2>2 DEF Enter, TypeOK, HookType
  <2>4. \A q \in Pass \ {p} : Processing(q)' <=> Processing(q)
    BY <2>3 DEF Processing
  <2>5. \A q \in Pass \ {p} :
           ~(Processing(q) /\ InstOf[q] = InstOf[p] /\ on[q] = s)
    BY <2>1 DEF LockInv
  <2>6. OneAtATime'
    BY <2>3, <2>4, <2>5 DEF LockInv, OneAtATime
  <2>7. \A q \in Pass : InstOf[q] \in Inst
    BY ConstantsAssumption
  <2>. QED BY <2>1, <2>3, <2>4, <2>6, <2>7 DEF LockInv
<1>5. ASSUME NEW p \in Pass, Waits(p)
      PROVE  LockInv'
  <2>1. /\ ~Processing(p)'
        /\ \A q \in Pass \ {p} : pc'[q] = pc[q] /\ on'[q] = on[q]
        /\ UNCHANGED <<answered, inflight>>
    BY <1>5 DEF Waits, Processing, TypeOK, HookType
  <2>. QED BY <2>1 DEF LockInv, OneAtATime, Processing
<1>6. ASSUME NEW i \in Inst, Crash(i)
      PROVE  LockInv'
  <2>1. /\ \A q \in Pass : IF OnInst(i, q) THEN pc'[q] = "idle"
                           ELSE pc'[q] = pc[q] /\ on'[q] = on[q]
        /\ \A q \in Pass : answered'[q] => answered[q]
        /\ \A j \in Inst \ {i} : inflight'[j] = inflight[j]
    BY <1>6 DEF Crash, TypeOK, HookType
  <2>2. ASSUME NEW q \in Pass, Processing(q)'
        PROVE  /\ InstOf[q] \in Inst \ {i}
               /\ Processing(q) /\ on'[q] = on[q]
    BY <2>1, <2>2, ConstantsAssumption DEF OnInst, Processing
  <2>. QED BY <2>1, <2>2 DEF LockInv, OneAtATime
<1>. QED
  BY <1>1, <1>2, <1>3, <1>4, <1>5, <1>6, StepOfProcessing, StepsGoOnOrEnd,
     DeliveryFree, OthersUntouched DEF Next, vars, hookVars

LEMMA InitLock == Init => LockInv
BY DEF Init, LockInv, OneAtATime, Processing

\* The guard of an instance is a lock on the submission, except for what a
\* waiter that gives up or the failure of the other region lets in.
THEOREM OneRequestPerSubmission ==
    ASSUME "timeout" \notin Faults, "region" \notin Faults
    PROVE  Spec => []OneAtATime
<1>1. TypeOK /\ LockInv /\ [Next]_vars => LockInv'
  BY LockNext
<1>2. LockInv => OneAtATime
  BY DEF LockInv
<1>. QED BY <1>1, <1>2, InitLock, TypeCorrect, PTL DEF Spec

\* Two promises about the behaviour. An update finds the status and the
\* request as it read them; a reservation is given back only while its
\* submission is still that of the AB and will be delivered again.
EditsUpToDate ==
    [][\A e \in Editors : EditWrite(e) => /\ edit[e].status = doc.status
                                          /\ edit[e].reqId = doc.reqId]_vars
GivesBack(p) == ReleaseEmpty(p) \/ ReleaseErr(p)
GivenBackInTime ==
    [][\A p \in Pass : GivesBack(p) => /\ doc.reqId = on[p]
                                       /\ on[p] \notin acked']_vars

\* A completed signature nobody was told about, of the request of the AB.
Owed(s) ==
    /\ subs[s] = "signed"
    /\ doc.reqId = s
    /\ ~SignedByHand
    /\ outcome = "none"

\* A signature that is owed its mails will be delivered again, or a pass
\* holds the reservation and is on its way to them.
NothingOwedIsLost ==
    \A s \in Sub : Owed(s) => s \notin acked \/ \E p \in Pass : Owner(p)

\* Only completed submissions are delivered, and none is still being sent.
DeliveredInv ==
    /\ \A p \in Pass : pc[p] # "idle" => subs[on[p]] = "signed"
    /\ \A s \in acked : subs[s] = "signed"
    /\ \A u \in Senders : send[u] # NoSub => subs[send[u]] = "open"

\* What was acknowledged and is still the request of the AB is reserved,
\* or was signed by hand.
AckedInv == \A s \in acked : doc.reqId = s => doc.notifAt \/ SignedByHand

\* A pass ends without an acknowledgement, or acknowledges its submission.
LEMMA AckedBy ==
    ASSUME NEW p \in Pass, PassStep(p) \/ PassFault(p) \/ Delivery(p)
    PROVE  acked' = acked \/ acked' = acked \cup {on[p]}
BY DEF PassStep, PassFault, Delivery, LookupFound, LookupIgnored, Claim,
       ClaimLost, Sign, Download, Prepare, Archive, ResolveSender,
       NoSenderFound, MailCommercial, MailReferent, ReleaseEmpty, ReleaseErr,
       LookupFails, ClaimFails, SignFails, DownloadEmpty, PrepareFails,
       ResolveSenderFails, Throw, ReleaseEmptyFails, ReleaseErrFails,
       OtherRegionFails, Deliver, Redeliver, Receive, WakeUp, WaitTimeout,
       Move, Finish

LEMMA DeliveredNext ==
    ASSUME TypeOK, SendInv, DeliveredInv, [Next]_vars,
           "earlySign" \notin Faults
    PROVE  DeliveredInv'
<1>1. ASSUME NEW p \in Pass, PassStep(p) \/ PassFault(p) \/ Delivery(p)
      PROVE  DeliveredInv'
  <2>1. UNCHANGED <<subs, send>>
    BY <1>1, PassEffect DEF userVars
  <2>2. \A q \in Pass \ {p} : pc'[q] = pc[q] /\ on'[q] = on[q]
    BY <1>1, PassGoesIn
  <2>3. CASE pc[p] # "idle"
    <3>1. pc'[p] = "idle" \/ on'[p] = on[p]
      <4>1. CASE Ends(p) \/ GoesOn(p) \/ OtherRegionFails(p)
        BY <4>1 DEF Ends, Finish, GoesOn, Move, OtherRegionFails, TypeOK,
                    HookType
      <4>2. CASE Enters(p) \/ Waits(p)
        <5>1. ~PassStep(p) /\ ~PassFault(p)
          BY <4>2, StepOfProcessing DEF Enters, Waits, Processing
        <5>. QED BY <1>1, <2>3, <5>1
                 DEF Delivery, Deliver, Redeliver, Receive, WakeUp, WaitTimeout
      <4>. QED BY <1>1, <4>1, <4>2, PassMoves
    <3>. QED BY <1>1, <2>1, <2>2, <2>3, <3>1, AckedBy DEF DeliveredInv
  <2>4. CASE pc[p] = "idle"
    <3>1. PICK s \in Sub : Receive(p, s)
      BY <1>1, <2>4, StepOfProcessing
      DEF Processing, Delivery, Deliver, Redeliver, WakeUp, WaitTimeout
    <3>2. subs[s] = "signed" /\ on'[p] = s /\ UNCHANGED acked
      BY <3>1 DEF Receive, TypeOK, HookType
    <3>. QED BY <2>1, <2>2, <3>2 DEF DeliveredInv
  <2>. QED BY <2>3, <2>4
<1>2. ASSUME NEW u \in Senders, NEW s \in Sub, SendMail(u, s)
      PROVE  DeliveredInv'
  <2>1. /\ subs[s] = "unused" /\ subs'[s] = "open" /\ send'[u] = s
        /\ \A t \in Sub \ {s} : subs'[t] = subs[t]
        /\ \A v \in Senders \ {u} : send'[v] = send[v]
        /\ UNCHANGED <<pc, on, acked>>
    BY <1>2 DEF SendMail, TypeOK, UserType, hookVars
  <2>2. /\ \A v \in Senders : send[v] # NoSub => send[v] \in Sub
        /\ \A p \in Pass : pc[p] # "idle" => on[p] \in Sub
        /\ acked \subseteq Sub
    BY DEF TypeOK, UserType, HookType
  <2>. QED BY <2>1, <2>2 DEF DeliveredInv
<1>3. ASSUME NEW u \in Senders, SendStore(u) \/ SendStoreFails(u)
      PROVE  DeliveredInv'
  BY <1>3 DEF SendStore, SendStoreFails, DeliveredInv, TypeOK, UserType,
              hookVars
<1>4. ASSUME NEW s \in Sub, Complete(s)
      PROVE  DeliveredInv'
  <2>1. \A u \in Senders : send[u] # s
    BY <1>4 DEF Complete, Fault
  <2>2. /\ subs'[s] = "signed"
        /\ \A t \in Sub \ {s} : subs'[t] = subs[t]
        /\ UNCHANGED <<send, pc, on, acked>>
    BY <1>4 DEF Complete, TypeOK, UserType, hookVars
  <2>3. /\ \A v \in Senders : send[v] # NoSub => send[v] \in Sub
        /\ \A p \in Pass : pc[p] # "idle" => on[p] \in Sub
        /\ acked \subseteq Sub
    BY DEF TypeOK, UserType, HookType
  <2>. QED BY <2>1, <2>2, <2>3 DEF DeliveredInv
<1>5. CASE \/ MarkSigned \/ Delete \/ SetRelanceDisabled \/ RelanceStep
           \/ \E e \in Editors : EditRead(e) \/ EditWrite(e)
  BY <1>5
  DEF MarkSigned, Delete, SetRelanceDisabled, RelanceStep, TwoWeeksPass,
      RelanceSelect, RelanceMail, RelanceMark, RelanceMarkFails, EditRead,
      EditWrite, userVars, hookVars, DeliveredInv
<1>6. ASSUME NEW i \in Inst, Crash(i)
      PROVE  DeliveredInv'
  BY <1>6 DEF Crash, DeliveredInv
<1>7. CASE UNCHANGED vars
  BY <1>7 DEF vars, userVars, hookVars, DeliveredInv
<1>. QED BY <1>1, <1>2, <1>3, <1>4, <1>5, <1>6, <1>7 DEF Next, UserStep

LEMMA InitDelivered == Init => DeliveredInv
BY DEF Init, DeliveredInv

\* What a step may not do to the acknowledged submissions.
LEMMA AckedNext ==
    ASSUME TypeOK, CopiesInv, DeliveredInv, AckedInv, [Next]_vars,
           "lookup" \notin Faults, "releaseApplied" \notin Faults,
           \A e \in Editors : EditWrite(e) => /\ edit[e].status = doc.status
                                              /\ edit[e].reqId = doc.reqId,
           \A p \in Pass : GivesBack(p) => /\ doc.reqId = on[p]
                                           /\ on[p] \notin acked'
    PROVE  AckedInv'
<1>1. ASSUME NEW p \in Pass, PassStep(p) \/ PassFault(p) \/ Delivery(p)
      PROVE  AckedInv'
  <2>0. /\ doc'.reqId = doc.reqId
        /\ acked' = acked \/ acked' = acked \cup {on[p]}
    BY <1>1, PassEffect, AckedBy
  <2>1. CASE GivesBack(p)
    <3>1. /\ on[p] \notin acked' /\ doc.reqId = on[p]
      BY <2>1
    <3>. QED BY <2>0, <3>1 DEF AckedInv
  <2>2. CASE LookupIgnored(p) \/ ClaimLost(p)
    <3>1. UNCHANGED doc
      BY <2>2 DEF LookupIgnored, ClaimLost
    <3>2. doc.reqId = on[p] => doc.notifAt \/ SignedByHand
      BY <2>2 DEF LookupIgnored, ClaimLost
    <3>. QED BY <2>0, <3>1, <3>2 DEF AckedInv, SignedByHand
  <2>3. CASE NoSenderFound(p) \/ MailReferent(p) \/ ReleaseErrFails(p)
    <3>1. Owner(p) /\ UNCHANGED doc
      BY <2>3 DEF NoSenderFound, MailReferent, ReleaseErrFails, Owner, OwnerPcs
    <3>2. doc.notifAt
      BY <3>1 DEF CopiesInv
    <3>. QED BY <3>1, <3>2 DEF AckedInv
  <2>4. CASE Sign(p)
    <3>1. Owner(p) /\ doc'.notifAt = doc.notifAt
      BY <2>4 DEF Sign, Move, Owner, OwnerPcs, TypeOK, DocType, AbDoc
    <3>. QED BY <3>1 DEF CopiesInv, AckedInv
  <2>5. CASE Claim(p)
    <3>1. doc'.notifAt
      BY <2>5 DEF Claim, TypeOK, DocType, AbDoc
    <3>. QED BY <3>1 DEF AckedInv
  <2>6. CASE ClaimFails(p)
    <3>1. acked' = acked
      BY <2>6 DEF ClaimFails, Finish
    <3>2. UNCHANGED doc \/ doc'.notifAt
      BY <2>6 DEF ClaimFails, TypeOK, DocType, AbDoc
    <3>. QED BY <3>1, <3>2 DEF AckedInv, SignedByHand
  <2>7. CASE ~\/ GivesBack(p) \/ LookupIgnored(p) \/ ClaimLost(p)
              \/ NoSenderFound(p) \/ MailReferent(p) \/ ReleaseErrFails(p)
              \/ Sign(p) \/ Claim(p) \/ ClaimFails(p)
    <3>1. UNCHANGED <<doc, acked>>
      BY <1>1, <2>7
      DEF PassStep, PassFault, Delivery, GivesBack, LookupFound, Download,
          Prepare, Archive, ResolveSender, MailCommercial, LookupFails,
          SignFails, DownloadEmpty, PrepareFails, ResolveSenderFails, Throw,
          ReleaseEmptyFails, OtherRegionFails, Deliver, Redeliver, Receive,
          WakeUp, WaitTimeout, Move, Fault
    <3>. QED BY <3>1 DEF AckedInv, SignedByHand
  <2>. QED BY <2>1, <2>2, <2>3, <2>4, <2>5, <2>6, <2>7
<1>2. ASSUME NEW u \in Senders, SendStore(u)
      PROVE  AckedInv'
  <2>1. doc'.reqId = send[u] /\ UNCHANGED acked /\ send[u] # NoSub
    BY <1>2 DEF SendStore, TypeOK, DocType, AbDoc, hookVars
  <2>2. send[u] \notin acked
    BY <2>1 DEF DeliveredInv
  <2>. QED BY <2>1, <2>2 DEF AckedInv
<1>3. ASSUME NEW e \in Editors, EditWrite(e)
      PROVE  AckedInv'
  <2>1. /\ doc'.reqId = doc.reqId /\ doc'.status = doc.status
        /\ doc'.notifAt = doc.notifAt /\ doc'.signedAt = doc.signedAt
        /\ UNCHANGED acked
    BY <1>3 DEF EditWrite, TypeOK, DocType, AbDoc, hookVars
  <2>. QED BY <2>1 DEF AckedInv, SignedByHand
<1>4. CASE MarkSigned
  <2>1. /\ doc'.reqId = doc.reqId /\ doc'.status = "SIGNE"
        /\ doc'.notifAt = doc.notifAt /\ doc'.signedAt = doc.signedAt
        /\ UNCHANGED acked
    BY <1>4 DEF MarkSigned, TypeOK, DocType, AbDoc, hookVars
  <2>. QED BY <2>1 DEF AckedInv, SignedByHand
<1>5. CASE \/ Delete \/ SetRelanceDisabled \/ RelanceStep
           \/ \E u \in Senders : \/ \E s \in Sub : SendMail(u, s)
                                 \/ SendStoreFails(u)
           \/ \E s \in Sub : Complete(s)
           \/ \E e \in Editors : EditRead(e)
  <2>1. /\ doc'.reqId = doc.reqId /\ doc'.status = doc.status
        /\ doc'.notifAt = doc.notifAt /\ doc'.signedAt = doc.signedAt
        /\ UNCHANGED acked
    BY <1>5
    DEF Delete, SetRelanceDisabled, RelanceStep, TwoWeeksPass, RelanceSelect,
        RelanceMail, RelanceMark, RelanceMarkFails, SendMail, SendStoreFails,
        Complete, EditRead, TypeOK, DocType, AbDoc, hookVars
  <2>. QED BY <2>1 DEF AckedInv, SignedByHand
<1>6. ASSUME NEW i \in Inst, Crash(i)
      PROVE  AckedInv'
  BY <1>6 DEF Crash, AckedInv, SignedByHand
<1>7. CASE UNCHANGED vars
  BY <1>7 DEF vars, hookVars, AckedInv, SignedByHand
<1>. QED BY <1>1, <1>2, <1>3, <1>4, <1>5, <1>6, <1>7 DEF Next, UserStep

\* The safety part of SignedGetsNotified: as long as updates are up to date
\* and reservations are given back in time, and short of a lookup that
\* throws, of a signature that comes before its request is stored and of an
\* ambiguous release, no answer 200 forgets a signature whose mails are due.
THEOREM OwedIsNotLost ==
    ASSUME "lookup" \notin Faults, "earlySign" \notin Faults,
           "releaseApplied" \notin Faults
    PROVE  Spec /\ EditsUpToDate /\ GivenBackInTime => []NothingOwedIsLost
<1>1. /\ TypeOK /\ CopiesInv /\ DeliveredInv /\ AckedInv /\ [Next]_vars
      /\ [\A e \in Editors : EditWrite(e) => /\ edit[e].status = doc.status
                                             /\ edit[e].reqId = doc.reqId]_vars
      /\ [\A p \in Pass : GivesBack(p) => /\ doc.reqId = on[p]
                                          /\ on[p] \notin acked']_vars
      => AckedInv'
  <2>1. CASE UNCHANGED vars
    BY <2>1 DEF vars, hookVars, AckedInv, SignedByHand
  <2>. QED BY <2>1, AckedNext
<1>2. TypeOK /\ SendInv /\ DeliveredInv /\ [Next]_vars => DeliveredInv'
  BY DeliveredNext
<1>3. TypeOK /\ SendInv /\ [Next]_vars => SendInv'
  BY SendNext
<1>4. Init => AckedInv
  BY DEF Init, AckedInv
<1>5. AckedInv /\ CopiesInv => NothingOwedIsLost
  BY DEF AckedInv, CopiesInv, ClaimAccounted, NothingOwedIsLost, Owed
<1>. QED
  BY <1>1, <1>2, <1>3, <1>4, <1>5, InitSend, InitDelivered, TypeCorrect,
     CopiesInvariant, PTL DEF Spec, EditsUpToDate, GivenBackInTime

\* One request, one instance, no update: the setting of ab_liveness, but for
\* any number of deliveries and failures.
OneOfEach ==
    /\ \A s, t \in Sub : s = t
    /\ \A i, j \in Inst : i = j
    /\ Editors = {}

\* The pass inside works on the request of the AB, which nobody has
\* acknowledged: the others wait for it.
SoleInv ==
    /\ ~SignedByHand
    /\ \A p \in Pass : Inside(p) => doc.reqId = on[p] /\ on[p] \notin acked
    /\ \A p \in Pass : pc[p] = "releaseEmpty" => "empty" \in Faults

LEMMA InsideKeepsAcked ==
    ASSUME TypeOK, NEW p \in Pass, PassStep(p) \/ PassFault(p) \/ Delivery(p),
           Inside(p)'
    PROVE  acked' = acked
<1>1. ~Ends(p) /\ ~Enters(p) /\ ~Waits(p)
  BY DEF Ends, Finish, Enters, Enter, Waits, Inside, TypeOK, HookType
<1>2. CASE GoesOn(p) \/ OtherRegionFails(p)
  BY <1>2 DEF GoesOn, Move, OtherRegionFails
<1>. QED BY <1>1, <1>2, PassMoves

LEMMA SoleNext ==
    ASSUME OneOfEach, TypeOK, LockInv, AckedInv, SoleInv, [Next]_vars
    PROVE  SoleInv'
<1>1. ASSUME NEW p \in Pass, PassStep(p) \/ PassFault(p) \/ Delivery(p)
      PROVE  SoleInv'
  <2>1. /\ doc'.reqId = doc.reqId
        /\ \A q \in Pass \ {p} : pc'[q] = pc[q] /\ on'[q] = on[q]
        /\ Inside(p)' => on'[p] = on[p] /\ (Inside(p) \/ doc.reqId = on[p])
    BY <1>1, PassEffect, PassGoesIn
  <2>2. ~SignedByHand'
    <3>1. CASE Sign(p)
      BY <3>1 DEF Sign, SignedByHand, TypeOK, DocType, AbDoc
    <3>2. CASE ~Sign(p)
      <4>1. \/ UNCHANGED doc
            \/ \E b \in BOOLEAN : doc' = [doc EXCEPT !.notifAt = b]
        BY <1>1, <3>2
        DEF PassStep, PassFault, Delivery, LookupFound, LookupIgnored, Claim,
            ClaimLost, Download, Prepare, Archive, ResolveSender,
            NoSenderFound, MailCommercial, MailReferent, ReleaseEmpty,
            ReleaseErr, LookupFails, ClaimFails, SignFails, DownloadEmpty,
            PrepareFails, ResolveSenderFails, Throw, ReleaseEmptyFails,
            ReleaseErrFails, OtherRegionFails, Deliver, Redeliver, Receive,
            WakeUp, WaitTimeout
      <4>. QED BY <4>1 DEF SoleInv, SignedByHand, TypeOK, DocType, AbDoc
    <3>. QED BY <3>1, <3>2
  <2>3. ASSUME NEW q \in Pass, Inside(q)'
        PROVE  doc'.reqId = on'[q] /\ on'[q] \notin acked'
    <3>1. CASE q = p
      <4>1. acked' = acked
        BY <1>1, <2>3, <3>1, InsideKeepsAcked
      <4>2. CASE Inside(p)
        BY <2>1, <2>3, <3>1, <4>1, <4>2 DEF SoleInv
      <4>3. CASE ~Inside(p)
        <5>1. GoesOn(p) \/ OtherRegionFails(p)
          BY <1>1, <2>3, <3>1, PassMoves
          DEF Ends, Finish, Enters, Enter, Waits, Inside, TypeOK, HookType
        <5>2. PassStep(p) \/ PassFault(p)
          BY <1>1, <4>3, <5>1
          DEF GoesOn, Move, OtherRegionFails, Owner, OwnerPcs, Delivery,
              Deliver, Redeliver, Receive, WakeUp, WaitTimeout, Inside
        <5>3. LookupFound(p)
          BY <2>3, <3>1, <4>3, <5>2
          DEF PassStep, PassFault, LookupIgnored, Claim, ClaimLost, Sign,
              Download, Prepare, Archive, ResolveSender, NoSenderFound,
              MailCommercial, MailReferent, ReleaseEmpty, ReleaseErr,
              LookupFails, ClaimFails, SignFails, DownloadEmpty,
              PrepareFails, ResolveSenderFails, Throw, ReleaseEmptyFails,
              ReleaseErrFails, OtherRegionFails, Owner, OwnerPcs, Move,
              Finish, Inside, TypeOK, HookType
        <5>4. on[p] \notin acked
          BY <5>3 DEF LookupFound, AckedInv
        <5>. QED BY <2>1, <2>3, <3>1, <4>1, <4>3, <5>4
      <4>. QED BY <4>2, <4>3
    <3>2. CASE q # p
      <4>1. Inside(q) /\ on'[q] = on[q]
        BY <2>1, <2>3, <3>2 DEF Inside
      <4>2. CASE Processing(p)
        <5>1. on[p] = on[q] /\ InstOf[p] = InstOf[q]
          BY <4>1, <4>2, ConstantsAssumption
          DEF OneOfEach, Inside, Processing, TypeOK, HookType
        <5>. QED BY <3>2, <4>1, <4>2, <5>1
                 DEF LockInv, OneAtATime, Inside, Processing
      <4>3. CASE ~Processing(p)
        <5>1. acked' = acked
          BY <1>1, <4>3, StepOfProcessing
          DEF Delivery, Deliver, Redeliver, Receive, WakeUp, WaitTimeout
        <5>. QED BY <2>1, <4>1, <5>1 DEF SoleInv
      <4>. QED BY <4>2, <4>3
    <3>. QED BY <3>1, <3>2
  <2>4. ASSUME NEW q \in Pass, pc'[q] = "releaseEmpty"
        PROVE  "empty" \in Faults
    <3>1. CASE pc[q] = "releaseEmpty"
      BY <3>1 DEF SoleInv
    <3>2. CASE pc[q] # "releaseEmpty"
      <4>1. q = p
        BY <2>1, <2>4, <3>2
      <4>2. DownloadEmpty(p)
        BY <1>1, <2>4, <3>2, <4>1
        DEF PassStep, PassFault, Delivery, LookupFound, LookupIgnored, Claim,
            ClaimLost, Sign, Download, Prepare, AfterPrepare, Archive,
            ResolveSender, NoSenderFound, MailCommercial, MailReferent,
            ReleaseEmpty, ReleaseErr, LookupFails, ClaimFails, SignFails,
            PrepareFails, ResolveSenderFails, Throw, ReleaseEmptyFails,
            ReleaseErrFails, OtherRegionFails, Deliver, Redeliver, Receive,
            WakeUp, WaitTimeout, Enter, Move, Finish, TypeOK, HookType
      <4>. QED BY <4>2 DEF DownloadEmpty, Fault
    <3>. QED BY <3>1, <3>2
  <2>. QED BY <2>2, <2>3, <2>4 DEF SoleInv
<1>2. ASSUME NEW u \in Senders, SendStore(u)
      PROVE  SoleInv'
  <2>1. /\ doc'.reqId = send[u] /\ doc'.status = "EN_ATTENTE_SIGNATURE"
        /\ UNCHANGED <<pc, on, acked>> /\ send[u] \in Sub
    BY <1>2 DEF SendStore, TypeOK, DocType, AbDoc, UserType, hookVars
  <2>2. \A p \in Pass : Inside(p) => on[p] = send[u]
    BY <2>1 DEF OneOfEach, Inside, TypeOK, HookType
  <2>. QED BY <2>1, <2>2 DEF SoleInv, SignedByHand, Inside
<1>3. ~MarkSigned /\ ~Delete /\ ~SetRelanceDisabled
  BY DEF OneOfEach, MarkSigned, Delete, SetRelanceDisabled
<1>4. CASE \/ RelanceStep
           \/ \E u \in Senders : \/ \E s \in Sub : SendMail(u, s)
                                 \/ SendStoreFails(u)
           \/ \E s \in Sub : Complete(s)
  <2>1. /\ doc'.reqId = doc.reqId /\ doc'.status = doc.status
        /\ doc'.signedAt = doc.signedAt
        /\ UNCHANGED <<pc, on, acked>>
    BY <1>4
    DEF RelanceStep, TwoWeeksPass, RelanceSelect, RelanceMail, RelanceMark,
        RelanceMarkFails, SendMail, SendStoreFails, Complete, TypeOK, DocType,
        AbDoc, hookVars
  <2>. QED BY <2>1 DEF SoleInv, SignedByHand, Inside
<1>5. ASSUME NEW i \in Inst, Crash(i)
      PROVE  SoleInv'
  <2>1. /\ UNCHANGED <<doc, acked>>
        /\ \A p \in Pass : \/ pc'[p] = "idle"
                           \/ pc'[p] = pc[p] /\ on'[p] = on[p]
    BY <1>5 DEF Crash
  <2>. QED BY <2>1 DEF SoleInv, SignedByHand, Inside
<1>6. CASE UNCHANGED vars
  BY <1>6 DEF vars, hookVars, SoleInv, SignedByHand, Inside
<1>. QED
  BY <1>1, <1>2, <1>3, <1>4, <1>5, <1>6 DEF Next, UserStep, OneOfEach

LEMMA InitSole == Init => SoleInv
BY DEF Init, SoleInv, SignedByHand, Inside

\* In the setting of ab_liveness the two promises are kept by the code: no
\* signature whose mails are due is ever forgotten.
THEOREM NothingForgotten ==
    ASSUME OneOfEach, "lookup" \notin Faults, "earlySign" \notin Faults,
           "releaseApplied" \notin Faults, "timeout" \notin Faults,
           "region" \notin Faults,
           "empty" \in Faults => Provider = "yousign"
    PROVE  Spec => []NothingOwedIsLost
<1>1. ASSUME TypeOK, SoleInv, NEW p \in Pass, GivesBack(p)
      PROVE  doc.reqId = on[p] /\ on[p] \notin acked'
  <2>1. Inside(p)
    BY <1>1 DEF GivesBack, ReleaseEmpty, ReleaseErr, Inside
  <2>2. acked' = acked
    BY <1>1 DEF GivesBack, ReleaseEmpty, ReleaseErr, EmptyCode, Finish, SoleInv
  <2>. QED BY <1>1, <2>1, <2>2 DEF SoleInv
<1>2. /\ TypeOK /\ CopiesInv /\ DeliveredInv /\ AckedInv /\ SoleInv
      /\ [Next]_vars
      => AckedInv'
  BY <1>1, AckedNext DEF OneOfEach
<1>3. TypeOK /\ LockInv /\ AckedInv /\ SoleInv /\ [Next]_vars => SoleInv'
  BY SoleNext
<1>4. TypeOK /\ SendInv /\ DeliveredInv /\ [Next]_vars => DeliveredInv'
  BY DeliveredNext
<1>5. TypeOK /\ SendInv /\ [Next]_vars => SendInv'
  BY SendNext
<1>6. TypeOK /\ LockInv /\ [Next]_vars => LockInv'
  BY LockNext
<1>7. Init => AckedInv
  BY DEF Init, AckedInv
<1>8. AckedInv /\ CopiesInv => NothingOwedIsLost
  BY DEF AckedInv, CopiesInv, ClaimAccounted, NothingOwedIsLost, Owed
<1>. QED
  BY <1>2, <1>3, <1>4, <1>5, <1>6, <1>7, <1>8, InitSend, InitDelivered,
     InitLock, InitSole, TypeCorrect, CopiesInvariant, PTL DEF Spec

=============================================================================
