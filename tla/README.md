# Disciplina: TLA+ models, model checking and proofs

Disciplina is the CRM of an apprenticeship training centre: it follows candidates, the needs of
companies ("analyse du besoin", AB), the matching between them, interviews, contracts and tests. This
directory holds TLA+ specifications of the parts of the back end (`src/back/src`) in which several
actors write the same documents, the TLC configurations that check them, and TLAPS proofs of their
main invariants. `PROJECT.json` lists the runs, the source lines every definition stands for, the
hazards and the findings.

Contents: [inventory](#1-inventory-of-the-system), [plan](#2-plan),
[modules](#3-modules-and-the-code-they-model), [runs](#4-runs-and-bounds), [fairness](#5-fairness),
[proofs](#6-proofs), [findings](#7-findings), [limits](#8-what-is-not-modelled).

## 1. Inventory of the system

The back end is one Node process (possibly several): Express and Apollo in front of services, MySQL and
MongoDB behind repositories. Each of the two regions (`reunion`, `annemasse`) has its own databases; a
request finds its region in an AsyncLocalStorage (`db/tenant.ts`), webhooks and schedulers run in both.
There are no transactions across documents and no locks: the only atomic steps are single commands of
MongoDB or MySQL, and a handler can be overtaken by any other at each `await`.

| Component | State | Operations | What makes it correct |
|---|---|---|---|
| AB signature processing (`SignedAbProcessor`, `rest/docuseal`, `rest/yousign`) | `signed_notification_sent_at`, `status`, `signed_at` of the AB; `inflightSubmissions` in memory | a webhook delivery: look up, claim, sign, download, archive, mail twice, release on failure | two mails at most, never twice; a failure before the first mail can be retried; no delivery hangs |
| AB document (`NeedsAnalysisService`) | the AB: status, `signature_request_id`, `signature_url`, `signature_sent_at`, soft delete | send for signature, update, mark signed, delete, mute the relance | an AB that waits has a request and its link; a signature is not undone |
| AB relance (`AbSignatureRelanceService` and its scheduler) | `last_relance_at` | hourly: select due ABs, mail, mark | one relance, only to who has not signed |
| Questionnaire attempts (`QuestionnaireAttemptService`) | the attempt: status, device, index, answers, deadline, score | open a link, start, answer, expire, close, copy the result on the fiche | answers in order and once, one device, one score, one copy |
| Questionnaires (`QuestionnaireService`) | questions, version, `locked` | create, update, remove, invite, cancel, test run | no edit after the first real attempt; one open link per candidate |
| Offers of an AB (`NeedsAnalysisService`, `OfferRepository`) | `offers` documents, paired by order with the positions of the AB | created at the first send or at publication, synchronised by edits, deleted with the AB | a sent AB has its offers, they follow its positions, an edit keeps the matching of what stays |
| Matching and interviews (`OfferService`, `MatchAccessService`, `ExternalInterviewService`) | `matching` of an offer: candidates and their statuses, slots, bookings | propose, answer by mail link, selection session of the company, book a slot, conclude | one candidate per slot, no booking or answer lost, one contract per candidate |
| External access links (`ExternalAccessService`) | `external_access` rows, guest cookie | generate, open, complete, close, revoke, regenerate | a completed or revoked link stays so |
| MCP server (`mcp/`) | OAuth clients, refresh tokens, consumed codes, audit | authorize, exchange, refresh, revoke; read-only tools | a code and a refresh token are used once |
| Follow-up of apprentices (`AlternantService`, `RuptureService`) | `alternants`, their follow-up sequences (SA, `alternant_sequences`), `ruptures` | plan the SA, check contacts, validate, plan again, change the company, declare ruptures, archive | a SA is done when its contacts are, the plan moves in one piece, archives follow the ruptures |
| SA scheduler (`SaNotificationService`) | marks on the SA | hourly: select, notify, mark | each SA is told about once when near and once when late |
| SA in the Google calendars (`SaCalendarService`) | `google_event_ids`; the events (Google) | push every edit to every calendar, read one back when it is looked at | the plan is what people asked for, in the CRM or in Google |
| Peda drafts, immersion end, end of unavailability | history tables, marks on documents | select, mail or draft, mark | each event notified once |
| Candidates, companies, users | one document or row each | field edits | role guards, references between stores |
| Filiz, Gmail, Drive, Calendar, INSEE, scraper, PDF | none | external calls, formatting | best effort: a failure is logged |
| Front end, scripts, deployment | none of their own | views, seeds, backups | |

Interactions. The signature providers call the webhooks, at least once and until a 200. `SignedAbProcessor`
and `NeedsAnalysisService` write the same AB document without a version number. The relance scheduler
reads what they write. Sending an AB creates the offers of the matching, and editing it rewrites them; the
matching opens external access links (selection session, interview slots) whose handlers write the offer
back. The SA scheduler walks through SA that staff plan again, validate and archive meanwhile; looking at a
calendar writes what was moved in Google back to the plan. The public page of a questionnaire and the
staff's screens both trigger the lazy expiry of an attempt, and its result goes to the candidate's fiche,
which ClassMarker's webhook writes as well.

Hard behaviours, listed with their lines under `hazards`: duplicate, concurrent and late webhook
deliveries; a restart between a reservation and the work it reserves; a release that reaches MongoDB
but whose answer is lost; whole-document writes from stale copies; two-command sequences (mail then
store, start then lock, cancel then create, complete then copy, shift then validate, notify then mark); the
TTL monitor of MongoDB; several requests that close the same attempt; rows of MySQL updated by key after a
check on a copy; lists of candidates read, merged and written back; offers paired with positions by index.

## 2. Plan

In order of importance; items 1 to 6 are done.

1. **AbNotification, AbSignature**: the AB from its sending to the notification of its signature, with the relance. Abstract specification: `AbNotification`, the promise made about the two mails. Proved: all the safety.
2. **Questionnaire**: one questionnaire and the attempts of one candidate. Proved: all the safety.
3. **Matching**: one offer, its candidates, selection sessions, answers, slots, conclusions, fiches. Abstract specification: `InterviewPromise`, a booking register in which a slot has one holder. Proved: all the safety and the refinement.
4. **ExternalAccess**: the rows of the links, extended by Matching, whose guests they admit. Proved with it.
5. **AbOffers**: the offers of one AB under the six handlers that write them. Proved: all the invariants.
6. **SaSequence, SaPlanning, SaNotification**: the follow-up plan of one apprentice and its scheduler. Proved: all the safety. **SaCalendar**: the same plan seen from Google. Proved: its types, and what alone breaks its plan.
7. Left: **McpTokens** (authorization codes and rotation of refresh tokens, with the replay rule); the drafts of the pedagogy and the two other schedulers, which mail and mark as the relance and the SA scheduler do.

The order of the modules in a reading is that of the list; `SaSequence` comes before the three modules that
extend it, `ExternalAccess` before `Matching`.

## 3. Modules and the code they model

### AbSignature and AbNotification

`AbSignature` follows one AB of one region. `doc` is its MongoDB document, reduced to the fields the
signature depends on (dates are kept as set or not set, `signature_sent_at` as never, recent or older
than two weeks). `pc[p]`, `on[p]`: a webhook request inside `processSignedAb`, between two awaits.
`inflight[i]`: `inflightSubmissions` of instance `i`. `acked`: completions the provider has a 200 for.
`send`, `edit`, `relance`: requests of users and schedulers in progress, with what they have read.

* Delivery: `Deliver` and `Redeliver` enter the guard or wait; `WakeUp` and `WaitTimeout` are the two
  ends of `waitForInflight`.
* One pass: `LookupFound | LookupIgnored | LookupFails`, `Claim | ClaimLost | ClaimFails`, `Sign`,
  `Download | DownloadEmpty`, `Prepare`, `Archive`, `ResolveSender | NoSenderFound`, `MailCommercial`,
  `MailReferent`, and the two releases `ReleaseEmpty` and `ReleaseErr` with their failures. `Finish`
  is the `finally` block and the HTTP answer; `EmptyCode` and `AfterPrepare` are the two differences
  between the DocuSeal and the Yousign controller (the answer after an empty download; the archiving).
  `OtherRegionFails` is `Promise.all` rejecting while the pass runs on.
* The AB: `SendMail`, then `SendStore` (`sendForSignature`); `EditRead`, then `EditWrite` (`update`, which
  writes a whole document); `MarkSigned`, `Delete`, `SetRelanceDisabled`.
* The relance: `Due` is the filter of `findDueSignatureRelance`; `RelanceSelect`, `RelanceMail`, `RelanceMark`.
* `Crash(i)` restarts an instance. `Complete` is the company signing (external).

Every failure is a kind in `Faults`, and a behaviour takes at most `MaxFaults` of them. `claimApplied` and
`releaseApplied` are commands applied by the server whose answer is lost.

`AbNotification` is what all this promises: a batch is open, reserved or closed, each copy leaves at most
once and only while the batch is reserved, and the reservation is given back only while nothing left. The
refinement mapping (`Batch` in AbSignature) reads the phase from `signed_notification_sent_at` and from
whether a pass holds it.

### Questionnaire

One questionnaire document (`quiz`: revision of its questions, `locked`, `exists`), the attempts of one
candidate (`att`), and requests (`req`) that hold copies of what they read. `Open` is the read of the
attempt, `ReadQuiz` the read of the questionnaire followed by `applyExpiry` and the guards of `open`, `start`
and `answer` on the copies (`Admitted`); `Expire`, `Start`, `Lock`, `Answer`, `Close` and `Save` are the
commands the request sends next; `ReadFresh` is the read of `finalize`. `Goto` keeps in memory only what the
rest of the handler uses. Staff: `InviteCancel`, then `InviteCreate`; `Cancel`, `Update`, `Remove`. Clock:
`InvitationExpires`, `TimeIsUp`; MongoDB: `Purge`. `Abort` makes the next command of a request fail, `Crash`
restarts the back end. Every answer is worth 0 or 1 point (`gradeAnswer` is all or nothing).

`stale` and `overdue` hold what the clock says of an attempt, so the deadline may pass between any two steps.

### ExternalAccess, Matching and InterviewPromise

`ExternalAccess` keeps `link[l]`, a row of the MySQL table, and `desk[d]`, a request on a link between the
read of the row and its write: `OpenLink`, `FindExpired`, `CloseLink`, `RevokeLink` and `RegenerateLink` read
and check, `WriteStatus`, `DeleteLink` and `CreateLink` write by signature only. `ExpiryPasses` and
`PurgeLink` are the clock and the daily purge, `DeskFails` an error in between.

`Matching` extends it with one offer: `offer` (status, slots), `cand[c]` (the entry of a candidate in the
list), `fiche[c]` (his status elsewhere) and `req[r]`, a request in progress: the stage it has reached and the
copies it holds. Its actions carry the names of the handlers. The company: `createSession`, then `ReadList`,
`WriteList` (the two halves of `setProposedCandidates`) and `InviteCompany`; `submitAnswers`, then
`setOfferInterviewSlots`, `RecordAnswer` for each candidate, `InviteCandidate` and `CompleteLink`. The
candidate: `bookSlot`, then the one command `bookInterviewSlot`. The staff: `updateMatchedCandidateStatus`,
`addCandidate`, `removeCandidate`, `unmatchAll`, `update`, `delete`, `addManual` with `addProposedCandidate`,
the two conclusions with `WriteConclusion` and `WriteFiche`, and what they trigger, `syncOffersToContract` and
`syncDerivedStatus`. `Fail` ends a request where it stands. A guest acts while its row is AUTHENTICATED
(`GuestOf`).

`log` is history: what was told to whom, answered, asked, overwritten from an old copy (`over`); the last
`stage` given to the offer and whether a status deduced before it was still to be written (`outrun`); the
fiches written by two requests at once or not at all (`disturbed`), the candidates concluded to be present
after they were hired (`attended`). It names the exceptions the code leaves open, so that a property says
exactly when it holds.

`InterviewPromise` is the register: a slot is promised to one candidate, a candidate has one slot, and a
promise is withdrawn before another is made. `Promised` reads it from the history.

### SaSequence, SaPlanning, SaNotification and SaCalendar

`SaSequence` has the documents (`sa`, `alt`, `rupture`) and the single commands of the repositories. Dates are
days; `SaDates` is the plan (J+15, 10 weeks, then every four months, up to the end of the contract).

`SaPlanning` has the requests of the staff, one action per handler (`create`, `changeCompany`,
`removeCompany`, `createManualSequence`, `updateSequenceContacts`, `completeSequence`, `rescheduleSequence`,
`markSequence`, `deleteSequence`, `declareRupture`, `updateRupture`, `deleteRupture`, `archive`, `delete`) and
one per command they send next: `FindLater`, `ShiftLater`, `CommitSequence` for a shift; `Judge`,
`ArchiveSas`, `WritePerson` for the archive that follows the ruptures; `ReadNumero`, `CreateSequence`;
`WriteContacts`; `deleteAutoPending`, `ClearCompany`, `DeleteRuptures`. `markSequence` takes any of the three
statuses, as the service and the mutation do, and `log.marked` keeps the SA it put done; `updateRupture` is
any edit of a rupture, of its answer or of another field, and judges the archive again either way.

`SaNotification` adds `today` and `tick`, the pass of the scheduler: `StartTick` selects, `Notify` and
`NotifyFails` treat one SA (`some`: a part of its recipients was told before the failure), `Mark` stores,
`TickStops` is a restart, `DayPasses` the calendar.

`SaCalendar` is the same plan with the events of two users. A domain request is one step here; every call to
Google is one (`Push`, `SyncUser`, `Remove`, `View` with `Reconcile`), and may fail. `MoveEvent` and
`DeleteEvent` are people in Google (external).

### AbOffers

One AB (positions, status, visibility), its offers in the order of their insertion, and one request per user.
`Call` is the read every handler begins with; then `StoreRequest`, `WriteAb`, `SetVisible`, `StoreSigned` and
`markDeleted` write the AB, and `Check`, `Fetch`, `createOffers`, `Sync`, `Apply` and `Clear` the offers.
`Apply` sends one command of `syncOffers` at a time, in any order, since the code sends them together. `Fail`
makes a command fail, `Crash` restarts the back end, `Sign` is the webhook and `Match` stands for the whole
work of `Matching` on an offer: it marks the place the candidates were looked for.

`AbSignature` and `AbOffers` are two views of the same handlers: the first keeps the fields of the signature,
the second the positions and the offers. No property relates the two sets of fields.

### Proof modules and instances

`AbSignature_proofs`, `Questionnaire_proofs`, `Matching_proofs`, `AbOffers_proofs`, `AbOffersFollow_proofs`
(which extends it), `Sa_proofs`, `SaPlan_proofs` (which extends it) and `SaCalendar_proofs` extend their
component and TLAPS.
`MCAbSignature`, `MCQuestionnaire`, `MCMatching`, `MCSa`, `MCSaCalendar` and `MCAbOffers` define the constants
of the instances. Operators commented "Mutant" are deliberately wrong versions of the next definition: no
specification uses them; they show that the property they are listed with can fail.

## 4. Runs and bounds

| Run | Question | Instance |
|---|---|---|
| `ab_webhook` | Is the reservation exclusive and accounted for, whatever deliveries and failures interleave? | 3 deliveries on 2 instances, 2 submissions, 2 failures of any of 15 kinds; 339 946 states |
| `ab_lifecycle` | Do re-sends, stale edits, deletions, crashes and the scheduler keep the AB consistent? | 2 senders, 1 editor, 1 scheduler, 1 delivery at a time, 2 submissions, 1 failure; 558 804 states |
| `ab_liveness` | Does every completed signature end in its mails? | Yousign, 1 instance, 2 deliveries, 3 failures a retry makes up for; 350 states |
| `ab_empty_download` | The same for DocuSeal after an empty download: no | 1 delivery, 1 failure |
| `ab_relance_signed` | Is a signed AB left alone by the relance? no | 1 editor, 1 scheduler, no failure |
| `quiz_attempt` | Do concurrent answers, closings, cancellations and edits keep an attempt consistent? | 1 attempt, 2 devices, 2 requests, 2 revisions of 1 and 2 questions, 1 failure; 323 288 states |
| `quiz_frozen` | Are the questions frozen once an attempt has started? no | 1 attempt, 1 request |
| `matching` | Do staff, company and candidate together keep slots, answers, stages, placements and links consistent? | 2 requests, 2 desks on links, 2 candidates, 2 slots, 3 links, 1 failure, from six kinds of situations; 199 106 states |
| `sa` | Do overlapping requests, failures and the scheduler keep dates, numbers, archives and notifications consistent? | 3 SA, 2 contacts, days 0 and 1; two requests, or one with a failure and the days that pass; 356 257 states |
| `sa_calendar` | Is the plan what people asked for, in the CRM or in Google? no | 2 users, 3 events, 2 SA and one by hand, one request at a time |
| `ab_offers` | Do the offers follow the AB whatever users do at once? | 2 users, 2 forms, 3 requests without a failure or 2 with one failure or restart; 833 612 states |
| `ab_offers_edit` | Does an edit of a sent AB keep the matching of the positions that stay? no | 1 user, 3 requests, no failure, a position can be removed |

Why these bounds are enough. A hazard of the webhook needs two deliveries that race and, for the guard of
one process, a third on the other instance; two submissions cover a re-send; two failures allow one in
the work and one in the release that answers it (the longest chain in the code). These
handlers touch one AB or one questionnaire, so one of each is the whole system for these properties. Two
requests reach every race of `findOneAndUpdate` with a filter: one wins, one loses. The devices and the
requests of a questionnaire are interchangeable (symmetry). Two revisions, the second longer by one
question, make a stale copy both too short and too long. For the properties that are proved, the bounds
matter only to find mistakes early.

`matching` starts from the stages an offer goes through (`Started`, `Ready`, `Choosing`, `Booking`, `Mixed`,
`Met` in MCMatching) because reaching the last from nothing takes more requests than can be bounded: each is a
state the handlers produce, and from each two requests interleave in every order. Two candidates contend for
two slots; three links are one of the company, one of a candidate and one regenerated. `sa` separates what
needs two requests (`Crowded`: no failure, the last day) from what needs time and a failure (`Alone`: one
request); the scheduler runs in both. No instance has two overlapping requests and a failure together.
`ab_offers` makes the same choice with its pairs of bounds (`Budgets`). Three places with two trainings are
enough for an offer to change rank; the removal of the first position, which breaks the pairing with no
concurrency at all, is kept for `ab_offers_edit`.

`ab_webhook` leaves out `releaseApplied`, the ambiguous release: with it, a release already applied is repeated
by the catch block and can free a reservation another delivery took in between, and two copies leave.
`ab_lifecycle` keeps it, with one delivery at a time.

Deadlock is checked in `ab_lifecycle` and `ab_relance_signed`. The other systems really stop: every submission
is signed and acknowledged and the allowed failures are spent, the attempt is over, or (matching, SA, offers)
the bounded number of requests is served; their configurations say `CHECK_DEADLOCK FALSE`.

Properties worth a word:

* `ClaimAccounted`: `signed_notification_sent_at` is set and held by no pass exactly when the batch was
  mailed, had no sender, or was lost to a crash, an ambiguous claim or a failed release. It is what the catch
  block is for, and what a forgotten release breaks.
* `NoLeakedInflight`: waiters time out and re-enter, and each `finally` removes the one shared entry; still no
  entry outlives the requests it stands for.
* `AwaitingHasLink`: `update` writes back `signature_request_id` and `status` but not `signature_url`; the
  three can come from different sends, yet none is missing.
* `ScoreFromAnswers`: `finalize` scores a copy of the answers read before the closing command. Only the end of
  the clock, or an edit of the questions (see `quiz_frozen`), lets an accepted answer be left out.
* `ResultAccounted`: the copy on the fiche is made by the one request that won the closing command, and nobody
  repeats it after a failure.
* `OneHolder`, `ConfirmedSlotKept`: the booking filters on the slots of the whole list in one command; what
  can still take a slot away is a list merged from an old copy, which the second names.
* `StageKept`: `syncDerivedStatus` writes what a request deduced from a copy, some steps later. Whether such a
  write undoes the stage is looked at on the offer, and the excuse (`outrun`) on the moment the stage was
  given: a request had deduced a status and not yet written it. Without the excuse TLC finds both the race of
  two requests and the one request that undoes its own `CONTRACT` (section 7).
* `PlacementShown`: the entry of a candidate and his fiche are two documents that five operations write. The
  exceptions are two requests at once on the fiche, one that fails before it, an old copy of the list
  (`disturbed`), and `PRESENT` concluded on a hired candidate (`attended`, section 7). A placement that an old
  answer link overwrites is no longer one, and the property says nothing of it.
* `ClosedLinkStays`, `OneRowPerLink`: rows are checked on a copy and written by key; a completed link is
  reopened only by a request that read it before (or purged with the old rows), a link has two rows only when
  it was regenerated twice at once.
* `PlanInStep`: a shift is computed from the SA after one, written to them, then to the SA itself; the plan is
  what was asked for unless two shifts crossed or one failed half-way.
* `DoneWasReached`: contacts are checked on a copy, the later SA are shifted, then the SA is put done, while
  contacts are unchecked. `markSequence`, which checks nothing, is the other way to be done (section 7).
* `ArchiveFollows`, `EndStays`: the archive is decided from counts read one command earlier, then written to
  two collections. The first says both ways that the alternant follows the ruptures and his SA follow him; the
  second shows how the archive of a finished training can be undone by a rupture deleted later.
* `NotifiedOnce`, `MarkedWasSent`, `LateIsNotified`: not twice unless a failure came before the mark, never
  marked without a message unless archived at its turn, and sooner or later told about.
* `SentHasOffers`: the creation of the offers is check-then-create after the AB was sent, and its error is
  swallowed; no overlap of edits removes the last offer.
* `OffersFollowAb`, `MatchingStays`: the pairing by rank survives any order of the commands of one edit; what
  breaks it is a copy out of date or an edit that stopped half-way.

What these runs excuse. Several races are what the code does: nothing prevents them, and a property without an
exception for them is false. Each exception is a set or a flag of the history, set at the step where the race
happens, and the property shows that it is the only cause; it does not show that the race does no harm.
`AnsweredOnce` excuses overlapping submissions, `ClosedLinkStays` a row read before the closing,
`OneRowPerLink` two regenerations at once, `DoneWasReached` and `HandledKeepDate` a SA changed since it was
read, `PlanInStep` shifts that overlap or stop half-way, `NumbersDistinct` two numberings at once,
`ArchiveFollows` archives that overlap or stop half-way, `EndStays` the reason overwritten by a rupture.

## 5. Fairness

`FairSpec` is used by the liveness run `ab_liveness` and by `ab_empty_download`, which refutes liveness. It
assumes weak fairness of `PassStep(p)` (the event loop resumes a request whose await has settled; awaits on
external services settle, with success or failure), of `WakeUp(p)` (the 200 ms timer of `waitForInflight`),
and of the delivery of each completion that was not acknowledged (the providers retry until they get a 200).
No fairness is assumed of users, of the clock, of failures or of schedulers. Both properties of `ab_liveness`
were seen to fail on a mutant that forgets the release or the `finally` block.

`SaNotification` assumes weak fairness of `Scheduler` (`StartTick`, `Notify`, `Mark`): `setInterval` fires
every hour, the first tick runs when the process starts, so a stopped tick is followed by another. Requests of
the staff, failures and the days that pass have none. `LateIsNotified` was seen to fail on a mutant that
leaves the flag of a running tick set after a stop. The other specifications state no fairness.

## 6. Proofs

All are checked by `tlapm`, for any number of instances, requests, users, submissions, attempts, devices,
candidates, slots, links, SA, positions and failures. The assumptions are the named ASSUMEs of the components
(`ConstantsAssumption`, `QuizAssumption`, `AccessAssumption`, those of Matching, `SaAssumption`,
`NotificationAssumption`, `FormsAssumption`, ...), which TLC evaluates on every run, and what each theorem
states.

**AbSignature.** `TypeCorrect` proves `TypeOK`. The batch theorems rest on the inductive invariant
`CopiesInv`: at most one pass holds the reservation, and when one does the field is set; a copy that has left
is explained by where the holder stands (after its first mail, after its second) or by an outcome that closed
the batch; a batch with an outcome keeps the field. `NoDuplicateCopies` alone is not inductive: a state with
two holders and no mail satisfies it and breaks it two steps later. From it follow `NoDuplicates`,
`ClaimsAccounted` and `BatchImplemented` (the initial state maps to the initial state of AbNotification, every
step to a step or a stutter), and from the refinement `SettledForGood`: once the fate of the batch is known
the reservation stays and no mail leaves. These four assume `"releaseApplied" \notin Faults`, without which
they are false (section 4). `NothingLeaks`, `AwaitingAlwaysHasLink` (strengthened by what every `edit` has read) and
`RelancedOnce` (under `OneScheduler`) have invariants of their own.

Four more theorems are about what the runs refute or cannot reach. `RelancedOnlyUnsigned` proves the property
of `ab_relance_signed` for the behaviours in which no signature is recorded between the read and the write of
an `update` (`NoEditOverSignature`), whatever else fails (`UnsignedInv`: what an update has read is still the
status). `OneRequestPerSubmission` says what the in-process guard is worth: a lock on the submission, without
timeouts and without the other region (`LockInv`). `OwedIsNotLost` is the safety half of
`SignedGetsNotified`: `NothingOwedIsLost` says that a signature whose mails are due will be delivered again or
is in the hands of the pass that holds the reservation. It holds when every update writes what it read
(`EditsUpToDate`) and every reservation is given back before the delivery that needs it is acknowledged
(`GivenBackInTime`), without the three faults that lose a signature by themselves. The invariants behind it
are `AckedInv` (an acknowledged request is reserved, or signed by hand) and `DeliveredInv`.
`NothingForgotten` then shows that in the setting of `ab_liveness`, for any number of deliveries and failures,
the code keeps both promises (`SoleInv`): only the fairness part of `SignedGetsNotified` is left to TLC there.

**Questionnaire.** `QuizInv` is `TypeOK` with `DeviceInv` (an attempt that was started has a device and can no
longer be purged), `ReqInv` (what the copies of a request still guarantee at each step), `CloseInv` (who may
still save the result) and `AnsweredInOrder`. `GotoType`, `RequestEffect` and `OthersEffect` state once what a
step does to its own request and to the others; the preservation proof then has one case per action. Seven
theorems are corollaries, the three about steps with an argument on one step. `ScoredFromAnswers` needs one
more invariant, `ScoreInv`: a request between its last read and the closing command may close only because the
time is over or because it has read the last answer of the revision it scores, so an answer accepted after its
read is of another revision. `FrozenOnceLocked` proves the property of `quiz_frozen` for the behaviours in
which the lock of a start is neither lost (`LockReached`) nor overtaken by an edit (`NoEditBeforeLock`), with
`FrozenInv`: a started attempt has locked its questionnaire, or a request is about to. `OneLinkAtATime` is
about inviting, cancel then create: while no two members of the staff are past the cancel (`OneInviter`), the
candidate has at most one link, because between the two commands none is open (`InvitingInv`).

**Matching.** `TypeCorrect` needs `ReqOK`: what the copies of a request hold at each stage. The safety proofs
are separate invariants, each preserved given the types, so that one can be read
without the others. Links: `DeskKnows` (what a desk has read of a row that only it may overtake) with
`ClosedLinkStays`; `RowsInv` (rows of one link have one root, and a desk about to create a row is the only one
that removed it, unless two regenerate). Booking: `BookInv`, which adds to `OneHolder` and `ConfirmedSlotKept`
that a candidate out of the list, or out of any copy of it, holds no slot; `bookInterviewSlot` then keeps one
holder per slot, and the merge of an old copy accounts for every slot it takes away. From it follows
`PromiseImplemented`, the refinement of `InterviewPromise`, and from the refinement alone `ToldApart` (no two
candidates hold the confirmation of one slot, interviews entered by hand or not) and `NeverToldAnother` (a
confirmed slot is kept or lost, never exchanged). `StageKept` needs `NoneDeduced` (the two are `StageInv`): a
status waiting to be written was deduced before the stage was given, or there is no stage to undo. A request
deduces one at a further stage only as it empties the list (`StaffDerived`). `PlaceInv`
relates a placement, the fiche, and the one request that is still to write it. `AnswersInv` says that submissions
which never overlap are one at a time, and that a candidate about to be answered, or shown, may still be.

**AbOffers.** `TypeCorrect`, and `SentAlwaysHasOffers`. The second is about handlers that delete offers of a
sent AB: an edit never removes the offer of least number, because its rank is 1 and there is always one place;
the handlers that remove all offers say so in `absent`; and a user who marks the AB signed has seen or created
its offers before (`MarkHasOffers`). No request holds a status of a sent AB before it is sent
(`DraftUntilSent`). These are the conjuncts of `OffersInv`.

`AbOffersFollow_proofs`: `OffersAlwaysFollow` and `MatchingAlwaysStays`. Offers and places are paired by rank
and the commands of one synchronisation end in any order, so the invariant `FollowInv` says what an edit
half-applied has done (`HalfWay`): the offers it has treated have their place or are gone, the places left
over have offers numbered above the list, in order. As long as nothing was written from copies out of date,
an edit in hand is the only one, the offers it knows are the offers, and if no edit is in hand then the offers
follow the AB or a request about to read them has just written it (`Following`). That the two orders agree at
the end is arithmetic on ranks (`Ranks`, `FirstOnes`, `RankAdded`, `Finished`). `MatchingAlwaysStays` assumes
`GrowOnly`: two forms agree on the places they both have. Then the place an edit gives to an offer in hand is
the one it has (`Staying`, `StayInvariant`). The forms of the run `ab_offers` satisfy it. Under the same
assumption `EditsTouchTheEndOnly`: the commands of an edit that overlaps no other request delete offers beyond
the end of the list and write nothing new on any other. `EditsKeepMatching` proves the property of
`ab_offers_edit` when, in addition, no form asks twice for one place (`NoPlaceTwice`; with a position taken
twice, removing one of the two removes an offer whose place is still asked for), no edit hides the AB
(`NoEditHides`) and no request writes from old copies or stops half-way (`InStep`).

**SA.** `Sa_proofs`: `TypeCorrect`; `EachNotifiedOnce` and `MarkedAlwaysSent` from `NotifyInv` (a SA still in
the queue has been sent at most as often as it failed; the one being marked was sent or passed over).
`SaPlan_proofs`: numbers (the next number is above the maximum of a finite set, or the request raced),
`DoneWasReached` (the copies of a validation agree with the SA unless it is stale), `MovesInv` (what a shift
is about to write) with `HandledKeepDate` and `PlanInStep`, `ArchiveInv` with `ArchiveFollows` and `EndStays`:
the part about the alternant is `RupturesFollowed`, the part about his SA `SasInv`, which says at each step of
an archive that the SA are what is about to be written on the alternant (`SasWritten`) or what he is
(`SasSettled`).

`SaCalendar_proofs`: `CalendarTypes` (among them that what a view compares is the event of a SA, so that
`reconcile` never looks up a SA that is not one), and `PlanKeptByDecisions`, the property of `sa_calendar` for
the behaviours in which only an event that somebody moved gives its SA another day (`OnlyMovedCount`). Its
invariant `DaysWanted` is `PlanKept` in the middle of a request too: the dates and the days wanted are shifted
alike (`ShiftAlike`), and no other step writes a date. What the constants stand for is a hypothesis of the two
theorems (`CalendarConstants`).

Six theorems (`RelancedOnlyUnsigned`, `FrozenOnceLocked`, `OneLinkAtATime`, `EditsKeepMatching`,
`PlanKeptByDecisions`, `OwedIsNotLost`) have a hypothesis on the behaviour that the code does not enforce. They
say what a trace of a violation cannot: that the causes named by the hypothesis are the only ones.

Only model-checked: the three liveness properties (`SignedGetsNotified`, `DeliveryAnswered`,
`LateIsNotified`), out of reach of the prover; `NothingForgotten` and `MarkedAlwaysSent` are the safety parts of
the first and the last. Every other property of a run is stated by a theorem, except `SignedGetsNotified` as
`ab_empty_download` refutes it.

## 7. Findings

Six disagreements between the code and what its own comments or tests say, shown by five violation runs with a
trace of a few steps each:

1. `ab_empty_download`: the DocuSeal controller answers 200 after a failed download, so the retry for which
   the reservation is released never comes. Yousign's answers 500.
2. `ab_relance_signed`: `update` writes back the status it read; a signature in between is undone and the
   signed AB is relanced. Nothing else relances a signed AB (`RelancedOnlyUnsigned`).
3. `quiz_frozen`: the questionnaire is locked after the attempt has started, in a second command. An edit
   between the two, or the loss of the second, is the only cause (`FrozenOnceLocked`).
4. `sa_calendar`: looking at a calendar compares every listed event with the date its SA has by then. When one
   was moved, the next SA is shifted with it, then seen where its event still is, and brought back.
   Such an event that nobody moved is the only cause (`PlanKeptByDecisions`).
5. `ab_offers_edit`: offers and positions are paired by index. Removing the first of two positions gives its
   offer, with its candidates, to the second position and deletes the offer of the second, with its
   candidates. Edits that only add and remove positions at the end keep them (`EditsKeepMatching`).
6. `ab_offers_edit` (with forms that keep the positions): an AB published as a draft, sent, then edited loses
   all its offers, because the form sends `isVisibleInMatching = false` for an AB that is no draft.

Seen while modelling, without a run of their own: a delivery
acknowledged while another instance, which then fails, holds the reservation (what `GivenBackInTime` excludes
in `OwedIsNotLost`); two concurrent invitations of a candidate to a questionnaire leave two links, and nothing
else does (`OneLinkAtATime`); an ambiguous release (section 4) can free a reservation taken in
between. And three that a property above names as its exception:

* `updateMatchedCandidateStatus` with `CONTRACT` (`OfferService.ts` 566-593) first updates the fiche, which
  puts the candidate's offers under contract (`CandidateService.ts` 257, 276-288), then calls
  `syncDerivedStatus` (967-973) on the offer it read before: if the status deduced from that copy is another,
  `NOT_MATCHED` say, it is written over the `CONTRACT`. One request is enough; `StageKept` excuses it by `outrun`.
* `markSequence` (`AlternantService.ts` 405-408, and the GraphQL mutation) accepts the status done and asks for
  neither contacts nor a date, while 377-379 say that a SA becomes done through `completeSequence` only and
  388-389 that this takes both. The page of an alternant never sends it. `DoneWasReached` excuses it by `marked`.
* Concluding that a candidate was present at the interview keeps his status on the offer, `CONTRACT` included,
  and puts his fiche back to seeking (`OfferService.ts` 777-802). `PlacementShown` excuses it by `attended`.

## 8. What is not modelled

* Inside the modelled components. AB: duplication, the activation stamp and the tab status of the matching, a
  status or request passed by the caller of `update` (the model keeps what was read), the status `EXPIRE` that
  no service writes, in-application notifications, the archiving of the unsigned PDF. A delivery ignored as a
  replay while the other region's lookup fails is answered 500 instead of 200: it comes again and is ignored
  again. Questionnaire: test runs, active and archived statuses, identity confirmation, the order of the
  choices, empty questionnaires, tab switches, the deletion of the candidate (then `saveTestResult` finds no
  fiche). A command applied although its answer was lost is, for a questionnaire, the command followed by
  `Abort`.
* Matching. `PRE_SELECTED_MAIL_SEND` counts as `PRE_SELECTED`; `ABSENT` and `APPOINTMENT_CANCELLED` as
  `REJECTED`. A pure read is merged into the command that follows it. MongoDB's positional `$` designates the
  element matched by `$elemMatch`. Duplicates in the list of answers, direct edits of fiches, contracts of the
  same candidate on other offers, consent and the busy calendar of the interviewer are left out.
  `updateMatchedCandidateStatus` takes the statuses the front and the mails send; a stale CONTRACT that would
  overwrite another is masked by the contract dialog of the front. Two things the code does that no property
  contradicts: `createSession` ignores that the offer vanished, and cannot be repeated once it failed after
  the write; an immersion entered by hand has no conclusion to close.
* SA. The four months of the period are a constant number of days. What the code leaves open is named in `log`
  and `notice`: a shift repeated after a failure moves twice (`torn`), SA are written by id after a read
  (`stale`), two creations take one number (`raced`), SA created on an archived apprentice stay active
  (`since`), archives that overlap leave the SA and the apprentice apart (`mixed`), `quits` writes over the
  reason of a finished training (`requalified`), a notification that failed for one recipient is sent again to
  all, a SA whose turn comes while archived is marked (`passed`). Links between alternants and identity edits
  are left out. Calendar: `setGoogleEventId` is a read and a write in the code, one step here, since one
  request is served at a time; creation and change of company push in the same way and are left out.
* AbOffers. `find` has no sort: documents are assumed to come in the order of insertion. `insertMany` inserts
  all or nothing. The notifications, to-dos and `company.ab_id` of the handlers are left out, as are the
  status a caller may give to `update` (the front never does) and the activation. The visibility sent by a
  form is any boolean. When the check of `sendForSignature` fails, outside its catch, the AB is sent without
  offers for good (`uncreated`).
* A transient error of the lookup is answered 200 (`LookupFails`) and a signature can arrive before its
  request is stored (`earlySign`): both lose the notification, and both are left out of the liveness run.
* Components with status `not_modelled` in `PROJECT.json`: the OAuth tokens of the MCP server and the drafts
  of the pedagogy (section 2); candidates, companies and users, edited field by field without a protocol; and
  pure I/O, formatting, reporting, routing and the front end, which keep no state the properties could speak
  of. The front end and the generated or formatting code are most of the repository's lines: the models cover
  the services in which several actors write the same documents, a small part of the lines and most of the
  hard behaviour.
