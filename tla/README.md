# Verification of the exchange node

`exchange-node/` is one small program a company runs to exchange signed
"supermessages" with its partners: it receives files, checks signature and
rulebook, answers, routes, and treats what a partner sends about itself (a new
rulebook, a new address) as a *proposal* a person decides about. This directory
holds TLA+ models of that program, the TLC runs that check them on small
instances, and TLAPS proofs of their most important properties for every
instance. Names in the models are the names of the Go code where TLA+ allows.

Contents: 1 inventory, 2 modules and how they correspond to the code, 3 runs
and bounds, 4 fairness, 5 proofs, 6 what the code does not keep, 7 what is not
modelled, 8 what would come next.

To check a run: `tlc -config X.cfg M`, with the module M that `PROJECT.json`
names for it. `MCDeliveryLive.cfg` and `MCRouteLate.cfg` belong to `MCDelivery`,
`MCDeskBeside.cfg`, `MCDeskRetired.cfg` and `MCDeskAddress.cfg` to
`MCChangesDesk`, `MCRespondNumber.cfg` to `MCRespond`, `MCExchangeThree.cfg` to
`MCExchange`, and every other `.cfg` to the module of its name. To check the
proofs: `tlapm M.tla` for `DeliveryProofs`, `ChangesDeskProofs`,
`CheckedDeskProofs`, `RespondProofs`, `ExchangeProofs`, `AuditProofs`,
`DirectoryProofs` and `GatekeeperProofs`.

## 1. Inventory

A node is a home directory. Nothing that matters lives in memory between two
operations: every operation reads files, writes files (each through a `.tmp` file
that is renamed, `store.AtomicWrite`) and returns. Two kinds of process work on a home
directory: `exnode serve`, whose heartbeat (one tick a second), inbound HTTPS
handler and console buttons take one mutex (`webconsole.Server.Mu`), and
command-line runs (`exnode review`, `send`, ...), which take no lock at all.

| component | state it keeps | operations | talks to |
|---|---|---|---|
| outbound queue, `engine/delivery.go` | `outbox/queue`: one record per sent message, with state, attempts, retry time, receipt number | `enqueueDelivery`, `TryDeliver`, `recordAttempt`, `ProcessQueue`, `flushFailed`, `RetryDeliveryNow`, `ResendDelivery`, `RetryAllFailed`, `handleReceipt` | transport, connections on file, inbound pipeline (receipts) |
| inbound pipeline, `engine/engine.go` | `archive/`, `inbox/`, `inbox/quarantine`, `held/` | `Ingest`, `continuePipeline`, `ReprocessInbound` | trust store, changes desk, checker, outbound queue (receipts, notes) |
| changes desk, `changesdesk/` | `proposals/`: what a message suggested, and what was decided | `NoticeRulebook`, `NoticeConnections`, `Approve`, `Reject`, `Apply`, `ExpireOverdue` | trust store, connections; called by the engine |
| trust store, `trust/` | `trusted/rulebooks/*/trust.json`, `trusted/partners`, `trusted/connections` | `StatusOf`, `HighestTrusted`, `Load`, `Save` | read by the pipeline, written by the desk |
| transport, `transport/` | `transport/in` | `Deliver` (HTTPS push, SFTP upload, local folder), `Collect` | the partner's server |
| console and server, `webconsole/`, `cmd/exnode` | one mutex | buttons, heartbeat, inbound handler | all of the engine |
| numbers, two nodes in exchange | file count in `outbox/queue`, archive keyed by number | `nextNumber`, `signAndSend` | the partner's `Ingest` |
| answers, `respond/` | `drafts/`, the responded mark of an inbox record | `StartResponse`, `FillDraft`, `FinishResponse`, `SendRejection` | outbound queue, inbox |
| audit log, `audit/` | `audit/audit-log.jsonl`, a hash chain | `Append`, `Verify` | every component appends |
| key directory, `directory/` | one shared JSON file | `Publish`, `LookUp` | all nodes |
| store | file names | `AtomicWrite`, `ReadArchived` | all |
| checker and answer key | none | pure | pipeline, respond |
| supermessage format and signatures | none | pure | pipeline, respond |
| demo | none of its own | a script over the above | all |

What makes the node hard to test, and what has to be true of each part:

* **Outbound queue.** A retry is decided on a record read before the transport
  ran; a push that timed out may have arrived; a receipt can come before the
  attempt it confirms is recorded as failed; a resend re-opens a delivery whose
  receipt will not come twice; a crash can fall between record and attempt.
  It must never claim a delivery that did not happen, never drop a message
  between two records, give up only when the schedule is exhausted, and keep a
  confirmation once it has it.
* **Inbound pipeline and changes desk.** A message is held under a proposal,
  other messages join it, the partner sends another edition meanwhile, people
  decide in any order, messages are reprocessed, and a decision writes and moves
  several files, may fail after it was recorded, and may be cut short by a crash
  at any of them. Live configuration must come from an approval, decisions must
  be final and carried out whole or not at all, and no message may vanish between
  archive, inbox, held, quarantine and the notes sent.
* **Trust store.** Versions overlap for a while; several editions wait at once.
  Approving a new edition must not take a working one out of use.
* **Two nodes and more.** Numbers are counts of files, `.tmp` leftovers of a crash
  among them, unqualified by their sender; duplicates are dropped by number; a message is archived before it is
  processed; files are removed from the folder before they are ingested; a push
  is made under one server's mutex and answered under another's. A message must
  be processed at most once, and be processed if it is archived unless a server
  died; a record must stay that of its message; a server must get its mutex back.
* **Gate, audit log, key directory.** The diary is appended to without a lock
  between processes; the directory file is read, changed and rewritten by every
  `exnode init`, and empty while it is rewritten; the pipeline looks the sender
  up a second time and panics if it cannot. What verifies in the diary must be
  what was recorded, whoever initialised must be listed, and a genuine file must
  pass.
* **Checker and answer key.** Only a rulebook that behaves on its own examples as
  they promise may be trusted; a record may be green only if the content keeps
  every rule that applies, a rule nobody can evaluate being broken.
* **Answers.** Send, remove the draft, mark: a crash in between sends twice or
  leaves an answered message unmarked; a draft is a file that is edited freely,
  and what it says of its type and holes is what it is proved by.

`PROJECT.json` lists every hazard at the line where it bites, with the
properties aimed at it or the reason there is none yet.

## 2. Modules

### Delivery: the outbound queue

| in `Delivery` | in the code |
|---|---|
| `queue` | the JSON records in `outbox/queue`; `failures` counts the failed entries of `Attempts` (stops one above `RetryWaits`), `nextRetry` is `NextRetryAt` as unset, ahead or come, `receipted` is `ReceiptNumber # ""` |
| `onFile` | partners with a file in `trusted/connections` |
| `todo`, `attempt`, `flushing` | what a process has on its stack: the entries it listed, the record `TryDeliver` holds while the transport runs, being inside `Approve` before `flushFailed` |
| `wire`, `verified`, `receipts` | files under way, the partner's archive, receipts under way back |
| `Send`, `ReleaseNote`, `ApproveRoute` | `signAndSend` as called by answers, notes and `Approve` |
| `TryHandsOver`, `TryFails`, `TrySkips`, `SaveAttempt` | `TryDeliver` around the transport, `recordAttempt` |
| `ProcessQueue`, `FlushFailed`, `Revive`, `RetryDeliveryNow`, `ResendDelivery`, `RetryAllFailed`, `HandleReceipt` | the functions of those names |
| `PartnerVerifies`, `PartnerIgnoresDuplicate` | the partner's `Ingest` as far as it concerns the sender |
| `RetryTimeComes`, `FileLost`, `ReceiptLost`, `Crash` | the clock, an unreliable channel, a dying process |

`Flaky` partners have a channel that may report an error (with or without the
file having arrived) and lose files or receipts; the others do not. A process
runs one operation at a time; with several processes the operations interleave
between steps, as they do in the code.

`DeliveryPromise` is the abstract specification: what the deliveries page
promises. `Delivery` implements it under the mapping
`claim <- [m \in Messages |-> ClaimOf(m)]`, `ClaimOf` collapsing queued, handed
over, failed and dead letter into "open". A delivery may be claimed only of a
verified message, and a claim is re-opened only to "open".

### ChangesDesk: the inbound pipeline, proposals and trust

| in `ChangesDesk` | in the code |
|---|---|
| `archive`, `quarantine`, `held`, `inbox` | the directories of those names; an inbox record is green or red |
| `rulebooks`, `moves` | proposal files of the kinds `trust_rulebook` (by fingerprint) and `update_connections` (by offered channels) |
| `accepting` | `AcceptedVersions` of `trust.json`, in order; `until` is `AlsoAcceptedUntil` as unset, ahead or past |
| `partner`, `connections` | `trusted/partners/<id>.json`, `trusted/connections/<id>.json` |
| `notes` | the notes sent: configuration responses and refusals |
| `files` of a proposal | `proposed-rulebook.json` and `offered-connections.json` beside its record; a proposal can be on file without them |
| `work` | what the deciding process has on its stack: the record `Desk.Approve` loaded, the step it is at, and the messages still to release |
| `Ingest`, `ReprocessInbound`, `Pipeline` and its outcomes | `Ingest`, `ReprocessInbound`, `continuePipeline` |
| `StatusOf` and its parts | `trust.Record.StatusOf`, `HighestTrusted` |
| `ApproveRulebook`, `ApplyTrust`, `PinPartner`, `StoreConnections`, `MarkApplied`, `TellAccepted`, `TakeHeld`, `Resume`, `DoneDeciding` | `Node.Approve` of a rulebook: `Desk.Approve`, `applyRulebook` (three files), the save in `Desk.Apply`, the note, and the release loop, one step for each file |
| `GiveUp` | the errors `Node.Approve` returns after the approval is on file: the sender cannot be looked up, `applyRulebook` or `applyConnections` refuses or cannot write its first file |
| `ApproveMove`, `StoreConnections`, `MarkMoved` | `Node.Approve` of connections |
| `RejectRulebook`, `RejectMove`, `TellDeclined`, `RefuseHeld` | `Node.Reject`; the held messages go one by one |
| `OverlapEnds` | the calendar |
| `Crash`; `DiesMoving`, `DiesMovingMove`; `DiesIngesting`, `DiesReprocessing`, `DiesResuming` | a process dying between two files of a decision; while `Queue.Save` moves a folder from `review/pending` to `review/decided`; in the pipeline, where a proposal is saved before its files and before the message is held |

`DecideUnderLock` says who decides: the console, whose mutex keeps messages out
until the decision is carried out, or `exnode review` beside a running server.
Verdicts on a message are constants: `Unsigned`, `Tampered`, `Broken`, `Failing`;
and `Cites`, `Complete`, `Offers` say what it carries. `CheckedDesk` replaces the
last two verdicts by what the checker and the answer key compute; signatures are
`Gatekeeper`'s subject. One partner, one rulebook in
several editions. The order in which held messages are released is left open.
Nobody looks at the errors of some writes (the partner and its connections on
first contact, the inbox record, a held file): these succeed in the model. A
write that fails once something has been accepted leaves what a crash there
leaves, and is counted as one. Loading a record and saving it again is one step,
beside the server too.

### Respond: answering a message

| in `Respond` | in the code |
|---|---|
| `archive`, `inbox` | messages to answer, and the status and `Responded` mark of their records |
| `drafts` | the draft files, one for each message and type: `respond.Draft` with its type, the message it is about, its recipient, locked paths, holes and content; a content maps fields (paths) to values, `Fill` is the `<<FILL>>` marker |
| `sent`, `torn` | the answers archived and queued, with their number; what a process that died inside `AtomicWrite` left in the queue. `overwritten` is history: answers that were replaced |
| `work` | the step an operation is at, with the answer or the record it holds |
| `Allows`, `Echoed`, `Holes`, `Codes`, `OnlyWhen` | the original's `how_to_respond`: response types, `must_copy`, `you_fill_in`, the code lists and "required when" notes |
| `Shown`, `Reread` | what `%v` prints of a value in a message and of the same value read back from a draft: strings and small numbers print alike, whole numbers from 1000000 on do not |
| `CanBuild`, `Build`; `HolesFilled`, `CopiesWhatItMust`, `KeepsTheRules`, `Finished` | `respond.Build`; the three proofs of `respond.Finish`, by the type and the holes the draft names, and the content it returns. `Lines` and `Loose` are the fields in list items, which are passed over where an item lacks them |
| `StartResponse`, `FillDraft`, `FinishResponse`, `SendRejection`, `SignAndSend`, `RemoveDraft`, `MarkResponded`, `SaveMark` | the functions of those names, one step for each file written |
| `EditDraft` | "open it, fill the holes": a person with a text editor, who may change any part of the file: a field of the content, the type, the original, the recipient, the locked paths or the holes |
| `NextNumber`, `SaveRecord` | `nextNumber`, which counts leftovers too; a save of a queued record, with which its leftover goes |
| `Crash`, `DiesSending`, `DiesSaving` | a process that dies between two files, after the archive or inside the file of the queue, or while a record is saved again |
| `Receive`, `Reprocess`, `Deliver` | `Ingest`, `ReprocessInbound` and the end of the pipeline, as far as inbox records are concerned |

`FillDraft` reads and writes one file and is one step: nothing an editor does in
between reaches a content that `EditDraft` does not reach. What becomes of an
answer after it is queued is `Delivery`'s subject.

### Checker and CheckedDesk: rules, contents and answer keys

| in `Checker` | in the code |
|---|---|
| `Rules`, `Rulebooks` | a rule's id, the document type it applies to, and what its CEL expression makes of each content: yes, no, or error; the rulebook's own document type |
| `AppliesTo`, `Violations`, `Passed` | `checker.Check`: which rules are looked at, and which are broken |
| `ViolatedIDs`, `Sorted` | the sorted lists `equalStringSets` compares place by place, so that how often a rule is named counts |
| `ValidPasses`, `InvalidPasses`, `AllPass` | `answerkey.Run` and the `AllPass` of its report |
| `BrokenRules`, `Proves` | what the packages say of themselves, without lists and places: the reference definition |

`CheckedDesk` is `ChangesDesk` with `Failing` and `Broken` defined by `Checker`:
`NoticeRulebook` runs the message's answer key against the rulebook it brings,
and the end of the pipeline checks its content against the trusted one.

### Exchange: several nodes

| in `Exchange` | in the code |
|---|---|
| `queue`, `in`, `out`, `folder` | `outbox/queue`, `archive/in-*`, `archive/out-*` and `transport/in` of each node |
| `calls`, `work` | pushes whose handler waits for `Server.Mu`, and what the holder of each node's mutex is at |
| `channel`, `attended`, `agenda`, `done` | the channel on file for each node, who has an operator at the console, what there is to say, and how often the pipeline ran for a number |
| `torn`, `gone` | `.tmp` files in `outbox/queue`, and (history) the nodes whose queue has lost a file that had been counted |
| `NextNumber`, `ReadArchived`, `Archived` | `nextNumber` (a count of the files in the queue, leftovers included), `store.ReadArchived` (the inbound copy first), and the test for duplicates `Ingest` makes with it |
| `SendNote`, `Compose`, `EnqueueDelivery` | `signAndSend`: number and archive, record, attempt |
| `DeliverByFolder`, `DeliverBySFTP`, `RenameUpload`, `DeliverByPush`, `PushAnswered`, `PushTimesOut`, `DeliverFails`, `RecordAttempt` | `TryDeliver` around `transport.Deliver`, for each of the three channels, and `recordAttempt` |
| `RetryDelivery`, `ResendDelivery` | the heartbeat's and the operator's attempts |
| `Save` | `saveDelivery`: the record is written, and a leftover of it goes |
| `Collect`, `ReadFile`, `ReadFails`, `RemoveFile` | `transport.Collect`, file by file; any read error gives up what was read |
| `TakeFile`, `AnswerCall`, `ArchiveIn`, `SendReceipt`, `HandleReceipt`, `ContinuePipeline` | `ReceiveAll`, the inbound handler, and `Ingest` in steps |
| `Crash`, `CrashHanded`, `CrashSaving` | a server that dies at any of these steps, with the pushes it had not answered; after the file has moved and before the record says so; inside `AtomicWrite` of a record |

`Delivery` looks at one node closely and assumes its partner; `Exchange` has the
partner run the same code and is coarser about the record. Both implement
`DeliveryPromise`; here a message is verified when its receiver has archived it, a
dead letter is a failed record, and the promise is kept until a counted file has
gone from a queue, when a number may be given twice. Which leftovers
`ListDeliveries` reads as due records is left open (`RetryDelivery`).

### Audit, Directory and Gatekeeper: who may come in, and what is written down

| in the modules | in the code |
|---|---|
| `log`, `append`; `BeginAppend`, `WriteLine`, `WriteIsCutShort`, `AppendDies`, `LastHash`, `Verify` | `audit-log.jsonl`; `audit.Append` in two steps, in each of two processes, on a full disk, and killed; `Verify`. A hash is the sequence of the events it covers (no collisions) |
| `EditLine` | somebody with a text editor who rewords a line, and perhaps gives a past one a hash that fits |
| `file`, `empty`, `key`, `init`, `entries`; `GenerateKey`, `OpenDirectory`, `OpenFails`, `RereadAndMerge`, `TruncateFile`, `WriteFile`, `InitDies`, `LookUp` | the shared directory file and each `exnode init` around it: `engine.Init`, `directory.Open`, `Publish`, `os.WriteFile`, which empties the file first |
| `signed`, `fate`, `server` | the key a file is signed with, what became of it, and the server: at work, idle, down, or stuck with its mutex locked |
| `Ingest`, `ReprocessInbound`, `Passes`, `PublisherFails`, `Panics`, `StartAgain` | the gate of `Ingest`, `ReprocessInbound`, the second look-up in `continuePipeline`, a panic in the heartbeat (which ends the server), in the HTTPS handler (which frees the mutex) or in a console button (`POST /receive` and the reprocess button leave it locked), and a restart |

`written`, `shared`, `torn`, `edits`, `clash`, `listed` and `glimpsed` are history:
no process reads them, only the properties do. `Gatekeeper` extends the other two:
what the gate refuses is written to the diary while a terminal command writes to
it too, and it looks senders up while companies initialise.

## 3. Runs, bounds, and what they show

| run | instance | checks | shows |
|---|---|---|---|
| `delivery` | 3 messages, 2 partners, one flaky, 1 process, 1 wait, 1 crash; 1,016,730 states | `TypeOK`, `DeliveredIsVerified`, `NothingStalls`, `ConfirmationSticks`, `GivesUpOnlyAfterRetries`, `ImplementsPromise` | the queue under operators, losses and a crash |
| `delivery_live` | 2 messages, a reliable partner, 2 waits, 1 crash; 6,011 states | `ScheduledSettles`, `ReliableRouteDelivers` | a scheduled delivery settles; over a reliable channel it arrives and is confirmed |
| `desk` | `MCCheckedDesk`: 6 messages, 2 editions, 2 addresses, 2 rules, 3 contents, in the console, 1 crash; 1,154,518 states | `TypeOK`, `OnlyApprovedIsLive`, `HeldIsOnTheDesk`, `NothingIsLost`, `AcceptedIsProven`, `GreenKeepsTheRules`, `DecisionsAreFinal`, `ApprovalKeepsTheOld`, `ApprovedWholeOrNotAtAll` | receiving, checking, deciding, failing and crashing in any order |
| `respond` | 1 order, 1 type that can be built, 2 drafts, 3 numbers, 1 edit, 1 process, 1 crash; 944,055 states | `TypeOK`, `AnswersHonourTheOriginal`, `MarkedIsAnswered`, `OneAnswerPerDraft`, `ReportedIsDone` | answering, rejecting, editing, reprocessing and crashing in any order |
| `exchange` | 2 nodes in 4 scenarios, 2 records in each queue; 146,569 states | `TypeOK`, `AtMostOnce`, `ArchivedIsProcessed`, `FiledStays`, `ImplementsPromise`, `ServerComesFree` | two companies that run the same code, over each channel, with resends, timeouts and dying servers |
| `gatekeeper` | 2 companies, one initialising twice, 2 files, 2 processes, 2 lines, 1 edit; 4,291,641 states | `TypeOK`, `VerifiedIsWhatWasRecorded`, `BreaksForAReason`, `OneAfterTheOtherIsListed`, `GenuineIsAccepted`, `BrokenStaysBroken` | the gate, the diary and the directory with everybody writing |
| `route_late`, `desk_beside`, `desk_retired`, `desk_address`, `respond_number`, `exchange_three` | the smallest instance that shows it | one statement of the repository each | section 6 |

Why the bounds are enough for the interesting cases:

* `RetryWaits` is 5 in the code and 1 or 2 here: the schedule is only ever
  compared with the number of failures, and with one wait a record already goes
  through "retry ahead", "retry come", "given up" and "revived".
* Three messages to two partners: one each of a confirmed message, a note, and
  a receipt (which nobody receipts), with lists of two to work through.
* One crash: a second one only repeats what the first leaves behind. A crash
  hits every step of every operation. In `desk` it may also fall inside the
  pipeline, between a proposal and its files, and inside the move of a decided
  proposal; in `respond` and `exchange` inside a file write.
* The six desk messages are: an order that brings the first edition from the
  old address; the same edition again from the new address, failing its answer
  key (it promises one rule too many) if it is the one that files the proposal;
  a message that cites it by fingerprint only, from the new address, with a
  content no rule can be evaluated on; a complete message of another type under
  the second edition; one whose rulebook was tampered with; one whose signature
  does not verify. Every outcome of the pipeline, a second edition waiting
  beside the first, and a move occur.
* The rulebook has a rule for its own document type, which a content keeps,
  breaks or cannot be judged by, and one for another type, which must be skipped.
* The order to answer allows a response that copies a number, with a decision
  out of two codes and a quantity that is required for one of them, and a
  despatch advice that cannot be built; one combination breaks the rules. A
  third type is not allowed, and the response also copies a field of a list item
  that lacks it. Two drafts and three numbers: a draft overwritten, a draft sent
  again after a crash, an answer next to a rejection, and a number given a second
  time once the leftover it was counted from has gone, to an answer of the same
  order, there being one. One edit changes one part of one draft's file; with the
  form, which may be submitted any number of times, and a rebuilt draft, a content
  takes every value it can. Among the edits are another type (one that is allowed
  and one that is not), another recipient, no holes and a hole without its codes.
* The four scenarios of `exchange`: both companies push at each other with
  operators at both consoles; one pushes and each server may die once; one
  drops two notes by SFTP into the folder of another, which answers into a local
  folder; the same with one note and servers that may die. `MaxCount` is 2: a
  queue holds the notes a scenario has and the receipts it owes. `SendNote` and
  `SendReceipt` wait when a queue is full; the agenda is what keeps it from being full.
  A leftover that is counted and then goes (`gone`) occurs. A number that is then
  given a second time would take three records and one message more, for which
  the states are too many; `respond` has that case with one node.
* `gatekeeper`: one file that carries a rulebook and one that cites it; a sender
  that initialises a second time while its first file is under way, and a company
  that only initialises, which is what it takes for two inits to meet; two lines,
  so that one has a predecessor; one edit and any number of torn lines.

`CHECK_DEADLOCK` is on for `delivery`, `delivery_live`, `desk`, `respond`,
`exchange` and the runs of section 6 but one: messages can always be
reprocessed, deliveries resent, and folders collected. It is off for `gatekeeper`, where the
diary is full and every company initialised in the end, and for `exchange_three`,
which has no operator and is through when its receipts are.

## 4. Fairness

`Delivery!Fairness`: the heartbeat ticks every second and waits for a Go mutex,
which starves nobody, so `ProcessQueue` is strongly fair; an operation once
begun runs on (weak fairness of the attempt's steps and the flush); the clock
moves; files and receipts that are not lost arrive, and the receiving handler
gets the mutex in the end. Operators, approvals and sends are not fair.
`ChangesDesk!FairSpec`: `WF(CarryOut)` only, since a decision once begun runs to its
end unless its process dies. Nobody has to decide anything and no partner has
to send anything. `Exchange!Fairness`: each server runs on with the operation it
has begun, the time-out of a push being one of its steps, as the 30 s of
`httpClient` are; that a partner answers, a heartbeat ticks or anything new
begins is not assumed. `ServerComesFree` then says that servers that push at
each other come out of it. `Respond` and `Gatekeeper` state no fairness: their
properties are safety.

## 5. Proofs

All proofs hold for every value of the constants, from the assumptions named in
the modules (sets of messages, editions, companies and channels with the obvious
typing, `RetryWaits` positive, bounds that are natural numbers), and from those a
theorem itself states. Of the latter some say how the program is run: `Solo`, one
process on a home (which is what `Server.Mu` makes of the server's handlers,
heartbeat and buttons); `DecideUnderLock`, decisions in the console; `TwoNodes`,
two companies. The others are conditions on the data or on what has happened,
under which a statement that the code does not keep in general (section 6) does
hold. Run and theorem together say what that statement lacks:

| statement | run that breaks it | theorem, and the condition |
|---|---|---|
| `ApprovedIsProcessed` | `desk_beside` | `ApprovedUnderTheLock`: decisions in the console |
| `DowngradeIsBelow` | `desk_retired` | `DowngradeIsBelowTheLast`: in every state in which the edition approved last declares the highest version (`LastIsHighest`) |
| `AddressNeedsOtherChannel` | `desk_address` | `AddressOfOneFirstContact`: as long as one edition only was approved as first contact (`OneFirstContact`) |
| `CorrectDraftFinishes` | `respond_number` | `CorrectDraftsFinish`: what answers copy prints alike as sent and as read back (`CopiesPrintAlike`), as every string does |
| `DeliveredIsReceipted` | `exchange_three` | `HonestUnlessNumbersClash`, `TwoCompaniesAreHonest`: as long as no node filed a record under a number it archived from a third company (`NumbersClash`), which two companies cannot do, and no counted file has gone from a queue (`gone`) |

`DeliveryProofs` (any number of processes):

* `TypeCorrect`: `TypeInv` adds to `TypeOK` that whatever a process listed or
  holds is a delivery record that is on file.
* `DeliveredIsHonest` from `HonestInv`: "delivered" is written only on a
  receipt, receipts exist only for verified messages, and a record read as
  delivered by an attempt in progress is one too.
* `NothingIsDropped`: every step that leaves a record without a schedule also
  puts it in some process's hands; only a crash takes it out of them.
* `GivingUp`: `GivesUpOnlyAfterRetries` from `ScheduleInv`.
* `Refinement`: `Delivery` implements `DeliveryPromise`; besides honesty it needs
  that only messages with a record travel.
* `ConfirmationIsForGood`, with `Solo`, from `Fresh`: the record an attempt holds
  agrees with the one on file in everything a save would overwrite. Beside a
  second process it need not, and an attempt's save takes a confirmation back.

`ChangesDeskProofs`:

* `DeskTypeCorrect`, `MessagesProposeHumansApply`, `DecisionsStand`, all from
  `DeskInv`. `OnlyApprovedIsLive` is not inductive: while a decision is being
  carried out the files it writes are justified by the record in the process's
  memory. `WorkOK` therefore says that between "trust" and "apply" the proposal
  on file is approved and agrees with that record on everything but the held
  messages. This in turn needs that no message can reopen the proposal, which for an
  applied one rests on its edition being accepted (`AppliedIsAccepted`): an
  accepted edition is never "update" in `StatusOf`, so the pipeline never files
  a proposal for it again. The invariant holds with decisions in the console or
  beside the server, and wherever the process dies, in the pipeline or while it
  moves a proposal too.
* `NoMessageIsLost` from `MessagesInv`: `HandsOK` says which messages a deciding
  process has in hand at which step (one at a time while it resumes, those to
  come once the decision is applied), and `HeldForItself` that a proposal
  names only messages that cite its edition.
* `HeldMessagesAreOnTheDesk`, for decisions under the lock, from `HeldInv`, which
  adds `RecordIsCurrent`: while the mutex keeps messages out, the record the
  process loaded still names all that are held. Without the lock this is what
  fails (`desk_beside`).
* `TheOldStaysInUse`: the trust record grows at its end, so that the first entry
  that matches an edition remains the first, and what an approval changes in it
  is the overlap, which lies ahead.
* `ApprovedUnderTheLock` from `HeldMessagesAreOnTheDesk` and `NotAskedAgain`: whoever
  sends a message with its rulebook is not asked to send it complete, so that what
  is complete and held waits on the desk, for a rulebook not yet applied.
* `DowngradeIsBelowTheLast` from `LastIsOpen`: the edition approved last has no end
  of its overlap yet, whatever the order of approvals, so that if it is also the
  highest, something not below the others is always in use.
* `AddressOfOneFirstContact` from `AddressInv`: an address is in use only after a
  first contact has stored one, which it does once, and a move is proposed only
  against an address in use; so the first contact that is approved meets no
  address, and whatever changes it later is a confirmed move.
* `DecisionsComeToAnEnd`, the variant behind the liveness `ApprovedWholeOrNotAtAll`:
  nothing that arrives or is decided beside it touches a decision under way, and
  each of its steps other than a crash brings it nearer to its end (`Distance`,
  and within the release `Left`, two steps for each held message). `FiniteInv` says
  that a proposal holds finitely many messages. That the next step is enabled,
  and that it is taken, is the part left to TLC and to fairness.
* `WholeOrNotAtAll`, in which state a decision ends, from `WholeInv`: as long as no
  process has died, an edition is accepted only if it is applied or on the way
  there (`HalfWayOnly`), the messages of a proposal that is not applied are held
  (`PendingAreHeld`), and those of an applied one have left or are on the list of
  the one who releases them (`AppliedAreReleased`).

`CheckedDeskProofs`: `AllPassProves` (a report without failures means what the
reference definition says), `AllPassIsProof` (the converse too, for rulebooks
without two rules of one id and keys without a promise made twice,
`WithoutRepeats`; with repetitions it fails, since the lists are compared with
them), `AcceptedRulebooksAreProven` (an accepted edition was brought by a
message whose key it passed, from `DeskInv` and that only what passed can be
approved) and `GreenIsRight`.

`RespondProofs`:

* `RespondTypeCorrect`, `OnlyProvenAnswers` from `RespondInv`, for any number of
  processes and any edits: an answer that waits to be signed already honours its
  original, by the type and the holes its draft names; and wholly if those, the
  original and the recipient are as built. The heart is that leaving the excused
  holes out of the content neither changes a copied field nor makes a hole due,
  because no condition asks for an empty field (`Conditions`).
* `MarksAnswered` from `MarkInv`, for any number of processes: whoever is past
  signing has its answer in the queue (`SignedAtWork`), unless an answer to that
  message has been replaced since, which `overwritten` remembers.
* `SoloMarksAnswered`, for one process, from `FreshInv`: as long as nothing torn is
  in the queue the count is the number of answers, a new answer has a number of
  its own, and nothing is replaced. A death inside `AtomicWrite` is what ends
  that, with one process too; with two, `nextNumber` can give one number to two
  answers without any death.
* `SoloReportsDone` from `SoloInv`, for one process: from its signing on an answer
  is in the queue until its operation ends. `SoloSendsADraftOnce` from `OnceInv`:
  every draft built and every crash is an allowance of one answer, a draft on
  file or an answer about to be sent is one not yet spent, and the draft just
  sent is removed before another begins.
* `CorrectDraftsFinish` from `CorrectIsReadyWhenAlike`, which is about `Finish`
  alone, and `DraftsWereBuilt`: a draft on file is one that could be built, so that
  no field it copies is missing in the original.

`ExchangeProofs`, for any number of nodes and any scenarios, from `ExchangeInv`:
`PushesOK` (a push that is waited for is in one place: among the calls or in one
server's hands), and for each node `HandOK` (what the server is at agrees with
its files: a file between archiving and the pipeline is archived and not yet
processed), `BooksOK` (what is filed is archived, what is processed is archived),
`AllProcessed`, and, until a counted file has gone from its queue, `NumbersOK` (no
number on file or torn exceeds the number of files, `Total`, and one about to be
filed is one above it). `ExchangeTypeCorrect`, `TheEffectHappensOnce`,
`WhatIsArchivedIsProcessed` and `FiledForGood` follow. On top of it:

* Where files come from, `HonestInv`: as long as `gone` is empty and until
  `NumbersClash`, `Provenance` holds, which
  says that every file in a folder, a call, a batch or an archive was composed
  by the node it names, for this node, and is on file there; or is on its way
  to a node that has that number out and will drop it. And a receipt is about a
  message its sender archived from the node the receipt is for. This gives
  `WhatIsKeptWasSent`, `HonestUnlessNumbersClash`, and, step by step,
  `PromiseUnlessNumbersClash`: any number of nodes implement `DeliveryPromise`
  until numbers clash; `ImplementsPromise` itself allows anything from the step on
  with which a counted file goes. With two nodes `Provenance` excludes the clash itself, which
  gives `TwoCompaniesAreHonest` and `TwoCompaniesKeepThePromise`.
* `EveryOperationGetsOn`, the variant behind `ServerComesFree`: `Left` counts the
  names a server has listed, the files it has read and the steps of the one it
  is at. Each of its own steps lowers it and no other server's step raises it.
  It needs that a folder holds finitely many files, that a file removed is one
  that was listed, and that a push is answered only while it is waited for
  (`ListsInv`). That some step is enabled for a server at work stays with TLC.

`AuditProofs`, `DirectoryProofs` and `GatekeeperProofs`, from `GateInv`:

* The diary: the last line's hash covers what was recorded, and no line names as
  the one before it a hash as long as its own place would need unless it is that
  of what was recorded; a past line that was hashed anew is thus found out by the
  one behind it, and a chain that verifies leads back from the last line to the
  first. This gives `TheDiaryCannotLie`; and as long as nothing happened to it
  the one process in Append holds its last hash, which gives
  `TheDiaryDoesNotCryWolf`. `ABrokenDiaryStaysBroken` from how Verify and Append go
  together.
* The directory: while no two inits met, the file is what was completed and the
  one that has entries in memory has the file's (`TheListedAreOnFile`).
* The gate: `TheGenuineIsAccepted` needs that a file was signed before a later key
  of its sender is published (`SignedBefore`): what was rightly refused cannot
  become genuine afterwards.

Only model-checked: liveness, which is out of the prover's reach together with
ENABLED. `ScheduledSettles` and `ReliableRouteDelivers` are TLC's alone; of
`ApprovedWholeOrNotAtAll` and `ServerComesFree` the variants are proved, as said. And
the statements of section 6 without their conditions, which are false: for
`RouteReleasesTheQueue` there is no theorem, a dead letter being passed over
whatever else happens. All other properties of the runs are stated by a theorem.

## 6. What the code does not keep

Each is a run that TLC ends with a counterexample to a statement of the
repository; `PROJECT.json` quotes the lines.

* `route_late`: a note to a partner without a route "goes out the moment the
  route exists", unless its retries ran out before; then it is a dead letter,
  and the flush on approval passes it over.
* `desk_beside`: a message that joins a proposal while `exnode review` approves
  it is dropped from the record when the older copy is saved, and stays held
  although the rulebook is applied.
* `desk_retired`: approving the older of two waiting editions last puts the end
  of the overlap on the newer one, which then counts as a downgrade although
  only a lower version is accepted.
* `desk_address`: a rulebook proposal filed before the partner was pinned keeps
  its first-contact channels, and approving it later replaces the partner's
  address without the out-of-band confirmation.
* `respond_number`: a correctly filled draft that copies a whole number from
  1000000 on is refused, its echo being compared as printed and its number
  printed as a float.
* `exchange_three`: numbers are unique within one node only, and the archive is
  asked by number in both directions, inbound first. A node that has received
  one company's receipt of a number sends those bytes where its own receipt of
  that number was due, and an order nobody received is called delivered.

Some more are in the models without a run of their own:

* An approval can fail after it is on file (`GiveUp`; `engine.go:432-439`,
  `apply.go:126-152`, `216-219`): the proposal then stays approved, and since
  `Desk.Approve` and `Desk.Reject` take only what waits for review, nothing applies,
  approves or rejects it any more, and its messages stay held, no process having
  died. So it is not true that an approval is carried out in the end;
  `ApprovedWholeOrNotAtAll` and `WholeOrNotAtAll` say what is.
* A process that dies between a proposal and the files that belong to it
  (`detect.go:120-136`), or while a decided proposal is moved (`records.go:197-211`),
  leaves one that can be approved and cannot be applied.
* `nextNumber` "produces a readable unique outbound message number"
  (`engine.go:623`), but counts `.tmp` files a death inside `AtomicWrite` left
  (`engine.go:635`, `store.go:70-76`, `167-180`). When the record is saved again the
  count falls, and a later message gets a number that is taken and replaces the
  archived bytes and the record. `FiledStays` holds until then, and `respond`
  reaches it (`overwritten`).
* Finish believes the draft's file: edited to a type its original does not allow, a
  draft copies nothing (`respond.go:127-128` passes over the error), and one without
  holes leaves none to fill. It is sent, although the node "refuses to send"
  what breaks the choreography (`NODE.md:15`), and finishing is to prove that it
  was honored (`respond.go:4`).
* A copied field may be edited into one that prints the same, although
  `respond.go:125` says "byte-for-byte" and `NODE.md:15` calls it locked. A value that is not a string
  passes the check against the allowed codes (`Allowed`).
* A message resent after its receipt came is dropped by the partner as a
  duplicate, without a receipt, and its record stays handed over. One that brings
  a rejected rulebook again is held under a proposal that can be decided no more.
* A panic in a console button leaves the mutex locked.
* The hash of a diary's line has no key: a last line hashed anew, or lines cut off
  at the end, are changes `Verify` cannot notice. `EditLine` does neither.

## 7. What is not modelled, and why

* Canonical JSON, fingerprints, Ed25519 and CEL: pure functions over text; the
  models take a signature as the key it was made with and a rule as its verdicts.
  Two different rulebooks with one fingerprint are excluded, and so are two
  histories of the diary with one hash.
* `ExpireOverdue` has no caller, so there is no such step: proposals do not expire.
* The policy file: the default policy is modelled (an `update_connections`
  approval needs the out-of-band confirmation). `DiffRulebooks` only words the
  card a person decides on; `DiffConnections` is modelled as the condition it decides.
* A second process on one home in `Exchange`: a terminal command counts the same
  queue and may take the number of another message, which breaks `FiledStays`
  outright, leftovers or not. `Respond` and `Delivery` have several processes, and their theorems
  say where one is assumed; `desk_beside` has a second one deciding.
* Receiving a message is one step of `ChangesDesk` unless the process dies in it
  (`DiesInPipeline` and the actions that use it): under the mutex nobody sees what
  is between its files, and `exnode review` beside it loads and saves one record.
  A crash inside `Ingest` with the receipt and the delivery is in `Exchange`.
* The third look-up of a sender, in `incomingFrom` (`engine.go:356`): if it fails, the
  fingerprint shown on the proposal is that of no key, and nothing else changes.
* The SFTP server only lets a partner rename files into `transport/in`, which is
  the partner's step in `Exchange`.
* Wording, logging, rendering, HTTP plumbing, flag parsing, the message log, the
  scripted demo (it calls what is modelled).
* Deadlines; the paths, lists and nesting of a content (a field is a path);
  the order of a node's days (`nextNumber` has the day in it: all of `Exchange`
  happens on one).

## 8. What would come next

1. `Delivery` and `Exchange` in one model: the full record with its retry schedule
   at every node, and a second process on a home as a named fault.
2. Longer desk histories: two editions that declare one version; a partner that
   moves back; partial channel lists. `ChangesDesk` has these steps, but the
   repository says nothing that would be a property of them.
3. What becomes of several nodes after numbers have clashed: which of the promises
   survive for the messages that were not mixed up.
