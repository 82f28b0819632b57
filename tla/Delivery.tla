------------------------------- MODULE Delivery -------------------------------
(***************************************************************************)
(* The outbound queue of one exchange node (engine/delivery.go): the       *)
(* record of every message it sent, the attempts to deliver it, the retry  *)
(* schedule, the dead letters, the operator's buttons and the signed       *)
(* receipts that close the loop.                                           *)
(*                                                                         *)
(* A process is an operating-system process working on the node's home     *)
(* directory: "exnode serve", whose heartbeat, inbound handler and console *)
(* take one mutex (webconsole.Server.Mu), or a command-line "exnode ..."   *)
(* run beside it, which takes no lock the server knows of.  Inside one     *)
(* process an operation runs to its end before the next one starts.  An    *)
(* attempt is two steps, because the transport runs between reading the    *)
(* record and saving it; a process may die between any two steps, and only *)
(* the files survive.                                                      *)
(***************************************************************************)
EXTENDS Naturals, FiniteSets

CONSTANTS Messages,     \* outbound message numbers
          Receipts,     \* the messages of type delivery_receipt
          Partners,     \* companies the node writes to
          To,           \* the receiver of each message
          Flaky,        \* partners whose channel on file may fail or lose a file
          Procs,        \* processes working on this home directory
          RetryWaits,   \* len(retryAfter): 5 in the code
          MaxCrashes    \* bound: processes that die in one behaviour

ASSUME MessagesAssumption == /\ Receipts \subseteq Messages
                             /\ To \in [Messages -> Partners]
                             /\ Flaky \subseteq Partners
ASSUME RetryAssumption == RetryWaits \in Nat \ {0}
ASSUME CrashAssumption == MaxCrashes \in Nat

VARIABLES queue,      \* outbox/queue: the delivery record of each message
          onFile,     \* partners with connection details in trusted/connections
          wire,       \* files the transport let go of, not yet taken in
          verified,   \* messages the partner's node has received and verified
          receipts,   \* messages whose signed receipt is on its way back
          todo,       \* what each process still has to try, as it listed it
          attempt,    \* the record each process has in memory, transport done
          flushing,   \* processes inside Approve, the queue not yet flushed
          crashes     \* how many processes have died

vars == <<queue, onFile, wire, verified, receipts, todo, attempt, flushing, crashes>>

-----------------------------------------------------------------------------
(* Delivery records. *)

States == {"queued", "handed_over", "delivered", "failed", "dead_letter"}

(* NextRetryAt: empty, a time still to come, or a time that has come. *)
Schedules == {"", "later", "due"}

(* Only "more failures than there are waits" matters, so the count of      *)
(* failed attempts stops growing one above RetryWaits.  "receipted" is     *)
(* ReceiptNumber # "".                                                     *)
Delivery == [state : States, failures : 0..(RetryWaits + 1),
             nextRetry : Schedules, receipted : BOOLEAN]

NoDelivery == [state |-> "none"]
NoAttempt == [outcome |-> "none"]

Listed == [msg : Messages, seen : Delivery]
Attempt == [msg : Messages, rec : Delivery, outcome : {"handed_over", "failed"}]

Queued == [state |-> "queued", failures |-> 0, nextRetry |-> "", receipted |-> FALSE]

HasRecord(m) == queue[m] # NoDelivery
InState(m, s) == queue[m].state = s
Scheduled(m) == InState(m, "failed") /\ queue[m].nextRetry # ""

(* ListDeliveries restricted to some states: file names with the records   *)
(* read at that moment.                                                    *)
List(states) == {[msg |-> m, seen |-> queue[m]] :
                    m \in {n \in Messages : queue[n].state \in states}}

Failures(d) == IF d.failures > RetryWaits THEN d.failures ELSE d.failures + 1

-----------------------------------------------------------------------------
(* Mutants: what plausible slips would make of definitions below.  Each is *)
(* substituted for its original to see that a property notices.            *)

(* a hand-over is taken for a delivery. *)
HandOverIsDelivery(d, m) == [d EXCEPT !.state = "delivered", !.nextRetry = ""]

(* the bound on the index into retryAfter is not checked. *)
NeverGivesUp(d) ==
    [d EXCEPT !.state = "failed", !.nextRetry = "later", !.failures = d.failures + 1]

(* gives up one failure early. *)
GivesUpEarly(d) ==
    IF Failures(d) >= RetryWaits
    THEN [d EXCEPT !.state = "dead_letter", !.nextRetry = "", !.failures = Failures(d)]
    ELSE [d EXCEPT !.state = "failed", !.nextRetry = "later", !.failures = Failures(d)]

(* the first attempt is left to the heartbeat. *)
EnqueueOnly(p, m) ==
    /\ ~HasRecord(m)
    /\ queue' = [queue EXCEPT ![m] = Queued]
    /\ UNCHANGED todo

(* the heartbeat looks for records nobody has tried yet. *)
DueIsQueued == List({"queued"})

(* the inbound handler forgets to take the node's mutex. *)
HandleReceiptUnlocked(p, m) ==
    /\ m \in receipts /\ HasRecord(m)
    /\ queue' = [queue EXCEPT ![m].state = "delivered", ![m].receipted = TRUE,
                              ![m].nextRetry = ""]
    /\ receipts' = receipts \ {m}
    /\ UNCHANGED <<onFile, wire, verified, todo, attempt, flushing, crashes>>

(* the receipt is sent before the signature is checked. *)
PartnerReceiptsUnverified(m) ==
    /\ m \in wire \ verified
    /\ wire' = wire \ {m}
    /\ receipts' = IF m \in Receipts THEN receipts ELSE receipts \cup {m}
    /\ UNCHANGED <<queue, onFile, verified, todo, attempt, flushing, crashes>>

(* only receipts are receipted, the test the wrong way round. *)
PartnerReceiptsReceipts(m) ==
    /\ m \in wire \ verified
    /\ wire' = wire \ {m}
    /\ verified' = verified \cup {m}
    /\ receipts' = IF m \in Receipts THEN receipts \cup {m} ELSE receipts
    /\ UNCHANGED <<queue, onFile, todo, attempt, flushing, crashes>>

-----------------------------------------------------------------------------
(* recordAttempt: what the record of m becomes after an attempt. *)
RecordHandedOver(d, m) ==
    [d EXCEPT !.state = IF m \in Receipts THEN "delivered" ELSE "handed_over",
              !.nextRetry = ""]

RecordFailed(d) ==
    IF Failures(d) > RetryWaits
    THEN [d EXCEPT !.state = "dead_letter", !.nextRetry = "", !.failures = Failures(d)]
    ELSE [d EXCEPT !.state = "failed", !.nextRetry = "later", !.failures = Failures(d)]

RecordAttempt(d, m, outcome) ==
    IF outcome = "handed_over" THEN RecordHandedOver(d, m) ELSE RecordFailed(d)

-----------------------------------------------------------------------------
(* A process is idle when it could start another operation: in the server, *)
(* when the mutex is free.                                                 *)
Quiet(p) == todo[p] = {} /\ attempt[p] = NoAttempt
Idle(p) == Quiet(p) /\ p \notin flushing

InHand(m) == \E p \in Procs : \/ \E t \in todo[p] : t.msg = m
                              \/ attempt[p] # NoAttempt /\ attempt[p].msg = m

TypeOK == /\ queue \in [Messages -> Delivery \cup {NoDelivery}]
          /\ onFile \subseteq Partners
          /\ wire \subseteq Messages
          /\ verified \subseteq Messages
          /\ receipts \subseteq Messages
          /\ todo \in [Procs -> SUBSET Listed]
          /\ attempt \in [Procs -> Attempt \cup {NoAttempt}]
          /\ flushing \subseteq Procs
          /\ crashes \in 0..MaxCrashes

Init == /\ queue = [m \in Messages |-> NoDelivery]
        /\ onFile \in SUBSET Partners
        /\ wire = {} /\ verified = {} /\ receipts = {}
        /\ todo = [p \in Procs |-> {}]
        /\ attempt = [p \in Procs |-> NoAttempt]
        /\ flushing = {}
        /\ crashes = 0

environment == <<wire, verified, receipts>>

-----------------------------------------------------------------------------
(* One delivery attempt, TryDeliver, on an entry the process has listed.   *)

(* The bulk retry writes the dead letter it listed back as "failed" before *)
(* it tries it.                                                            *)
Revive(p, t) ==
    LET revived == [t.seen EXCEPT !.state = "failed"] IN
    /\ attempt[p] = NoAttempt /\ t \in todo[p]
    /\ t.seen.state = "dead_letter"
    /\ queue' = [queue EXCEPT ![t.msg] = revived]
    /\ todo' = [todo EXCEPT ![p] = (@ \ {t}) \cup {[t EXCEPT !.seen = revived]}]
    /\ UNCHANGED <<onFile, environment, attempt, flushing, crashes>>

(* A delivered message is left alone. *)
TrySkips(p, t) ==
    /\ attempt[p] = NoAttempt /\ t \in todo[p]
    /\ t.seen.state # "dead_letter"
    /\ InState(t.msg, "delivered")
    /\ todo' = [todo EXCEPT ![p] = @ \ {t}]
    /\ UNCHANGED <<queue, onFile, environment, attempt, flushing, crashes>>

TryStarts(p, t, outcome) ==
    /\ attempt[p] = NoAttempt /\ t \in todo[p]
    /\ t.seen.state # "dead_letter"
    /\ ~InState(t.msg, "delivered")
    /\ todo' = [todo EXCEPT ![p] = @ \ {t}]
    /\ attempt' = [attempt EXCEPT ![p] =
                     [msg |-> t.msg, rec |-> queue[t.msg], outcome |-> outcome]]
    /\ UNCHANGED <<queue, onFile, verified, receipts, flushing, crashes>>

(* The transport takes the file to the address on file. *)
TryHandsOver(p, t) ==
    /\ To[t.msg] \in onFile
    /\ TryStarts(p, t, "handed_over")
    /\ wire' = wire \cup {t.msg}

(* No connection details, no usable channel, or the transport reports an   *)
(* error: a push that timed out may have reached the partner all the same. *)
TryFails(p, t) ==
    /\ TryStarts(p, t, "failed")
    /\ \/ To[t.msg] \notin onFile /\ UNCHANGED wire
       \/ To[t.msg] \in onFile \cap Flaky /\ wire' \in {wire, wire \cup {t.msg}}

(* recordAttempt saves the record the process holds over whatever is there. *)
SaveAttempt(p) ==
    /\ attempt[p] # NoAttempt
    /\ queue' = [queue EXCEPT ![attempt[p].msg] =
                   RecordAttempt(attempt[p].rec, attempt[p].msg, attempt[p].outcome)]
    /\ attempt' = [attempt EXCEPT ![p] = NoAttempt]
    /\ UNCHANGED <<onFile, environment, todo, flushing, crashes>>

-----------------------------------------------------------------------------
(* Operations. *)

(* signAndSend: archive, file a queued record, try at once. *)
Enqueue(p, m) ==
    /\ ~HasRecord(m)
    /\ queue' = [queue EXCEPT ![m] = Queued]
    /\ todo' = [todo EXCEPT ![p] = {[msg |-> m, seen |-> Queued]}]

Send(p, m) == /\ Idle(p)
              /\ Enqueue(p, m)
              /\ UNCHANGED <<onFile, environment, attempt, flushing, crashes>>

(* ProcessQueue, on every heartbeat: whatever is failed and due. *)
Due == {t \in List({"failed"}) : t.seen.nextRetry = "due"}

ProcessQueue(p) ==
    /\ Idle(p)
    /\ Due # {}
    /\ todo' = [todo EXCEPT ![p] = Due]
    /\ UNCHANGED <<queue, onFile, environment, attempt, flushing, crashes>>

(* RetryDeliveryNow: a dead letter is revived on file, then tried. *)
RetryDeliveryNow(p, m) ==
    LET d == queue[m]
        tried == IF d.state = "dead_letter" THEN [d EXCEPT !.state = "failed"] ELSE d
    IN /\ Idle(p)
       /\ HasRecord(m) /\ d.state # "delivered"
       /\ queue' = [queue EXCEPT ![m] = tried]
       /\ todo' = [todo EXCEPT ![p] = {[msg |-> m, seen |-> tried]}]
       /\ UNCHANGED <<onFile, environment, attempt, flushing, crashes>>

(* ResendDelivery: whatever the record says, it says "failed" first.  The  *)
(* retry time on file stays what it was.                                   *)
ResendDelivery(p, m) ==
    LET d == [queue[m] EXCEPT !.state = "failed"] IN
    /\ Idle(p)
    /\ HasRecord(m)
    /\ queue' = [queue EXCEPT ![m] = d]
    /\ todo' = [todo EXCEPT ![p] = {[msg |-> m, seen |-> d]}]
    /\ UNCHANGED <<onFile, environment, attempt, flushing, crashes>>

(* RetryAllFailed: failed records and dead letters, as listed. *)
RetryAllFailed(p) ==
    /\ Idle(p)
    /\ List({"failed", "dead_letter"}) # {}
    /\ todo' = [todo EXCEPT ![p] = List({"failed", "dead_letter"})]
    /\ UNCHANGED <<queue, onFile, environment, attempt, flushing, crashes>>

(* Approve of a proposal that puts c's channel on file: the route first,   *)
(* then the acknowledgement is sent, then notes of released messages, and  *)
(* at the end every failed delivery is tried, schedule aside.              *)
ApproveRoute(p, c, ack) ==
    /\ Idle(p)
    /\ To[ack] = c
    /\ Enqueue(p, ack)
    /\ onFile' = onFile \cup {c}
    /\ flushing' = flushing \cup {p}
    /\ UNCHANGED <<environment, attempt, crashes>>

ReleaseNote(p, m) ==
    /\ p \in flushing /\ Quiet(p)
    /\ Enqueue(p, m)
    /\ UNCHANGED <<onFile, environment, attempt, flushing, crashes>>

FlushFailed(p) ==
    /\ p \in flushing /\ Quiet(p)
    /\ todo' = [todo EXCEPT ![p] = List({"failed"})]
    /\ flushing' = flushing \ {p}
    /\ UNCHANGED <<queue, onFile, environment, attempt, crashes>>

(* handleReceipt: the partner's receipt about m. *)
HandleReceipt(p, m) ==
    /\ Idle(p)
    /\ m \in receipts /\ HasRecord(m)
    /\ queue' = [queue EXCEPT ![m] = [@ EXCEPT !.state = "delivered",
                                               !.receipted = TRUE, !.nextRetry = ""]]
    /\ receipts' = receipts \ {m}
    /\ UNCHANGED <<onFile, wire, verified, todo, attempt, flushing, crashes>>

-----------------------------------------------------------------------------
(* The clock, the partner's node, the network and crashes. *)

RetryTimeComes(m) ==
    /\ HasRecord(m) /\ queue[m].nextRetry = "later"
    /\ queue' = [queue EXCEPT ![m] = [@ EXCEPT !.nextRetry = "due"]]
    /\ UNCHANGED <<onFile, environment, todo, attempt, flushing, crashes>>

(* The partner's Ingest: a new message is archived, verified and, unless   *)
(* it is itself a receipt, receipted; a known number is ignored.           *)
PartnerVerifies(m) ==
    /\ m \in wire \ verified
    /\ wire' = wire \ {m}
    /\ verified' = verified \cup {m}
    /\ receipts' = IF m \in Receipts THEN receipts ELSE receipts \cup {m}
    /\ UNCHANGED <<queue, onFile, todo, attempt, flushing, crashes>>

PartnerIgnoresDuplicate(m) ==
    /\ m \in wire \cap verified
    /\ wire' = wire \ {m}
    /\ UNCHANGED <<queue, onFile, verified, receipts, todo, attempt, flushing, crashes>>

(* A file or a receipt of a flaky partner never arrives. *)
FileLost(m) ==
    /\ m \in wire /\ To[m] \in Flaky
    /\ wire' = wire \ {m}
    /\ UNCHANGED <<queue, onFile, verified, receipts, todo, attempt, flushing, crashes>>

ReceiptLost(m) ==
    /\ m \in receipts /\ To[m] \in Flaky
    /\ receipts' = receipts \ {m}
    /\ UNCHANGED <<queue, onFile, wire, verified, todo, attempt, flushing, crashes>>

(* A process dies in the middle of an operation: what it held in memory,   *)
(* and what it still meant to do, is gone.                                 *)
Crash(p) ==
    /\ ~Idle(p) /\ crashes < MaxCrashes
    /\ todo' = [todo EXCEPT ![p] = {}]
    /\ attempt' = [attempt EXCEPT ![p] = NoAttempt]
    /\ flushing' = flushing \ {p}
    /\ crashes' = crashes + 1
    /\ UNCHANGED <<queue, onFile, environment>>

-----------------------------------------------------------------------------
TryNext(p) == \E t \in todo[p] :
    Revive(p, t) \/ TrySkips(p, t) \/ TryHandsOver(p, t) \/ TryFails(p, t)

Operator(p) == \E m \in Messages :
    RetryDeliveryNow(p, m) \/ ResendDelivery(p, m) \/ RetryAllFailed(p)

Engine(p) == \/ \E m \in Messages : Send(p, m) \/ ReleaseNote(p, m) \/ HandleReceipt(p, m)
             \/ \E c \in Partners, m \in Messages : ApproveRoute(p, c, m)
             \/ ProcessQueue(p) \/ FlushFailed(p) \/ SaveAttempt(p)

World == \E m \in Messages :
    \/ RetryTimeComes(m) \/ PartnerVerifies(m) \/ PartnerIgnoresDuplicate(m)
    \/ FileLost(m) \/ ReceiptLost(m)

Next == \/ \E p \in Procs : TryNext(p) \/ Operator(p) \/ Engine(p) \/ Crash(p)
        \/ World

(* The heartbeat ticks every second and takes a mutex that starves nobody; *)
(* an operation once begun runs on; the clock moves, and files and         *)
(* receipts that are not lost arrive.  Operators owe nobody anything.      *)
Fairness ==
    /\ \A p \in Procs : /\ SF_vars(ProcessQueue(p))
                        /\ WF_vars(TryNext(p))
                        /\ WF_vars(SaveAttempt(p))
                        /\ WF_vars(FlushFailed(p))
    /\ \A m \in Messages : /\ WF_vars(RetryTimeComes(m))
                           /\ WF_vars(PartnerVerifies(m))
                           /\ \A p \in Procs : SF_vars(HandleReceipt(p, m))

Spec == Init /\ [][Next]_vars
FairSpec == Spec /\ Fairness

-----------------------------------------------------------------------------
(* Safety. *)

(* "Delivered" is only ever claimed of a message the partner's node        *)
(* verified, never because a file left this machine (delivery.go, the      *)
(* Delivery states); a receipt, which nobody receipts, is the exception.   *)
DeliveredIsVerified ==
    \A m \in Messages \ Receipts : InState(m, "delivered") => m \in verified

(* As long as no process has died, a message that still has to travel is   *)
(* being worked on or has a retry on its schedule: no path through Send,   *)
(* Approve, the retries and the buttons drops it between two records.      *)
Stalled(m) == /\ \/ InState(m, "queued")
                 \/ InState(m, "failed") /\ queue[m].nextRetry = ""
              /\ ~InHand(m)

NothingStalls == crashes = 0 => \A m \in Messages : ~Stalled(m)

(* A confirmation sticks: the receipt number a record holds is never lost, *)
(* and "delivered" gives way to nothing but the "failed" an operator's     *)
(* resend writes, with the attempt to follow in that operator's hands.     *)
ConfirmationSticks ==
    [][\A m \in Messages : HasRecord(m) =>
         /\ HasRecord(m)'
         /\ queue[m].receipted => queue'[m].receipted
         /\ InState(m, "delivered") =>
              \/ queue'[m].state = "delivered"
              \/ queue'[m].state = "failed" /\ InHand(m)']_vars

(* The node gives up on a message only when an attempt, in that very step, *)
(* failed once more than there are waits; it never leaves a retry time on  *)
(* a record it will not retry.                                             *)
GivesUpOnlyAfterRetries ==
    [][\A m \in Messages : HasRecord(m)' =>
         /\ queue'[m].nextRetry # "" => queue'[m].state = "failed"
         /\ (queue'[m].state = "dead_letter" /\ ~InState(m, "dead_letter")) =>
              /\ queue'[m].failures = RetryWaits + 1
              /\ \E p \in Procs : attempt[p] # NoAttempt /\ attempt[p].msg = m]_vars

(* The queue keeps the promise of DeliveryPromise. *)
ClaimOf(m) == CASE InState(m, "none") -> "none"
                [] InState(m, "delivered") -> "delivered"
                [] OTHER -> "open"

Promise == INSTANCE DeliveryPromise WITH claim <- [m \in Messages |-> ClaimOf(m)]

ImplementsPromise == Promise!Spec

-----------------------------------------------------------------------------
(* Liveness, under FairSpec. *)

(* A failed delivery whose retry is scheduled does not stay failed for     *)
(* ever: it is handed over, confirmed, or given up on, crashes or not.     *)
ScheduledSettles ==
    \A m \in Messages :
        Scheduled(m) ~> (\E s \in {"handed_over", "delivered", "dead_letter"} : InState(m, s))

(* A failed delivery on the schedule reaches a partner whose channel is on *)
(* file and does not fail, and comes back confirmed.                       *)
ReliableRouteDelivers ==
    \A m \in Messages :
        (Scheduled(m) /\ To[m] \in onFile \ Flaky)
          ~> (m \in verified /\ (m \in Receipts \/ queue[m].receipted))

-----------------------------------------------------------------------------
(* Statements of the repository that the code does not keep. *)

(* engine.go on sendNote: "a note to a partner whose route isn't approved  *)
(* yet simply waits in the queue and goes out the moment the route exists" *)
RouteReleasesTheQueue ==
    \A m \in Messages :
        (HasRecord(m) /\ To[m] \in onFile \ Flaky) ~> (m \in wire \cup verified)
=============================================================================
