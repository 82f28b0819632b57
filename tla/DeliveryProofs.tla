---------------------------- MODULE DeliveryProofs ----------------------------
(***************************************************************************)
(* Proofs about Delivery, for any messages, partners, processes, number of *)
(* waits and number of crashes.                                            *)
(***************************************************************************)
EXTENDS Delivery, TLAPS

(* A recorded attempt is a delivery record, and never one that stalls: it  *)
(* is handed over, delivered, given up on, or failed with a retry ahead.   *)
LEMMA RecordAttemptType ==
    ASSUME NEW d \in Delivery, NEW m, NEW outcome \in {"handed_over", "failed"}
    PROVE  LET r == RecordAttempt(d, m, outcome) IN
           /\ r \in Delivery
           /\ r.state # "queued"
           /\ r.state = "failed" <=> r.nextRetry # ""
           /\ r.state = "delivered" => m \in Receipts
           /\ r.state = "dead_letter" => r.failures = RetryWaits + 1
           /\ r.receipted = d.receipted
<1>1. CASE outcome = "handed_over"
  BY <1>1 DEF RecordAttempt, RecordHandedOver, Delivery, States, Schedules
<1>2. CASE outcome = "failed"
  <2>1. /\ Failures(d) \in 0..(RetryWaits + 1)
        /\ Failures(d) > RetryWaits => Failures(d) = RetryWaits + 1
    BY RetryAssumption DEF Failures, Delivery
  <2>2. RecordAttempt(d, m, outcome) = RecordFailed(d)
    BY <1>2 DEF RecordAttempt
  <2>3. CASE Failures(d) > RetryWaits
    BY <2>1, <2>2, <2>3 DEF RecordFailed, Delivery, States, Schedules
  <2>4. CASE ~(Failures(d) > RetryWaits)
    BY <2>1, <2>2, <2>4 DEF RecordFailed, Delivery, States, Schedules
  <2> QED BY <2>3, <2>4
<1> QED BY <1>1, <1>2

(* A record is told from "no record" by its state. *)
LEMMA NoRecordState ==
    /\ NoDelivery.state = "none"
    /\ \A d \in Delivery : d # NoDelivery /\ d.state # "none"
<1>1. NoDelivery.state = "none"
  BY DEF NoDelivery
<1>2. \A d \in Delivery : d.state # "none"
  BY DEF Delivery, States
<1> QED BY <1>1, <1>2

(* What a process lists are records that are on file. *)
LEMMA ListType ==
    ASSUME TypeOK, NEW S, "none" \notin S
    PROVE  \A t \in List(S) : /\ t \in Listed
                               /\ t.seen = queue[t.msg] /\ t.seen.state \in S
                               /\ HasRecord(t.msg)
<1> SUFFICES ASSUME NEW m \in Messages, queue[m].state \in S
             PROVE  /\ [msg |-> m, seen |-> queue[m]] \in Listed
                    /\ HasRecord(m)
  BY DEF List
<1>1. queue[m] # NoDelivery
  BY NoRecordState
<1>2. queue[m] \in Delivery
  BY <1>1 DEF TypeOK
<1> QED BY <1>1, <1>2 DEF Listed, HasRecord

LEMMA QueuedType ==
    /\ Queued \in Delivery
    /\ Queued.state = "queued" /\ Queued.nextRetry = ""
BY RetryAssumption DEF Queued, Delivery, States, Schedules

(* A record whose state or schedule a button, the clock or a receipt       *)
(* changes is still a record.                                              *)
LEMMA RecordFields ==
    ASSUME NEW d \in Delivery
    PROVE  /\ [d EXCEPT !.state = "failed"] \in Delivery
           /\ [d EXCEPT !.nextRetry = "due"] \in Delivery
           /\ [d EXCEPT !.state = "delivered", !.receipted = TRUE, !.nextRetry = ""] \in Delivery
BY DEF Delivery, States, Schedules

-----------------------------------------------------------------------------
(* Type correctness.  TypeOK is not inductive: an attempt loads the record *)
(* of a message some process listed, so a listed message must have one.    *)
ListedOnFile == \A p \in Procs : \A t \in todo[p] : HasRecord(t.msg)

TypeInv == TypeOK /\ ListedOnFile

(* One record changes and every other stays as it is. *)
LEMMA OneRecord ==
    ASSUME TypeOK, NEW m \in Messages, NEW d \in Delivery,
           queue' = [queue EXCEPT ![m] = d]
    PROVE  /\ queue' \in [Messages -> Delivery \cup {NoDelivery}]
           /\ queue'[m] = d
           /\ \A n \in Messages \ {m} : queue'[n] = queue[n]
           /\ \A n \in Messages : HasRecord(n) \/ n = m <=> HasRecord(n)'
<1>1. /\ queue' \in [Messages -> Delivery \cup {NoDelivery}]
      /\ queue'[m] = d
      /\ \A n \in Messages \ {m} : queue'[n] = queue[n]
  BY DEF TypeOK
<1>2. d # NoDelivery
  BY NoRecordState
<1> QED BY <1>1, <1>2 DEF HasRecord

LEMMA EnqueueType ==
    ASSUME TypeInv, NEW p \in Procs, NEW m \in Messages, Enqueue(p, m)
    PROVE  /\ queue' \in [Messages -> Delivery \cup {NoDelivery}]
           /\ todo' \in [Procs -> SUBSET Listed]
           /\ ListedOnFile'
<1>1. Queued \in Delivery /\ queue' = [queue EXCEPT ![m] = Queued]
  BY QueuedType DEF Enqueue
<1>2. /\ queue' \in [Messages -> Delivery \cup {NoDelivery}]
      /\ \A n \in Messages : HasRecord(n) \/ n = m => HasRecord(n)'
  BY <1>1, OneRecord DEF TypeInv
<1>3. [msg |-> m, seen |-> Queued] \in Listed
  BY <1>1 DEF Listed
<1>4. todo' \in [Procs -> SUBSET Listed]
  BY <1>3 DEF Enqueue, TypeInv, TypeOK
<1>5. ASSUME NEW q \in Procs, NEW t \in todo'[q]
      PROVE  HasRecord(t.msg)'
  <2>1. t.msg \in Messages
    BY <1>4 DEF Listed
  <2>2. t \in todo[q] \/ t.msg = m
    BY DEF Enqueue, TypeInv, TypeOK
  <2> QED BY <1>2, <2>1, <2>2 DEF TypeInv, ListedOnFile
<1> QED BY <1>2, <1>4, <1>5 DEF ListedOnFile

(* A process lists entries anew; no record disappears meanwhile. *)
LEMMA RelistType ==
    ASSUME TypeInv, NEW p \in Procs, NEW L,
           todo' = [todo EXCEPT ![p] = L],
           \A t \in L : t \in Listed /\ HasRecord(t.msg)',
           \A n \in Messages : HasRecord(n) => HasRecord(n)'
    PROVE  todo' \in [Procs -> SUBSET Listed] /\ ListedOnFile'
<1>1. todo' \in [Procs -> SUBSET Listed]
  BY DEF TypeInv, TypeOK
<1>2. ASSUME NEW q \in Procs, NEW t \in todo'[q]
      PROVE  HasRecord(t.msg)'
  <2>1. CASE t \in L
    BY <2>1
  <2>2. CASE t \in todo[q]
    <3>1. HasRecord(t.msg) /\ t.msg \in Messages
      BY <2>2 DEF TypeInv, TypeOK, ListedOnFile, Listed
    <3> QED BY <3>1
  <2> QED BY <2>1, <2>2 DEF TypeInv, TypeOK
<1> QED BY <1>1, <1>2 DEF ListedOnFile

LEMMA InitType == Init => TypeInv
BY CrashAssumption DEF Init, TypeInv, TypeOK, ListedOnFile

(* Every operation and step keeps the files and the memory well formed. *)
LEMMA TypeStep == TypeInv /\ [Next]_vars => TypeInv'
<1> SUFFICES ASSUME TypeInv, [Next]_vars
             PROVE  TypeInv'
  OBVIOUS
<1> USE DEF TypeInv
<1>t. TypeOK
  OBVIOUS
<1>0. CASE UNCHANGED vars
  BY <1>0 DEF vars, TypeOK, ListedOnFile, HasRecord
<1>1. ASSUME NEW p \in Procs, NEW t \in todo[p], Revive(p, t)
      PROVE  TypeInv'
  <2> DEFINE r == [t.seen EXCEPT !.state = "failed"]
             L == (todo[p] \ {t}) \cup {[t EXCEPT !.seen = r]}
  <2>1. t \in Listed /\ t.msg \in Messages /\ r \in Delivery
    <3>1. t \in Listed /\ t.msg \in Messages /\ t.seen \in Delivery
      BY DEF TypeOK, Listed
    <3> QED BY <3>1, RecordFields
  <2>2. queue' = [queue EXCEPT ![t.msg] = r] /\ todo' = [todo EXCEPT ![p] = L]
    BY <1>1 DEF Revive, TypeOK
  <2>3. /\ queue' \in [Messages -> Delivery \cup {NoDelivery}]
        /\ \A n \in Messages : HasRecord(n) \/ n = t.msg => HasRecord(n)'
    BY <2>1, <2>2, OneRecord
  <2>4. [t EXCEPT !.seen = r] \in Listed /\ [t EXCEPT !.seen = r].msg = t.msg
    BY <2>1 DEF Listed
  <2>5. \A u \in L : u \in Listed /\ HasRecord(u.msg)'
    BY <2>1, <2>3, <2>4 DEF TypeOK, ListedOnFile, Listed
  <2>6. todo' \in [Procs -> SUBSET Listed] /\ ListedOnFile'
    BY <2>2, <2>3, <2>5, RelistType
  <2> QED BY <1>1, <2>3, <2>6 DEF Revive, environment, TypeOK
<1>2. ASSUME NEW p \in Procs, NEW t \in todo[p], TrySkips(p, t)
      PROVE  TypeInv'
  BY <1>2 DEF TrySkips, environment, TypeOK, ListedOnFile, HasRecord
<1>3. ASSUME NEW p \in Procs, NEW t \in todo[p], NEW outcome \in {"handed_over", "failed"},
             TryStarts(p, t, outcome), wire' \subseteq Messages
      PROVE  TypeInv'
  <2>1. t.msg \in Messages /\ queue[t.msg] \in Delivery
    BY DEF TypeOK, ListedOnFile, HasRecord, Listed
  <2>2. [msg |-> t.msg, rec |-> queue[t.msg], outcome |-> outcome] \in Attempt
    BY <2>1 DEF Attempt
  <2>3. attempt' \in [Procs -> Attempt \cup {NoAttempt}]
    BY <1>3, <2>2 DEF TryStarts, TypeOK
  <2>4. todo' \in [Procs -> SUBSET Listed] /\ ListedOnFile'
    BY <1>3 DEF TryStarts, TypeOK, ListedOnFile, HasRecord
  <2> QED BY <1>3, <2>3, <2>4 DEF TryStarts, TypeOK
<1>4. ASSUME NEW p \in Procs, NEW t \in todo[p], TryHandsOver(p, t) \/ TryFails(p, t)
      PROVE  TypeInv'
  <2>1. t.msg \in Messages
    BY DEF TypeOK, Listed
  <2>2. wire' \subseteq Messages
    BY <1>4, <2>1 DEF TryHandsOver, TryFails, TypeOK
  <2> QED BY <1>3, <1>4, <2>2 DEF TryHandsOver, TryFails
<1>5. ASSUME NEW p \in Procs, SaveAttempt(p)
      PROVE  TypeInv'
  <2> DEFINE a == attempt[p]
             r == RecordAttempt(a.rec, a.msg, a.outcome)
  <2>1. a \in Attempt
    BY <1>5 DEF SaveAttempt, TypeOK
  <2>2. a.msg \in Messages /\ r \in Delivery
    BY <2>1, RecordAttemptType DEF Attempt
  <2>3. queue' = [queue EXCEPT ![a.msg] = r]
    BY <1>5 DEF SaveAttempt
  <2> HIDE DEF a, r
  <2>4. /\ queue' \in [Messages -> Delivery \cup {NoDelivery}]
        /\ \A n \in Messages : HasRecord(n) => HasRecord(n)'
    BY <2>2, <2>3, OneRecord
  <2>5. ListedOnFile'
    BY <1>5, <2>4 DEF SaveAttempt, ListedOnFile, TypeOK, Listed
  <2> QED BY <1>5, <2>4, <2>5 DEF SaveAttempt, environment, TypeOK
<1>6. ASSUME NEW p \in Procs, NEW m \in Messages,
             \/ Send(p, m) \/ ReleaseNote(p, m)
             \/ \E c \in Partners : ApproveRoute(p, c, m)
      PROVE  TypeInv'
  <2>1. Enqueue(p, m)
    BY <1>6 DEF Send, ReleaseNote, ApproveRoute
  <2> QED BY <1>6, <2>1, EnqueueType
          DEF Send, ReleaseNote, ApproveRoute, environment, TypeOK
<1>7. ASSUME NEW p \in Procs, NEW m \in Messages,
             RetryDeliveryNow(p, m) \/ ResendDelivery(p, m)
      PROVE  TypeInv'
  <2>1. queue[m] \in Delivery
    BY <1>7 DEF RetryDeliveryNow, ResendDelivery, HasRecord, TypeOK
  <2>2. PICK d \in Delivery : /\ queue' = [queue EXCEPT ![m] = d]
                              /\ todo' = [todo EXCEPT ![p] = {[msg |-> m, seen |-> d]}]
    BY <1>7, <2>1, RecordFields DEF RetryDeliveryNow, ResendDelivery
  <2>3. /\ queue' \in [Messages -> Delivery \cup {NoDelivery}]
        /\ \A n \in Messages : HasRecord(n) \/ n = m => HasRecord(n)'
    BY <2>2, OneRecord
  <2>4. todo' \in [Procs -> SUBSET Listed] /\ ListedOnFile'
    <3> DEFINE L == {[msg |-> m, seen |-> d]}
    <3>1. \A t \in L : t \in Listed /\ HasRecord(t.msg)'
      BY <2>3 DEF Listed
    <3>2. todo' = [todo EXCEPT ![p] = L] /\ \A n \in Messages : HasRecord(n) => HasRecord(n)'
      BY <2>2, <2>3
    <3> HIDE DEF L
    <3> QED BY <3>1, <3>2, RelistType
  <2> QED BY <1>7, <2>3, <2>4 DEF RetryDeliveryNow, ResendDelivery, environment, TypeOK
<1>8. ASSUME NEW p \in Procs, ProcessQueue(p) \/ RetryAllFailed(p) \/ FlushFailed(p)
      PROVE  TypeInv'
  <2>1. PICK L : /\ todo' = [todo EXCEPT ![p] = L]
                 /\ \E S : "none" \notin S /\ L \subseteq List(S)
    <3>1. Due \subseteq List({"failed"})
      BY DEF Due
    <3> QED BY <1>8, <3>1 DEF ProcessQueue, RetryAllFailed, FlushFailed
  <2>2. \A n \in Messages : HasRecord(n) => HasRecord(n)'
    BY <1>8 DEF ProcessQueue, RetryAllFailed, FlushFailed, HasRecord
  <2>3. \A t \in L : t \in Listed /\ HasRecord(t.msg)
    BY <2>1, ListType
  <2>4. \A t \in L : t \in Listed /\ HasRecord(t.msg)'
    BY <2>2, <2>3 DEF Listed
  <2>5. todo' \in [Procs -> SUBSET Listed] /\ ListedOnFile'
    BY <2>1, <2>2, <2>4, RelistType
  <2> QED BY <1>8, <2>5 DEF ProcessQueue, RetryAllFailed, FlushFailed, environment, TypeOK
<1>9. ASSUME NEW m \in Messages, RetryTimeComes(m) \/ \E p \in Procs : HandleReceipt(p, m)
      PROVE  TypeInv'
  <2>1. queue[m] \in Delivery
    BY <1>9 DEF RetryTimeComes, HandleReceipt, HasRecord, TypeOK
  <2>2. \E d \in Delivery : queue' = [queue EXCEPT ![m] = d]
    BY <1>9, <2>1, RecordFields DEF RetryTimeComes, HandleReceipt, TypeOK
  <2>3. /\ queue' \in [Messages -> Delivery \cup {NoDelivery}]
        /\ \A n \in Messages : HasRecord(n) => HasRecord(n)'
    BY <2>2, OneRecord
  <2>4. ListedOnFile'
    BY <1>9, <2>3 DEF RetryTimeComes, HandleReceipt, ListedOnFile, TypeOK, Listed
  <2> QED BY <1>9, <2>3, <2>4 DEF RetryTimeComes, HandleReceipt, environment, TypeOK
<1>10. ASSUME NEW m \in Messages,
              \/ PartnerVerifies(m) \/ PartnerIgnoresDuplicate(m)
              \/ FileLost(m) \/ ReceiptLost(m)
       PROVE  TypeInv'
  BY <1>10 DEF PartnerVerifies, PartnerIgnoresDuplicate, FileLost, ReceiptLost,
               TypeOK, ListedOnFile, HasRecord
<1>11. ASSUME NEW p \in Procs, Crash(p)
       PROVE  TypeInv'
  BY <1>11, CrashAssumption DEF Crash, environment, TypeOK, ListedOnFile, HasRecord
<1> QED
  BY <1>0, <1>1, <1>2, <1>4, <1>5, <1>6, <1>7, <1>8, <1>9, <1>10, <1>11
     DEF Next, TryNext, Operator, Engine, World

(* The queue's files and every process's memory are well formed, whatever  *)
(* the interleaving of processes and crashes (delivery.go).                *)
THEOREM TypeCorrect == Spec => []TypeOK
<1>1. Init => TypeInv
  BY InitType
<1>2. TypeInv => TypeOK
  BY DEF TypeInv
<1> QED BY <1>1, <1>2, TypeStep, PTL DEF Spec

-----------------------------------------------------------------------------
(* What a step may do to the record of one message: file it, save an       *)
(* attempt, write it back as "failed" for a process that then tries it,    *)
(* confirm it, or let its retry time come.                                 *)
Filed(m) == ~HasRecord(m) /\ queue'[m] = Queued /\ InHand(m)'

Saved(m) == \E p \in Procs :
               /\ attempt[p] \in Attempt /\ attempt[p].msg = m
               /\ queue'[m] = RecordAttempt(attempt[p].rec, m, attempt[p].outcome)

Reopened(m) == /\ HasRecord(m)
               /\ queue'[m] \in Delivery /\ queue'[m].state = "failed"
               /\ InHand(m)'

Confirmed(m) == /\ HasRecord(m) /\ m \in receipts
                /\ UNCHANGED verified
                /\ queue'[m] = [queue[m] EXCEPT !.state = "delivered", !.receipted = TRUE,
                                                !.nextRetry = ""]

MadeDue(m) == /\ HasRecord(m) /\ queue[m].nextRetry = "later"
              /\ queue'[m] = [queue[m] EXCEPT !.nextRetry = "due"]

RecordChange(m) == \/ queue'[m] = queue[m]
                   \/ Filed(m) \/ Saved(m) \/ Reopened(m) \/ Confirmed(m) \/ MadeDue(m)

LEMMA EveryChange ==
    ASSUME TypeInv, [Next]_vars, NEW m \in Messages
    PROVE  RecordChange(m)
<1> USE DEF TypeInv
<1>0. CASE UNCHANGED queue
  BY <1>0 DEF RecordChange
<1>1. ASSUME NEW p \in Procs, NEW t \in todo[p], Revive(p, t)
      PROVE  RecordChange(m)
  <2> DEFINE r == [t.seen EXCEPT !.state = "failed"]
             u == [t EXCEPT !.seen = r]
  <2>1. t \in Listed /\ t.msg \in Messages /\ t.seen \in Delivery
    BY DEF TypeOK, Listed
  <2>2. r \in Delivery /\ r.state = "failed"
    BY <2>1, RecordFields DEF Delivery
  <2>3. u.msg = t.msg /\ u \in todo'[p]
    BY <1>1, <2>1 DEF Revive, TypeOK, Listed
  <2>4. queue' = [queue EXCEPT ![t.msg] = r]
    BY <1>1 DEF Revive
  <2> HIDE DEF r, u
  <2>5. HasRecord(t.msg) /\ InHand(t.msg)'
    BY <2>3 DEF ListedOnFile, InHand
  <2>6. CASE m = t.msg
    BY <2>1, <2>2, <2>4, <2>5, <2>6 DEF RecordChange, Reopened, TypeOK
  <2>7. CASE m # t.msg
    BY <2>1, <2>4, <2>7 DEF RecordChange, TypeOK
  <2> QED BY <2>6, <2>7
<1>2. ASSUME NEW p \in Procs, SaveAttempt(p)
      PROVE  RecordChange(m)
  <2>1. attempt[p] \in Attempt /\ attempt[p].msg \in Messages
    BY <1>2 DEF SaveAttempt, TypeOK, Attempt
  <2>2. CASE m = attempt[p].msg
    BY <1>2, <2>1, <2>2 DEF SaveAttempt, RecordChange, Saved, TypeOK
  <2>3. CASE m # attempt[p].msg
    BY <1>2, <2>1, <2>3 DEF SaveAttempt, RecordChange, TypeOK
  <2> QED BY <2>2, <2>3
<1>3. ASSUME NEW p \in Procs, NEW n \in Messages, Enqueue(p, n)
      PROVE  RecordChange(m)
  <2>1. [msg |-> n, seen |-> Queued] \in todo'[p]
    BY <1>3 DEF Enqueue, TypeOK
  <2>2. InHand(n)'
    BY <2>1 DEF InHand
  <2> QED BY <1>3, <2>2 DEF Enqueue, RecordChange, Filed, TypeOK
<1>4. ASSUME NEW p \in Procs, NEW n \in Messages,
             RetryDeliveryNow(p, n) \/ ResendDelivery(p, n)
      PROVE  RecordChange(m)
  <2>1. queue[n] \in Delivery /\ HasRecord(n)
    BY <1>4 DEF RetryDeliveryNow, ResendDelivery, HasRecord, TypeOK
  <2>2. PICK d \in Delivery : /\ queue' = [queue EXCEPT ![n] = d]
                              /\ todo' = [todo EXCEPT ![p] = {[msg |-> n, seen |-> d]}]
                              /\ d = queue[n] \/ d.state = "failed"
    <3>1. [queue[n] EXCEPT !.state = "failed"].state = "failed"
      BY <2>1 DEF Delivery
    <3> QED BY <1>4, <2>1, <3>1, RecordFields DEF RetryDeliveryNow, ResendDelivery
  <2>3. [msg |-> n, seen |-> d] \in todo'[p]
    BY <2>2 DEF TypeOK
  <2>4. InHand(n)'
    BY <2>3 DEF InHand
  <2> QED BY <2>1, <2>2, <2>4 DEF RecordChange, Reopened, TypeOK
<1>5. ASSUME NEW p \in Procs, NEW n \in Messages, HandleReceipt(p, n)
      PROVE  RecordChange(m)
  BY <1>5 DEF HandleReceipt, RecordChange, Confirmed, TypeOK
<1>6. ASSUME NEW n \in Messages, RetryTimeComes(n)
      PROVE  RecordChange(m)
  BY <1>6 DEF RetryTimeComes, RecordChange, MadeDue, TypeOK
<1>7. ASSUME NEW p \in Procs, NEW n \in Messages,
             \/ Send(p, n) \/ ReleaseNote(p, n)
             \/ \E c \in Partners : ApproveRoute(p, c, n)
      PROVE  RecordChange(m)
  BY <1>3, <1>7 DEF Send, ReleaseNote, ApproveRoute
<1>8. ASSUME NEW p \in Procs, NEW t \in todo[p],
             TrySkips(p, t) \/ TryHandsOver(p, t) \/ TryFails(p, t)
      PROVE  UNCHANGED queue
  BY <1>8 DEF TrySkips, TryHandsOver, TryFails, TryStarts
<1>9. ASSUME NEW p \in Procs,
             ProcessQueue(p) \/ RetryAllFailed(p) \/ FlushFailed(p) \/ Crash(p)
      PROVE  UNCHANGED queue
  BY <1>9 DEF ProcessQueue, RetryAllFailed, FlushFailed, Crash
<1>10. ASSUME NEW n \in Messages,
              \/ PartnerVerifies(n) \/ PartnerIgnoresDuplicate(n)
              \/ FileLost(n) \/ ReceiptLost(n)
       PROVE  UNCHANGED queue
  BY <1>10 DEF PartnerVerifies, PartnerIgnoresDuplicate, FileLost, ReceiptLost
<1> QED
  BY <1>0, <1>1, <1>2, <1>4, <1>5, <1>6, <1>7, <1>8, <1>9, <1>10
     DEF Next, TryNext, Operator, Engine, World, vars

LEMMA SavedRecord ==
    ASSUME NEW m, Saved(m)
    PROVE  /\ queue'[m] \in Delivery
           /\ queue'[m].state # "queued"
           /\ queue'[m].state = "failed" <=> queue'[m].nextRetry # ""
           /\ queue'[m].state = "delivered" => m \in Receipts
           /\ queue'[m].state = "dead_letter" => queue'[m].failures = RetryWaits + 1
<1>1. PICK p \in Procs :
         /\ attempt[p] \in Attempt
         /\ queue'[m] = RecordAttempt(attempt[p].rec, m, attempt[p].outcome)
  BY DEF Saved
<1>2. attempt[p].rec \in Delivery /\ attempt[p].outcome \in {"handed_over", "failed"}
  BY <1>1 DEF Attempt
<1> DEFINE r == RecordAttempt(attempt[p].rec, m, attempt[p].outcome)
<1>3. /\ r \in Delivery
      /\ r.state # "queued"
      /\ r.state = "failed" <=> r.nextRetry # ""
      /\ r.state = "delivered" => m \in Receipts
      /\ r.state = "dead_letter" => r.failures = RetryWaits + 1
  BY <1>2, RecordAttemptType
<1> HIDE DEF r
<1> QED BY <1>1, <1>3 DEF r

-----------------------------------------------------------------------------
(* "Delivered" is honest.  A receipt travels only for a message the        *)
(* partner verified, and a verified message stays verified.                *)
HonestInv == TypeInv /\ DeliveredIsVerified /\ receipts \subseteq verified

LEMMA VerifiedGrows ==
    ASSUME TypeInv, receipts \subseteq verified, [Next]_vars
    PROVE  verified \subseteq verified' /\ (receipts \subseteq verified)'
BY DEF Next, TryNext, Operator, Engine, World, vars, environment, Revive, TrySkips,
       TryHandsOver, TryFails, TryStarts, SaveAttempt, Send, ProcessQueue,
       RetryDeliveryNow, ResendDelivery, RetryAllFailed, ApproveRoute, ReleaseNote,
       FlushFailed, HandleReceipt, RetryTimeComes, PartnerVerifies,
       PartnerIgnoresDuplicate, FileLost, ReceiptLost, Crash

LEMMA HonestStep == HonestInv /\ [Next]_vars => HonestInv'
<1> SUFFICES ASSUME HonestInv, [Next]_vars
             PROVE  HonestInv'
  OBVIOUS
<1>1. TypeInv /\ TypeInv'
  BY TypeStep DEF HonestInv
<1>2. verified \subseteq verified' /\ (receipts \subseteq verified)'
  BY VerifiedGrows DEF HonestInv
<1>3. ASSUME NEW m \in Messages \ Receipts, queue'[m].state = "delivered"
      PROVE  m \in verified'
  <2>1. RecordChange(m)
    BY <1>1, EveryChange
  <2>2. CASE queue'[m] = queue[m]
    BY <1>2, <1>3, <2>2 DEF HonestInv, DeliveredIsVerified, InState
  <2>3. CASE Filed(m)
    BY <1>3, <2>3, QueuedType DEF Filed
  <2>4. CASE Saved(m)
    BY <1>3, <2>4, SavedRecord
  <2>5. CASE Reopened(m)
    BY <1>3, <2>5 DEF Reopened
  <2>6. CASE Confirmed(m)
    BY <1>2, <2>6 DEF Confirmed, HonestInv
  <2>7. CASE MadeDue(m)
    <3>1. queue[m] \in Delivery
      BY <1>1, <2>7 DEF MadeDue, HasRecord, TypeInv, TypeOK
    <3>2. queue[m].state = "delivered"
      BY <1>3, <2>7, <3>1 DEF MadeDue, Delivery
    <3> QED BY <1>2, <3>2 DEF HonestInv, DeliveredIsVerified, InState
  <2> QED BY <2>1, <2>2, <2>3, <2>4, <2>5, <2>6, <2>7 DEF RecordChange
<1> QED BY <1>1, <1>2, <1>3 DEF HonestInv, DeliveredIsVerified, InState

(* "Delivered" is claimed only of messages the partner's node verified,    *)
(* for any number of processes on the home directory, any crashes and any  *)
(* losses (delivery.go, the Delivery states).                              *)
THEOREM DeliveredIsHonest == Spec => []DeliveredIsVerified
<1>1. Init => HonestInv
  BY InitType DEF Init, HonestInv, DeliveredIsVerified, InState, NoDelivery
<1>2. HonestInv => DeliveredIsVerified
  BY DEF HonestInv
<1> QED BY <1>1, <1>2, HonestStep, PTL DEF Spec

-----------------------------------------------------------------------------
(* No record is dropped.  Whoever holds a message in its hands passes it   *)
(* on, saves an attempt, or finds it delivered; relisting happens only     *)
(* when a process has nothing in hand.                                     *)
LEMMA InHandStep ==
    ASSUME TypeInv, [Next]_vars, NEW m \in Messages, InHand(m), crashes' = crashes
    PROVE  InHand(m)' \/ Saved(m) \/ (InState(m, "delivered") /\ UNCHANGED queue)
<1> USE DEF TypeInv
<1>0. CASE UNCHANGED <<todo, attempt>>
  BY <1>0 DEF InHand
<1>1. PICK q \in Procs : \/ \E t \in todo[q] : t.msg = m
                         \/ attempt[q] # NoAttempt /\ attempt[q].msg = m
  BY DEF InHand
<1>2. ASSUME NEW p \in Procs, NEW L, Quiet(p),
             todo' = [todo EXCEPT ![p] = L], UNCHANGED attempt
      PROVE  InHand(m)'
  <2>1. q # p
    BY <1>1, <1>2 DEF Quiet
  <2> QED BY <1>1, <1>2, <2>1 DEF InHand, TypeOK
<1>3. ASSUME NEW p \in Procs, NEW t \in todo[p], Revive(p, t)
      PROVE  InHand(m)'
  <2> DEFINE u == [t EXCEPT !.seen = [t.seen EXCEPT !.state = "failed"]]
  <2>1. t \in Listed
    BY DEF TypeOK
  <2>2. u.msg = t.msg
    BY <2>1 DEF Listed
  <2>3. todo' = [todo EXCEPT ![p] = (todo[p] \ {t}) \cup {u}] /\ UNCHANGED attempt
    BY <1>3 DEF Revive, TypeOK
  <2> HIDE DEF u
  <2>4. CASE q = p /\ t.msg = m
    BY <2>2, <2>3, <2>4 DEF InHand, TypeOK
  <2>5. CASE ~(q = p /\ t.msg = m)
    BY <1>1, <2>3, <2>5 DEF InHand, TypeOK
  <2> QED BY <2>4, <2>5
<1>4. ASSUME NEW p \in Procs, NEW t \in todo[p], TrySkips(p, t)
      PROVE  InHand(m)' \/ (InState(m, "delivered") /\ UNCHANGED queue)
  <2>1. CASE q = p /\ t.msg = m
    BY <1>4, <2>1 DEF TrySkips
  <2>2. CASE ~(q = p /\ t.msg = m)
    BY <1>1, <1>4, <2>2 DEF TrySkips, InHand, TypeOK
  <2> QED BY <2>1, <2>2
<1>5. ASSUME NEW p \in Procs, NEW t \in todo[p], TryHandsOver(p, t) \/ TryFails(p, t)
      PROVE  InHand(m)'
  <2>1. PICK outcome \in {"handed_over", "failed"} : TryStarts(p, t, outcome)
    BY <1>5 DEF TryHandsOver, TryFails
  <2> DEFINE a == [msg |-> t.msg, rec |-> queue[t.msg], outcome |-> outcome]
  <2>2. a # NoAttempt /\ a.msg = t.msg
    <3>1. a.outcome # NoAttempt.outcome
      BY DEF NoAttempt
    <3> QED BY <3>1
  <2>3. attempt[p] = NoAttempt /\ attempt' = [attempt EXCEPT ![p] = a]
        /\ todo' = [todo EXCEPT ![p] = todo[p] \ {t}]
    BY <2>1 DEF TryStarts, TypeOK
  <2> HIDE DEF a
  <2>4. CASE q = p /\ t.msg = m
    BY <2>2, <2>3, <2>4 DEF InHand, TypeOK
  <2>5. CASE ~(q = p /\ t.msg = m)
    BY <1>1, <2>3, <2>5 DEF InHand, TypeOK
  <2> QED BY <2>4, <2>5
<1>6. ASSUME NEW p \in Procs, SaveAttempt(p)
      PROVE  InHand(m)' \/ Saved(m)
  <2>1. attempt[p] \in Attempt /\ attempt[p].msg \in Messages
    BY <1>6 DEF SaveAttempt, TypeOK, Attempt
  <2>2. CASE attempt[p].msg = m
    BY <1>6, <2>1, <2>2 DEF SaveAttempt, Saved, TypeOK
  <2>3. CASE attempt[p].msg # m
    BY <1>1, <1>6, <2>3 DEF SaveAttempt, InHand, TypeOK
  <2> QED BY <2>2, <2>3
<1>7. ASSUME NEW p \in Procs, NEW n \in Messages,
             \/ Send(p, n) \/ ReleaseNote(p, n)
             \/ \E c \in Partners : ApproveRoute(p, c, n)
             \/ RetryDeliveryNow(p, n) \/ ResendDelivery(p, n)
             \/ ProcessQueue(p) \/ RetryAllFailed(p) \/ FlushFailed(p)
      PROVE  InHand(m)'
  <2>1. Quiet(p) /\ UNCHANGED attempt
    BY <1>7 DEF Send, ReleaseNote, ApproveRoute, RetryDeliveryNow, ResendDelivery,
                ProcessQueue, RetryAllFailed, FlushFailed, Idle
  <2>2. \E L : todo' = [todo EXCEPT ![p] = L]
    BY <1>7 DEF Send, ReleaseNote, ApproveRoute, Enqueue, RetryDeliveryNow, ResendDelivery,
                ProcessQueue, RetryAllFailed, FlushFailed
  <2> QED BY <1>2, <2>1, <2>2
<1>8. ASSUME NEW p \in Procs, Crash(p)
      PROVE  FALSE
  BY <1>8, CrashAssumption DEF Crash, TypeOK
<1>9. ASSUME NEW p \in Procs, NEW n \in Messages,
             \/ HandleReceipt(p, n) \/ RetryTimeComes(n) \/ PartnerVerifies(n)
             \/ PartnerIgnoresDuplicate(n) \/ FileLost(n) \/ ReceiptLost(n)
      PROVE  UNCHANGED <<todo, attempt>>
  BY <1>9 DEF HandleReceipt, RetryTimeComes, PartnerVerifies, PartnerIgnoresDuplicate,
              FileLost, ReceiptLost
<1> QED
  BY <1>0, <1>1, <1>3, <1>4, <1>5, <1>6, <1>7, <1>8, <1>9
     DEF Next, TryNext, Operator, Engine, World, vars

LEMMA StallStep == TypeInv /\ NothingStalls /\ [Next]_vars => NothingStalls'
<1> SUFFICES ASSUME TypeInv, NothingStalls, [Next]_vars, crashes' = 0,
                    NEW m \in Messages, Stalled(m)'
             PROVE  FALSE
  BY DEF NothingStalls
<1>1. crashes = 0 /\ crashes' = crashes
  <2>1. CASE \E p \in Procs : Crash(p)
    BY <2>1, CrashAssumption DEF Crash, TypeInv, TypeOK
  <2>2. CASE ~\E p \in Procs : Crash(p)
    BY <2>2
       DEF Next, TryNext, Operator, Engine, World, vars, Revive, TrySkips, TryHandsOver,
           TryFails, TryStarts, SaveAttempt, Send, ProcessQueue, RetryDeliveryNow,
           ResendDelivery, RetryAllFailed, ApproveRoute, ReleaseNote, FlushFailed,
           HandleReceipt, RetryTimeComes, PartnerVerifies, PartnerIgnoresDuplicate,
           FileLost, ReceiptLost
  <2> QED BY <2>1, <2>2
<1>2. ~Stalled(m)
  BY <1>1 DEF NothingStalls
<1>3. RecordChange(m)
  BY EveryChange
<1>4. CASE queue'[m] = queue[m]
  <2>1. InHand(m) /\ ~InState(m, "delivered")
    BY <1>2, <1>4 DEF Stalled, InState
  <2>2. Saved(m)
    BY <1>1, <2>1, InHandStep DEF Stalled
  <2> QED BY <2>2, SavedRecord DEF Stalled, InState
<1>5. CASE Filed(m) \/ Reopened(m)
  BY <1>5 DEF Filed, Reopened, Stalled
<1>6. CASE Saved(m)
  BY <1>6, SavedRecord DEF Stalled, InState
<1>7. CASE Confirmed(m) \/ MadeDue(m)
  <2>1. queue[m] \in Delivery
    BY <1>7 DEF Confirmed, MadeDue, HasRecord, TypeInv, TypeOK
  <2>2. queue'[m].state \in {"delivered", queue[m].state}
        /\ (MadeDue(m) => queue'[m].nextRetry = "due" /\ queue[m].nextRetry = "later")
    BY <1>7, <2>1 DEF Confirmed, MadeDue, Delivery
  <2>3. queue'[m].state = "queued" /\ queue[m].state = "queued" /\ MadeDue(m)
    BY <1>7, <2>1, <2>2 DEF Stalled, InState, Confirmed, Delivery
  <2>4. InHand(m) /\ ~InState(m, "delivered")
    BY <1>2, <2>3 DEF Stalled, InState
  <2>5. Saved(m)
    BY <1>1, <2>4, InHandStep DEF Stalled
  <2> QED BY <2>5, SavedRecord DEF Stalled, InState
<1> QED BY <1>3, <1>4, <1>5, <1>6, <1>7 DEF RecordChange

(* Without crashes no message is dropped between two attempts, for any     *)
(* number of processes on the home directory (delivery.go, engine.go).     *)
THEOREM NothingIsDropped == Spec => []NothingStalls
<1>1. Init => TypeInv /\ NothingStalls
  <2>1. Init => \A m \in Messages : queue[m].state = "none"
    BY NoRecordState DEF Init
  <2> QED BY <2>1, InitType DEF NothingStalls, Stalled, InState
<1> QED BY <1>1, TypeStep, StallStep, PTL DEF Spec

-----------------------------------------------------------------------------
(* Giving up.  A retry time stands only on a failed record.                *)
ScheduleInv ==
    /\ TypeInv
    /\ \A m \in Messages : HasRecord(m) /\ queue[m].nextRetry # "" => InState(m, "failed")

GiveUpStep ==
    \A m \in Messages : HasRecord(m)' =>
         /\ queue'[m].nextRetry # "" => queue'[m].state = "failed"
         /\ (queue'[m].state = "dead_letter" /\ ~InState(m, "dead_letter")) =>
              /\ queue'[m].failures = RetryWaits + 1
              /\ \E p \in Procs : attempt[p] # NoAttempt /\ attempt[p].msg = m

LEMMA ScheduleStep == ScheduleInv /\ [Next]_vars => ScheduleInv' /\ GiveUpStep
<1> SUFFICES ASSUME ScheduleInv, [Next]_vars
             PROVE  ScheduleInv' /\ GiveUpStep
  OBVIOUS
<1>1. TypeInv /\ TypeInv'
  BY TypeStep DEF ScheduleInv
<1>2. ASSUME NEW m \in Messages, HasRecord(m)'
      PROVE  /\ queue'[m].nextRetry # "" => queue'[m].state = "failed"
             /\ (queue'[m].state = "dead_letter" /\ ~InState(m, "dead_letter")) => Saved(m)
  <2>1. RecordChange(m)
    BY <1>1, EveryChange
  <2>2. CASE queue'[m] = queue[m]
    BY <1>2, <2>2 DEF ScheduleInv, HasRecord, InState
  <2>3. CASE Filed(m)
    BY <2>3, QueuedType DEF Filed
  <2>4. CASE Saved(m)
    BY <2>4, SavedRecord
  <2>5. CASE Reopened(m)
    BY <2>5 DEF Reopened
  <2>6. CASE Confirmed(m)
    <3>1. queue[m] \in Delivery
      BY <1>1, <2>6 DEF Confirmed, HasRecord, TypeInv, TypeOK
    <3> QED BY <2>6, <3>1 DEF Confirmed, Delivery
  <2>7. CASE MadeDue(m)
    <3>1. queue[m] \in Delivery /\ queue[m].state = "failed"
      BY <1>1, <2>7 DEF MadeDue, HasRecord, TypeInv, TypeOK, ScheduleInv, InState
    <3> QED BY <2>7, <3>1 DEF MadeDue, Delivery
  <2> QED BY <2>1, <2>2, <2>3, <2>4, <2>5, <2>6, <2>7 DEF RecordChange
<1>3. ASSUME NEW m \in Messages, Saved(m)
      PROVE  /\ queue'[m].state = "dead_letter" => queue'[m].failures = RetryWaits + 1
             /\ \E p \in Procs : attempt[p] # NoAttempt /\ attempt[p].msg = m
  <2>1. \A a \in Attempt : a # NoAttempt
    <3> SUFFICES ASSUME NEW a \in Attempt PROVE a.outcome # NoAttempt.outcome
      OBVIOUS
    <3> QED BY DEF Attempt, NoAttempt
  <2> QED BY <1>3, <2>1, SavedRecord DEF Saved
<1> QED BY <1>1, <1>2, <1>3 DEF ScheduleInv, GiveUpStep, InState

(* The node gives up only on the attempt that uses up the retry schedule,  *)
(* and leaves a retry time only where it will retry (recordAttempt).       *)
THEOREM GivingUp == Spec => GivesUpOnlyAfterRetries
<1>1. Init => ScheduleInv
  BY InitType DEF Init, ScheduleInv, HasRecord
<1>2. Spec => []ScheduleInv
  BY <1>1, ScheduleStep, PTL DEF Spec
<1>3. ScheduleInv /\ [Next]_vars => [GiveUpStep]_vars
  BY ScheduleStep
<1>4. Spec => [][GiveUpStep]_vars
  BY <1>2, <1>3, PTL DEF Spec
<1> QED BY <1>4 DEF GivesUpOnlyAfterRetries, GiveUpStep

-----------------------------------------------------------------------------
(* Refinement.  Only messages with a record travel or are being tried.     *)
Travels == /\ \A m \in wire : HasRecord(m)
           /\ \A p \in Procs : attempt[p] # NoAttempt => HasRecord(attempt[p].msg)

PromiseInv == HonestInv /\ Travels

LEMMA RecordsStay ==
    ASSUME TypeInv, [Next]_vars, NEW m \in Messages, HasRecord(m)
    PROVE  HasRecord(m)'
<1>1. RecordChange(m)
  BY EveryChange
<1>2. queue[m] \in Delivery
  BY DEF TypeInv, TypeOK, HasRecord
<1>3. CASE queue'[m] = queue[m]
  BY <1>3 DEF HasRecord
<1>4. CASE Saved(m) \/ Reopened(m)
  BY <1>4, SavedRecord, NoRecordState DEF Reopened, HasRecord
<1>5. CASE Confirmed(m) \/ MadeDue(m)
  <2>1. queue'[m] \in Delivery
    BY <1>2, <1>5, RecordFields DEF Confirmed, MadeDue
  <2> QED BY <2>1, NoRecordState DEF HasRecord
<1> QED BY <1>1, <1>3, <1>4, <1>5 DEF RecordChange, Filed

LEMMA TravelsStep == TypeInv /\ Travels /\ [Next]_vars => Travels'
<1> SUFFICES ASSUME TypeInv, Travels, [Next]_vars
             PROVE  Travels'
  OBVIOUS
<1>1. \A m \in Messages : HasRecord(m) => HasRecord(m)'
  BY RecordsStay
<1>2. /\ wire \subseteq Messages
      /\ \A p \in Procs : attempt[p] # NoAttempt => attempt[p].msg \in Messages
  BY DEF TypeInv, TypeOK, Attempt
<1>3. ASSUME NEW p \in Procs, NEW t \in todo[p], TryHandsOver(p, t) \/ TryFails(p, t)
      PROVE  Travels'
  <2>1. t.msg \in Messages /\ HasRecord(t.msg)
    BY DEF TypeInv, TypeOK, ListedOnFile, Listed
  <2>2. \A m \in wire' : m \in wire \/ m = t.msg
    BY <1>3 DEF TryHandsOver, TryFails
  <2>3. \A q \in Procs : attempt'[q] = attempt[q] \/ attempt'[q].msg = t.msg
    BY <1>3 DEF TryHandsOver, TryFails, TryStarts, TypeInv, TypeOK
  <2> QED BY <1>1, <1>2, <2>1, <2>2, <2>3 DEF Travels
<1>4. ASSUME wire' \subseteq wire,
             \A q \in Procs : attempt'[q] \in {attempt[q], NoAttempt}
      PROVE  Travels'
  BY <1>1, <1>2, <1>4 DEF Travels
<1>5. ASSUME UNCHANGED <<wire, attempt>>
      PROVE  Travels'
  BY <1>4, <1>5
<1>6. ASSUME NEW p \in Procs, SaveAttempt(p) \/ Crash(p)
      PROVE  Travels'
  <2>1. \A q \in Procs : attempt'[q] \in {attempt[q], NoAttempt}
    BY <1>6 DEF SaveAttempt, Crash, TypeInv, TypeOK
  <2>2. wire' = wire
    BY <1>6 DEF SaveAttempt, Crash, environment
  <2> QED BY <1>4, <2>1, <2>2
<1>7. ASSUME NEW m \in Messages,
             \/ PartnerVerifies(m) \/ PartnerIgnoresDuplicate(m)
             \/ FileLost(m) \/ ReceiptLost(m)
      PROVE  Travels'
  <2>1. wire' \subseteq wire /\ attempt' = attempt
    BY <1>7 DEF PartnerVerifies, PartnerIgnoresDuplicate, FileLost, ReceiptLost
  <2> QED BY <1>4, <2>1
<1> QED
  BY <1>3, <1>5, <1>6, <1>7
     DEF Next, TryNext, Operator, Engine, World, vars, environment, Revive, TrySkips, Send,
         ProcessQueue, RetryDeliveryNow, ResendDelivery, RetryAllFailed, ApproveRoute,
         ReleaseNote, FlushFailed, HandleReceipt, RetryTimeComes

(* A step changes the record of one message, or the partner verifies one.  *)
LEMMA OneAtATime ==
    ASSUME TypeInv, Next
    PROVE  \/ UNCHANGED queue /\ \E m \in Messages : PartnerVerifies(m)
           \/ UNCHANGED <<queue, verified>>
           \/ /\ UNCHANGED verified
              /\ \E m \in Messages : \A n \in Messages \ {m} : queue'[n] = queue[n]
<1> DEFINE Local == \/ UNCHANGED <<queue, verified>>
                    \/ /\ UNCHANGED verified
                       /\ \E m \in Messages : \A n \in Messages \ {m} : queue'[n] = queue[n]
<1>1. ASSUME NEW m \in Messages, NEW d, queue' = [queue EXCEPT ![m] = d], UNCHANGED verified
      PROVE  Local
  BY <1>1 DEF TypeInv, TypeOK
<1>2. ASSUME NEW p \in Procs, NEW t \in todo[p], Revive(p, t)
      PROVE  Local
  <2>1. t.msg \in Messages
    BY DEF TypeInv, TypeOK, Listed
  <2> QED BY <1>1, <1>2, <2>1 DEF Revive, environment
<1>3. ASSUME NEW p \in Procs, SaveAttempt(p)
      PROVE  Local
  <2>1. attempt[p].msg \in Messages
    BY <1>3 DEF SaveAttempt, TypeInv, TypeOK, Attempt
  <2> QED BY <1>1, <1>3, <2>1 DEF SaveAttempt, environment
<1>4. ASSUME NEW p \in Procs, NEW m \in Messages,
             \/ Send(p, m) \/ ReleaseNote(p, m)
             \/ \E c \in Partners : ApproveRoute(p, c, m)
             \/ RetryDeliveryNow(p, m) \/ ResendDelivery(p, m)
             \/ HandleReceipt(p, m) \/ RetryTimeComes(m)
      PROVE  Local
  <2>1. UNCHANGED verified /\ \E d : queue' = [queue EXCEPT ![m] = d]
    BY <1>4 DEF Send, ReleaseNote, ApproveRoute, Enqueue, RetryDeliveryNow, ResendDelivery,
                HandleReceipt, RetryTimeComes, environment
  <2> QED BY <1>1, <2>1
<1>5. ASSUME NEW m \in Messages, RetryTimeComes(m)
      PROVE  Local
  BY <1>1, <1>5 DEF RetryTimeComes, environment
<1>6. ASSUME NEW p \in Procs,
             \/ ProcessQueue(p) \/ RetryAllFailed(p) \/ FlushFailed(p) \/ Crash(p)
             \/ \E t \in todo[p] : TrySkips(p, t) \/ TryHandsOver(p, t) \/ TryFails(p, t)
      PROVE  Local
  BY <1>6 DEF ProcessQueue, RetryAllFailed, FlushFailed, Crash, TrySkips, TryHandsOver,
              TryFails, TryStarts, environment
<1>7. ASSUME NEW m \in Messages,
             PartnerIgnoresDuplicate(m) \/ FileLost(m) \/ ReceiptLost(m)
      PROVE  Local
  BY <1>7 DEF PartnerIgnoresDuplicate, FileLost, ReceiptLost
<1>8. ASSUME NEW m \in Messages, PartnerVerifies(m)
      PROVE  UNCHANGED queue
  BY <1>8 DEF PartnerVerifies
<1> QED
  BY <1>2, <1>3, <1>4, <1>5, <1>6, <1>7, <1>8 DEF Next, TryNext, Operator, Engine, World

LEMMA PromiseStep == PromiseInv /\ PromiseInv' /\ [Next]_vars => [Promise!Next]_Promise!vars
<1> SUFFICES ASSUME PromiseInv, PromiseInv', [Next]_vars
             PROVE  [Promise!Next]_Promise!vars
  OBVIOUS
<1> DEFINE claim == [m \in Messages |-> ClaimOf(m)]
<1>1. TypeInv
  BY DEF PromiseInv, HonestInv
<1>2. CASE UNCHANGED <<queue, verified>>
  BY <1>2 DEF Promise!vars, ClaimOf, InState
<1>3. ASSUME NEW m \in Messages, PartnerVerifies(m), UNCHANGED queue
      PROVE  Promise!Verify(m)
  <2>1. HasRecord(m)
    BY <1>3 DEF PartnerVerifies, PromiseInv, Travels
  <2>2. queue[m].state # "none"
    BY <1>1, <2>1, NoRecordState DEF TypeInv, TypeOK, HasRecord
  <2>3. claim[m] # "none"
    BY <2>2 DEF ClaimOf, InState
  <2>4. claim' = claim
    BY <1>3 DEF ClaimOf, InState
  <2> QED BY <1>3, <2>3, <2>4 DEF PartnerVerifies, Promise!Verify
<1>4. ASSUME UNCHANGED verified, NEW m \in Messages,
             \A n \in Messages \ {m} : queue'[n] = queue[n]
      PROVE  [Promise!Next]_Promise!vars
  <2>1. claim' = [claim EXCEPT ![m] = ClaimOf(m)']
    BY <1>4 DEF ClaimOf, InState
  <2>2. /\ ClaimOf(m) \in {"none", "open", "delivered"}
        /\ ClaimOf(m)' \in {"none", "open", "delivered"}
    BY DEF ClaimOf
  <2>3. ClaimOf(m)' = "none" => ClaimOf(m) = "none"
    <3>1. HasRecord(m) => HasRecord(m)'
      BY <1>1, RecordsStay
    <3>2. /\ HasRecord(m) <=> queue[m].state # "none"
          /\ HasRecord(m)' <=> queue'[m].state # "none"
      BY NoRecordState DEF PromiseInv, HonestInv, TypeInv, TypeOK, HasRecord
    <3> QED BY <3>1, <3>2 DEF ClaimOf, InState
  <2>4. ClaimOf(m)' = "delivered" => m \in verified \cup Receipts
    BY <1>4 DEF ClaimOf, InState, PromiseInv, HonestInv, DeliveredIsVerified
  <2>5. ClaimOf(m) = "none" /\ ClaimOf(m)' # "none" => ClaimOf(m)' = "open"
    <3>1. RecordChange(m)
      BY <1>1, EveryChange
    <3>2. ASSUME Saved(m)
          PROVE  HasRecord(m)
      <4>1. PICK p \in Procs : attempt[p] \in Attempt /\ attempt[p].msg = m
        BY <3>2 DEF Saved
      <4>2. attempt[p].outcome # NoAttempt.outcome
        BY <4>1 DEF Attempt, NoAttempt
      <4> QED BY <4>1, <4>2 DEF PromiseInv, Travels
    <3>3. HasRecord(m) => ClaimOf(m) # "none"
      BY <1>1, NoRecordState DEF TypeInv, TypeOK, HasRecord, ClaimOf, InState
    <3>4. CASE Filed(m)
      BY <3>4, QueuedType DEF Filed, ClaimOf, InState
    <3>5. CASE queue'[m] = queue[m]
      BY <3>5 DEF ClaimOf, InState
    <3> QED BY <3>1, <3>2, <3>3, <3>4, <3>5 DEF RecordChange, Reopened, Confirmed, MadeDue
  <2>6. claim[m] = ClaimOf(m)
    OBVIOUS
  <2>7. CASE ClaimOf(m) = ClaimOf(m)'
    <3>1. claim' = claim
      BY <2>1, <2>6, <2>7
    <3> QED BY <1>4, <3>1 DEF Promise!vars
  <2>8. CASE ClaimOf(m) = "none" /\ ClaimOf(m)' = "open"
    <3>1. Promise!Submit(m)
      BY <1>4, <2>1, <2>6, <2>8 DEF Promise!Submit
    <3> QED BY <3>1 DEF Promise!Next
  <2>9. CASE ClaimOf(m) = "open" /\ ClaimOf(m)' = "delivered"
    <3>1. Promise!Confirm(m)
      BY <1>4, <2>1, <2>4, <2>6, <2>9 DEF Promise!Confirm
    <3> QED BY <3>1 DEF Promise!Next
  <2>10. CASE ClaimOf(m) = "delivered" /\ ClaimOf(m)' = "open"
    <3>1. Promise!Reopen(m)
      BY <1>4, <2>1, <2>6, <2>10 DEF Promise!Reopen
    <3> QED BY <3>1 DEF Promise!Next
  <2> QED BY <2>2, <2>3, <2>5, <2>7, <2>8, <2>9, <2>10
<1>5. CASE Next
  BY <1>1, <1>2, <1>3, <1>4, <1>5, OneAtATime DEF Promise!Next
<1> QED BY <1>2, <1>5 DEF vars

(* The queue implements the promise of DeliveryPromise, stale saves of a   *)
(* second process and crashes included (delivery.go).                      *)
THEOREM Refinement == Spec => ImplementsPromise
<1>1. Init => PromiseInv
  <2>1. Init => DeliveredIsVerified /\ receipts \subseteq verified /\ Travels
    BY DEF Init, DeliveredIsVerified, InState, NoDelivery, Travels
  <2> QED BY <2>1, InitType DEF PromiseInv, HonestInv
<1>2. PromiseInv /\ [Next]_vars => PromiseInv'
  BY HonestStep, TravelsStep DEF PromiseInv, HonestInv
<1>3. Init => Promise!Init
  BY DEF Init, Promise!Init, ClaimOf, InState, NoDelivery
<1> QED BY <1>1, <1>2, <1>3, PromiseStep, PTL DEF Spec, ImplementsPromise, Promise!Spec

-----------------------------------------------------------------------------
(* One process.  What it has listed, and the record it has in memory, are  *)
(* what is on file, but for a retry time that has come meanwhile: nothing  *)
(* it saves undoes what somebody else wrote.                               *)
Solo == \A p, q \in Procs : p = q

Agrees(d, r) == r = d \/ (d.nextRetry = "later" /\ r = [d EXCEPT !.nextRetry = "due"])

FreshHand(list, a, q) ==
    /\ \A t \in list : Agrees(t.seen, q[t.msg]) /\ t.seen.state # "delivered"
    /\ \A t, u \in list : t.msg = u.msg => t = u
    /\ a # NoAttempt => /\ Agrees(a.rec, q[a.msg])
                        /\ a.rec.state # "delivered"
                        /\ \A t \in list : t.msg # a.msg

Fresh == \A p \in Procs : FreshHand(todo[p], attempt[p], queue)

(* What agrees with a record says of it what matters for a confirmation. *)
LEMMA AgreesOn ==
    ASSUME NEW d \in Delivery, NEW r, Agrees(d, r)
    PROVE  r.state = d.state /\ r.receipted = d.receipted
BY DEF Agrees, Delivery

(* One message at hand, and nothing in memory. *)
LEMMA FreshOne ==
    ASSUME NEW m \in Messages, NEW d \in Delivery, NEW q, q[m] = d, d.state # "delivered"
    PROVE  FreshHand({[msg |-> m, seen |-> d]}, NoAttempt, q)
BY DEF FreshHand, Agrees

(* Everything at hand is as it was listed. *)
LEMMA FreshList ==
    ASSUME NEW S, "delivered" \notin S, NEW L, L \subseteq List(S)
    PROVE  FreshHand(L, NoAttempt, queue)
<1>1. \A t \in List(S) : t.seen = queue[t.msg] /\ t.seen.state # "delivered"
  BY DEF List
<1>2. \A t, u \in List(S) : t.msg = u.msg => t = u
  BY DEF List
<1> QED BY <1>1, <1>2 DEF FreshHand, Agrees

LEMMA FreshStep ==
    ASSUME Solo, TypeInv, Fresh, [Next]_vars
    PROVE  Fresh'
<1> USE DEF TypeInv
<1>0. CASE UNCHANGED <<queue, todo, attempt>>
  BY <1>0 DEF Fresh
<1>a. ASSUME NEW p \in Procs, FreshHand(todo'[p], attempt'[p], queue')
      PROVE  Fresh'
  BY <1>a DEF Solo, Fresh
<1>1. ASSUME NEW p \in Procs, NEW t \in todo[p], Revive(p, t)
      PROVE  Fresh'
  <2> DEFINE r == [t.seen EXCEPT !.state = "failed"]
             u == [t EXCEPT !.seen = r]
  <2>1. /\ t \in Listed /\ t.msg \in Messages /\ t.seen \in Delivery
        /\ FreshHand(todo[p], attempt[p], queue)
    BY DEF TypeOK, Listed, Fresh
  <2>2. r \in Delivery /\ r.state = "failed"
    BY <2>1, RecordFields DEF Delivery
  <2>3. u.msg = t.msg /\ u.seen = r
    BY <2>1 DEF Listed
  <2>4. /\ queue' = [queue EXCEPT ![t.msg] = r]
        /\ todo'[p] = (todo[p] \ {t}) \cup {u}
        /\ attempt'[p] = NoAttempt
    BY <1>1 DEF Revive, TypeOK
  <2> HIDE DEF r, u
  <2>5. queue'[t.msg] = r /\ \A m \in Messages \ {t.msg} : queue'[m] = queue[m]
    BY <2>1, <2>4 DEF TypeOK
  <2>6. \A v \in todo[p] \ {t} : /\ v.msg \in Messages \ {t.msg}
                                 /\ Agrees(v.seen, queue[v.msg]) /\ v.seen.state # "delivered"
    BY <2>1 DEF FreshHand, TypeOK, Listed
  <2>7. FreshHand(todo'[p], attempt'[p], queue')
    <3>1. \A v \in todo'[p] : Agrees(v.seen, queue'[v.msg]) /\ v.seen.state # "delivered"
      BY <2>2, <2>3, <2>4, <2>5, <2>6 DEF Agrees
    <3>2. \A v, x \in todo'[p] : v.msg = x.msg => v = x
      BY <2>1, <2>3, <2>4, <2>6 DEF FreshHand
    <3> QED BY <2>4, <3>1, <3>2 DEF FreshHand
  <2> QED BY <1>a, <2>7
<1>2. ASSUME NEW p \in Procs, NEW t \in todo[p], TrySkips(p, t)
      PROVE  Fresh'
  <2>1. /\ todo'[p] = todo[p] \ {t} /\ attempt'[p] = attempt[p] /\ queue' = queue
        /\ FreshHand(todo[p], attempt[p], queue)
    BY <1>2 DEF TrySkips, TypeOK, Fresh
  <2>2. FreshHand(todo'[p], attempt'[p], queue')
    BY <2>1 DEF FreshHand
  <2> QED BY <1>a, <2>2
<1>3. ASSUME NEW p \in Procs, NEW t \in todo[p], TryHandsOver(p, t) \/ TryFails(p, t)
      PROVE  Fresh'
  <2>1. PICK outcome : TryStarts(p, t, outcome)
    BY <1>3 DEF TryHandsOver, TryFails
  <2> DEFINE a == [msg |-> t.msg, rec |-> queue[t.msg], outcome |-> outcome]
  <2>2. /\ todo'[p] = todo[p] \ {t} /\ attempt'[p] = a /\ queue' = queue
        /\ queue[t.msg].state # "delivered"
        /\ FreshHand(todo[p], attempt[p], queue)
    BY <2>1 DEF TryStarts, TypeOK, Fresh, InState
  <2>3. a.msg = t.msg /\ a.rec = queue[t.msg]
    OBVIOUS
  <2> HIDE DEF a
  <2>4. FreshHand(todo'[p], attempt'[p], queue')
    BY <2>2, <2>3 DEF FreshHand, Agrees
  <2> QED BY <1>a, <2>4
<1>4. ASSUME NEW p \in Procs, SaveAttempt(p)
      PROVE  Fresh'
  <2> DEFINE m == attempt[p].msg
  <2>1. PICK r : queue' = [queue EXCEPT ![m] = r]
    BY <1>4 DEF SaveAttempt
  <2>2. /\ attempt[p] # NoAttempt /\ attempt'[p] = NoAttempt /\ todo'[p] = todo[p]
        /\ FreshHand(todo[p], attempt[p], queue)
    BY <1>4 DEF SaveAttempt, TypeOK, Fresh
  <2>3. \A t \in todo[p] : t.msg \in Messages /\ t.msg # m
    BY <2>2 DEF FreshHand, TypeOK, Listed
  <2>4. \A t \in todo[p] : queue'[t.msg] = queue[t.msg]
    BY <2>1, <2>3 DEF TypeOK
  <2>5. FreshHand(todo'[p], attempt'[p], queue')
    BY <2>2, <2>4 DEF FreshHand
  <2> QED BY <1>a, <2>5
<1>5. ASSUME NEW p \in Procs, NEW m \in Messages,
             \/ Send(p, m) \/ ReleaseNote(p, m)
             \/ \E c \in Partners : ApproveRoute(p, c, m)
      PROVE  Fresh'
  <2>1. /\ queue'[m] = Queued /\ todo'[p] = {[msg |-> m, seen |-> Queued]}
        /\ attempt'[p] = NoAttempt
    BY <1>5 DEF Send, ReleaseNote, ApproveRoute, Enqueue, Idle, Quiet, TypeOK
  <2>2. FreshHand(todo'[p], attempt'[p], queue')
    BY <2>1, QueuedType, FreshOne
  <2> QED BY <1>a, <2>2
<1>6. ASSUME NEW p \in Procs, NEW m \in Messages,
             RetryDeliveryNow(p, m) \/ ResendDelivery(p, m)
      PROVE  Fresh'
  <2>1. queue[m] \in Delivery
    BY <1>6 DEF RetryDeliveryNow, ResendDelivery, HasRecord, TypeOK
  <2>2. PICK d \in Delivery : /\ queue' = [queue EXCEPT ![m] = d]
                              /\ todo' = [todo EXCEPT ![p] = {[msg |-> m, seen |-> d]}]
                              /\ d.state # "delivered"
    <3>1. /\ [queue[m] EXCEPT !.state = "failed"] \in Delivery
          /\ [queue[m] EXCEPT !.state = "failed"].state = "failed"
      BY <2>1, RecordFields DEF Delivery
    <3> QED BY <1>6, <2>1, <3>1 DEF RetryDeliveryNow, ResendDelivery
  <2>3. /\ queue'[m] = d /\ todo'[p] = {[msg |-> m, seen |-> d]}
        /\ attempt'[p] = NoAttempt
    BY <1>6, <2>2 DEF RetryDeliveryNow, ResendDelivery, Idle, Quiet, TypeOK
  <2>4. FreshHand(todo'[p], attempt'[p], queue')
    BY <2>2, <2>3, FreshOne
  <2> QED BY <1>a, <2>4
<1>7. ASSUME NEW p \in Procs, ProcessQueue(p) \/ RetryAllFailed(p) \/ FlushFailed(p)
      PROVE  Fresh'
  <2>1. PICK L : /\ todo' = [todo EXCEPT ![p] = L]
                 /\ \E S : "delivered" \notin S /\ L \subseteq List(S)
    <3>1. Due \subseteq List({"failed"})
      BY DEF Due
    <3> QED BY <1>7, <3>1 DEF ProcessQueue, RetryAllFailed, FlushFailed
  <2>2. todo'[p] = L /\ attempt'[p] = NoAttempt /\ queue' = queue
    BY <1>7, <2>1 DEF ProcessQueue, RetryAllFailed, FlushFailed, Idle, Quiet, TypeOK
  <2>3. FreshHand(L, NoAttempt, queue)
    BY <2>1, FreshList
  <2>4. FreshHand(todo'[p], attempt'[p], queue')
    BY <2>2, <2>3
  <2> QED BY <1>a, <2>4
<1>8. ASSUME NEW p \in Procs, NEW m \in Messages, HandleReceipt(p, m)
      PROVE  Fresh'
  <2>1. todo'[p] = {} /\ attempt'[p] = NoAttempt
    BY <1>8 DEF HandleReceipt, Idle, Quiet
  <2>2. FreshHand(todo'[p], attempt'[p], queue')
    BY <2>1 DEF FreshHand
  <2> QED BY <1>a, <2>2
<1>9. ASSUME NEW m \in Messages, RetryTimeComes(m)
      PROVE  Fresh'
  <2>1. /\ queue[m] \in Delivery /\ queue[m].nextRetry = "later"
        /\ queue'[m] = [queue[m] EXCEPT !.nextRetry = "due"]
        /\ \A n \in Messages \ {m} : queue'[n] = queue[n]
        /\ UNCHANGED <<todo, attempt>>
    BY <1>9 DEF RetryTimeComes, HasRecord, TypeOK
  <2>2. ASSUME NEW d \in Delivery, NEW n \in Messages, Agrees(d, queue[n])
        PROVE  Agrees(d, queue'[n])
    BY <2>1, <2>2 DEF Agrees, Delivery
  <2>3. ASSUME NEW p \in Procs
        PROVE  FreshHand(todo[p], attempt[p], queue')
    <3>1. FreshHand(todo[p], attempt[p], queue)
      BY DEF Fresh
    <3>2. \A t \in todo[p] : t.seen \in Delivery /\ t.msg \in Messages
      BY DEF TypeOK, Listed
    <3>3. attempt[p] # NoAttempt => attempt[p].rec \in Delivery /\ attempt[p].msg \in Messages
      BY DEF TypeOK, Attempt
    <3> QED BY <2>2, <3>1, <3>2, <3>3 DEF FreshHand
  <2> QED BY <2>1, <2>3 DEF Fresh
<1>10. ASSUME NEW p \in Procs, Crash(p)
       PROVE  Fresh'
  <2>1. todo'[p] = {} /\ attempt'[p] = NoAttempt
    BY <1>10 DEF Crash, TypeOK
  <2>2. FreshHand(todo'[p], attempt'[p], queue')
    BY <2>1 DEF FreshHand
  <2> QED BY <1>a, <2>2
<1>11. ASSUME NEW m \in Messages,
              \/ PartnerVerifies(m) \/ PartnerIgnoresDuplicate(m)
              \/ FileLost(m) \/ ReceiptLost(m)
       PROVE  UNCHANGED <<queue, todo, attempt>>
  BY <1>11 DEF PartnerVerifies, PartnerIgnoresDuplicate, FileLost, ReceiptLost
<1> QED
  BY <1>0, <1>1, <1>2, <1>3, <1>4, <1>5, <1>6, <1>7, <1>8, <1>9, <1>10, <1>11
     DEF Next, TryNext, Operator, Engine, World, vars

(* The receipt number is never lost. *)
LEMMA ReceiptNumberStays ==
    ASSUME TypeInv, Fresh, [Next]_vars, NEW m \in Messages, HasRecord(m)
    PROVE  queue[m].receipted => queue'[m].receipted
<1> USE DEF TypeInv
<1>0. CASE queue'[m] = queue[m]
  BY <1>0
<1>d. queue[m] \in Delivery
  BY DEF HasRecord, TypeOK
<1>1. ASSUME NEW p \in Procs, NEW t \in todo[p], Revive(p, t)
      PROVE  queue[m].receipted => queue'[m].receipted
  <2>1. t.seen \in Delivery /\ t.msg \in Messages /\ Agrees(t.seen, queue[t.msg])
    BY DEF TypeOK, Listed, Fresh, FreshHand
  <2>2. queue[t.msg].receipted = t.seen.receipted
    BY <2>1, AgreesOn
  <2>3. queue' = [queue EXCEPT ![t.msg] = [t.seen EXCEPT !.state = "failed"]]
    BY <1>1 DEF Revive
  <2>4. [t.seen EXCEPT !.state = "failed"].receipted = t.seen.receipted
    BY <2>1 DEF Delivery
  <2> QED BY <2>1, <2>2, <2>3, <2>4 DEF TypeOK
<1>2. ASSUME NEW p \in Procs, SaveAttempt(p)
      PROVE  queue[m].receipted => queue'[m].receipted
  <2> DEFINE a == attempt[p]
             r == RecordAttempt(a.rec, a.msg, a.outcome)
  <2>1. a \in Attempt /\ queue' = [queue EXCEPT ![a.msg] = r]
    BY <1>2 DEF SaveAttempt, TypeOK
  <2>2. /\ a.rec \in Delivery /\ a.msg \in Messages /\ a.outcome \in {"handed_over", "failed"}
        /\ Agrees(a.rec, queue[a.msg])
    BY <1>2, <2>1 DEF SaveAttempt, Attempt, Fresh, FreshHand
  <2>3. r.receipted = a.rec.receipted
    BY <2>2, RecordAttemptType
  <2>4. queue[a.msg].receipted = a.rec.receipted
    BY <2>2, AgreesOn
  <2> HIDE DEF a, r
  <2> QED BY <2>1, <2>2, <2>3, <2>4 DEF TypeOK
<1>3. ASSUME NEW p \in Procs, NEW n \in Messages, Enqueue(p, n)
      PROVE  queue'[m] = queue[m]
  BY <1>3 DEF Enqueue, TypeOK
<1>4. ASSUME NEW p \in Procs, NEW n \in Messages,
             RetryDeliveryNow(p, n) \/ ResendDelivery(p, n)
      PROVE  queue[m].receipted => queue'[m].receipted
  <2>1. PICK d : /\ queue' = [queue EXCEPT ![n] = d]
                 /\ d \in {queue[n], [queue[n] EXCEPT !.state = "failed"]}
    BY <1>4 DEF RetryDeliveryNow, ResendDelivery
  <2>2. [queue[m] EXCEPT !.state = "failed"].receipted = queue[m].receipted
    BY <1>d DEF Delivery
  <2> QED BY <2>1, <2>2 DEF TypeOK
<1>5. ASSUME NEW p \in Procs, NEW n \in Messages, HandleReceipt(p, n)
      PROVE  queue[m].receipted => queue'[m].receipted
  BY <1>5, <1>d DEF HandleReceipt, TypeOK, Delivery
<1>6. ASSUME NEW n \in Messages, RetryTimeComes(n)
      PROVE  queue[m].receipted => queue'[m].receipted
  BY <1>6, <1>d DEF RetryTimeComes, TypeOK, Delivery
<1>7. ASSUME NEW p \in Procs, NEW n \in Messages,
             \/ Send(p, n) \/ ReleaseNote(p, n)
             \/ \E c \in Partners : ApproveRoute(p, c, n)
      PROVE  queue'[m] = queue[m]
  BY <1>3, <1>7 DEF Send, ReleaseNote, ApproveRoute
<1>8. ASSUME NEW p \in Procs, NEW t \in todo[p],
             TrySkips(p, t) \/ TryHandsOver(p, t) \/ TryFails(p, t)
      PROVE  UNCHANGED queue
  BY <1>8 DEF TrySkips, TryHandsOver, TryFails, TryStarts
<1>9. ASSUME NEW p \in Procs,
             ProcessQueue(p) \/ RetryAllFailed(p) \/ FlushFailed(p) \/ Crash(p)
      PROVE  UNCHANGED queue
  BY <1>9 DEF ProcessQueue, RetryAllFailed, FlushFailed, Crash
<1>10. ASSUME NEW n \in Messages,
              \/ PartnerVerifies(n) \/ PartnerIgnoresDuplicate(n)
              \/ FileLost(n) \/ ReceiptLost(n)
       PROVE  UNCHANGED queue
  BY <1>10 DEF PartnerVerifies, PartnerIgnoresDuplicate, FileLost, ReceiptLost
<1> QED
  BY <1>0, <1>1, <1>2, <1>4, <1>5, <1>6, <1>7, <1>8, <1>9, <1>10
     DEF Next, TryNext, Operator, Engine, World, vars

(* "Delivered" gives way to a resend only. *)
LEMMA DeliveredStays ==
    ASSUME TypeInv, Fresh, [Next]_vars, NEW m \in Messages, InState(m, "delivered")
    PROVE  \/ queue'[m].state = "delivered"
           \/ queue'[m].state = "failed" /\ InHand(m)'
<1>1. RecordChange(m)
  BY EveryChange
<1>2. HasRecord(m) /\ queue[m] \in Delivery
  BY NoRecordState DEF InState, HasRecord, TypeInv, TypeOK
<1>3. CASE queue'[m] = queue[m]
  BY <1>3 DEF InState
<1>4. CASE Saved(m)
  <2>1. PICK p \in Procs : attempt[p] \in Attempt /\ attempt[p].msg = m
    BY <1>4 DEF Saved
  <2>2. attempt[p] # NoAttempt /\ attempt[p].rec \in Delivery
    BY <2>1 DEF Attempt, NoAttempt
  <2>3. Agrees(attempt[p].rec, queue[m]) /\ attempt[p].rec.state # "delivered"
    BY <2>1, <2>2 DEF Fresh, FreshHand
  <2> QED BY <2>2, <2>3, AgreesOn DEF InState
<1>5. CASE Reopened(m)
  BY <1>5 DEF Reopened
<1>6. CASE Confirmed(m) \/ MadeDue(m)
  BY <1>2, <1>6 DEF Confirmed, MadeDue, Delivery, InState
<1> QED BY <1>1, <1>2, <1>3, <1>4, <1>5, <1>6 DEF RecordChange, Filed

(* delivery.go, handleReceipt and recordAttempt: with one process on the   *)
(* home directory a confirmation sticks: no save of an attempt, no bulk    *)
(* retry and no crash takes it back.                                       *)
THEOREM ConfirmationIsForGood == ASSUME Solo PROVE Spec => ConfirmationSticks
<1>1. Init => TypeInv /\ Fresh
  BY InitType DEF Init, Fresh, FreshHand
<1>2. TypeInv /\ Fresh /\ [Next]_vars => TypeInv' /\ Fresh'
  BY TypeStep, FreshStep
<1>3. TypeInv /\ Fresh /\ [Next]_vars =>
        [\A m \in Messages : HasRecord(m) =>
           /\ HasRecord(m)'
           /\ queue[m].receipted => queue'[m].receipted
           /\ InState(m, "delivered") =>
                \/ queue'[m].state = "delivered"
                \/ queue'[m].state = "failed" /\ InHand(m)']_vars
  BY RecordsStay, ReceiptNumberStays, DeliveredStays
<1> QED BY <1>1, <1>2, <1>3, PTL DEF Spec, ConfirmationSticks
=============================================================================
