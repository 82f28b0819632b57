------------------------------- MODULE Exchange -------------------------------
(***************************************************************************)
(* Companies in exchange: the servers of several nodes ("exnode serve"),   *)
(* each with its own home directory, sending notes and receipts to each    *)
(* other over the channels of package transport.                           *)
(*                                                                         *)
(* Delivery looks at one node and assumes what its partner does.  Here the *)
(* partner is another node that runs the same code: numbers counted from   *)
(* the queue (nextNumber), one archive that is asked by number in both     *)
(* directions (ReadArchived), Collect and Ingest in steps with a crash     *)
(* between any two of them, and a push that is made under the mutex of one *)
(* server and answered under the mutex of the other (Server.Mu).  A node   *)
(* does one thing at a time: "work" is what the holder of its mutex is at. *)
(***************************************************************************)
EXTENDS Naturals, FiniteSets

CONSTANTS Nodes,        \* companies
          NoNode,       \* nobody
          Types,        \* message types nextNumber tells apart, receipts aside
          Scenarios,    \* channels, what there is to say, who may die, who is attended
          MaxCount      \* bound: records in one queue

Kinds == {"https", "sftp", "local-folder"}
Receipt == "delivery_receipt"
Notes == {note \in [from : Nodes, to : Nodes, type : Types] : note.from # note.to}

ASSUME NodesAssumption == NoNode \notin Nodes
ASSUME TypesAssumption == Receipt \notin Types
ASSUME ScenariosAssumption ==
    Scenarios \subseteq [channel : [Nodes -> Kinds], notes : SUBSET Notes,
                         fragile : SUBSET Nodes, attended : SUBSET Nodes]
ASSUME BoundsAssumption == MaxCount \in Nat

VARIABLES channel,    \* the channel the others have on file for each node
          attended,   \* nodes with an operator at the console
          queue,      \* outbox/queue of each node
          in, out,    \* archive/in-<number> and archive/out-<number> of each node
          folder,     \* transport/in of each node: one file for each name
          calls,      \* pushed files whose handler waits for the server's mutex
          torn,       \* .tmp files in outbox/queue, left by a server that died saving
          work,       \* what the holder of each server's mutex is at
          agenda,     \* notes that still have to be sent
          done,       \* how often each node ran the pipeline for a number
          fragile,    \* bound: servers that may still die
          died,       \* servers that have died
          gone        \* nodes whose queue has lost a file that had been counted

vars == <<channel, attended, queue, in, out, folder, calls, torn, work, agenda, done,
          fragile, died, gone>>

setup == <<channel, attended>>
leftovers == <<torn, gone>>

-----------------------------------------------------------------------------
(* Numbers, files, records. *)

(* "%s-%s-%04d": a prefix for the type and a count.  The day between them  *)
(* is left out: all that happens here happens on one day.                  *)
Numbers == [type : Types \cup {Receipt}, count : 1..MaxCount]
NoNumber == [type |-> "", count |-> 0]

(* A file is named by its number; a receipt says what it is about. *)
Files == [from : Nodes, to : Nodes, no : Numbers, about : Numbers \cup {NoNumber}]
NoFile == [no |-> NoNumber]

States == {"queued", "handed_over", "delivered", "failed"}
Records == [to : Nodes, state : States]
NoRecord == [state |-> "none"]

IsReceipt(no) == no.type = Receipt
Filed(n, no) == queue[n][no] # NoRecord

(* Mutant: only what is still open is counted. *)
NextOpenNumber(n, type) ==
    [type |-> type,
     count |-> Cardinality({no \in Numbers : Filed(n, no) /\ queue[n][no].state # "delivered"})
               + Cardinality(torn[n]) + 1]

(* nextNumber counts the files of the queue: the records, and what a       *)
(* server that died inside AtomicWrite left of one.                        *)
NextNumber(n, type) ==
    [type |-> type,
     count |-> Cardinality({no \in Numbers : Filed(n, no)}) + Cardinality(torn[n]) + 1]

(* AtomicWrite: a record that is saved takes along what an earlier attempt *)
(* to save it has left, for it is the same name.                           *)
Save(n, no) == /\ torn' = [torn EXCEPT ![n] = @ \ {no}]
               /\ gone' = IF no \in torn[n] THEN gone \cup {n} ELSE gone

(* Mutant: only what this node sent is looked up. *)
ArchivedOut(n, no) == out[n][no] # NoFile

(* ReadArchived tries the inbound copy first. *)
Archived(n, no) == in[n][no] # NoFile \/ out[n][no] # NoFile
ReadArchived(n, no) == IF in[n][no] # NoFile THEN in[n][no] ELSE out[n][no]

(* What is in a folder after a file was renamed into it, or removed. *)
Without(files, no) == {f \in files : f.no # no}
With(files, no, f) == Without(files, no) \cup {f}

Calls == [at : Nodes, by : Nodes \cup {NoNode}, file : Files]

Steps == {"idle", "collect", "remove", "take", "archive", "receipt", "enqueue",
          "deliver", "upload", "wait", "answered", "process"}

(* The stack of an operation: names still to read and files already read   *)
(* by Collect, the file Ingest is at and who pushed it, the number being   *)
(* sent and to whom.                                                       *)
Works == [step : Steps, names : SUBSET Numbers, batch : SUBSET Files,
          file : Files \cup {NoFile}, by : Nodes \cup {NoNode},
          no : Numbers \cup {NoNumber}, to : Nodes \cup {NoNode}]

Idle == [step |-> "idle", names |-> {}, batch |-> {}, file |-> NoFile,
         by |-> NoNode, no |-> NoNumber, to |-> NoNode]

At(n, step) == work[n].step = step
Become(n, w) == work' = [work EXCEPT ![n] = w]

TypeOK == /\ channel \in [Nodes -> Kinds] /\ attended \subseteq Nodes
          /\ queue \in [Nodes -> [Numbers -> Records \cup {NoRecord}]]
          /\ in \in [Nodes -> [Numbers -> Files \cup {NoFile}]]
          /\ out \in [Nodes -> [Numbers -> Files \cup {NoFile}]]
          /\ folder \in [Nodes -> SUBSET Files]
          /\ calls \subseteq Calls
          /\ torn \in [Nodes -> SUBSET Numbers]
          /\ work \in [Nodes -> Works]
          /\ agenda \subseteq Notes
          /\ done \in [Nodes -> [Numbers -> Nat]]
          /\ fragile \subseteq Nodes /\ died \subseteq Nodes /\ gone \subseteq Nodes

Init == /\ \E s \in Scenarios : /\ channel = s.channel
                                /\ agenda = s.notes
                                /\ fragile = s.fragile
                                /\ attended = s.attended
        /\ queue = [n \in Nodes |-> [no \in Numbers |-> NoRecord]]
        /\ in = [n \in Nodes |-> [no \in Numbers |-> NoFile]]
        /\ out = [n \in Nodes |-> [no \in Numbers |-> NoFile]]
        /\ folder = [n \in Nodes |-> {}]
        /\ calls = {}
        /\ torn = [n \in Nodes |-> {}]
        /\ work = [n \in Nodes |-> Idle]
        /\ done = [n \in Nodes |-> [no \in Numbers |-> 0]]
        /\ died = {} /\ gone = {}

-----------------------------------------------------------------------------
(* signAndSend: a message of some type to some node.  The number is read   *)
(* off the queue and the bytes are archived; then the record is filed;     *)
(* then the first attempt is made.  What a note answers, and who sends it, *)
(* is in Respond and ChangesDesk; it is off the agenda once it is filed.   *)
Compose(n, to, type, about, w) ==
    LET no == NextNumber(n, type)
    IN /\ no \in Numbers
       /\ out' = [out EXCEPT ![n][no] = [from |-> n, to |-> to, no |-> no, about |-> about]]
       /\ Become(n, [w EXCEPT !.step = "enqueue", !.no = no, !.to = to])

SendNote(n, note) ==
    /\ At(n, "idle")
    /\ note \in agenda /\ note.from = n
    /\ Compose(n, note.to, note.type, NoNumber, work[n])
    /\ UNCHANGED <<setup, leftovers, queue, in, folder, calls, agenda, done, fragile, died>>

EnqueueDelivery(n) ==
    /\ At(n, "enqueue")
    /\ queue' = [queue EXCEPT ![n][work[n].no] = [to |-> work[n].to, state |-> "queued"]]
    /\ Save(n, work[n].no)
    /\ agenda' = agenda \ {[from |-> n, to |-> work[n].to, type |-> work[n].no.type]}
    /\ Become(n, [work[n] EXCEPT !.step = "deliver", !.to = NoNode])
    /\ UNCHANGED <<setup, in, out, folder, calls, done, fragile, died>>

-----------------------------------------------------------------------------
(* TryDeliver.  Deliver(c, ...) by the kind of channel that is on file.    *)
(* It returns at once for a record that is delivered; under one mutex      *)
(* nobody makes a record that while an attempt is on, so that the test is  *)
(* left to RetryDelivery.                                                  *)

(* Mutant: after a receipt was sent the message is left at that. *)
AfterReceiptNothing(w) == Idle

AfterAttempt(w) == IF w.file = NoFile THEN Idle
                   ELSE [w EXCEPT !.step = "process", !.no = NoNumber]

(* Mutant: a file that was handed over counts as delivered. *)
RecordAsDelivered(n, outcome) ==
    LET state == IF outcome = "failed" THEN "failed" ELSE "delivered"
    IN /\ queue' = [queue EXCEPT ![n][work[n].no] = [@ EXCEPT !.state = state]]
       /\ Save(n, work[n].no)

(* Mutant: the record is saved anew, without its receiver. *)
RecordWithoutReceiver(n, outcome) ==
    /\ queue' = [queue EXCEPT ![n][work[n].no] = [state |-> outcome]]
    /\ Save(n, work[n].no)

RecordAttempt(n, outcome) ==
    LET no == work[n].no
        state == CASE outcome = "failed" -> "failed"
                   [] outcome = "handed_over" /\ IsReceipt(no) -> "delivered"
                   [] OTHER -> "handed_over"
    IN /\ queue' = [queue EXCEPT ![n][no] = [@ EXCEPT !.state = state]]
       /\ Save(n, no)

(* What is being sent, and to whom. *)
Sending(n) == queue[n][work[n].no]
Bytes(n) == ReadArchived(n, work[n].no)
SentBy(n, kind) == channel[Sending(n).to] = kind

DeliverByFolder(n) ==
    /\ At(n, "deliver") /\ SentBy(n, "local-folder")
    /\ folder' = [folder EXCEPT ![Sending(n).to] = With(@, work[n].no, Bytes(n))]
    /\ RecordAttempt(n, "handed_over")
    /\ Become(n, AfterAttempt(work[n]))
    /\ UNCHANGED <<setup, in, out, calls, agenda, done, fragile, died>>

(* sendSFTP: a leftover of that name is removed, then the upload renamed. *)
DeliverBySFTP(n) ==
    /\ At(n, "deliver") /\ SentBy(n, "sftp")
    /\ folder' = [folder EXCEPT ![Sending(n).to] = Without(@, work[n].no)]
    /\ Become(n, [work[n] EXCEPT !.step = "upload"])
    /\ UNCHANGED <<setup, leftovers, queue, in, out, calls, agenda, done, fragile, died>>

RenameUpload(n) ==
    /\ At(n, "upload")
    /\ folder' = [folder EXCEPT ![Sending(n).to] = With(@, work[n].no, Bytes(n))]
    /\ RecordAttempt(n, "handed_over")
    /\ Become(n, AfterAttempt(work[n]))
    /\ UNCHANGED <<setup, in, out, calls, agenda, done, fragile, died>>

(* sendHTTPS: the request is with the partner's server, whose handler      *)
(* waits for its mutex; this server keeps its own until the answer.        *)
DeliverByPush(n) ==
    /\ At(n, "deliver") /\ SentBy(n, "https")
    /\ calls' = calls \cup {[at |-> Sending(n).to, by |-> n, file |-> Bytes(n)]}
    /\ Become(n, [work[n] EXCEPT !.step = "wait"])
    /\ UNCHANGED <<setup, leftovers, queue, in, out, folder, agenda, done, fragile, died>>

PushAnswered(n) ==
    /\ At(n, "answered")
    /\ RecordAttempt(n, "handed_over")
    /\ Become(n, AfterAttempt(work[n]))
    /\ UNCHANGED <<setup, in, out, folder, calls, agenda, done, fragile, died>>

(* Nobody waits for the answer to n's push any more. *)
Orphaned(n) == {[c EXCEPT !.by = IF @ = n THEN NoNode ELSE @] : c \in calls}
Abandoned(n, w) == IF w.by = n THEN [w EXCEPT !.by = NoNode] ELSE w

(* Mutant: the push is made again at once. *)
PushAgain(n) ==
    /\ At(n, "wait")
    /\ calls' = Orphaned(n)
    /\ work' = [m \in Nodes |-> IF m = n THEN [work[n] EXCEPT !.step = "deliver"]
                                         ELSE Abandoned(n, work[m])]
    /\ UNCHANGED <<setup, leftovers, queue, in, out, folder, agenda, done, fragile, died>>

(* The thirty seconds of httpClient are over, or the connection broke.     *)
(* The partner's handler does not notice: it has the body already.         *)
PushTimesOut(n) ==
    /\ At(n, "wait")
    /\ RecordAttempt(n, "failed")
    /\ calls' = Orphaned(n)
    /\ work' = [m \in Nodes |-> IF m = n THEN AfterAttempt(work[n]) ELSE Abandoned(n, work[m])]
    /\ UNCHANGED <<setup, in, out, folder, agenda, done, fragile, died>>

(* The transport reports an error: the file has not moved, or the answer   *)
(* to a push was lost.                                                     *)
DeliverFails(n) ==
    /\ At(n, "deliver") \/ At(n, "upload") \/ At(n, "answered")
    /\ RecordAttempt(n, "failed")
    /\ Become(n, AfterAttempt(work[n]))
    /\ UNCHANGED <<setup, in, out, folder, calls, agenda, done, fragile, died>>

(* Another attempt: the heartbeat for a failed record that is due, or the  *)
(* operator for any that is not delivered; resending takes any record.     *)
(* ListDeliveries reads what is left of a record like a record, so that it *)
(* may be due, too; the attempt loads the record itself.                   *)
RetryDelivery(n, no) ==
    /\ At(n, "idle")
    /\ Filed(n, no) /\ queue[n][no].state # "delivered"
    /\ queue[n][no].state = "failed" \/ no \in torn[n] \/ n \in attended
    /\ Become(n, [Idle EXCEPT !.step = "deliver", !.no = no])
    /\ UNCHANGED <<setup, leftovers, queue, in, out, folder, calls, agenda, done, fragile, died>>

ResendDelivery(n, no) ==
    /\ At(n, "idle") /\ n \in attended
    /\ Filed(n, no)
    /\ queue' = [queue EXCEPT ![n][no] = [@ EXCEPT !.state = "failed"]]
    /\ Save(n, no)
    /\ Become(n, [Idle EXCEPT !.step = "deliver", !.no = no])
    /\ UNCHANGED <<setup, in, out, folder, calls, agenda, done, fragile, died>>

-----------------------------------------------------------------------------
(* ReceiveAll: Collect reads and removes the files it listed, one by one;  *)
(* one it cannot read makes it give up, with all it had read and removed.  *)
(* Then each file is ingested, in any order.                               *)
Collect(n) ==
    /\ At(n, "idle") /\ folder[n] # {}
    /\ Become(n, [Idle EXCEPT !.step = "collect", !.names = {f.no : f \in folder[n]}])
    /\ UNCHANGED <<setup, leftovers, queue, in, out, folder, calls, agenda, done, fragile, died>>

ReadFile(n, f) ==
    /\ At(n, "collect") /\ f \in folder[n] /\ f.no \in work[n].names
    /\ Become(n, [work[n] EXCEPT !.step = "remove", !.batch = @ \cup {f}, !.no = f.no])
    /\ UNCHANGED <<setup, leftovers, queue, in, out, folder, calls, agenda, done, fragile, died>>

ReadFails(n, no) ==
    /\ At(n, "collect") /\ no \in work[n].names
    /\ Become(n, Idle)
    /\ UNCHANGED <<setup, leftovers, queue, in, out, folder, calls, agenda, done, fragile, died>>

RemoveFile(n) ==
    LET left == work[n].names \ {work[n].no} IN
    /\ At(n, "remove")
    /\ folder' = [folder EXCEPT ![n] = Without(@, work[n].no)]
    /\ Become(n, [work[n] EXCEPT !.step = IF left = {} THEN "take" ELSE "collect",
                                 !.names = left, !.no = NoNumber])
    /\ UNCHANGED <<setup, leftovers, queue, in, out, calls, agenda, done, fragile, died>>

-----------------------------------------------------------------------------
(* Ingest of one file.  When it is through, whoever pushed the file gets   *)
(* the answer 200, and the next file of the batch is taken.                *)
AfterIngest(w) == [Idle EXCEPT !.step = IF w.batch = {} THEN "idle" ELSE "take",
                               !.batch = w.batch]

Finish(n, w) ==
    work' = [m \in Nodes |-> CASE m = n -> AfterIngest(w)
                               [] m = w.by /\ m # n -> [work[m] EXCEPT !.step = "answered"]
                               [] OTHER -> work[m]]

(* A number that is archived already, whoever's, is a duplicate. *)
Begin(n, f, w) ==
    IF Archived(n, f.no) THEN Finish(n, w)
    ELSE Become(n, [w EXCEPT !.step = "archive", !.file = f])

TakeFile(n, f) ==
    /\ At(n, "take") /\ f \in work[n].batch
    /\ Begin(n, f, [work[n] EXCEPT !.batch = @ \ {f}])
    /\ UNCHANGED <<setup, leftovers, queue, in, out, folder, calls, agenda, done, fragile, died>>

AnswerCall(n, c) ==
    /\ At(n, "idle") /\ c \in calls /\ c.at = n
    /\ calls' = calls \ {c}
    /\ Begin(n, c.file, [Idle EXCEPT !.by = c.by])
    /\ UNCHANGED <<setup, leftovers, queue, in, out, folder, agenda, done, fragile, died>>

(* Every file here is signed by the node it says it is from, so that its   *)
(* signature verifies; what else may happen is in ChangesDesk.             *)
ArchiveIn(n) ==
    LET f == work[n].file IN
    /\ At(n, "archive")
    /\ in' = [in EXCEPT ![n][f.no] = f]
    /\ Become(n, [work[n] EXCEPT !.step = IF IsReceipt(f.no) THEN "process" ELSE "receipt"])
    /\ UNCHANGED <<setup, leftovers, queue, out, folder, calls, agenda, done, fragile, died>>

SendReceipt(n) ==
    /\ At(n, "receipt")
    /\ Compose(n, work[n].file.from, Receipt, work[n].file.no, work[n])
    /\ UNCHANGED <<setup, leftovers, queue, in, folder, calls, agenda, done, fragile, died>>

(* handleReceipt: whose receipt it is does not matter, only the number. *)
HandleReceipt(n) ==
    LET no == work[n].file.about IN
    /\ At(n, "process") /\ IsReceipt(work[n].file.no)
    /\ IF Filed(n, no)
       THEN queue' = [queue EXCEPT ![n][no] = [@ EXCEPT !.state = "delivered"]] /\ Save(n, no)
       ELSE UNCHANGED <<queue, leftovers>>
    /\ Finish(n, work[n])
    /\ UNCHANGED <<setup, in, out, folder, calls, agenda, done, fragile, died>>

ContinuePipeline(n) ==
    /\ At(n, "process") /\ ~IsReceipt(work[n].file.no)
    /\ done' = [done EXCEPT ![n][work[n].file.no] = @ + 1]
    /\ Finish(n, work[n])
    /\ UNCHANGED <<setup, leftovers, queue, in, out, folder, calls, agenda, fragile, died>>

(* The server of n dies: its stack is gone, and the pushes it had not      *)
(* answered with it.  The files stay.                                      *)
Die(n) ==
    /\ n \in fragile
    /\ calls' = {c \in Orphaned(n) : c.at # n}
    /\ work' = [m \in Nodes |-> IF m = n THEN Idle ELSE Abandoned(n, work[m])]
    /\ fragile' = fragile \ {n}
    /\ died' = died \cup {n}
    /\ UNCHANGED <<setup, queue, in, out, agenda, done, gone>>

Crash(n) == work[n] # Idle /\ Die(n) /\ UNCHANGED <<folder, torn>>

(* It dies after the file moved, before the record says so. *)
CrashHanded(n) ==
    /\ At(n, "upload") \/ (At(n, "deliver") /\ SentBy(n, "local-folder"))
    /\ Die(n)
    /\ folder' = [folder EXCEPT ![Sending(n).to] = With(@, work[n].no, Bytes(n))]
    /\ UNCHANGED torn \/ torn' = [torn EXCEPT ![n] = @ \cup {work[n].no}]

(* It dies inside AtomicWrite of a record: when one is filed, at the end   *)
(* of an attempt, when a receipt came, when one is resent.                 *)
Saves(n, no) ==
    \/ work[n].step \in {"enqueue", "deliver", "upload", "wait", "answered"} /\ no = work[n].no
    \/ At(n, "process") /\ IsReceipt(work[n].file.no) /\ no = work[n].file.about /\ Filed(n, no)
    \/ At(n, "idle") /\ n \in attended /\ Filed(n, no)

CrashSaving(n, no) ==
    /\ Saves(n, no)
    /\ Die(n)
    /\ torn' = [torn EXCEPT ![n] = @ \cup {no}]
    /\ UNCHANGED folder

-----------------------------------------------------------------------------
Send(n) == \/ \E note \in agenda : SendNote(n, note)
           \/ EnqueueDelivery(n)
Attempt(n) == \/ DeliverByFolder(n) \/ DeliverBySFTP(n) \/ RenameUpload(n)
              \/ DeliverByPush(n) \/ PushAnswered(n) \/ PushTimesOut(n) \/ DeliverFails(n)
Again(n) == \E no \in Numbers : RetryDelivery(n, no) \/ ResendDelivery(n, no)
Receive(n) == \/ Collect(n) \/ RemoveFile(n)
              \/ \E f \in folder[n] : ReadFile(n, f)
              \/ \E no \in work[n].names : ReadFails(n, no)
Ingest(n) == \/ \E f \in work[n].batch : TakeFile(n, f)
             \/ \E c \in calls : AnswerCall(n, c)
             \/ ArchiveIn(n) \/ SendReceipt(n) \/ HandleReceipt(n) \/ ContinuePipeline(n)

Dies(n) == Crash(n) \/ CrashHanded(n) \/ \E no \in Numbers : CrashSaving(n, no)

Next == \E n \in Nodes : Send(n) \/ Attempt(n) \/ Again(n) \/ Receive(n) \/ Ingest(n) \/ Dies(n)

Spec == Init /\ [][Next]_vars

(* An operation once begun runs on, and a push does not wait for ever.     *)
RunsOn(n) == work[n] # Idle /\ (Send(n) \/ Attempt(n) \/ Receive(n) \/ Ingest(n))
Fairness == \A n \in Nodes : WF_vars(RunsOn(n))
FairSpec == Spec /\ Fairness

-----------------------------------------------------------------------------
(* Safety. *)

(* delivery.go on ResendDelivery: the business effect happens once, even   *)
(* if the file arrives twice.  The pipeline is run at most once for each   *)
(* number, whatever is resent, dropped, pushed twice or lost in a crash.   *)
AtMostOnce == \A n \in Nodes, no \in Numbers : done[n][no] <= 1

(* As long as its server has not died, what a node archived is processed:  *)
(* the pipeline has run for it, or it is in the hands of the server.       *)
ArchivedIsProcessed ==
    \A n \in Nodes \ died, no \in Numbers :
        in[n][no] # NoFile /\ ~IsReceipt(no) => done[n][no] = 1 \/ work[n].file = in[n][no]

(* nextNumber is unique as long as no file that was counted goes: a record *)
(* once filed stays the record of the same message, and its archived bytes *)
(* stay what they are, wherever servers die.  What a server that died      *)
(* inside AtomicWrite left is counted, and goes when its record is saved.  *)
FiledStays ==
    [][\A n \in Nodes \ gone', no \in Numbers : Filed(n, no) =>
         /\ Filed(n, no)' /\ queue'[n][no].to = queue[n][no].to
         /\ out'[n][no] = out[n][no]]_vars

(* The nodes keep the promise of DeliveryPromise to each other, until a    *)
(* number may be given twice.  A message is verified when its receiver has *)
(* archived it.                                                            *)
Sent == [by : Nodes, no : Numbers]

ClaimOf(s) == CASE queue[s.by][s.no].state = "none" -> "none"
                [] queue[s.by][s.no].state = "delivered" -> "delivered"
                [] OTHER -> "open"

Has(n, s) == in[n][s.no] # NoFile /\ in[n][s.no].from = s.by /\ in[n][s.no].to = n

Promise == INSTANCE DeliveryPromise WITH
               Messages <- Sent,
               Receipts <- {s \in Sent : IsReceipt(s.no)},
               claim <- [s \in Sent |-> ClaimOf(s)],
               verified <- {s \in Sent : \E n \in Nodes : Has(n, s)}

ImplementsPromise ==
    Promise!Init /\ [][Promise!Next \/ gone' # {}]_(Promise!vars)

(* Liveness, under FairSpec: a server that pushes while it is pushed to    *)
(* gets its mutex back, again and again.                                   *)
ServerComesFree == \A n \in Nodes : []<>(work[n] = Idle)

-----------------------------------------------------------------------------
(* A statement of the repository that the code does not keep.              *)

(* delivery.go: "Delivered" is only ever set when the partner's node sent  *)
(* back a signed receipt.                                                  *)
DeliveredIsReceipted ==
    \A s \in Sent : ClaimOf(s) = "delivered" /\ ~IsReceipt(s.no)
        => Has(queue[s.by][s.no].to, s)
=============================================================================
