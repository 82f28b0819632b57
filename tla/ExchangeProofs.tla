---------------------------- MODULE ExchangeProofs ----------------------------
(***************************************************************************)
(* Proofs about Exchange, for any number of nodes, any channels, any       *)
(* bound of the queues, and wherever servers die.                          *)
(*                                                                         *)
(* What a node has at hand ties its files together: the file it is at is   *)
(* not archived before "archive" and archived, but not processed, after    *)
(* it; the number it is sending is on file, or is about to be.  As long as *)
(* no counted file is gone, the count of a node's queue is at least every  *)
(* number in it, and a number about to be filed is above them all.  A push *)
(* that somebody waits for is with one node only, so that its answer finds *)
(* the sender waiting for it.                                              *)
(***************************************************************************)
EXTENDS Exchange, FiniteSetTheorems, TLAPS

USE NodesAssumption, BoundsAssumption

FiledIn(q) == {no \in Numbers : q[no] # NoRecord}

Waiting(m) == work[m].step = "wait"

(* A push that is waited for is in one place, and its sender waits. *)
PushesOK ==
    /\ \A c \in calls : c.by # NoNode => Waiting(c.by)
    /\ \A n \in Nodes : work[n].by # NoNode => Waiting(work[n].by)
    /\ \A c, d \in calls : c.by # NoNode /\ c.by = d.by => c = d
    /\ \A n, m \in Nodes : work[n].by # NoNode /\ work[n].by = work[m].by => n = m
    /\ \A c \in calls, n \in Nodes : c.by # NoNode => work[n].by # c.by
    /\ \A n \in Nodes : work[n].by # n

(* What a node has at hand, against its queue, its archive and what it has *)
(* processed. *)
HandOK(w, q, i, o, d) ==
    /\ w.step \in {"idle", "collect", "remove", "take"} => w.file = NoFile
    /\ w.step \in {"archive", "receipt", "process"} => w.file # NoFile
    /\ w.step = "archive" => i[w.file.no] = NoFile
    /\ w.step # "archive" /\ w.file # NoFile => i[w.file.no] = w.file /\ d[w.file.no] = 0
    /\ w.step = "enqueue" => /\ w.no \in Numbers /\ w.to \in Nodes
                             /\ o[w.no] # NoFile
    /\ w.step \in {"deliver", "upload", "wait", "answered"} => w.no \in FiledIn(q)

(* A node's files. *)
BooksOK(q, i, o, d) ==
    /\ \A no \in FiledIn(q) : o[no] # NoFile
    /\ \A no \in Numbers : i[no] # NoFile => i[no].no = no
    /\ \A no \in Numbers : d[no] <= 1 /\ (d[no] # 0 => i[no] # NoFile)

(* How many files a queue has, with what is left of records in it. *)
Total(q, t) == Cardinality(FiledIn(q)) + Cardinality(t)

(* No number is above the count of the files, and the next one is. *)
NumbersOK(w, q, t) ==
    /\ IsFiniteSet(FiledIn(q)) /\ IsFiniteSet(t)
    /\ \A no \in FiledIn(q) \cup t : no.count <= Total(q, t)
    /\ w.step = "enqueue" => w.no.count = Total(q, t) + 1

AllProcessed(w, i, d) ==
    \A no \in Numbers : i[no] # NoFile /\ ~IsReceipt(no) => d[no] = 1 \/ w.file = i[no]

NodeOK(n) == /\ HandOK(work[n], queue[n], in[n], out[n], done[n])
             /\ BooksOK(queue[n], in[n], out[n], done[n])
             /\ n \notin died => AllProcessed(work[n], in[n], done[n])
             /\ n \notin gone => NumbersOK(work[n], queue[n], torn[n])

ExchangeInv == TypeOK /\ PushesOK /\ \A n \in Nodes : NodeOK(n)

(* The types of one node's files. *)
Queues == [Numbers -> Records \cup {NoRecord}]
Archives == [Numbers -> Files \cup {NoFile}]
Counts == [Numbers -> Nat]

(* What is on file stays on file, for the same receiver, with its bytes,   *)
(* unless a file that had been counted is gone.                            *)
Kept(q, r, o, p) == \A no \in FiledIn(q) : no \in FiledIn(r) /\ r[no].to = q[no].to /\ p[no] = o[no]

FiledKept == \A n \in Nodes \ gone' : Kept(queue[n], queue'[n], out[n], out'[n])

-----------------------------------------------------------------------------
(* Shapes. *)

(* No file is none of the files. *)
LEMMA NoFileIsNone == NoFile \notin Files
BY DEF NoFile, Files, NoNumber, Numbers

(* No record is none of the records. *)
LEMMA NoRecordIsNone == NoRecord \notin Records
BY DEF NoRecord, Records, States

(* What a node that does nothing has at hand. *)
LEMMA IdleType == /\ Idle \in Works /\ Idle.step = "idle" /\ Idle.file = NoFile
                  /\ Idle.by = NoNode
BY DEF Idle, Works, Steps

(* The files of one node. *)
LEMMA RowTypes ==
    ASSUME TypeOK, NEW n \in Nodes
    PROVE  /\ work[n] \in Works /\ queue[n] \in Queues
           /\ in[n] \in Archives /\ out[n] \in Archives /\ done[n] \in Counts
           /\ torn[n] \in SUBSET Numbers
BY DEF TypeOK, Queues, Archives, Counts

(* A record gets another state. *)
LEMMA OtherState ==
    ASSUME NEW q \in Queues, NEW no \in FiledIn(q), NEW state \in States
    PROVE  LET r == [q EXCEPT ![no] = [@ EXCEPT !.state = state]] IN
           /\ r \in Queues
           /\ FiledIn(r) = FiledIn(q)
           /\ \A x \in FiledIn(q) : r[x].to = q[x].to
<1> DEFINE s == [q[no] EXCEPT !.state = state]
           r == [q EXCEPT ![no] = s]
<1>1. no \in Numbers /\ q[no] \in Records
  BY DEF FiledIn, Queues
<1>2. s \in Records /\ s.to = q[no].to
  BY <1>1 DEF Records
<1> HIDE DEF s
<1>3. /\ r \in Queues
      /\ \A x \in Numbers : r[x] = IF x = no THEN s ELSE q[x]
  BY <1>1, <1>2 DEF Queues
<1>4. FiledIn(r) = FiledIn(q)
  BY <1>2, <1>3, NoRecordIsNone DEF FiledIn
<1>5. \A x \in FiledIn(q) : r[x].to = q[x].to
  BY <1>2, <1>3 DEF FiledIn
<1> QED
  BY <1>3, <1>4, <1>5 DEF s

(* The next number is above every number on file, and on no leftover. *)
LEMMA NextIsNew ==
    ASSUME NEW w, NEW q, NEW t \in SUBSET Numbers, NumbersOK(w, q, t),
           NEW no \in FiledIn(q) \cup t
    PROVE  no.count # Total(q, t) + 1
<1>1. Total(q, t) \in Nat
  BY FS_CardinalityType DEF NumbersOK, Total
<1>2. no.count \in Nat /\ no.count <= Total(q, t)
  BY DEF FiledIn, Numbers, NumbersOK
<1> QED
  BY <1>1, <1>2

(* One more in a finite set. *)
LEMMA AddOne ==
    ASSUME NEW S, IsFiniteSet(S), NEW x, x \notin S
    PROVE  IsFiniteSet(S \cup {x}) /\ Cardinality(S \cup {x}) = Cardinality(S) + 1
BY FS_AddElement

(* One more record. *)
LEMMA OneMore ==
    ASSUME NEW q \in Queues, NEW no \in Numbers, NEW record \in Records
    PROVE  LET r == [q EXCEPT ![no] = record] IN
           /\ r \in Queues
           /\ FiledIn(r) = FiledIn(q) \cup {no}
           /\ \A x \in FiledIn(q) \ {no} : r[x] = q[x]
<1> DEFINE r == [q EXCEPT ![no] = record]
<1>1. /\ r \in Queues
      /\ \A x \in Numbers : r[x] = IF x = no THEN record ELSE q[x]
  BY DEF Queues
<1> HIDE DEF r
<1>2. FiledIn(r) = FiledIn(q) \cup {no}
  BY <1>1, NoRecordIsNone DEF FiledIn
<1>3. \A x \in FiledIn(q) \ {no} : r[x] = q[x]
  BY <1>1 DEF FiledIn
<1> QED
  BY <1>1, <1>2, <1>3 DEF r

(* The numbers stay in order when the record about to be filed is filed. *)
LEMMA OneMoreNumber ==
    ASSUME NEW v, NEW w, NEW q, NEW r, NEW t \in SUBSET Numbers, NumbersOK(v, q, t),
           v.step = "enqueue", v.no \in Numbers, w.step # "enqueue",
           FiledIn(r) = FiledIn(q) \cup {v.no}
    PROVE  NumbersOK(w, r, t) /\ v.no \notin FiledIn(q) \cup t
<1> DEFINE no == v.no
           filed == FiledIn(q)
<1>1. no.count = Total(q, t) + 1
  BY DEF NumbersOK
<1>2. no \notin filed \cup t
  BY <1>1, NextIsNew
<1>3. IsFiniteSet(filed) /\ IsFiniteSet(t)
  BY DEF NumbersOK
<1>4. \A x \in filed \cup t : x.count <= Total(q, t) /\ x.count \in Nat
  BY DEF NumbersOK, FiledIn, Numbers
<1>5. Cardinality(filed) \in Nat /\ Cardinality(t) \in Nat
  BY <1>3, FS_CardinalityType
<1>6. Total(q, t) = Cardinality(filed) + Cardinality(t)
  BY DEF Total
<1> HIDE DEF no, filed
<1>7. IsFiniteSet(filed \cup {no}) /\ Cardinality(filed \cup {no}) = Cardinality(filed) + 1
  BY <1>2, <1>3, AddOne
<1>8. FiledIn(r) = filed \cup {no}
  BY DEF filed, no
<1>9. Total(r, t) = Total(q, t) + 1
  <2>1. Total(r, t) = Cardinality(FiledIn(r)) + Cardinality(t)
    BY DEF Total
  <2> QED
    BY <1>5, <1>6, <1>7, <1>8, <2>1
<1>10. \A x \in FiledIn(r) \cup t : x.count <= Total(r, t)
  <2> SUFFICES ASSUME NEW x \in FiledIn(r) \cup t PROVE x.count <= Total(q, t) + 1
    BY <1>9
  <2>1. Total(q, t) \in Nat
    BY <1>5, <1>6
  <2>2. CASE x = no
    BY <1>1, <2>1, <2>2 DEF no
  <2>3. CASE x \in filed \cup t
    BY <1>4, <2>1, <2>3
  <2> QED
    BY <1>8, <2>2, <2>3
<1>11. IsFiniteSet(FiledIn(r))
  BY <1>7, <1>8
<1>12. NumbersOK(w, r, t)
  BY <1>3, <1>10, <1>11 DEF NumbersOK
<1> QED
  BY <1>2, <1>12 DEF no, filed

(* The numbers are the same for a node that is at something else, whatever *)
(* state the records are in.                                               *)
LEMMA NumbersKept ==
    ASSUME NEW v, NEW w, NEW q, NEW r, NEW t, NumbersOK(v, q, t),
           w.step # "enqueue", FiledIn(r) = FiledIn(q)
    PROVE  NumbersOK(w, r, t)
BY DEF NumbersOK, Total

(* One more leftover, of a record that is on file or about to be. *)
LEMMA OneMoreLeft ==
    ASSUME NEW v, NEW w, NEW q, NEW t \in SUBSET Numbers, NumbersOK(v, q, t),
           w.step # "enqueue", NEW no \in Numbers,
           no \in FiledIn(q) \/ (v.step = "enqueue" /\ no = v.no)
    PROVE  NumbersOK(w, q, t \cup {no})
<1> DEFINE filed == FiledIn(q)
           more == t \cup {no}
<1>1. CASE no \in t
  <2>1. more = t
    BY <1>1
  <2> HIDE DEF more
  <2>2. NumbersOK(w, q, t)
    BY NumbersKept
  <2> QED
    BY <2>1, <2>2 DEF more
<1>2. CASE no \notin t
  <2>1. IsFiniteSet(filed) /\ IsFiniteSet(t)
    BY DEF NumbersOK
  <2>2. IsFiniteSet(more) /\ Cardinality(more) = Cardinality(t) + 1
    BY <1>2, <2>1, AddOne
  <2>3. Cardinality(filed) \in Nat /\ Cardinality(t) \in Nat
    BY <2>1, FS_CardinalityType
  <2>4. Total(q, t) = Cardinality(filed) + Cardinality(t)
    BY DEF Total
  <2>5. \A x \in filed \cup t : x.count <= Total(q, t) /\ x.count \in Nat
    BY DEF NumbersOK, FiledIn, Numbers
  <2>6. no.count <= Total(q, t) + 1 /\ no.count \in Nat
    <3>1. CASE no \in filed
      BY <2>3, <2>4, <2>5, <3>1
    <3>2. CASE v.step = "enqueue" /\ no = v.no
      BY <2>3, <2>4, <3>2 DEF NumbersOK
    <3> QED
      BY <3>1, <3>2
  <2> HIDE DEF filed, more
  <2>7. Total(q, more) = Total(q, t) + 1
    BY <2>2, <2>3, <2>4 DEF Total, filed
  <2>8. \A x \in filed \cup more : x.count <= Total(q, more)
    <3> SUFFICES ASSUME NEW x \in filed \cup more PROVE x.count <= Total(q, t) + 1
      BY <2>7
    <3>1. Total(q, t) \in Nat
      BY <2>3, <2>4
    <3>2. x = no \/ x \in filed \cup t
      BY DEF more
    <3> QED
      BY <2>5, <2>6, <3>1, <3>2
  <2>9. NumbersOK(w, q, more)
    BY <2>1, <2>2, <2>8 DEF NumbersOK, filed
  <2> QED
    BY <2>9 DEF more
<1> QED
  BY <1>1, <1>2

(* Files in a folder. *)
LEMMA FolderType ==
    ASSUME NEW files \in SUBSET Files, NEW no, NEW f \in Files
    PROVE  Without(files, no) \in SUBSET Files /\ With(files, no, f) \in SUBSET Files
BY DEF Without, With

(* The folders, when one of them changes. *)
LEMMA FoldersType ==
    ASSUME TypeOK, NEW k, NEW files \in SUBSET Files, folder' = [folder EXCEPT ![k] = files]
    PROVE  folder' \in [Nodes -> SUBSET Files]
BY DEF TypeOK

(* What is archived is a file. *)
LEMMA ReadIsFile ==
    ASSUME TypeOK, NEW n \in Nodes, NEW no \in Numbers, Archived(n, no)
    PROVE  ReadArchived(n, no) \in Files
BY RowTypes DEF Archived, ReadArchived, Archives

-----------------------------------------------------------------------------
(* Putting a step together. *)

(* What a step of one node does to the work of the others: an answer       *)
(* reaches one that waits, or nobody waits for the push it is at any more. *)
OthersGoOn(n) ==
    \A m \in Nodes \ {n} :
        \/ work'[m] = work[m]
        \/ work'[m] = [work[m] EXCEPT !.by = NoNode]
        \/ Waiting(m) /\ work'[m] = [work[m] EXCEPT !.step = "answered"]

(* A node that is not stepping stays in order. *)
LEMMA OtherNode ==
    ASSUME ExchangeInv, NEW n \in Nodes, OthersGoOn(n), NEW m \in Nodes \ {n},
           queue'[m] = queue[m], in'[m] = in[m], out'[m] = out[m], done'[m] = done[m],
           torn'[m] = torn[m], died \subseteq died', gone \subseteq gone'
    PROVE  NodeOK(m)' /\ work'[m] \in Works
<1> DEFINE v == work[m]
           w == work'[m]
<1>1. v \in Works
  BY RowTypes DEF ExchangeInv
<1>2. /\ w \in Works /\ w.file = v.file /\ w.no = v.no /\ w.to = v.to
      /\ w.step = v.step \/ (v.step = "wait" /\ w.step = "answered")
  BY <1>1 DEF OthersGoOn, Waiting, Works, Steps
<1>3. NodeOK(m)
  BY DEF ExchangeInv
<1> HIDE DEF v, w
<1>4. HandOK(v, queue[m], in[m], out[m], done[m]) => HandOK(w, queue[m], in[m], out[m], done[m])
  BY <1>2 DEF HandOK
<1>5. AllProcessed(v, in[m], done[m]) => AllProcessed(w, in[m], done[m])
  BY <1>2 DEF AllProcessed
<1>6. NumbersOK(v, queue[m], torn[m]) => NumbersOK(w, queue[m], torn[m])
  BY <1>2 DEF NumbersOK
<1> QED
  BY <1>2, <1>3, <1>4, <1>5, <1>6 DEF NodeOK, v, w

(* A step of one node: what is to be shown of it. *)
LEMMA Together ==
    ASSUME ExchangeInv, NEW n \in Nodes,
           NEW q \in Queues, NEW i \in Archives, NEW o \in Archives, NEW d \in Counts,
           queue' = [queue EXCEPT ![n] = q], in' = [in EXCEPT ![n] = i],
           out' = [out EXCEPT ![n] = o], done' = [done EXCEPT ![n] = d],
           NEW t \in SUBSET Numbers, torn' = [torn EXCEPT ![n] = t],
           NEW w \in Works, work' = [m \in Nodes |-> work'[m]], work'[n] = w,
           OthersGoOn(n),
           HandOK(w, q, i, o, d), BooksOK(q, i, o, d),
           n \notin died' => AllProcessed(w, i, d),
           n \notin gone' => NumbersOK(w, q, t) /\ Kept(queue[n], q, out[n], o),
           PushesOK',
           UNCHANGED setup, folder' \in [Nodes -> SUBSET Files], calls' \subseteq Calls,
           agenda' \subseteq agenda, fragile' \subseteq fragile,
           died \subseteq died', died' \subseteq died \cup {n},
           gone \subseteq gone', gone' \subseteq gone \cup {n}
    PROVE  ExchangeInv' /\ FiledKept
<1>1. /\ queue \in [Nodes -> Queues] /\ in \in [Nodes -> Archives]
      /\ out \in [Nodes -> Archives] /\ done \in [Nodes -> Counts]
      /\ torn \in [Nodes -> SUBSET Numbers] /\ gone \subseteq Nodes
  BY DEF ExchangeInv, TypeOK, Queues, Archives, Counts
<1>2. /\ queue' \in [Nodes -> Queues] /\ in' \in [Nodes -> Archives]
      /\ out' \in [Nodes -> Archives] /\ done' \in [Nodes -> Counts]
      /\ torn' \in [Nodes -> SUBSET Numbers] /\ gone' \subseteq Nodes
      /\ queue'[n] = q /\ in'[n] = i /\ out'[n] = o /\ done'[n] = d /\ torn'[n] = t
  BY <1>1
<1>3. \A m \in Nodes \ {n} : /\ queue'[m] = queue[m] /\ in'[m] = in[m]
                             /\ out'[m] = out[m] /\ done'[m] = done[m] /\ torn'[m] = torn[m]
  BY <1>1
<1>4. \A m \in Nodes \ {n} : NodeOK(m)' /\ work'[m] \in Works
  BY <1>3, OtherNode
<1>5. NodeOK(n)'
  BY <1>2 DEF NodeOK
<1>6. work' \in [Nodes -> Works]
  BY <1>4
<1>7. TypeOK'
  BY <1>2, <1>6 DEF ExchangeInv, TypeOK, setup, Queues, Archives, Counts
<1>8. FiledKept
  BY <1>2, <1>3 DEF FiledKept, Kept
<1> QED
  BY <1>4, <1>5, <1>7, <1>8 DEF ExchangeInv
-----------------------------------------------------------------------------
(* The pushes. *)

(* Nobody begins or ends a push. *)
LEMMA PushesKept ==
    ASSUME TypeOK, PushesOK, calls' = calls,
           \A m \in Nodes : /\ work'[m].by \in {work[m].by, NoNode}
                            /\ Waiting(m) => work'[m].step = "wait"
    PROVE  PushesOK'
<1>1. \A c \in calls : c.by # NoNode => c.by \in Nodes
  BY DEF TypeOK, Calls
<1>2. \A n \in Nodes : work[n].by # NoNode => work[n].by \in Nodes
  BY RowTypes DEF Works
<1> QED
  BY <1>1, <1>2 DEF PushesOK, Waiting

(* A node does something of its own. *)
LEMMA OwnStep ==
    ASSUME TypeOK, NEW n \in Nodes, NEW w, Become(n, w)
    PROVE  /\ work' = [m \in Nodes |-> work'[m]] /\ work'[n] = w
           /\ \A m \in Nodes \ {n} : work'[m] = work[m]
           /\ OthersGoOn(n)
<1>1. work = [m \in Nodes |-> work[m]]
  BY DEF TypeOK
<1> QED
  BY <1>1 DEF Become, OthersGoOn

(* The same, and no push is begun or ended. *)
LEMMA OwnPushes ==
    ASSUME TypeOK, PushesOK, NEW n \in Nodes, NEW w, Become(n, w),
           ~Waiting(n), calls' = calls, w.by \in {work[n].by, NoNode}
    PROVE  PushesOK'
<1>1. \A m \in Nodes : /\ work'[m].by \in {work[m].by, NoNode}
                       /\ Waiting(m) => work'[m].step = "wait"
  BY OwnStep DEF Waiting
<1> QED
  BY <1>1, PushesKept

(* A file is through: whoever waits for it has the answer, and nobody else *)
(* waits for the same.                                                     *)
LEMMA FinishPushes ==
    ASSUME TypeOK, PushesOK, NEW n \in Nodes, NEW w \in Works, Finish(n, w),
           ~Waiting(n), calls' \subseteq calls,
           w.by # NoNode => Waiting(w.by),
           \A c \in calls' : w.by # NoNode => c.by # w.by,
           \A m \in Nodes \ {n} : w.by # NoNode => work[m].by # w.by
    PROVE  /\ work' = [m \in Nodes |-> work'[m]] /\ work'[n] = AfterIngest(w)
           /\ OthersGoOn(n)
           /\ PushesOK'
<1>1. \A c \in calls : c.by # NoNode => c.by \in Nodes
  BY DEF TypeOK, Calls
<1>2. \A m \in Nodes : work[m] \in Works /\ (work[m].by # NoNode => work[m].by \in Nodes)
  BY RowTypes DEF Works
<1>3. /\ work' = [m \in Nodes |-> work'[m]] /\ work'[n] = AfterIngest(w)
      /\ \A m \in Nodes \ {n} :
           work'[m] = IF m = w.by THEN [work[m] EXCEPT !.step = "answered"] ELSE work[m]
  BY DEF Finish
<1>4. OthersGoOn(n)
  BY <1>3 DEF OthersGoOn
<1>5. AfterIngest(w).by = NoNode
  BY DEF AfterIngest, Idle
<1>6. \A m \in Nodes \ {n} : /\ work'[m].by = work[m].by
                             /\ m # w.by => work'[m].step = work[m].step
  BY <1>2, <1>3 DEF Works
<1>7. \A c \in calls' : c.by # NoNode => c.by # n /\ c.by # w.by /\ Waiting(c.by)
  BY DEF PushesOK
<1>8. \A c \in calls' : c.by # NoNode => work'[c.by].step = "wait"
  BY <1>1, <1>6, <1>7 DEF Waiting
<1>9. \A m \in Nodes : work'[m].by # NoNode => work'[work'[m].by].step = "wait"
  <2> SUFFICES ASSUME NEW m \in Nodes, work'[m].by # NoNode PROVE work'[work'[m].by].step = "wait"
    OBVIOUS
  <2>1. m # n /\ work'[m].by = work[m].by
    BY <1>3, <1>5, <1>6
  <2>2. work[m].by \in Nodes /\ Waiting(work[m].by) /\ work[m].by # n /\ work[m].by # w.by
    BY <1>2, <2>1 DEF PushesOK
  <2> QED
    BY <1>6, <2>1, <2>2 DEF Waiting
<1>10. \A m, k \in Nodes : work'[m].by # NoNode /\ work'[m].by = work'[k].by => m = k
  BY <1>3, <1>5, <1>6 DEF PushesOK
<1>11. \A c \in calls', m \in Nodes : c.by # NoNode => work'[m].by # c.by
  BY <1>3, <1>5, <1>6 DEF PushesOK
<1>12. \A c, d \in calls' : c.by # NoNode /\ c.by = d.by => c = d
  BY DEF PushesOK
<1>13. \A m \in Nodes : work'[m].by # m
  BY <1>3, <1>5, <1>6 DEF PushesOK
<1> QED
  BY <1>3, <1>4, <1>8, <1>9, <1>10, <1>11, <1>12, <1>13 DEF PushesOK, Waiting

(* Nobody waits for n's push any more. *)
LEMMA AbandonedPushes ==
    ASSUME TypeOK, PushesOK, NEW n \in Nodes, NEW w \in Works,
           work' = [m \in Nodes |-> IF m = n THEN w ELSE Abandoned(n, work[m])],
           w.by \in {work[n].by, NoNode}, calls' \subseteq Orphaned(n)
    PROVE  /\ work' = [m \in Nodes |-> work'[m]] /\ work'[n] = w
           /\ OthersGoOn(n)
           /\ calls' \subseteq Calls
           /\ PushesOK'
<1>1. \A c \in calls : c \in Calls /\ (c.by # NoNode => c.by \in Nodes)
  BY DEF TypeOK, Calls
<1>2. \A m \in Nodes : work[m] \in Works /\ (work[m].by # NoNode => work[m].by \in Nodes)
  BY RowTypes DEF Works
<1>3. /\ work' = [m \in Nodes |-> work'[m]] /\ work'[n] = w
      /\ \A m \in Nodes \ {n} :
           work'[m] = IF work[m].by = n THEN [work[m] EXCEPT !.by = NoNode] ELSE work[m]
  BY DEF Abandoned
<1>4. OthersGoOn(n)
  BY <1>3 DEF OthersGoOn
<1>5. \A m \in Nodes \ {n} : /\ work'[m].by = IF work[m].by = n THEN NoNode ELSE work[m].by
                             /\ work'[m].step = work[m].step
  BY <1>2, <1>3 DEF Works
<1>6. \A m \in Nodes : /\ work'[m].by # n
                       /\ work'[m].by # NoNode => work'[m].by = work[m].by
  BY <1>3, <1>5 DEF PushesOK
<1>7. \A c \in calls' : \E b \in calls :
         /\ c = [b EXCEPT !.by = IF @ = n THEN NoNode ELSE @]
         /\ c.by # n
         /\ c.by # NoNode => c = b
  <2> SUFFICES ASSUME NEW c \in calls'
               PROVE  \E b \in calls : /\ c = [b EXCEPT !.by = IF @ = n THEN NoNode ELSE @]
                                       /\ c.by # n
                                       /\ c.by # NoNode => c = b
    OBVIOUS
  <2>1. PICK b \in calls : c = [b EXCEPT !.by = IF @ = n THEN NoNode ELSE @]
    BY DEF Orphaned
  <2>2. b \in Calls
    BY <1>1
  <2> QED
    BY <2>1, <2>2 DEF Calls
<1>8. calls' \subseteq Calls
  <2> SUFFICES ASSUME NEW c \in calls' PROVE c \in Calls
    OBVIOUS
  <2>1. PICK b \in calls : c = [b EXCEPT !.by = IF @ = n THEN NoNode ELSE @]
    BY <1>7
  <2> QED
    BY <1>1, <2>1 DEF Calls
<1>9. \A c \in calls' : c.by # NoNode => c \in calls /\ c.by # n
  BY <1>7
<1>10. \A c \in calls' : c.by # NoNode => work'[c.by].step = "wait"
  BY <1>1, <1>5, <1>9 DEF PushesOK, Waiting
<1>11. \A m \in Nodes : work'[m].by # NoNode => work'[work'[m].by].step = "wait"
  BY <1>2, <1>5, <1>6 DEF PushesOK, Waiting
<1>12. \A m, k \in Nodes : work'[m].by # NoNode /\ work'[m].by = work'[k].by => m = k
  BY <1>6 DEF PushesOK
<1>13. \A c \in calls', m \in Nodes : c.by # NoNode => work'[m].by # c.by
  BY <1>6, <1>9 DEF PushesOK
<1>14. \A c, d \in calls' : c.by # NoNode /\ c.by = d.by => c = d
  BY <1>9 DEF PushesOK
<1>15. \A m \in Nodes : work'[m].by # m
  BY <1>6 DEF PushesOK
<1> QED
  BY <1>3, <1>4, <1>8, <1>10, <1>11, <1>12, <1>13, <1>14, <1>15 DEF PushesOK, Waiting
-----------------------------------------------------------------------------
(* Steps that leave queue and archive alone. *)

(* One node has other things at hand; a file it lets go was not there, or  *)
(* its server dies.                                                        *)
LEMMA OnlyHand ==
    ASSUME ExchangeInv, NEW n \in Nodes, NEW w \in Works,
           UNCHANGED <<setup, leftovers, queue, in, out, done, agenda>>,
           folder' \in [Nodes -> SUBSET Files], calls' \subseteq Calls,
           fragile' \subseteq fragile, died \subseteq died', died' \subseteq died \cup {n},
           work' = [m \in Nodes |-> work'[m]], work'[n] = w, OthersGoOn(n), PushesOK',
           w.step # "enqueue",
           HandOK(w, queue[n], in[n], out[n], done[n]),
           n \in died' \/ work[n].file \in {w.file, NoFile}
    PROVE  ExchangeInv' /\ FiledKept
<1>1. /\ queue[n] \in Queues /\ in[n] \in Archives /\ out[n] \in Archives /\ done[n] \in Counts
      /\ torn[n] \in SUBSET Numbers
  BY RowTypes DEF ExchangeInv
<1>2. /\ queue' = [queue EXCEPT ![n] = queue[n]] /\ in' = [in EXCEPT ![n] = in[n]]
      /\ out' = [out EXCEPT ![n] = out[n]] /\ done' = [done EXCEPT ![n] = done[n]]
      /\ torn' = [torn EXCEPT ![n] = torn[n]]
  BY DEF ExchangeInv, TypeOK, leftovers
<1>3. NodeOK(n)
  BY DEF ExchangeInv
<1>4. n \notin died' => AllProcessed(w, in[n], done[n])
  BY <1>3 DEF NodeOK, AllProcessed
<1>5. n \notin gone' => /\ NumbersOK(w, queue[n], torn[n])
                        /\ Kept(queue[n], queue[n], out[n], out[n])
  <2>1. n \notin gone => NumbersOK(w, queue[n], torn[n])
    BY <1>3, NumbersKept DEF NodeOK
  <2> QED
    BY <2>1 DEF Kept, leftovers
<1> QED
  BY <1>1, <1>2, <1>3, <1>4, <1>5, Together DEF NodeOK, leftovers

(* Nothing at hand is in order. *)
LEMMA QuietHand ==
    ASSUME NEW w, w.step \in {"idle", "collect", "remove", "take"}, w.file = NoFile,
           NEW q, NEW i, NEW o, NEW d
    PROVE  HandOK(w, q, i, o, d)
BY DEF HandOK

(* The parts of the invariant that concern one node. *)
LEMMA OfNode ==
    ASSUME ExchangeInv, NEW n \in Nodes
    PROVE  /\ HandOK(work[n], queue[n], in[n], out[n], done[n])
           /\ BooksOK(queue[n], in[n], out[n], done[n])
           /\ n \notin died => AllProcessed(work[n], in[n], done[n])
           /\ n \notin gone => NumbersOK(work[n], queue[n], torn[n])
           /\ work[n] \in Works
BY RowTypes DEF ExchangeInv, NodeOK

(* Reading the folder. *)
LEMMA ReceiveStep ==
    ASSUME ExchangeInv, NEW n \in Nodes, Receive(n)
    PROVE  ExchangeInv' /\ FiledKept
<1>0. /\ work[n] \in Works /\ HandOK(work[n], queue[n], in[n], out[n], done[n])
      /\ TypeOK /\ PushesOK /\ folder[n] \in SUBSET Files
  BY OfNode DEF ExchangeInv, TypeOK
<1>1. PICK w \in Works :
         /\ Become(n, w) /\ ~Waiting(n)
         /\ w.step \in {"idle", "collect", "remove", "take"} /\ w.file = NoFile
         /\ w.by \in {work[n].by, NoNode}
         /\ work[n].file = NoFile
  <2>1. CASE Collect(n)
    <3> DEFINE w == [Idle EXCEPT !.step = "collect", !.names = {f.no : f \in folder[n]}]
    <3>1. {f.no : f \in folder[n]} \in SUBSET Numbers
      BY <1>0 DEF Files
    <3>2. /\ w \in Works /\ w.step = "collect" /\ w.file = NoFile /\ w.by = NoNode
      BY <3>1, IdleType DEF Works, Steps
    <3>3. Become(n, w) /\ work[n].step = "idle"
      BY <2>1 DEF Collect, At
    <3> HIDE DEF w
    <3> QED
      BY <1>0, <3>2, <3>3 DEF HandOK, Waiting
  <2>2. ASSUME NEW f \in folder[n], ReadFile(n, f)
        PROVE  \E w \in Works :
                 /\ Become(n, w) /\ ~Waiting(n)
                 /\ w.step \in {"idle", "collect", "remove", "take"} /\ w.file = NoFile
                 /\ w.by \in {work[n].by, NoNode}
                 /\ work[n].file = NoFile
    <3> DEFINE w == [work[n] EXCEPT !.step = "remove", !.batch = @ \cup {f}, !.no = f.no]
    <3>1. f \in Files /\ f.no \in Numbers
      BY <1>0 DEF Files
    <3>2. /\ w \in Works /\ w.step = "remove" /\ w.file = work[n].file /\ w.by = work[n].by
      BY <1>0, <3>1 DEF Works, Steps
    <3>3. Become(n, w) /\ work[n].step = "collect"
      BY <2>2 DEF ReadFile, At
    <3> HIDE DEF w
    <3> QED
      BY <1>0, <3>2, <3>3 DEF HandOK, Waiting
  <2>3. ASSUME NEW no \in work[n].names, ReadFails(n, no)
        PROVE  \E w \in Works :
                 /\ Become(n, w) /\ ~Waiting(n)
                 /\ w.step \in {"idle", "collect", "remove", "take"} /\ w.file = NoFile
                 /\ w.by \in {work[n].by, NoNode}
                 /\ work[n].file = NoFile
    <3>1. Become(n, Idle) /\ work[n].step = "collect"
      BY <2>3 DEF ReadFails, At
    <3> QED
      BY <1>0, <3>1, IdleType DEF HandOK, Waiting
  <2>4. CASE RemoveFile(n)
    <3> DEFINE left == work[n].names \ {work[n].no}
               w == [work[n] EXCEPT !.step = IF left = {} THEN "take" ELSE "collect",
                                    !.names = left, !.no = NoNumber]
    <3>1. /\ w \in Works /\ w.step \in {"take", "collect"}
          /\ w.file = work[n].file /\ w.by = work[n].by
      BY <1>0 DEF Works, Steps
    <3>2. Become(n, w) /\ work[n].step = "remove"
      BY <2>4 DEF RemoveFile, At
    <3> HIDE DEF w
    <3> QED
      BY <1>0, <3>1, <3>2 DEF HandOK, Waiting
  <2> QED
    BY <2>1, <2>2, <2>3, <2>4 DEF Receive
<1>2. UNCHANGED <<setup, leftovers, queue, in, out, done, agenda, calls, fragile, died>>
  BY DEF Receive, Collect, ReadFile, ReadFails, RemoveFile
<1>3. folder' \in [Nodes -> SUBSET Files]
  <2>1. folder' = folder \/ folder' = [folder EXCEPT ![n] = Without(@, work[n].no)]
    BY DEF Receive, Collect, ReadFile, ReadFails, RemoveFile
  <2>2. Without(folder[n], work[n].no) \in SUBSET Files
    BY <1>0 DEF Without
  <2>3. folder \in [Nodes -> SUBSET Files]
    BY <1>0 DEF TypeOK
  <2> QED
    BY <1>0, <2>1, <2>2, <2>3, FoldersType
<1>4. HandOK(w, queue[n], in[n], out[n], done[n]) /\ w.step # "enqueue"
  BY <1>1, QuietHand
<1>5. /\ work' = [m \in Nodes |-> work'[m]] /\ work'[n] = w
      /\ OthersGoOn(n) /\ PushesOK'
  BY <1>0, <1>1, <1>2, OwnStep, OwnPushes
<1>6. calls' \subseteq Calls
  BY <1>0, <1>2 DEF TypeOK
<1> QED
  BY <1>1, <1>2, <1>3, <1>4, <1>5, <1>6, OnlyHand

(* Another attempt begins. *)
LEMMA RetryStep ==
    ASSUME ExchangeInv, NEW n \in Nodes, NEW no \in Numbers, RetryDelivery(n, no)
    PROVE  ExchangeInv' /\ FiledKept
<1> DEFINE w == [Idle EXCEPT !.step = "deliver", !.no = no]
<1>1. /\ w \in Works /\ w.step = "deliver" /\ w.file = NoFile /\ w.by = NoNode /\ w.no = no
  BY IdleType DEF Works, Steps
<1>2. /\ Become(n, w) /\ work[n].step = "idle" /\ no \in FiledIn(queue[n])
      /\ UNCHANGED <<setup, leftovers, queue, in, out, done, agenda, folder, calls, fragile, died>>
  BY DEF RetryDelivery, At, Filed, FiledIn
<1> HIDE DEF w
<1>3. work[n].file = NoFile
  BY <1>2, OfNode DEF HandOK
<1>4. HandOK(w, queue[n], in[n], out[n], done[n])
  BY <1>1, <1>2 DEF HandOK
<1>5. /\ work' = [m \in Nodes |-> work'[m]] /\ work'[n] = w
      /\ OthersGoOn(n) /\ PushesOK'
  BY <1>1, <1>2, OwnStep, OwnPushes DEF ExchangeInv, Waiting
<1>6. calls' \subseteq Calls /\ folder' \in [Nodes -> SUBSET Files]
  BY <1>2 DEF ExchangeInv, TypeOK
<1> QED
  BY <1>1, <1>2, <1>3, <1>4, <1>5, <1>6, OnlyHand
-----------------------------------------------------------------------------
(* Attempts. *)

Attempting(n) == work[n].step \in {"deliver", "upload", "wait", "answered"}

(* What is being sent is on file, and archived. *)
LEMMA SendingIs ==
    ASSUME ExchangeInv, NEW n \in Nodes, Attempting(n)
    PROVE  /\ work[n].no \in FiledIn(queue[n])
           /\ Sending(n).to \in Nodes
           /\ Bytes(n) \in Files
<1>1. work[n].no \in FiledIn(queue[n]) /\ work[n].no \in Numbers
  BY OfNode DEF Attempting, HandOK, FiledIn
<1>2. queue[n][work[n].no] \in Records
  BY <1>1, RowTypes DEF ExchangeInv, FiledIn, Queues
<1>3. out[n][work[n].no] # NoFile
  BY <1>1, OfNode DEF BooksOK
<1>4. Bytes(n) \in Files
  BY <1>1, <1>3, ReadIsFile DEF ExchangeInv, Archived, Bytes
<1> QED
  BY <1>1, <1>2, <1>4 DEF Sending, Records

(* What is at hand when an attempt is over. *)
LEMMA AttemptOver ==
    ASSUME ExchangeInv, NEW n \in Nodes, Attempting(n)
    PROVE  LET w == AfterAttempt(work[n]) IN
           /\ w \in Works /\ w.by \in {work[n].by, NoNode} /\ w.file = work[n].file
           /\ w.step \in {"idle", "process"}
           /\ HandOK(w, queue[n], in[n], out[n], done[n])
<1> DEFINE v == work[n]
           w == AfterAttempt(v)
<1>1. v \in Works /\ HandOK(v, queue[n], in[n], out[n], done[n])
  BY OfNode
<1>2. CASE v.file = NoFile
  BY <1>2, IdleType, QuietHand DEF AfterAttempt
<1>3. CASE v.file # NoFile
  <2>1. w = [v EXCEPT !.step = "process", !.no = NoNumber]
    BY <1>3 DEF AfterAttempt
  <2>2. /\ w \in Works /\ w.step = "process" /\ w.by = v.by /\ w.file = v.file
    BY <1>1, <2>1 DEF Works, Steps
  <2>3. v.step # "archive"
    BY DEF Attempting
  <2> HIDE DEF v, w
  <2>4. HandOK(w, queue[n], in[n], out[n], done[n])
    BY <1>1, <1>3, <2>2, <2>3 DEF HandOK
  <2> QED
    BY <2>2, <2>4 DEF v, w
<1> QED
  BY <1>2, <1>3

(* The state of a record that is on file is written. *)
LEMMA Recorded ==
    ASSUME ExchangeInv, NEW n \in Nodes, NEW no \in FiledIn(queue[n]), NEW state \in States,
           queue' = [queue EXCEPT ![n][no] = [@ EXCEPT !.state = state]], Save(n, no),
           UNCHANGED <<setup, in, out, done, agenda, fragile, died>>,
           folder' \in [Nodes -> SUBSET Files], calls' \subseteq Calls,
           NEW w \in Works, work' = [m \in Nodes |-> work'[m]], work'[n] = w,
           OthersGoOn(n), PushesOK',
           w.step # "enqueue",
           HandOK(w, queue[n], in[n], out[n], done[n]),
           n \notin died => AllProcessed(w, in[n], done[n])
    PROVE  ExchangeInv' /\ FiledKept
<1> DEFINE q == [queue[n] EXCEPT ![no] = [@ EXCEPT !.state = state]]
           t == torn[n] \ {no}
<1>1. /\ queue[n] \in Queues /\ in[n] \in Archives /\ out[n] \in Archives /\ done[n] \in Counts
      /\ torn[n] \in SUBSET Numbers /\ t \in SUBSET Numbers
  BY RowTypes DEF ExchangeInv
<1>2. /\ q \in Queues
      /\ FiledIn(q) = FiledIn(queue[n])
      /\ \A x \in FiledIn(queue[n]) : q[x].to = queue[n][x].to
  BY <1>1, OtherState
<1>3. /\ queue' = [queue EXCEPT ![n] = q] /\ in' = [in EXCEPT ![n] = in[n]]
      /\ out' = [out EXCEPT ![n] = out[n]] /\ done' = [done EXCEPT ![n] = done[n]]
      /\ torn' = [torn EXCEPT ![n] = t]
      /\ gone \subseteq gone' /\ gone' \subseteq gone \cup {n}
      /\ n \notin gone' => n \notin gone /\ t = torn[n]
  BY DEF ExchangeInv, TypeOK, Save
<1> HIDE DEF q, t
<1>4. BooksOK(q, in[n], out[n], done[n])
  BY <1>2, OfNode DEF BooksOK
<1>5. HandOK(w, q, in[n], out[n], done[n])
  BY <1>2 DEF HandOK
<1>6. n \notin gone' => NumbersOK(w, q, t) /\ Kept(queue[n], q, out[n], out[n])
  <2>1. Kept(queue[n], q, out[n], out[n])
    BY <1>2 DEF Kept
  <2>2. n \notin gone => NumbersOK(w, q, torn[n])
    BY <1>2, OfNode, NumbersKept
  <2> QED
    BY <1>3, <2>1, <2>2
<1> QED
  BY <1>1, <1>2, <1>3, <1>4, <1>5, <1>6, Together

(* An attempt that is over, as far as the node itself is concerned. *)
LEMMA AttemptRecorded ==
    ASSUME ExchangeInv, NEW n \in Nodes, Attempting(n), NEW outcome, RecordAttempt(n, outcome),
           outcome \in {"failed", "handed_over"},
           UNCHANGED <<setup, in, out, done, agenda, fragile, died>>,
           folder' \in [Nodes -> SUBSET Files], calls' \subseteq Calls,
           work' = [m \in Nodes |-> work'[m]], work'[n] = AfterAttempt(work[n]),
           OthersGoOn(n), PushesOK'
    PROVE  ExchangeInv' /\ FiledKept
<1> DEFINE w == AfterAttempt(work[n])
           no == work[n].no
           state == CASE outcome = "failed" -> "failed"
                      [] outcome = "handed_over" /\ IsReceipt(no) -> "delivered"
                      [] OTHER -> "handed_over"
<1>1. /\ w \in Works /\ w.file = work[n].file /\ w.step # "enqueue"
      /\ HandOK(w, queue[n], in[n], out[n], done[n])
  BY AttemptOver
<1>2. no \in FiledIn(queue[n])
  BY SendingIs
<1>3. queue' = [queue EXCEPT ![n][no] = [@ EXCEPT !.state = state]] /\ Save(n, no)
  BY DEF RecordAttempt
<1>4. state \in States
  BY DEF States
<1>5. n \notin died => AllProcessed(work[n], in[n], done[n])
  BY OfNode
<1>6. work'[n] = w
  OBVIOUS
<1> HIDE DEF w, no, state
<1>7. n \notin died => AllProcessed(w, in[n], done[n])
  BY <1>1, <1>5 DEF AllProcessed
<1> QED
  BY <1>1, <1>2, <1>3, <1>4, <1>6, <1>7, Recorded

(* The attempts that end where they are made. *)
LEMMA AttemptEndsStep ==
    ASSUME ExchangeInv, NEW n \in Nodes,
           DeliverByFolder(n) \/ RenameUpload(n) \/ PushAnswered(n) \/ DeliverFails(n)
    PROVE  ExchangeInv' /\ FiledKept
<1>1. Attempting(n) /\ ~Waiting(n)
  BY DEF DeliverByFolder, RenameUpload, PushAnswered, DeliverFails, At, Attempting, Waiting
<1>2. PICK outcome \in {"failed", "handed_over"} : RecordAttempt(n, outcome)
  BY DEF DeliverByFolder, RenameUpload, PushAnswered, DeliverFails
<1>3. /\ Become(n, AfterAttempt(work[n]))
      /\ UNCHANGED <<setup, in, out, done, agenda, fragile, died, calls>>
  BY DEF DeliverByFolder, RenameUpload, PushAnswered, DeliverFails
<1>4. TypeOK /\ PushesOK
  BY DEF ExchangeInv
<1>5. folder' \in [Nodes -> SUBSET Files]
  <2>1. \/ folder' = folder
        \/ folder' = [folder EXCEPT ![Sending(n).to] = With(@, work[n].no, Bytes(n))]
    BY DEF DeliverByFolder, RenameUpload, PushAnswered, DeliverFails
  <2>2. folder \in [Nodes -> SUBSET Files]
    BY <1>4 DEF TypeOK
  <2>3. Sending(n).to \in Nodes /\ Bytes(n) \in Files
    BY <1>1, SendingIs
  <2>4. With(folder[Sending(n).to], work[n].no, Bytes(n)) \in SUBSET Files
    BY <2>2, <2>3, FolderType
  <2> QED
    BY <1>4, <2>1, <2>2, <2>4, FoldersType
<1>6. AfterAttempt(work[n]).by \in {work[n].by, NoNode}
  BY <1>1, AttemptOver
<1>7. /\ work' = [m \in Nodes |-> work'[m]] /\ work'[n] = AfterAttempt(work[n])
      /\ OthersGoOn(n) /\ PushesOK'
  BY <1>1, <1>3, <1>4, <1>6, OwnStep, OwnPushes
<1>8. calls' \subseteq Calls
  BY <1>3, <1>4 DEF TypeOK
<1> QED
  BY <1>1, <1>2, <1>3, <1>5, <1>7, <1>8, AttemptRecorded

(* An attempt goes on: the step changes and nothing else at hand.          *)
LEMMA AttemptGoesOn ==
    ASSUME ExchangeInv, NEW n \in Nodes, work[n].step = "deliver", NEW step \in {"upload", "wait"}
    PROVE  LET w == [work[n] EXCEPT !.step = step] IN
           /\ w \in Works /\ w.step = step /\ w.by = work[n].by /\ w.file = work[n].file
           /\ HandOK(w, queue[n], in[n], out[n], done[n])
<1> DEFINE v == work[n]
           w == [work[n] EXCEPT !.step = step]
<1>1. v \in Works /\ HandOK(v, queue[n], in[n], out[n], done[n]) /\ v.step = "deliver"
  BY OfNode
<1>2. /\ w \in Works /\ w.step = step /\ w.by = v.by /\ w.file = v.file /\ w.no = v.no
  BY <1>1 DEF Works, Steps
<1> HIDE DEF v, w
<1>3. HandOK(w, queue[n], in[n], out[n], done[n])
  BY <1>1, <1>2 DEF HandOK
<1> QED
  BY <1>2, <1>3 DEF v, w

(* The leftover goes, before the upload. *)
LEMMA SFTPStep ==
    ASSUME ExchangeInv, NEW n \in Nodes, DeliverBySFTP(n)
    PROVE  ExchangeInv' /\ FiledKept
<1> DEFINE w == [work[n] EXCEPT !.step = "upload"]
<1>1. /\ work[n].step = "deliver" /\ Become(n, w)
      /\ folder' = [folder EXCEPT ![Sending(n).to] = Without(@, work[n].no)]
      /\ UNCHANGED <<setup, leftovers, queue, in, out, done, agenda, fragile, died, calls>>
  BY DEF DeliverBySFTP, At
<1>2. /\ w \in Works /\ w.by = work[n].by /\ w.file = work[n].file /\ w.step # "enqueue"
      /\ HandOK(w, queue[n], in[n], out[n], done[n])
  BY <1>1, AttemptGoesOn
<1> HIDE DEF w
<1>3. TypeOK /\ PushesOK
  BY DEF ExchangeInv
<1>4. folder' \in [Nodes -> SUBSET Files]
  <2>1. Sending(n).to \in Nodes
    BY <1>1, SendingIs DEF Attempting
  <2>2. folder \in [Nodes -> SUBSET Files]
    BY <1>3 DEF TypeOK
  <2>3. Without(folder[Sending(n).to], work[n].no) \in SUBSET Files
    BY <2>1, <2>2 DEF Without
  <2> QED
    BY <1>1, <1>3, <2>3, FoldersType
<1>5. /\ work' = [m \in Nodes |-> work'[m]] /\ work'[n] = w
      /\ OthersGoOn(n) /\ PushesOK'
  BY <1>1, <1>2, <1>3, OwnStep, OwnPushes DEF Waiting
<1>6. calls' \subseteq Calls
  BY <1>1, <1>3 DEF TypeOK
<1> QED
  BY <1>1, <1>2, <1>4, <1>5, <1>6, OnlyHand

(* A push begins: nobody waited for one of this node before. *)
LEMMA PushStep ==
    ASSUME ExchangeInv, NEW n \in Nodes, DeliverByPush(n)
    PROVE  ExchangeInv' /\ FiledKept
<1> DEFINE w == [work[n] EXCEPT !.step = "wait"]
           call == [at |-> Sending(n).to, by |-> n, file |-> Bytes(n)]
<1>1. /\ work[n].step = "deliver" /\ Become(n, w) /\ calls' = calls \cup {call}
      /\ UNCHANGED <<setup, leftovers, queue, in, out, done, agenda, fragile, died, folder>>
  BY DEF DeliverByPush, At
<1>2. /\ w \in Works /\ w.by = work[n].by /\ w.file = work[n].file /\ w.step = "wait"
      /\ HandOK(w, queue[n], in[n], out[n], done[n])
  BY <1>1, AttemptGoesOn
<1>3. TypeOK /\ PushesOK
  BY DEF ExchangeInv
<1>4. call \in Calls /\ call.by = n
  BY <1>1, SendingIs DEF Attempting, Calls
<1> HIDE DEF w, call
<1>5. calls' \subseteq Calls /\ folder' \in [Nodes -> SUBSET Files]
  BY <1>1, <1>3, <1>4 DEF TypeOK
<1>6. /\ work' = [m \in Nodes |-> work'[m]] /\ work'[n] = w /\ OthersGoOn(n)
      /\ \A m \in Nodes \ {n} : work'[m] = work[m]
  BY <1>1, <1>3, OwnStep
<1>7. \A m \in Nodes : /\ work'[m].by = work[m].by
                       /\ Waiting(m) => work'[m].step = "wait"
  BY <1>2, <1>6 DEF Waiting
<1>8. ~Waiting(n)
  BY <1>1 DEF Waiting
<1>9. /\ \A c \in calls : c.by # n /\ (c.by # NoNode => c.by \in Nodes)
      /\ \A m \in Nodes : work[m].by # n /\ (work[m].by # NoNode => work[m].by \in Nodes)
  BY <1>3, <1>8, RowTypes DEF PushesOK, TypeOK, Calls, Works
<1>10. PushesOK'
  <2>1. \A c \in calls' : c.by # NoNode => work'[c.by].step = "wait"
    BY <1>1, <1>2, <1>3, <1>4, <1>6, <1>7, <1>9 DEF PushesOK
  <2>2. \A m \in Nodes : work'[m].by # NoNode => work'[work'[m].by].step = "wait"
    BY <1>3, <1>7, <1>9 DEF PushesOK
  <2>3. \A c, d \in calls' : c.by # NoNode /\ c.by = d.by => c = d
    BY <1>1, <1>3, <1>4, <1>9 DEF PushesOK
  <2>4. \A m, k \in Nodes : work'[m].by # NoNode /\ work'[m].by = work'[k].by => m = k
    BY <1>3, <1>7 DEF PushesOK
  <2>5. \A c \in calls', m \in Nodes : c.by # NoNode => work'[m].by # c.by
    BY <1>1, <1>3, <1>4, <1>7, <1>9 DEF PushesOK
  <2>6. \A m \in Nodes : work'[m].by # m
    BY <1>3, <1>7 DEF PushesOK
  <2> QED
    BY <2>1, <2>2, <2>3, <2>4, <2>5, <2>6 DEF PushesOK, Waiting
<1> QED
  BY <1>1, <1>2, <1>5, <1>6, <1>10, OnlyHand

(* A push is given up. *)
LEMMA TimeOutStep ==
    ASSUME ExchangeInv, NEW n \in Nodes, PushTimesOut(n)
    PROVE  ExchangeInv' /\ FiledKept
<1> DEFINE w == AfterAttempt(work[n])
<1>1. /\ work[n].step = "wait" /\ Attempting(n) /\ RecordAttempt(n, "failed")
      /\ calls' = Orphaned(n)
      /\ work' = [m \in Nodes |-> IF m = n THEN w ELSE Abandoned(n, work[m])]
      /\ UNCHANGED <<setup, in, out, done, agenda, fragile, died, folder>>
  BY DEF PushTimesOut, At, Attempting
<1>2. w \in Works /\ w.by \in {work[n].by, NoNode} /\ w.step \in {"idle", "process"}
  BY <1>1, AttemptOver
<1>3. TypeOK /\ PushesOK
  BY DEF ExchangeInv
<1>4. folder' \in [Nodes -> SUBSET Files]
  BY <1>1, <1>3 DEF TypeOK
<1>5. /\ work' = [m \in Nodes |-> work'[m]] /\ work'[n] = w
      /\ OthersGoOn(n) /\ PushesOK' /\ calls' \subseteq Calls
  <2> HIDE DEF w
  <2> QED
    BY <1>1, <1>2, <1>3, AbandonedPushes
<1> QED
  BY <1>1, <1>4, <1>5, AttemptRecorded

(* Resending: the record is opened again and the attempt begins.           *)
LEMMA ResendStep ==
    ASSUME ExchangeInv, NEW n \in Nodes, NEW no \in Numbers, ResendDelivery(n, no)
    PROVE  ExchangeInv' /\ FiledKept
<1> DEFINE w == [Idle EXCEPT !.step = "deliver", !.no = no]
<1>1. /\ w \in Works /\ w.step = "deliver" /\ w.file = NoFile /\ w.by = NoNode /\ w.no = no
  BY IdleType DEF Works, Steps
<1>2. /\ Become(n, w) /\ work[n].step = "idle" /\ no \in FiledIn(queue[n])
      /\ queue' = [queue EXCEPT ![n][no] = [@ EXCEPT !.state = "failed"]] /\ Save(n, no)
      /\ UNCHANGED <<setup, in, out, done, agenda, folder, calls, fragile, died>>
  BY DEF ResendDelivery, At, Filed, FiledIn
<1> HIDE DEF w
<1>3. work[n].file = NoFile
  BY <1>2, OfNode DEF HandOK
<1>4. HandOK(w, queue[n], in[n], out[n], done[n])
  BY <1>1, <1>2 DEF HandOK
<1>5. n \notin died => AllProcessed(w, in[n], done[n])
  BY <1>1, <1>3, OfNode DEF AllProcessed
<1>6. /\ work' = [m \in Nodes |-> work'[m]] /\ work'[n] = w
      /\ OthersGoOn(n) /\ PushesOK'
  BY <1>1, <1>2, OwnStep, OwnPushes DEF ExchangeInv, Waiting
<1>7. calls' \subseteq Calls /\ folder' \in [Nodes -> SUBSET Files]
  BY <1>2 DEF ExchangeInv, TypeOK
<1>8. "failed" \in States
  BY DEF States
<1> QED
  BY <1>1, <1>2, <1>4, <1>5, <1>6, <1>7, <1>8, Recorded

-----------------------------------------------------------------------------
(* Sending. *)

(* A message is composed: its number is on no record of its node.          *)
LEMMA ComposeStep ==
    ASSUME ExchangeInv, NEW n \in Nodes, NEW to \in Nodes, NEW type \in Types \cup {Receipt},
           NEW about \in Numbers \cup {NoNumber}, Compose(n, to, type, about, work[n]),
           work[n].step \in {"idle", "receipt"},
           UNCHANGED <<setup, leftovers, queue, in, folder, calls, agenda, done, fragile, died>>
    PROVE  ExchangeInv' /\ FiledKept
<1> DEFINE v == work[n]
           no == NextNumber(n, type)
           f == [from |-> n, to |-> to, no |-> no, about |-> about]
           o == [out[n] EXCEPT ![no] = f]
           w == [work[n] EXCEPT !.step = "enqueue", !.no = no, !.to = to]
<1>1. no \in Numbers /\ Become(n, w) /\ out' = [out EXCEPT ![n] = o]
  BY DEF Compose
<1>2. /\ v \in Works /\ HandOK(v, queue[n], in[n], out[n], done[n])
      /\ BooksOK(queue[n], in[n], out[n], done[n])
      /\ n \notin died => AllProcessed(v, in[n], done[n])
      /\ n \notin gone => NumbersOK(v, queue[n], torn[n])
  BY OfNode
<1>3. no.count = Total(queue[n], torn[n]) + 1
  BY DEF NextNumber, FiledIn, Filed, Total
<1>4. f \in Files
  BY <1>1 DEF Files
<1>5. f # NoFile
  BY <1>4, NoFileIsNone
<1>6. /\ queue[n] \in Queues /\ in[n] \in Archives /\ out[n] \in Archives /\ done[n] \in Counts
      /\ torn[n] \in SUBSET Numbers
  BY RowTypes DEF ExchangeInv
<1>7. /\ w \in Works /\ w.step = "enqueue" /\ w.no = no /\ w.to = to
      /\ w.file = v.file /\ w.by = v.by
  BY <1>1, <1>2 DEF Works, Steps
<1>8. n \notin gone => no \notin FiledIn(queue[n])
  BY <1>2, <1>3, <1>6, NextIsNew
<1> HIDE DEF no, f
<1>9. /\ o \in Archives /\ o[no] # NoFile
      /\ \A x \in FiledIn(queue[n]) \ {no} : o[x] = out[n][x]
  BY <1>1, <1>4, <1>5, <1>6 DEF Archives, FiledIn
<1> HIDE DEF v, o, w
<1>10. HandOK(w, queue[n], in[n], o, done[n])
  BY <1>1, <1>2, <1>3, <1>7, <1>9 DEF HandOK, v
<1>11. BooksOK(queue[n], in[n], o, done[n])
  BY <1>2, <1>9 DEF BooksOK
<1>12. n \notin died => AllProcessed(w, in[n], done[n])
  BY <1>2, <1>7 DEF AllProcessed
<1>13. n \notin gone' => NumbersOK(w, queue[n], torn[n]) /\ Kept(queue[n], queue[n], out[n], o)
  <2> SUFFICES ASSUME n \notin gone'
               PROVE  NumbersOK(w, queue[n], torn[n]) /\ Kept(queue[n], queue[n], out[n], o)
    OBVIOUS
  <2>1. n \notin gone
    BY DEF leftovers
  <2>2. NumbersOK(w, queue[n], torn[n])
    BY <1>2, <1>3, <1>7, <2>1 DEF NumbersOK
  <2>3. Kept(queue[n], queue[n], out[n], o)
    BY <1>8, <1>9, <2>1 DEF Kept
  <2> QED
    BY <2>2, <2>3
<1>14. /\ work' = [m \in Nodes |-> work'[m]] /\ work'[n] = w
       /\ OthersGoOn(n) /\ PushesOK'
  BY <1>1, <1>7, OwnStep, OwnPushes DEF ExchangeInv, Waiting, v
<1>15. calls' \subseteq Calls /\ folder' \in [Nodes -> SUBSET Files]
  BY DEF ExchangeInv, TypeOK
<1>16. /\ queue' = [queue EXCEPT ![n] = queue[n]] /\ in' = [in EXCEPT ![n] = in[n]]
       /\ done' = [done EXCEPT ![n] = done[n]] /\ torn' = [torn EXCEPT ![n] = torn[n]]
       /\ gone' = gone
  BY DEF ExchangeInv, TypeOK, leftovers
<1> QED
  BY <1>1, <1>6, <1>7, <1>9, <1>10, <1>11, <1>12, <1>13, <1>14, <1>15, <1>16, Together

(* A note, and a receipt, are composed. *)
LEMMA SendStep ==
    ASSUME ExchangeInv, NEW n \in Nodes,
           SendReceipt(n) \/ \E note \in agenda : SendNote(n, note)
    PROVE  ExchangeInv' /\ FiledKept
<1>1. CASE SendReceipt(n)
  <2>1. /\ Compose(n, work[n].file.from, Receipt, work[n].file.no, work[n])
        /\ work[n].step = "receipt"
        /\ UNCHANGED <<setup, leftovers, queue, in, folder, calls, agenda, done, fragile, died>>
    BY <1>1 DEF SendReceipt, At
  <2>2. work[n].file \in Files
    BY <2>1, OfNode DEF HandOK, Works
  <2>3. work[n].file.from \in Nodes /\ work[n].file.no \in Numbers
    BY <2>2 DEF Files
  <2> QED
    BY <2>1, <2>3, ComposeStep
<1>2. ASSUME NEW note \in agenda, SendNote(n, note)
      PROVE  ExchangeInv' /\ FiledKept
  <2>1. /\ Compose(n, note.to, note.type, NoNumber, work[n])
        /\ work[n].step = "idle"
        /\ UNCHANGED <<setup, leftovers, queue, in, folder, calls, agenda, done, fragile, died>>
    BY <1>2 DEF SendNote, At
  <2>2. note.to \in Nodes /\ note.type \in Types
    BY DEF ExchangeInv, TypeOK, Notes
  <2> QED
    BY <2>1, <2>2, ComposeStep
<1> QED
  BY <1>1, <1>2

(* The record is filed: one more, with the highest number.                 *)
LEMMA EnqueueStep ==
    ASSUME ExchangeInv, NEW n \in Nodes, EnqueueDelivery(n)
    PROVE  ExchangeInv' /\ FiledKept
<1> DEFINE v == work[n]
           record == [to |-> v.to, state |-> "queued"]
           q == [queue[n] EXCEPT ![v.no] = record]
           w == [v EXCEPT !.step = "deliver", !.to = NoNode]
           t == torn[n] \ {v.no}
<1>1. /\ v.step = "enqueue" /\ Become(n, w) /\ queue' = [queue EXCEPT ![n] = q]
      /\ agenda' \subseteq agenda /\ Save(n, v.no)
      /\ UNCHANGED <<setup, in, out, folder, calls, done, fragile, died>>
  BY DEF EnqueueDelivery, At
<1>2. /\ v \in Works /\ HandOK(v, queue[n], in[n], out[n], done[n])
      /\ BooksOK(queue[n], in[n], out[n], done[n])
      /\ n \notin died => AllProcessed(v, in[n], done[n])
      /\ n \notin gone => NumbersOK(v, queue[n], torn[n])
  BY OfNode
<1>3. v.no \in Numbers /\ v.to \in Nodes /\ out[n][v.no] # NoFile
  BY <1>1, <1>2 DEF HandOK
<1>4. /\ queue[n] \in Queues /\ in[n] \in Archives /\ out[n] \in Archives /\ done[n] \in Counts
      /\ torn[n] \in SUBSET Numbers /\ t \in SUBSET Numbers
  BY RowTypes DEF ExchangeInv
<1>5. record \in Records
  BY <1>3 DEF Records, States
<1>6. /\ q \in Queues
      /\ FiledIn(q) = FiledIn(queue[n]) \cup {v.no}
      /\ \A x \in FiledIn(queue[n]) \ {v.no} : q[x] = queue[n][x]
  <2> HIDE DEF v, record
  <2> QED
    BY <1>3, <1>4, <1>5, OneMore
<1>7. /\ w \in Works /\ w.step = "deliver" /\ w.no = v.no /\ w.file = v.file /\ w.by = v.by
  BY <1>2 DEF Works, Steps
<1>8. TypeOK /\ PushesOK /\ ~Waiting(n)
  BY <1>1 DEF ExchangeInv, Waiting
<1>9. w.by = work[n].by
  BY <1>7
<1>17. /\ torn' = [torn EXCEPT ![n] = t]
       /\ gone \subseteq gone' /\ gone' \subseteq gone \cup {n}
       /\ n \notin gone' => n \notin gone /\ t = torn[n]
  BY <1>1 DEF Save
<1> HIDE DEF v, q, w, t
<1>10. HandOK(w, q, in[n], out[n], done[n])
  BY <1>1, <1>2, <1>6, <1>7 DEF HandOK
<1>11. BooksOK(q, in[n], out[n], done[n])
  BY <1>2, <1>3, <1>6 DEF BooksOK
<1>12. n \notin died => AllProcessed(w, in[n], done[n])
  BY <1>2, <1>7 DEF AllProcessed
<1>13. n \notin gone' => NumbersOK(w, q, t) /\ Kept(queue[n], q, out[n], out[n])
  <2> SUFFICES ASSUME n \notin gone'
               PROVE  NumbersOK(w, q, t) /\ Kept(queue[n], q, out[n], out[n])
    OBVIOUS
  <2>1. NumbersOK(v, queue[n], torn[n]) /\ t = torn[n]
    BY <1>2, <1>17
  <2>2. NumbersOK(w, q, t) /\ v.no \notin FiledIn(queue[n]) \cup t
    BY <1>1, <1>3, <1>4, <1>6, <1>7, <2>1, OneMoreNumber
  <2>3. Kept(queue[n], q, out[n], out[n])
    BY <1>6, <2>2 DEF Kept
  <2> QED
    BY <2>2, <2>3
<1>14. /\ work' = [m \in Nodes |-> work'[m]] /\ work'[n] = w
       /\ OthersGoOn(n) /\ PushesOK'
  BY <1>1, <1>8, <1>9, OwnStep, OwnPushes
<1>15. calls' \subseteq Calls /\ folder' \in [Nodes -> SUBSET Files]
  BY <1>1, <1>8 DEF TypeOK
<1>16. /\ in' = [in EXCEPT ![n] = in[n]] /\ out' = [out EXCEPT ![n] = out[n]]
       /\ done' = [done EXCEPT ![n] = done[n]]
  BY <1>1, <1>8 DEF TypeOK
<1> QED
  BY <1>1, <1>4, <1>6, <1>7, <1>10, <1>11, <1>12, <1>13, <1>14, <1>15, <1>16, <1>17, Together
-----------------------------------------------------------------------------
(* Ingesting. *)

(* What is at hand after a file. *)
LEMMA AfterIngestType ==
    ASSUME NEW w \in Works
    PROVE  LET v == AfterIngest(w) IN
           v \in Works /\ v.step \in {"idle", "take"} /\ v.file = NoFile /\ v.by = NoNode
<1> DEFINE v == AfterIngest(w)
<1>1. v = [Idle EXCEPT !.step = IF w.batch = {} THEN "idle" ELSE "take", !.batch = w.batch]
  BY DEF AfterIngest
<1> QED
  BY <1>1, IdleType DEF Works, Steps

(* A file is begun with: it is a duplicate, or goes to the archive.        *)
LEMMA BeginStep ==
    ASSUME ExchangeInv, NEW n \in Nodes, NEW f \in Files, NEW w \in Works, Begin(n, f, w),
           work[n].step \in {"idle", "take"}, w.file = NoFile,
           calls' \subseteq calls,
           w.by # NoNode => Waiting(w.by),
           \A c \in calls' : w.by # NoNode => c.by # w.by,
           \A m \in Nodes \ {n} : w.by # NoNode => work[m].by # w.by,
           UNCHANGED <<setup, leftovers, queue, in, out, folder, agenda, done, fragile, died>>
    PROVE  ExchangeInv' /\ FiledKept
<1>1. TypeOK /\ PushesOK /\ ~Waiting(n) /\ n \notin {w.by}
  BY DEF ExchangeInv, Waiting
<1>2. calls' \subseteq Calls /\ folder' \in [Nodes -> SUBSET Files]
  BY <1>1 DEF TypeOK
<1>3. work[n].file = NoFile
  BY OfNode DEF HandOK
<1>4. CASE Archived(n, f.no)
  <2>1. Finish(n, w)
    BY <1>4 DEF Begin
  <2>2. /\ work' = [m \in Nodes |-> work'[m]] /\ work'[n] = AfterIngest(w)
        /\ OthersGoOn(n) /\ PushesOK'
    BY <1>1, <2>1, FinishPushes
  <2>3. AfterIngest(w) \in Works /\ AfterIngest(w).step # "enqueue"
        /\ HandOK(AfterIngest(w), queue[n], in[n], out[n], done[n])
    BY AfterIngestType, QuietHand
  <2> QED
    BY <1>2, <1>3, <2>2, <2>3, OnlyHand
<1>5. CASE ~Archived(n, f.no)
  <2> DEFINE v == [w EXCEPT !.step = "archive", !.file = f]
  <2>1. Become(n, v)
    BY <1>5 DEF Begin
  <2>2. v \in Works /\ v.step = "archive" /\ v.file = f /\ v.by = w.by
    BY DEF Works, Steps
  <2> HIDE DEF v
  <2>3. HandOK(v, queue[n], in[n], out[n], done[n])
    BY <1>5, <2>2, NoFileIsNone DEF HandOK, Archived
  <2>4. /\ work' = [m \in Nodes |-> work'[m]] /\ work'[n] = v /\ OthersGoOn(n)
        /\ \A m \in Nodes \ {n} : work'[m] = work[m]
    BY <1>1, <2>1, OwnStep
  <2>5. /\ \A c \in calls : c.by # NoNode => c.by \in Nodes
        /\ \A m \in Nodes : work[m].by # NoNode => work[m].by \in Nodes
        /\ v.by # NoNode => v.by \in Nodes
    BY <1>1, <2>2, RowTypes DEF TypeOK, Calls, Works
  <2>6. PushesOK'
    <3>1. \A m \in Nodes \ {n} : Waiting(m) => work'[m].step = "wait"
      BY <2>4 DEF Waiting
    <3>2. \A c \in calls' : c.by # NoNode => work'[c.by].step = "wait"
      BY <1>1, <2>5, <3>1 DEF PushesOK
    <3>3. \A m \in Nodes : work'[m].by # NoNode => work'[work'[m].by].step = "wait"
      BY <1>1, <2>2, <2>4, <2>5, <3>1 DEF PushesOK
    <3>4. \A c, d \in calls' : c.by # NoNode /\ c.by = d.by => c = d
      BY <1>1 DEF PushesOK
    <3>5. \A m, k \in Nodes : work'[m].by # NoNode /\ work'[m].by = work'[k].by => m = k
      BY <1>1, <2>2, <2>4 DEF PushesOK
    <3>6. \A c \in calls', m \in Nodes : c.by # NoNode => work'[m].by # c.by
      BY <1>1, <2>2, <2>4 DEF PushesOK
    <3>7. \A m \in Nodes : work'[m].by # m
      BY <1>1, <2>2, <2>4 DEF PushesOK
    <3> QED
      BY <3>2, <3>3, <3>4, <3>5, <3>6, <3>7 DEF PushesOK, Waiting
  <2> QED
    BY <1>2, <1>3, <2>2, <2>3, <2>4, <2>6, OnlyHand
<1> QED
  BY <1>4, <1>5

(* A file of the batch. *)
LEMMA TakeStep ==
    ASSUME ExchangeInv, NEW n \in Nodes, NEW f \in work[n].batch, TakeFile(n, f)
    PROVE  ExchangeInv' /\ FiledKept
<1> DEFINE w == [work[n] EXCEPT !.batch = @ \ {f}]
<1>1. /\ work[n].step = "take" /\ Begin(n, f, w)
      /\ UNCHANGED <<setup, leftovers, queue, in, out, folder, calls, agenda, done, fragile, died>>
  BY DEF TakeFile, At
<1>2. work[n] \in Works /\ work[n].file = NoFile /\ PushesOK /\ calls \subseteq Calls
  BY <1>1, OfNode DEF HandOK, ExchangeInv, TypeOK
<1>3. f \in Files /\ w \in Works /\ w.file = NoFile /\ w.by = work[n].by
  BY <1>2 DEF Works
<1> HIDE DEF w
<1>4. /\ w.by # NoNode => Waiting(w.by)
      /\ \A c \in calls : w.by # NoNode => c.by # w.by
      /\ \A m \in Nodes \ {n} : w.by # NoNode => work[m].by # w.by
  BY <1>2, <1>3 DEF PushesOK
<1> QED
  BY <1>1, <1>3, <1>4, BeginStep

(* A pushed file. *)
LEMMA AnswerStep ==
    ASSUME ExchangeInv, NEW n \in Nodes, NEW c \in calls, AnswerCall(n, c)
    PROVE  ExchangeInv' /\ FiledKept
<1> DEFINE w == [Idle EXCEPT !.by = c.by]
<1>1. /\ work[n].step = "idle" /\ Begin(n, c.file, w) /\ calls' = calls \ {c}
      /\ UNCHANGED <<setup, leftovers, queue, in, out, folder, agenda, done, fragile, died>>
  BY DEF AnswerCall, At
<1>2. c \in Calls /\ PushesOK
  BY DEF ExchangeInv, TypeOK
<1>3. c.file \in Files /\ w \in Works /\ w.file = NoFile /\ w.by = c.by
  BY <1>2, IdleType DEF Works, Calls
<1> HIDE DEF w
<1>4. /\ w.by # NoNode => Waiting(w.by)
      /\ \A b \in calls' : w.by # NoNode => b.by # w.by
      /\ \A m \in Nodes \ {n} : w.by # NoNode => work[m].by # w.by
  BY <1>1, <1>2, <1>3 DEF PushesOK
<1>5. calls' \subseteq calls
  BY <1>1
<1> QED
  BY <1>1, <1>3, <1>4, <1>5, BeginStep

(* The bytes are archived. *)
LEMMA ArchiveStep ==
    ASSUME ExchangeInv, NEW n \in Nodes, ArchiveIn(n)
    PROVE  ExchangeInv' /\ FiledKept
<1> DEFINE v == work[n]
           f == v.file
           i == [in[n] EXCEPT ![f.no] = f]
           w == [v EXCEPT !.step = IF IsReceipt(f.no) THEN "process" ELSE "receipt"]
<1>1. /\ v.step = "archive" /\ Become(n, w) /\ in' = [in EXCEPT ![n] = i]
      /\ UNCHANGED <<setup, leftovers, queue, out, folder, calls, agenda, done, fragile, died>>
  BY DEF ArchiveIn, At
<1>2. /\ v \in Works /\ HandOK(v, queue[n], in[n], out[n], done[n])
      /\ BooksOK(queue[n], in[n], out[n], done[n])
      /\ n \notin died => AllProcessed(v, in[n], done[n])
      /\ n \notin gone => NumbersOK(v, queue[n], torn[n])
  BY OfNode
<1>3. f # NoFile /\ in[n][f.no] = NoFile
  BY <1>1, <1>2 DEF HandOK
<1>4. f \in Files /\ f.no \in Numbers
  BY <1>2, <1>3 DEF Works, Files
<1>5. /\ queue[n] \in Queues /\ in[n] \in Archives /\ out[n] \in Archives /\ done[n] \in Counts
      /\ torn[n] \in SUBSET Numbers
  BY RowTypes DEF ExchangeInv
<1>6. i \in Archives /\ \A no \in Numbers : i[no] = IF no = f.no THEN f ELSE in[n][no]
  BY <1>4, <1>5 DEF Archives
<1>7. /\ w \in Works /\ w.step \in {"process", "receipt"} /\ w.file = f /\ w.by = v.by
  BY <1>2 DEF Works, Steps
<1>8. TypeOK /\ PushesOK /\ ~Waiting(n) /\ w.by = work[n].by
  BY <1>1, <1>7 DEF ExchangeInv, Waiting
<1>9. done[n][f.no] = 0
  BY <1>2, <1>3, <1>4 DEF BooksOK
<1> HIDE DEF v, f, i, w
<1>10. HandOK(w, queue[n], i, out[n], done[n])
  BY <1>3, <1>4, <1>6, <1>7, <1>9 DEF HandOK
<1>11. BooksOK(queue[n], i, out[n], done[n])
  BY <1>2, <1>3, <1>6 DEF BooksOK
<1>12. n \notin died => AllProcessed(w, i, done[n])
  <2>1. \A no \in Numbers : in[n][no] = f => in[n][no] = NoFile
    BY <1>2, <1>3, <1>4 DEF BooksOK
  <2> QED
    BY <1>2, <1>6, <1>7, <2>1 DEF AllProcessed, f
<1>13. n \notin gone' => /\ NumbersOK(w, queue[n], torn[n])
                        /\ Kept(queue[n], queue[n], out[n], out[n])
  <2>1. n \notin gone => NumbersOK(w, queue[n], torn[n])
    BY <1>2, <1>7, NumbersKept
  <2> QED
    BY <1>1, <2>1 DEF Kept, leftovers
<1>14. /\ work' = [m \in Nodes |-> work'[m]] /\ work'[n] = w
       /\ OthersGoOn(n) /\ PushesOK'
  BY <1>1, <1>8, OwnStep, OwnPushes
<1>15. calls' \subseteq Calls /\ folder' \in [Nodes -> SUBSET Files]
  BY <1>1, <1>8 DEF TypeOK
<1>16. /\ queue' = [queue EXCEPT ![n] = queue[n]] /\ out' = [out EXCEPT ![n] = out[n]]
       /\ done' = [done EXCEPT ![n] = done[n]] /\ torn' = [torn EXCEPT ![n] = torn[n]]
       /\ gone' = gone
  BY <1>1, <1>8 DEF TypeOK, leftovers
<1> QED
  BY <1>1, <1>5, <1>6, <1>7, <1>10, <1>11, <1>12, <1>13, <1>14, <1>15, <1>16, Together

(* The last step of a file: whoever pushed it may have its answer.         *)
LEMMA LastStep ==
    ASSUME ExchangeInv, NEW n \in Nodes, work[n].step = "process", Finish(n, work[n]),
           calls' = calls
    PROVE  /\ work' = [m \in Nodes |-> work'[m]] /\ work'[n] = AfterIngest(work[n])
           /\ OthersGoOn(n) /\ PushesOK'
           /\ AfterIngest(work[n]) \in Works /\ AfterIngest(work[n]).file = NoFile
           /\ AfterIngest(work[n]).step # "enqueue"
           /\ \A q, i, o, d : HandOK(AfterIngest(work[n]), q, i, o, d)
<1>1. TypeOK /\ PushesOK /\ ~Waiting(n) /\ work[n] \in Works
  BY OfNode DEF ExchangeInv, Waiting
<1>2. /\ work[n].by # NoNode => Waiting(work[n].by)
      /\ \A c \in calls : work[n].by # NoNode => c.by # work[n].by
      /\ \A m \in Nodes \ {n} : work[n].by # NoNode => work[m].by # work[n].by
  BY <1>1 DEF PushesOK
<1> QED
  BY <1>1, <1>2, FinishPushes, AfterIngestType, QuietHand

(* The pipeline runs. *)
LEMMA PipelineStep ==
    ASSUME ExchangeInv, NEW n \in Nodes, ContinuePipeline(n)
    PROVE  ExchangeInv' /\ FiledKept
<1> DEFINE v == work[n]
           no == v.file.no
           w == AfterIngest(v)
           d == [done[n] EXCEPT ![no] = @ + 1]
<1>1. /\ v.step = "process" /\ done' = [done EXCEPT ![n] = d] /\ Finish(n, v)
      /\ UNCHANGED <<setup, leftovers, queue, in, out, folder, calls, agenda, fragile, died>>
  BY DEF ContinuePipeline, At
<1>2. /\ v \in Works /\ HandOK(v, queue[n], in[n], out[n], done[n])
      /\ BooksOK(queue[n], in[n], out[n], done[n])
      /\ n \notin died => AllProcessed(v, in[n], done[n])
      /\ n \notin gone => NumbersOK(v, queue[n], torn[n])
  BY OfNode
<1>3. v.file # NoFile /\ in[n][no] = v.file /\ done[n][no] = 0
  BY <1>1, <1>2 DEF HandOK
<1>4. no \in Numbers
  BY <1>2, <1>3 DEF Works, Files
<1>5. /\ queue[n] \in Queues /\ in[n] \in Archives /\ out[n] \in Archives /\ done[n] \in Counts
      /\ torn[n] \in SUBSET Numbers
  BY RowTypes DEF ExchangeInv
<1>6. d \in Counts /\ \A x \in Numbers : d[x] = IF x = no THEN 1 ELSE done[n][x]
  BY <1>3, <1>4, <1>5 DEF Counts
<1>7. /\ work' = [m \in Nodes |-> work'[m]] /\ work'[n] = w
      /\ OthersGoOn(n) /\ PushesOK'
      /\ w \in Works /\ w.file = NoFile /\ w.step # "enqueue"
      /\ HandOK(w, queue[n], in[n], out[n], d)
  BY <1>1, LastStep
<1> HIDE DEF w, d
<1>8. BooksOK(queue[n], in[n], out[n], d)
  BY <1>2, <1>3, <1>6 DEF BooksOK
<1>9. n \notin died => AllProcessed(w, in[n], d)
  <2>1. \A x \in Numbers : in[n][x] # NoFile /\ in[n][x] = v.file => x = no
    BY <1>2 DEF BooksOK
  <2> QED
    BY <1>2, <1>6, <2>1 DEF AllProcessed
<1>10. n \notin gone' => /\ NumbersOK(w, queue[n], torn[n])
                        /\ Kept(queue[n], queue[n], out[n], out[n])
  <2>1. n \notin gone => NumbersOK(w, queue[n], torn[n])
    BY <1>2, <1>7, NumbersKept
  <2> QED
    BY <1>1, <2>1 DEF Kept, leftovers
<1>11. calls' \subseteq Calls /\ folder' \in [Nodes -> SUBSET Files]
  BY <1>1 DEF ExchangeInv, TypeOK
<1>12. /\ queue' = [queue EXCEPT ![n] = queue[n]] /\ in' = [in EXCEPT ![n] = in[n]]
       /\ out' = [out EXCEPT ![n] = out[n]] /\ torn' = [torn EXCEPT ![n] = torn[n]]
       /\ gone' = gone
  BY <1>1 DEF ExchangeInv, TypeOK, leftovers
<1> QED
  BY <1>1, <1>5, <1>6, <1>7, <1>8, <1>9, <1>10, <1>11, <1>12, Together

(* A receipt makes its message delivered. *)
LEMMA ReceiptStep ==
    ASSUME ExchangeInv, NEW n \in Nodes, HandleReceipt(n)
    PROVE  ExchangeInv' /\ FiledKept
<1> DEFINE v == work[n]
           no == v.file.about
           w == AfterIngest(v)
<1>1. /\ v.step = "process" /\ IsReceipt(v.file.no) /\ Finish(n, v)
      /\ UNCHANGED <<setup, in, out, folder, calls, agenda, done, fragile, died>>
  BY DEF HandleReceipt, At
<1>2. /\ HandOK(v, queue[n], in[n], out[n], done[n])
      /\ BooksOK(queue[n], in[n], out[n], done[n])
      /\ n \notin died => AllProcessed(v, in[n], done[n])
      /\ n \notin gone => NumbersOK(v, queue[n], torn[n])
  BY OfNode
<1>3. /\ work' = [m \in Nodes |-> work'[m]] /\ work'[n] = w
      /\ OthersGoOn(n) /\ PushesOK'
      /\ w \in Works /\ w.file = NoFile /\ w.step # "enqueue"
      /\ HandOK(w, queue[n], in[n], out[n], done[n])
  BY <1>1, LastStep
<1>4. n \notin died => AllProcessed(w, in[n], done[n])
  <2>1. \A x \in Numbers : in[n][x] # NoFile /\ in[n][x] = v.file => IsReceipt(x)
    BY <1>1, <1>2 DEF BooksOK
  <2> HIDE DEF v, w
  <2> QED
    BY <1>2, <2>1 DEF AllProcessed
<1>5. calls' \subseteq Calls /\ folder' \in [Nodes -> SUBSET Files]
  BY <1>1 DEF ExchangeInv, TypeOK
<1>6. CASE no \in FiledIn(queue[n])
  <2>1. queue' = [queue EXCEPT ![n][no] = [@ EXCEPT !.state = "delivered"]] /\ Save(n, no)
    BY <1>6 DEF HandleReceipt, Filed, FiledIn
  <2>2. "delivered" \in States
    BY DEF States
  <2> HIDE DEF v, w, no
  <2> QED
    BY <1>1, <1>3, <1>4, <1>5, <1>6, <2>1, <2>2, Recorded
<1>7. CASE no \notin FiledIn(queue[n])
  <2>5. torn[n] \in SUBSET Numbers /\ torn \in [Nodes -> SUBSET Numbers]
    BY RowTypes DEF ExchangeInv, TypeOK
  <2>1. queue' = queue /\ torn' = torn /\ gone' = gone
    <3>1. CASE no \in Numbers
      BY <1>7, <3>1 DEF HandleReceipt, Filed, FiledIn, leftovers
    <3>2. CASE no \notin Numbers
      <4> DEFINE r == [queue[n] EXCEPT ![no] = [@ EXCEPT !.state = "delivered"]]
      <4>1. queue[n] \in Queues
        BY RowTypes DEF ExchangeInv
      <4>2. r = queue[n]
        BY <3>2, <4>1 DEF Queues
      <4>3. \/ queue' = queue /\ UNCHANGED leftovers
            \/ queue' = [queue EXCEPT ![n] = r] /\ Save(n, no)
        BY DEF HandleReceipt
      <4>4. torn[n] \ {no} = torn[n] /\ no \notin torn[n]
        BY <2>5, <3>2
      <4>5. Save(n, no) => torn' = torn /\ gone' = gone
        BY <2>5, <4>4 DEF Save
      <4> HIDE DEF r
      <4> QED
        BY <4>2, <4>3, <4>5 DEF ExchangeInv, TypeOK, leftovers
    <3> QED
      BY <3>1, <3>2
  <2>2. /\ queue[n] \in Queues /\ in[n] \in Archives /\ out[n] \in Archives /\ done[n] \in Counts
    BY RowTypes DEF ExchangeInv
  <2>3. /\ queue' = [queue EXCEPT ![n] = queue[n]] /\ in' = [in EXCEPT ![n] = in[n]]
        /\ out' = [out EXCEPT ![n] = out[n]] /\ done' = [done EXCEPT ![n] = done[n]]
        /\ torn' = [torn EXCEPT ![n] = torn[n]]
    BY <1>1, <2>1 DEF ExchangeInv, TypeOK
  <2>4. n \notin gone' => /\ NumbersOK(w, queue[n], torn[n])
                         /\ Kept(queue[n], queue[n], out[n], out[n])
    <3>1. n \notin gone => NumbersOK(w, queue[n], torn[n])
      BY <1>2, <1>3, NumbersKept
    <3> QED
      BY <2>1, <3>1 DEF Kept
  <2> HIDE DEF v, w, no
  <2> QED
    BY <1>1, <1>2, <1>3, <1>4, <1>5, <2>1, <2>2, <2>3, <2>4, <2>5, Together
<1> QED
  BY <1>6, <1>7

(* A server dies, and may leave something of a record that is on file or   *)
(* about to be.                                                            *)
LEMMA DiesStep ==
    ASSUME ExchangeInv, NEW n \in Nodes, Die(n),
           folder' \in [Nodes -> SUBSET Files],
           NEW no \in Numbers, UNCHANGED torn \/ torn' = [torn EXCEPT ![n] = @ \cup {no}],
           \/ UNCHANGED torn
           \/ no \in FiledIn(queue[n])
           \/ work[n].step = "enqueue" /\ no = work[n].no
    PROVE  ExchangeInv' /\ FiledKept
<1> DEFINE more == torn[n] \cup {no}
<1>1. /\ calls' = {c \in Orphaned(n) : c.at # n}
      /\ work' = [m \in Nodes |-> IF m = n THEN Idle ELSE Abandoned(n, work[m])]
      /\ fragile' \subseteq fragile /\ died' = died \cup {n}
      /\ UNCHANGED <<setup, queue, in, out, agenda, done, gone>>
  BY DEF Die
<1>2. TypeOK /\ PushesOK
  BY DEF ExchangeInv
<1>3. /\ work' = [m \in Nodes |-> work'[m]] /\ work'[n] = Idle
      /\ OthersGoOn(n) /\ PushesOK' /\ calls' \subseteq Calls
  BY <1>1, <1>2, IdleType, AbandonedPushes
<1>4. HandOK(Idle, queue[n], in[n], out[n], done[n])
  BY IdleType, QuietHand
<1>5. /\ queue[n] \in Queues /\ in[n] \in Archives /\ out[n] \in Archives /\ done[n] \in Counts
      /\ torn[n] \in SUBSET Numbers
  BY <1>2, RowTypes
<1>6. /\ queue' = [queue EXCEPT ![n] = queue[n]] /\ in' = [in EXCEPT ![n] = in[n]]
      /\ out' = [out EXCEPT ![n] = out[n]] /\ done' = [done EXCEPT ![n] = done[n]]
  BY <1>1, <1>2 DEF TypeOK
<1>7. /\ n \notin gone => NumbersOK(work[n], queue[n], torn[n])
      /\ BooksOK(queue[n], in[n], out[n], done[n])
  BY OfNode
<1>8. more \in SUBSET Numbers
  BY <1>5
<1>9. PICK t \in SUBSET Numbers :
         /\ torn' = [torn EXCEPT ![n] = t]
         /\ n \notin gone => NumbersOK(Idle, queue[n], t)
  <2>1. CASE UNCHANGED torn
    <3>1. torn' = [torn EXCEPT ![n] = torn[n]]
      BY <1>2, <2>1 DEF TypeOK
    <3>2. n \notin gone => NumbersOK(Idle, queue[n], torn[n])
      BY <1>7, IdleType, NumbersKept
    <3> QED
      BY <1>5, <3>1, <3>2
  <2>2. CASE torn' = [torn EXCEPT ![n] = more] /\ ~UNCHANGED torn
    <3>1. n \notin gone => NumbersOK(Idle, queue[n], more)
      BY <1>5, <1>7, <2>2, IdleType, OneMoreLeft
    <3> HIDE DEF more
    <3> QED
      BY <1>8, <2>2, <3>1
  <2> QED
    BY <2>1, <2>2
<1>10. n \notin gone' => /\ NumbersOK(Idle, queue[n], t)
                        /\ Kept(queue[n], queue[n], out[n], out[n])
  BY <1>1, <1>9 DEF Kept
<1> HIDE DEF more
<1> QED
  BY <1>1, <1>3, <1>4, <1>5, <1>6, <1>7, <1>9, <1>10, IdleType, Together

(* Where a server may die. *)
LEMMA CrashStep ==
    ASSUME ExchangeInv, NEW n \in Nodes, Dies(n)
    PROVE  ExchangeInv' /\ FiledKept
<1>1. folder \in [Nodes -> SUBSET Files] /\ TypeOK
  BY DEF ExchangeInv, TypeOK
<1>2. CASE Crash(n)
  <2>1. Die(n) /\ UNCHANGED <<folder, torn>>
    BY <1>2 DEF Crash
  <2>2. /\ queue' = [queue EXCEPT ![n] = queue[n]] /\ in' = [in EXCEPT ![n] = in[n]]
        /\ out' = [out EXCEPT ![n] = out[n]] /\ done' = [done EXCEPT ![n] = done[n]]
    BY <1>1, <2>1 DEF Die, TypeOK
  <2>3. /\ work' = [m \in Nodes |-> work'[m]] /\ work'[n] = Idle
        /\ OthersGoOn(n) /\ PushesOK' /\ calls' \subseteq Calls
    BY <2>1, IdleType, AbandonedPushes DEF Die, ExchangeInv
  <2>4. HandOK(Idle, queue[n], in[n], out[n], done[n])
    BY IdleType, QuietHand
  <2>5. folder' \in [Nodes -> SUBSET Files]
    BY <1>1, <2>1
  <2>6. /\ UNCHANGED <<setup, leftovers, queue, in, out, done, agenda>>
        /\ fragile' \subseteq fragile /\ died' = died \cup {n}
    BY <2>1 DEF Die, leftovers
  <2> QED
    BY <2>3, <2>4, <2>5, <2>6, IdleType, OnlyHand
<1>3. CASE CrashHanded(n)
  <2>1. Attempting(n)
    BY <1>3 DEF CrashHanded, At, Attempting
  <2>2. /\ work[n].no \in FiledIn(queue[n]) /\ Sending(n).to \in Nodes /\ Bytes(n) \in Files
    BY <2>1, SendingIs
  <2>3. With(folder[Sending(n).to], work[n].no, Bytes(n)) \in SUBSET Files
    BY <1>1, <2>2, FolderType
  <2>4. folder' = [folder EXCEPT ![Sending(n).to] = With(@, work[n].no, Bytes(n))]
    BY <1>3 DEF CrashHanded
  <2>5. folder' \in [Nodes -> SUBSET Files]
    BY <1>1, <2>3, <2>4, FoldersType
  <2>6. work[n].no \in Numbers
    BY <2>2 DEF FiledIn
  <2>7. Die(n) /\ (UNCHANGED torn \/ torn' = [torn EXCEPT ![n] = @ \cup {work[n].no}])
    BY <1>3 DEF CrashHanded
  <2> DEFINE no == work[n].no
  <2> HIDE DEF no
  <2> QED
    BY <2>2, <2>5, <2>6, <2>7, DiesStep DEF no
<1>4. ASSUME NEW no \in Numbers, CrashSaving(n, no) PROVE ExchangeInv' /\ FiledKept
  <2>1. /\ Saves(n, no) /\ Die(n) /\ torn' = [torn EXCEPT ![n] = @ \cup {no}]
        /\ folder' \in [Nodes -> SUBSET Files]
    BY <1>1, <1>4 DEF CrashSaving
  <2>2. no \in FiledIn(queue[n]) \/ (work[n].step = "enqueue" /\ no = work[n].no)
    BY <2>1, OfNode DEF Saves, Filed, FiledIn, HandOK
  <2> QED
    BY <2>1, <2>2, DiesStep
<1> QED
  BY <1>2, <1>3, <1>4 DEF Dies
-----------------------------------------------------------------------------
(* Every step, and what follows. *)

(* At first nothing is on file and nobody does anything. *)
LEMMA ExchangeInit == Init => ExchangeInv
<1> SUFFICES ASSUME Init PROVE ExchangeInv
  OBVIOUS
<1>1. PICK s \in Scenarios : /\ channel = s.channel /\ agenda = s.notes
                             /\ fragile = s.fragile /\ attended = s.attended
  BY DEF Init
<1>2. s \in [channel : [Nodes -> Kinds], notes : SUBSET Notes,
             fragile : SUBSET Nodes, attended : SUBSET Nodes]
  BY ScenariosAssumption
<1>3. TypeOK
  BY <1>1, <1>2, IdleType DEF Init, TypeOK
<1>4. PushesOK
  BY IdleType DEF Init, PushesOK
<1>5. ASSUME NEW n \in Nodes PROVE NodeOK(n)
  <2>1. /\ work[n] = Idle /\ torn[n] = {}
        /\ \A no \in Numbers : /\ queue[n][no] = NoRecord
                               /\ in[n][no] = NoFile /\ done[n][no] = 0
    BY DEF Init
  <2>2. FiledIn(queue[n]) = {}
    BY <2>1 DEF FiledIn
  <2>3. IsFiniteSet(FiledIn(queue[n])) /\ IsFiniteSet(torn[n])
    BY <2>1, <2>2, FS_EmptySet
  <2>7. NumbersOK(work[n], queue[n], torn[n])
    BY <2>1, <2>2, <2>3, IdleType DEF NumbersOK
  <2>4. BooksOK(queue[n], in[n], out[n], done[n])
    BY <2>1, <2>2 DEF BooksOK
  <2>5. HandOK(work[n], queue[n], in[n], out[n], done[n])
    BY <2>1, IdleType, QuietHand
  <2>6. AllProcessed(work[n], in[n], done[n])
    BY <2>1 DEF AllProcessed
  <2> QED
    BY <2>4, <2>5, <2>6, <2>7 DEF NodeOK
<1> QED
  BY <1>3, <1>4, <1>5 DEF ExchangeInv

(* Nothing happens. *)
LEMMA ExchangeStutter ==
    ASSUME ExchangeInv, UNCHANGED vars
    PROVE  ExchangeInv' /\ FiledKept
<1>1. TypeOK' /\ PushesOK'
  BY DEF ExchangeInv, vars, setup, TypeOK, PushesOK, Waiting
<1>2. \A n \in Nodes : NodeOK(n)'
  BY DEF ExchangeInv, vars, NodeOK
<1>3. FiledKept
  BY DEF vars, FiledKept, Kept
<1> QED
  BY <1>1, <1>2, <1>3 DEF ExchangeInv

LEMMA ExchangeStep ==
    ASSUME ExchangeInv, [Next]_vars
    PROVE  ExchangeInv' /\ FiledKept
<1>1. ASSUME NEW n \in Nodes, Send(n) PROVE ExchangeInv' /\ FiledKept
  BY <1>1, SendStep, EnqueueStep DEF Send
<1>2. ASSUME NEW n \in Nodes, Attempt(n) PROVE ExchangeInv' /\ FiledKept
  BY <1>2, AttemptEndsStep, SFTPStep, PushStep, TimeOutStep DEF Attempt
<1>3. ASSUME NEW n \in Nodes, Again(n) PROVE ExchangeInv' /\ FiledKept
  BY <1>3, RetryStep, ResendStep DEF Again
<1>4. ASSUME NEW n \in Nodes, Receive(n) PROVE ExchangeInv' /\ FiledKept
  BY <1>4, ReceiveStep
<1>5. ASSUME NEW n \in Nodes, Ingest(n) PROVE ExchangeInv' /\ FiledKept
  BY <1>5, TakeStep, AnswerStep, ArchiveStep, SendStep, ReceiptStep, PipelineStep DEF Ingest
<1>6. ASSUME NEW n \in Nodes, Dies(n) PROVE ExchangeInv' /\ FiledKept
  BY <1>6, CrashStep
<1> QED
  BY <1>1, <1>2, <1>3, <1>4, <1>5, <1>6, ExchangeStutter DEF Next

(* The invariant, always. *)
LEMMA ExchangeInvariant == Spec => []ExchangeInv
<1>1. ExchangeInv /\ [Next]_vars => ExchangeInv'
  BY ExchangeStep
<1> QED
  BY <1>1, ExchangeInit, PTL DEF Spec

(* Every file, record and stack has its shape. *)
THEOREM ExchangeTypeCorrect == Spec => []TypeOK
<1>1. ExchangeInv => TypeOK
  BY DEF ExchangeInv
<1> QED
  BY <1>1, ExchangeInvariant, PTL

(* delivery.go, ResendDelivery: the business effect happens once, even if  *)
(* the file arrives twice, among any number of nodes.                      *)
THEOREM TheEffectHappensOnce == Spec => []AtMostOnce
<1>1. ExchangeInv => AtMostOnce
  BY OfNode DEF AtMostOnce, BooksOK
<1> QED
  BY <1>1, ExchangeInvariant, PTL

(* engine.Ingest: what a node archived it has processed, or has in hand,   *)
(* unless its server died.                                                 *)
THEOREM WhatIsArchivedIsProcessed == Spec => []ArchivedIsProcessed
<1>1. ExchangeInv => ArchivedIsProcessed
  BY OfNode DEF ArchivedIsProcessed, AllProcessed
<1> QED
  BY <1>1, ExchangeInvariant, PTL

(* engine.nextNumber: as long as no file that was counted is gone from a   *)
(* node's queue, the count is a number no record there has: the record and *)
(* the bytes behind it are never those of another, wherever servers die    *)
(* and whatever they leave of records they were saving.                    *)
THEOREM FiledForGood == Spec => FiledStays
<1>1. ExchangeInv /\ [Next]_vars =>
        [\A n \in Nodes \ gone', no \in Numbers : Filed(n, no) =>
           /\ Filed(n, no)' /\ queue'[n][no].to = queue[n][no].to
           /\ out'[n][no] = out[n][no]]_vars
  <2> SUFFICES ASSUME ExchangeInv, [Next]_vars, NEW n \in Nodes \ gone', NEW no \in Numbers,
                      Filed(n, no)
               PROVE  /\ queue'[n][no] # NoRecord /\ queue'[n][no].to = queue[n][no].to
                      /\ out'[n][no] = out[n][no]
    BY DEF Filed
  <2>1. Kept(queue[n], queue'[n], out[n], out'[n])
    BY ExchangeStep DEF FiledKept
  <2> QED
    BY <2>1 DEF Kept, FiledIn, Filed
<1> QED
  BY <1>1, ExchangeInvariant, PTL DEF Spec, FiledStays
-----------------------------------------------------------------------------
(* Where files come from.                                                  *)
(*                                                                         *)
(* Numbers are unique in one node's queue only, and one archive holds both *)
(* directions: with three companies, two of them may give the same number  *)
(* to what they send.  As long as that has not mixed two messages up, a    *)
(* file that travels was sent by the node it says it is from, or is a file *)
(* on its way back to the node that has that number out, which drops it.   *)

(* A node has filed a record under the number of a message it archived     *)
(* from somebody else than the record's receiver.                          *)
NumbersClash ==
    \E n \in Nodes, no \in Numbers :
        Filed(n, no) /\ in[n][no] # NoFile /\ in[n][no].from # queue[n][no].to

(* The file is for n, and its sender has it on file. *)
Genuine(n, f) == /\ f.from \in Nodes \ {n} /\ f.to = n
                 /\ Filed(f.from, f.no) /\ out[f.from][f.no] = f

Known(n, f) == Genuine(n, f) \/ out[n][f.no] # NoFile

FilesOK(n) ==
    /\ \A f \in folder[n] : Known(n, f)
    /\ \A f \in work[n].batch : Known(n, f)
    /\ work[n].file # NoFile => Genuine(n, work[n].file)
    /\ \A no \in Numbers : in[n][no] # NoFile => Genuine(n, in[n][no])

CallsOK == \A call \in calls : Known(call.at, call.file)

(* What node n composed under a number: a receipt is about a message that  *)
(* n has archived from the node the receipt is for.                        *)
ComposedFile(n, no, f) ==
    /\ f.from = n /\ f.no = no /\ f.to \in Nodes \ {n}
    /\ IsReceipt(no) => f.about \in Numbers /\ Has(n, [by |-> f.to, no |-> f.about])
    /\ Filed(n, no) => queue[n][no].to = f.to

ComposedOK(n) ==
    /\ \A no \in Numbers : out[n][no] # NoFile => ComposedFile(n, no, out[n][no])
    /\ work[n].step = "enqueue" => work[n].to = out[n][work[n].no].to

Provenance == CallsOK /\ \A n \in Nodes : FilesOK(n) /\ ComposedOK(n)

HonestInv == gone # {} \/ NumbersClash \/ (Provenance /\ DeliveredIsReceipted)

-----------------------------------------------------------------------------
(* What one step may change. *)

(* A step of one node. *)
StepOf(n) == Send(n) \/ Attempt(n) \/ Again(n) \/ Receive(n) \/ Ingest(n) \/ Dies(n)

(* A file that is gone is gone. *)
LEMMA GoneStays == ASSUME NEW n \in Nodes, StepOf(n) PROVE gone \subseteq gone'
<1>1. ASSUME NEW k, NEW no, Save(k, no) PROVE gone \subseteq gone'
  BY <1>1 DEF Save
<1>2. ASSUME NEW outcome, RecordAttempt(n, outcome) PROVE gone \subseteq gone'
  BY <1>1, <1>2 DEF RecordAttempt
<1>3. CASE Send(n) \/ Again(n) \/ Receive(n)
  BY <1>1, <1>3 DEF Send, SendNote, EnqueueDelivery, Again, RetryDelivery, ResendDelivery,
                    Receive, Collect, RemoveFile, ReadFile, ReadFails, leftovers
<1>4. CASE Attempt(n)
  BY <1>2, <1>4 DEF Attempt, DeliverByFolder, DeliverBySFTP, RenameUpload, DeliverByPush,
                    PushAnswered, PushTimesOut, DeliverFails, leftovers
<1>5. CASE Ingest(n)
  BY <1>1, <1>5 DEF Ingest, TakeFile, AnswerCall, ArchiveIn, SendReceipt, HandleReceipt,
                    ContinuePipeline, leftovers
<1>6. CASE Dies(n)
  BY <1>6 DEF Dies, Crash, CrashHanded, CrashSaving, Die
<1> QED
  BY <1>3, <1>4, <1>5, <1>6 DEF StepOf

(* What is archived as received changes when a file is archived, and only  *)
(* under the number of that file.                                          *)
LEMMA InChanges ==
    ASSUME ExchangeInv, NEW n \in Nodes, StepOf(n)
    PROVE  \/ in' = in
           \/ ArchiveIn(n)
BY DEF StepOf, Send, SendNote, EnqueueDelivery, Compose,
       Attempt, DeliverByFolder, DeliverBySFTP, RenameUpload, DeliverByPush, PushAnswered,
       PushTimesOut, DeliverFails, Again, RetryDelivery, ResendDelivery,
       Receive, Collect, RemoveFile, ReadFile, ReadFails,
       Ingest, TakeFile, AnswerCall, SendReceipt, HandleReceipt, ContinuePipeline,
       Dies, Crash, CrashHanded, CrashSaving, Die

(* A file that is archived now was at hand, and its number was free. *)
LEMMA Archiving ==
    ASSUME ExchangeInv, NEW n \in Nodes, ArchiveIn(n)
    PROVE  LET f == work[n].file IN
           /\ f \in Files /\ f # NoFile /\ f.no \in Numbers
           /\ in[n][f.no] = NoFile
           /\ \A m \in Nodes, no \in Numbers :
                in'[m][no] = IF m = n /\ no = f.no THEN f ELSE in[m][no]
           /\ UNCHANGED <<queue, out, folder, calls>>
<1> DEFINE f == work[n].file
<1>1. /\ work[n].step = "archive" /\ in' = [in EXCEPT ![n][f.no] = f]
      /\ UNCHANGED <<queue, out, folder, calls>>
  BY DEF ArchiveIn, At
<1>2. f # NoFile /\ in[n][f.no] = NoFile /\ work[n] \in Works
  BY <1>1, OfNode DEF HandOK
<1>3. f \in Files /\ f.no \in Numbers
  BY <1>2 DEF Works, Files
<1>4. in \in [Nodes -> Archives]
  BY DEF ExchangeInv, TypeOK, Archives
<1> HIDE DEF f
<1>5. \A m \in Nodes, no \in Numbers :
        in'[m][no] = IF m = n /\ no = f.no THEN f ELSE in[m][no]
  BY <1>1, <1>3, <1>4 DEF Archives
<1> QED
  BY <1>1, <1>2, <1>3, <1>5 DEF f

(* What is archived as received stays what it is. *)
InKept == \A n \in Nodes, no \in Numbers : in[n][no] # NoFile => in'[n][no] = in[n][no]

LEMMA InStays == ASSUME ExchangeInv, NEW n \in Nodes, StepOf(n) PROVE InKept
BY InChanges, Archiving DEF InKept

(* What is archived as sent changes when a message is composed. *)
LEMMA OutChanges ==
    ASSUME ExchangeInv, NEW n \in Nodes, StepOf(n)
    PROVE  \/ out' = out
           \/ SendReceipt(n)
           \/ \E note \in agenda : SendNote(n, note)
BY DEF StepOf, Send, EnqueueDelivery,
       Attempt, DeliverByFolder, DeliverBySFTP, RenameUpload, DeliverByPush, PushAnswered,
       PushTimesOut, DeliverFails, Again, RetryDelivery, ResendDelivery,
       Receive, Collect, RemoveFile, ReadFile, ReadFails,
       Ingest, TakeFile, AnswerCall, ArchiveIn, HandleReceipt, ContinuePipeline,
       Dies, Crash, CrashHanded, CrashSaving, Die

(* A message that is composed has a number no record has, as long as no  *)
(* file is gone.                                                           *)
LEMMA Composing ==
    ASSUME ExchangeInv, NEW n \in Nodes, NEW to, NEW type, NEW about,
           Compose(n, to, type, about, work[n])
    PROVE  LET no == NextNumber(n, type)
               f == [from |-> n, to |-> to, no |-> no, about |-> about] IN
           /\ no \in Numbers /\ no.type = type /\ (gone = {} => ~Filed(n, no))
           /\ \A m \in Nodes, x \in Numbers :
                out'[m][x] = IF m = n /\ x = no THEN f ELSE out[m][x]
           /\ work'[n].step = "enqueue" /\ work'[n].no = no /\ work'[n].to = to
           /\ work'[n].file = work[n].file /\ work'[n].batch = work[n].batch
           /\ \A m \in Nodes \ {n} : work'[m] = work[m]
<1> DEFINE no == NextNumber(n, type)
           f == [from |-> n, to |-> to, no |-> no, about |-> about]
           w == [work[n] EXCEPT !.step = "enqueue", !.no = no, !.to = to]
<1>1. no \in Numbers /\ Become(n, w) /\ out' = [out EXCEPT ![n][no] = f]
  BY DEF Compose
<1>2. no.type = type /\ no.count = Total(queue[n], torn[n]) + 1
  BY DEF NextNumber, Total, FiledIn, Filed
<1>3. gone = {} => no \notin FiledIn(queue[n])
  BY <1>2, OfNode, NextIsNew, RowTypes DEF ExchangeInv
<1>4. gone = {} => ~Filed(n, no)
  BY <1>1, <1>3 DEF Filed, FiledIn
<1>5. work[n] \in Works
  BY OfNode
<1>6. /\ w.step = "enqueue" /\ w.no = no /\ w.to = to
      /\ w.file = work[n].file /\ w.batch = work[n].batch
  BY <1>5 DEF Works
<1>7. work'[n] = w /\ \A m \in Nodes \ {n} : work'[m] = work[m]
  <2> HIDE DEF w
  <2> QED
    BY <1>1, OwnStep DEF ExchangeInv
<1>8. out \in [Nodes -> Archives]
  BY DEF ExchangeInv, TypeOK, Archives
<1> HIDE DEF f, no
<1>9. \A m \in Nodes, x \in Numbers :
        out'[m][x] = IF m = n /\ x = no THEN f ELSE out[m][x]
  BY <1>1, <1>8 DEF Archives
<1> QED
  BY <1>1, <1>2, <1>4, <1>6, <1>7, <1>9 DEF f, no

(* What a node is at, while another one steps. *)
LEMMA OthersHands ==
    ASSUME ExchangeInv, NEW n \in Nodes, StepOf(n), NEW m \in Nodes \ {n}
    PROVE  /\ work'[m].file = work[m].file /\ work'[m].batch = work[m].batch
           /\ work'[m].no = work[m].no /\ work'[m].to = work[m].to
           /\ work'[m].step = "enqueue" => work[m].step = "enqueue"
<1>1. TypeOK /\ work[m] \in Works
  BY OfNode DEF ExchangeInv
<1>2. ASSUME NEW w, Become(n, w) PROVE work'[m] = work[m]
  BY <1>1, <1>2, OwnStep
<1>3. ASSUME NEW w, Finish(n, w) PROVE work'[m] \in {work[m], [work[m] EXCEPT !.step = "answered"]}
  BY <1>3 DEF Finish
<1>4. CASE PushTimesOut(n) \/ Dies(n)
  <2>1. work'[m] = Abandoned(n, work[m])
    BY <1>4 DEF PushTimesOut, Dies, Crash, CrashHanded, CrashSaving, Die
  <2> QED
    BY <1>1, <2>1 DEF Abandoned, Works
<1>5. CASE Send(n)
  BY <1>2, <1>5 DEF Send, SendNote, EnqueueDelivery, Compose
<1>6. CASE Attempt(n) /\ ~PushTimesOut(n)
  BY <1>2, <1>6 DEF Attempt, DeliverByFolder, DeliverBySFTP, RenameUpload, DeliverByPush,
                    PushAnswered, DeliverFails
<1>7. CASE Again(n) \/ Receive(n)
  BY <1>2, <1>7 DEF Again, RetryDelivery, ResendDelivery, Receive, Collect, RemoveFile,
                    ReadFile, ReadFails
<1>8. CASE Ingest(n)
  <2>1. ASSUME NEW f, NEW w, Begin(n, f, w)
        PROVE  work'[m] \in {work[m], [work[m] EXCEPT !.step = "answered"]}
    BY <1>2, <1>3, <2>1 DEF Begin
  <2>2. work'[m] \in {work[m], [work[m] EXCEPT !.step = "answered"]}
    BY <1>2, <1>3, <1>8, <2>1 DEF Ingest, TakeFile, AnswerCall, ArchiveIn, SendReceipt, Compose,
                                  HandleReceipt, ContinuePipeline
  <2> QED
    BY <1>1, <2>2 DEF Works
<1> QED
  BY <1>1, <1>4, <1>5, <1>6, <1>7, <1>8 DEF StepOf

(* Files arrive in a folder, or at the server of another node, by an       *)
(* attempt that is under way.                                              *)
Arriving(m, f) == \E n \in Nodes : Attempting(n) /\ Sending(n).to = m /\ Bytes(n) = f

LEMMA FolderChanges ==
    ASSUME ExchangeInv, NEW n \in Nodes, StepOf(n), NEW m \in Nodes, NEW f \in folder'[m]
    PROVE  f \in folder[m] \/ Arriving(m, f)
<1>1. folder \in [Nodes -> SUBSET Files]
  BY DEF ExchangeInv, TypeOK
<1>2. CASE folder' = folder
  BY <1>2
<1>3. CASE DeliverByFolder(n) \/ RenameUpload(n) \/ CrashHanded(n)
  <2>1. folder' = [folder EXCEPT ![Sending(n).to] = With(@, work[n].no, Bytes(n))]
    BY <1>3 DEF DeliverByFolder, RenameUpload, CrashHanded
  <2>2. Attempting(n)
    BY <1>3 DEF DeliverByFolder, RenameUpload, CrashHanded, At, Attempting
  <2>3. CASE Sending(n).to = m
    BY <1>1, <2>1, <2>2, <2>3 DEF With, Without, Arriving
  <2>4. CASE Sending(n).to # m
    BY <1>1, <2>1, <2>4
  <2> QED
    BY <2>3, <2>4
<1>4. CASE DeliverBySFTP(n)
  BY <1>1, <1>4 DEF DeliverBySFTP, Without
<1>5. CASE RemoveFile(n)
  BY <1>1, <1>5 DEF RemoveFile, Without
<1> QED
  BY <1>2, <1>3, <1>4, <1>5
     DEF StepOf, Send, SendNote, EnqueueDelivery, Attempt, DeliverByPush, PushAnswered,
         PushTimesOut, DeliverFails, Again, RetryDelivery, ResendDelivery,
         Receive, Collect, ReadFile, ReadFails, Ingest, TakeFile, AnswerCall, ArchiveIn,
         SendReceipt, HandleReceipt, ContinuePipeline, Dies, Crash, CrashSaving

LEMMA CallsChange ==
    ASSUME ExchangeInv, NEW n \in Nodes, StepOf(n), NEW call \in calls'
    PROVE  \/ \E b \in calls : b.at = call.at /\ b.file = call.file
           \/ Arriving(call.at, call.file)
<1>1. ASSUME call \in Orphaned(n)
      PROVE  \E b \in calls : b.at = call.at /\ b.file = call.file
  <2>1. PICK b \in calls : call = [b EXCEPT !.by = IF @ = n THEN NoNode ELSE @]
    BY <1>1 DEF Orphaned
  <2>2. b \in Calls
    BY DEF ExchangeInv, TypeOK
  <2> QED
    BY <2>1, <2>2 DEF Calls
<1>2. CASE DeliverByPush(n)
  <2>1. calls' = calls \cup {[at |-> Sending(n).to, by |-> n, file |-> Bytes(n)]}
    BY <1>2 DEF DeliverByPush
  <2>2. Attempting(n)
    BY <1>2 DEF DeliverByPush, At, Attempting
  <2> QED
    BY <2>1, <2>2 DEF Arriving
<1>3. CASE PushTimesOut(n) \/ Dies(n)
  <2>1. call \in Orphaned(n)
    BY <1>3 DEF PushTimesOut, Dies, Crash, CrashHanded, CrashSaving, Die
  <2> QED
    BY <1>1, <2>1
<1>4. CASE calls' \subseteq calls
  BY <1>4
<1> QED
  BY <1>2, <1>3, <1>4
     DEF StepOf, Send, SendNote, EnqueueDelivery, Attempt, DeliverByFolder, DeliverBySFTP,
         RenameUpload, PushAnswered, DeliverFails, Again, RetryDelivery, ResendDelivery,
         Receive, Collect, RemoveFile, ReadFile, ReadFails, Ingest, TakeFile, AnswerCall,
         ArchiveIn, SendReceipt, HandleReceipt, ContinuePipeline

(* The file an operation takes up comes from the batch or from a call.     *)
TakenUp(n, f) == /\ ~Archived(n, f.no)
                 /\ f \in work[n].batch \/ \E call \in calls : call.at = n /\ call.file = f

(* What the node that steps has at hand afterwards. *)
LEMMA OwnHands ==
    ASSUME ExchangeInv, NEW n \in Nodes, StepOf(n)
    PROVE  /\ work'[n].batch \subseteq work[n].batch \cup folder[n]
           /\ \/ work'[n].file \in {work[n].file, NoFile}
              \/ TakenUp(n, work'[n].file)
<1>1. TypeOK /\ work[n] \in Works /\ work \in [Nodes -> Works]
  BY OfNode DEF ExchangeInv, TypeOK
<1>2. ASSUME NEW w, Become(n, w) PROVE work'[n] = w
  BY <1>1, <1>2, OwnStep
<1>3. Idle.batch = {} /\ Idle.file = NoFile
  BY DEF Idle
<1>4. AfterAttempt(work[n]).batch \in {work[n].batch, {}}
      /\ AfterAttempt(work[n]).file \in {work[n].file, NoFile}
  BY <1>1, <1>3 DEF AfterAttempt, Works
<1>5. ASSUME NEW w, Finish(n, w)
      PROVE  work'[n].batch = w.batch /\ work'[n].file = NoFile
  <2>1. work'[n] = AfterIngest(w)
    BY <1>5 DEF Finish
  <2> QED
    BY <2>1 DEF AfterIngest, Idle
<1>6. CASE Send(n)
  <2>1. CASE EnqueueDelivery(n)
    <3>1. work'[n] = [work[n] EXCEPT !.step = "deliver", !.to = NoNode]
      BY <1>2, <2>1 DEF EnqueueDelivery
    <3> QED
      BY <1>1, <3>1 DEF Works
  <2>2. ASSUME NEW note \in agenda, SendNote(n, note)
        PROVE  work'[n].file = work[n].file /\ work'[n].batch = work[n].batch
    BY <2>2, Composing DEF SendNote
  <2> QED
    BY <1>6, <2>1, <2>2 DEF Send
<1>7. CASE Attempt(n)
  <2>1. CASE PushTimesOut(n)
    <3>1. work'[n] = AfterAttempt(work[n])
      BY <2>1 DEF PushTimesOut
    <3> QED
      BY <1>4, <3>1
  <2>2. CASE DeliverByFolder(n) \/ RenameUpload(n) \/ PushAnswered(n) \/ DeliverFails(n)
    <3>1. work'[n] = AfterAttempt(work[n])
      BY <1>2, <2>2 DEF DeliverByFolder, RenameUpload, PushAnswered, DeliverFails
    <3> QED
      BY <1>4, <3>1
  <2>3. CASE DeliverBySFTP(n) \/ DeliverByPush(n)
    <3>1. work'[n] \in {[work[n] EXCEPT !.step = "upload"], [work[n] EXCEPT !.step = "wait"]}
      BY <1>2, <2>3 DEF DeliverBySFTP, DeliverByPush
    <3> QED
      BY <1>1, <3>1 DEF Works
  <2> QED
    BY <1>7, <2>1, <2>2, <2>3 DEF Attempt
<1>8. CASE Again(n)
  <2>1. PICK no \in Numbers : work'[n] = [Idle EXCEPT !.step = "deliver", !.no = no]
    BY <1>2, <1>8 DEF Again, RetryDelivery, ResendDelivery
  <2> QED
    BY <2>1 DEF Idle
<1>9. CASE Receive(n)
  <2>1. CASE Collect(n)
    <3>1. work'[n] = [Idle EXCEPT !.step = "collect", !.names = {f.no : f \in folder[n]}]
      BY <1>2, <2>1 DEF Collect
    <3> QED
      BY <3>1 DEF Idle
  <2>2. CASE RemoveFile(n)
    <3> DEFINE left == work[n].names \ {work[n].no}
    <3>1. work'[n] = [work[n] EXCEPT !.step = IF left = {} THEN "take" ELSE "collect",
                                     !.names = left, !.no = NoNumber]
      BY <1>2, <2>2 DEF RemoveFile
    <3> QED
      BY <1>1, <3>1 DEF Works
  <2>3. ASSUME NEW f \in folder[n], ReadFile(n, f)
        PROVE  /\ work'[n].batch \subseteq work[n].batch \cup folder[n]
               /\ work'[n].file = work[n].file
    <3>1. work'[n] = [work[n] EXCEPT !.step = "remove", !.batch = @ \cup {f}, !.no = f.no]
      BY <1>2, <2>3 DEF ReadFile
    <3> QED
      BY <1>1, <3>1 DEF Works
  <2>4. ASSUME NEW no \in work[n].names, ReadFails(n, no) PROVE work'[n] = Idle
    BY <1>2, <2>4 DEF ReadFails
  <2> QED
    BY <1>3, <1>9, <2>1, <2>2, <2>3, <2>4 DEF Receive
<1>10. CASE Ingest(n)
  <2>1. ASSUME NEW f, NEW w, Begin(n, f, w), [w EXCEPT !.step = "archive", !.file = f] \in Works
        PROVE  /\ work'[n].batch = w.batch
               /\ work'[n].file = NoFile \/ (work'[n].file = f /\ ~Archived(n, f.no))
    <3>1. CASE Archived(n, f.no)
      BY <1>5, <2>1, <3>1 DEF Begin
    <3>2. CASE ~Archived(n, f.no)
      <4>1. work'[n] = [w EXCEPT !.step = "archive", !.file = f]
        BY <1>2, <2>1, <3>2 DEF Begin
      <4> QED
        BY <2>1, <3>2, <4>1 DEF Works
    <3> QED
      BY <3>1, <3>2
  <2>2. ASSUME NEW f \in work[n].batch, TakeFile(n, f)
        PROVE  /\ work'[n].batch \subseteq work[n].batch
               /\ work'[n].file = NoFile \/ TakenUp(n, work'[n].file)
    <3> DEFINE w == [work[n] EXCEPT !.batch = @ \ {f}]
    <3>1. Begin(n, f, w)
      BY <2>2 DEF TakeFile
    <3>2. /\ w.batch \subseteq work[n].batch
          /\ [w EXCEPT !.step = "archive", !.file = f] \in Works
      BY <1>1 DEF Works, Steps
    <3> HIDE DEF w
    <3> QED
      BY <2>1, <3>1, <3>2 DEF TakenUp
  <2>3. ASSUME NEW call \in calls, AnswerCall(n, call)
        PROVE  /\ work'[n].batch = {}
               /\ work'[n].file = NoFile \/ TakenUp(n, work'[n].file)
    <3> DEFINE w == [Idle EXCEPT !.by = call.by]
    <3>1. Begin(n, call.file, w) /\ call.at = n
      BY <2>3 DEF AnswerCall
    <3>2. call \in Calls
      BY <1>1 DEF TypeOK
    <3>3. /\ w.batch = {}
          /\ [w EXCEPT !.step = "archive", !.file = call.file] \in Works
      BY <3>2, IdleType, <1>3 DEF Works, Steps, Calls
    <3> HIDE DEF w
    <3> QED
      BY <2>1, <3>1, <3>3 DEF TakenUp
  <2>4. CASE ArchiveIn(n)
    <3>1. PICK step : work'[n] = [work[n] EXCEPT !.step = step]
      BY <1>2, <2>4 DEF ArchiveIn
    <3> QED
      BY <1>1, <3>1 DEF Works
  <2>5. CASE SendReceipt(n)
    BY <2>5, Composing DEF SendReceipt
  <2>6. CASE HandleReceipt(n) \/ ContinuePipeline(n)
    BY <1>5, <2>6 DEF HandleReceipt, ContinuePipeline
  <2> QED
    BY <1>10, <2>2, <2>3, <2>4, <2>5, <2>6 DEF Ingest
<1>11. CASE Dies(n)
  BY <1>3, <1>11 DEF Dies, Crash, CrashHanded, CrashSaving, Die
<1> QED
  BY <1>6, <1>7, <1>8, <1>9, <1>10, <1>11 DEF StepOf

(* A record that is on file gets another state, and is made delivered only *)
(* if it is a receipt's, or a receipt says so.                             *)
Marked(n, no, state) ==
    /\ queue' = [queue EXCEPT ![n][no] = [@ EXCEPT !.state = state]]
    /\ state = "delivered" => \/ IsReceipt(no)
                              \/ /\ At(n, "process") /\ IsReceipt(work[n].file.no)
                                 /\ no = work[n].file.about

LEMMA QueueChanges ==
    ASSUME ExchangeInv, NEW n \in Nodes, StepOf(n)
    PROVE  \/ queue' = queue
           \/ EnqueueDelivery(n)
           \/ \E no \in FiledIn(queue[n]), state \in States :
                Marked(n, no, state) /\ UNCHANGED <<in, out>>
<1>1. CASE HandleReceipt(n)
  <2> DEFINE no == work[n].file.about
  <2>1. /\ At(n, "process") /\ IsReceipt(work[n].file.no) /\ UNCHANGED <<in, out>>
        /\ queue' = IF Filed(n, no)
                    THEN [queue EXCEPT ![n][no] = [@ EXCEPT !.state = "delivered"]] ELSE queue
    BY <1>1 DEF HandleReceipt
  <2>2. CASE no \in FiledIn(queue[n])
    BY <2>1, <2>2 DEF Marked, States, FiledIn, Filed
  <2>3. CASE no \in Numbers /\ no \notin FiledIn(queue[n])
    BY <2>1, <2>3 DEF FiledIn, Filed
  <2>4. CASE no \notin Numbers
    <3> DEFINE r == [queue[n] EXCEPT ![no] = [@ EXCEPT !.state = "delivered"]]
    <3>1. r = queue[n]
      BY <2>4, RowTypes DEF ExchangeInv, Queues
    <3>2. queue' = queue \/ queue' = [queue EXCEPT ![n] = r]
      BY <2>1
    <3> HIDE DEF r
    <3>3. queue' = queue
      BY <3>1, <3>2 DEF ExchangeInv, TypeOK
    <3> QED
      BY <3>3
  <2> QED
    BY <2>2, <2>3, <2>4 DEF FiledIn
<1>2. CASE DeliverByFolder(n) \/ RenameUpload(n) \/ PushAnswered(n) \/ DeliverFails(n)
           \/ PushTimesOut(n)
  <2>1. PICK outcome \in {"failed", "handed_over"} : RecordAttempt(n, outcome)
    BY <1>2 DEF DeliverByFolder, RenameUpload, PushAnswered, DeliverFails, PushTimesOut
  <2>2. Attempting(n) /\ UNCHANGED <<in, out>>
    BY <1>2 DEF DeliverByFolder, RenameUpload, PushAnswered, DeliverFails, PushTimesOut,
                At, Attempting
  <2>3. work[n].no \in FiledIn(queue[n])
    BY <2>2, SendingIs
  <2> DEFINE state == CASE outcome = "failed" -> "failed"
                        [] outcome = "handed_over" /\ IsReceipt(work[n].no) -> "delivered"
                        [] OTHER -> "handed_over"
  <2>4. state \in States /\ (state = "delivered" => IsReceipt(work[n].no))
    BY DEF States
  <2>5. queue' = [queue EXCEPT ![n][work[n].no] = [@ EXCEPT !.state = state]]
    BY <2>1 DEF RecordAttempt
  <2> HIDE DEF state
  <2> QED
    BY <2>2, <2>3, <2>4, <2>5 DEF Marked
<1>3. ASSUME NEW no \in Numbers, ResendDelivery(n, no)
      PROVE  \E x \in FiledIn(queue[n]), state \in States :
                Marked(n, x, state) /\ UNCHANGED <<in, out>>
  <2>1. /\ no \in FiledIn(queue[n]) /\ UNCHANGED <<in, out>>
        /\ queue' = [queue EXCEPT ![n][no] = [@ EXCEPT !.state = "failed"]]
    BY <1>3 DEF ResendDelivery, FiledIn, Filed
  <2> QED
    BY <2>1 DEF Marked, States
<1> QED
  BY <1>1, <1>2, <1>3
     DEF StepOf, Send, SendNote, Attempt, DeliverBySFTP, DeliverByPush, Again, RetryDelivery,
         Receive, Collect, RemoveFile, ReadFile, ReadFails, Ingest, TakeFile, AnswerCall,
         ArchiveIn, SendReceipt, ContinuePipeline, Dies, Crash, CrashHanded, CrashSaving, Die

(* What is on file after a step: what was, or what is filed by the step.   *)
LEMMA FiledChanges ==
    ASSUME ExchangeInv, NEW n \in Nodes, StepOf(n), NEW m \in Nodes, NEW no \in Numbers,
           Filed(m, no)', gone' = {}
    PROVE  \/ Filed(m, no) /\ queue'[m][no].to = queue[m][no].to
           \/ /\ m = n /\ At(n, "enqueue") /\ no = work[n].no /\ out' = out
              /\ queue'[m][no] = [to |-> work[n].to, state |-> "queued"]
<1>1. queue \in [Nodes -> Queues]
  BY DEF ExchangeInv, TypeOK, Queues
<1>2. CASE Filed(m, no)
  <2>1. FiledKept
    BY ExchangeStep DEF Next, StepOf
  <2> QED
    BY <1>2, <2>1 DEF FiledKept, Kept, FiledIn, Filed
<1>3. CASE ~Filed(m, no)
  <2>1. queue[m][no] = NoRecord /\ queue'[m][no] # NoRecord
    BY <1>3 DEF Filed
  <2>2. CASE queue' = queue
    BY <2>1, <2>2
  <2>3. CASE EnqueueDelivery(n)
    <3>1. /\ At(n, "enqueue") /\ out' = out
          /\ queue' = [queue EXCEPT ![n][work[n].no] = [to |-> work[n].to, state |-> "queued"]]
      BY <2>3 DEF EnqueueDelivery
    <3> QED
      BY <1>1, <2>1, <3>1 DEF Queues
  <2>4. ASSUME NEW x \in FiledIn(queue[n]), NEW state \in States, Marked(n, x, state) PROVE FALSE
    <3>1. queue' = [queue EXCEPT ![n][x] = [@ EXCEPT !.state = state]]
      BY <2>4 DEF Marked
    <3>2. x \in Numbers /\ queue[n][x] # NoRecord
      BY DEF FiledIn
    <3> QED
      BY <1>1, <2>1, <3>1, <3>2 DEF Queues
  <2> QED
    BY <2>2, <2>3, <2>4, QueueChanges
<1> QED
  BY <1>2, <1>3

(* What is delivered after a step was before, or is made so by the step.   *)
LEMMA DeliveredChanges ==
    ASSUME ExchangeInv, NEW n \in Nodes, StepOf(n), NEW m \in Nodes, NEW no \in Numbers,
           queue'[m][no].state = "delivered"
    PROVE  /\ Filed(m, no)
           /\ \/ queue[m][no].state = "delivered"
              \/ IsReceipt(no)
              \/ /\ m = n /\ At(n, "process") /\ IsReceipt(work[n].file.no)
                 /\ no = work[n].file.about
<1>1. queue \in [Nodes -> Queues]
  BY DEF ExchangeInv, TypeOK, Queues
<1>2. queue[m][no].state = "delivered" => Filed(m, no)
  BY DEF Filed, NoRecord
<1>3. CASE queue' = queue
  BY <1>2, <1>3
<1>4. CASE EnqueueDelivery(n)
  <2>1. queue' = [queue EXCEPT ![n][work[n].no] = [to |-> work[n].to, state |-> "queued"]]
    BY <1>4 DEF EnqueueDelivery
  <2>2. queue'[m][no] \in {queue[m][no], [to |-> work[n].to, state |-> "queued"]}
    BY <1>1, <2>1 DEF Queues
  <2> QED
    BY <1>2, <2>2
<1>5. ASSUME NEW x \in FiledIn(queue[n]), NEW state \in States, Marked(n, x, state)
      PROVE  /\ Filed(m, no)
             /\ \/ queue[m][no].state = "delivered"
                \/ IsReceipt(no)
                \/ /\ m = n /\ At(n, "process") /\ IsReceipt(work[n].file.no)
                   /\ no = work[n].file.about
  <2>1. queue' = [queue EXCEPT ![n][x] = [@ EXCEPT !.state = state]]
    BY <1>5 DEF Marked
  <2>2. x \in Numbers /\ queue[n][x] # NoRecord /\ queue[n][x] \in Records
    BY <1>1 DEF FiledIn, Queues
  <2>3. CASE m = n /\ no = x
    <3>1. queue'[m][no].state = state
      BY <1>1, <2>1, <2>2, <2>3 DEF Queues, Records
    <3> QED
      BY <1>5, <2>2, <2>3, <3>1 DEF Marked, Filed
  <2>4. CASE ~(m = n /\ no = x)
    <3>1. queue'[m][no] = queue[m][no]
      BY <1>1, <2>1, <2>4 DEF Queues
    <3> QED
      BY <1>2, <3>1
  <2> QED
    BY <2>3, <2>4
<1> QED
  BY <1>3, <1>4, <1>5, QueueChanges

(* A node that is about to file a message has just composed it. *)
LEMMA EnqueueHand ==
    ASSUME ExchangeInv, NEW n \in Nodes, StepOf(n), work'[n].step = "enqueue"
    PROVE  SendReceipt(n) \/ \E note \in agenda : SendNote(n, note)
<1>1. TypeOK /\ work[n] \in Works
  BY OfNode DEF ExchangeInv
<1>2. ASSUME NEW w, Become(n, w) PROVE work'[n] = w
  BY <1>1, <1>2, OwnStep
<1>3. Idle.step = "idle"
  BY DEF Idle
<1>4. AfterAttempt(work[n]).step # "enqueue"
  BY <1>1, <1>3 DEF AfterAttempt, Works
<1>5. \A w : AfterIngest(w).step # "enqueue"
  BY DEF AfterIngest, Idle
<1>6. ASSUME NEW f, NEW w \in Works, Begin(n, f, w) PROVE FALSE
  <2>1. CASE Finish(n, w)
    BY <1>5, <2>1 DEF Finish
  <2>2. CASE Become(n, [w EXCEPT !.step = "archive", !.file = f])
    BY <1>2, <2>2 DEF Works
  <2> QED
    BY <1>6, <2>1, <2>2 DEF Begin
<1>7. CASE Send(n)
  <2>1. CASE EnqueueDelivery(n)
    <3>1. work'[n] = [work[n] EXCEPT !.step = "deliver", !.to = NoNode]
      BY <1>2, <2>1 DEF EnqueueDelivery
    <3> QED
      BY <1>1, <3>1 DEF Works
  <2> QED
    BY <1>7, <2>1 DEF Send
<1>8. CASE Attempt(n)
  <2>1. work'[n] \in {AfterAttempt(work[n]), [work[n] EXCEPT !.step = "upload"],
                      [work[n] EXCEPT !.step = "wait"]}
    BY <1>2, <1>8 DEF Attempt, DeliverByFolder, DeliverBySFTP, RenameUpload, DeliverByPush,
                      PushAnswered, PushTimesOut, DeliverFails
  <2> QED
    BY <1>1, <1>4, <2>1 DEF Works
<1>9. CASE Again(n)
  <2>1. PICK no \in Numbers : work'[n] = [Idle EXCEPT !.step = "deliver", !.no = no]
    BY <1>2, <1>9 DEF Again, RetryDelivery, ResendDelivery
  <2> QED
    BY <2>1 DEF Idle
<1>10. CASE Receive(n)
  <2>1. CASE Collect(n)
    <3>1. work'[n] = [Idle EXCEPT !.step = "collect", !.names = {f.no : f \in folder[n]}]
      BY <1>2, <2>1 DEF Collect
    <3> QED
      BY <3>1 DEF Idle
  <2>2. CASE RemoveFile(n)
    <3> DEFINE left == work[n].names \ {work[n].no}
    <3>1. work'[n] = [work[n] EXCEPT !.step = IF left = {} THEN "take" ELSE "collect",
                                     !.names = left, !.no = NoNumber]
      BY <1>2, <2>2 DEF RemoveFile
    <3> QED
      BY <1>1, <3>1 DEF Works
  <2>3. ASSUME NEW f \in folder[n], ReadFile(n, f) PROVE FALSE
    <3>1. work'[n] = [work[n] EXCEPT !.step = "remove", !.batch = @ \cup {f}, !.no = f.no]
      BY <1>2, <2>3 DEF ReadFile
    <3> QED
      BY <1>1, <3>1 DEF Works
  <2>4. ASSUME NEW no \in work[n].names, ReadFails(n, no) PROVE FALSE
    BY <1>2, <1>3, <2>4 DEF ReadFails
  <2> QED
    BY <1>10, <2>1, <2>2, <2>3, <2>4 DEF Receive
<1>11. CASE Ingest(n)
  <2>1. ASSUME NEW f \in work[n].batch, TakeFile(n, f) PROVE FALSE
    <3>1. [work[n] EXCEPT !.batch = @ \ {f}] \in Works
      BY <1>1 DEF Works
    <3> QED
      BY <1>6, <2>1, <3>1 DEF TakeFile
  <2>2. ASSUME NEW call \in calls, AnswerCall(n, call) PROVE FALSE
    <3>1. call \in Calls
      BY <1>1 DEF TypeOK
    <3>2. [Idle EXCEPT !.by = call.by] \in Works
      BY <3>1, IdleType DEF Works, Calls
    <3> QED
      BY <1>6, <2>2, <3>2 DEF AnswerCall
  <2>3. CASE ArchiveIn(n)
    <3>1. work'[n] = [work[n] EXCEPT !.step = IF IsReceipt(work[n].file.no) THEN "process"
                                              ELSE "receipt"]
      BY <1>2, <2>3 DEF ArchiveIn
    <3> QED
      BY <1>1, <3>1 DEF Works
  <2>4. CASE HandleReceipt(n) \/ ContinuePipeline(n)
    BY <1>5, <2>4 DEF HandleReceipt, ContinuePipeline, Finish
  <2> QED
    BY <1>11, <2>1, <2>2, <2>3, <2>4 DEF Ingest
<1>12. CASE Dies(n)
  BY <1>3, <1>12 DEF Dies, Crash, CrashHanded, CrashSaving, Die
<1> QED
  BY <1>7, <1>8, <1>9, <1>10, <1>11, <1>12 DEF StepOf
-----------------------------------------------------------------------------
(* Provenance is kept while the numbers have not clashed.                  *)

(* What a step takes nothing away from, while no file is gone. *)
Carries == /\ gone' = {} /\ FiledKept /\ InKept
           /\ \A n \in Nodes, no \in Numbers : out[n][no] # NoFile => out'[n][no] # NoFile

LEMMA StepCarries == ASSUME ExchangeInv, NEW n \in Nodes, StepOf(n), gone' = {} PROVE Carries
<1>1. FiledKept
  BY ExchangeStep DEF Next, StepOf
<1>2. \A m \in Nodes, no \in Numbers : out[m][no] # NoFile => out'[m][no] # NoFile
  <2>1. ASSUME NEW to, NEW type, NEW about, Compose(n, to, type, about, work[n]),
               NEW m \in Nodes, NEW no \in Numbers, out[m][no] # NoFile
        PROVE  out'[m][no] # NoFile
    <3> DEFINE f == [from |-> n, to |-> to, no |-> NextNumber(n, type), about |-> about]
    <3>1. f # NoFile
      BY DEF NoFile
    <3>2. out'[m][no] = f \/ out'[m][no] = out[m][no]
      BY <2>1, Composing
    <3> QED
      BY <2>1, <3>1, <3>2
  <2> QED
    BY <2>1, OutChanges DEF SendReceipt, SendNote
<1> QED
  BY <1>1, <1>2, InStays DEF Carries

(* A file stays what it was. *)
LEMMA StaysGenuine ==
    ASSUME Carries, NEW n \in Nodes, NEW f, f.no \in Numbers, Genuine(n, f)
    PROVE  Genuine(n, f)'
BY DEF Carries, FiledKept, Kept, FiledIn, Genuine, Filed

LEMMA StaysKnown ==
    ASSUME Carries, NEW n \in Nodes, NEW f, f.no \in Numbers, Known(n, f)
    PROVE  Known(n, f)'
<1>1. CASE Genuine(n, f)
  BY <1>1, StaysGenuine DEF Known
<1>2. CASE out[n][f.no] # NoFile
  BY <1>2 DEF Known, Carries
<1> QED
  BY <1>1, <1>2 DEF Known

(* The bytes that are sent are the sender's own, or an echo. *)
LEMMA ArrivingIsKnown ==
    ASSUME ExchangeInv, Provenance, ~NumbersClash, NEW m \in Nodes, NEW f, Arriving(m, f)
    PROVE  f \in Files /\ Known(m, f)
<1>1. PICK n \in Nodes : Attempting(n) /\ Sending(n).to = m /\ Bytes(n) = f
  BY DEF Arriving
<1> DEFINE no == work[n].no
<1>2. no \in FiledIn(queue[n]) /\ f \in Files
  BY <1>1, SendingIs
<1>3. no \in Numbers /\ Filed(n, no) /\ queue[n][no].to = m /\ f = ReadArchived(n, no)
  BY <1>1, <1>2 DEF FiledIn, Filed, Sending, Bytes
<1>4. out[n][no] # NoFile
  BY <1>2, OfNode DEF BooksOK
<1> HIDE DEF no
<1>5. ComposedFile(n, no, out[n][no])
  BY <1>3, <1>4 DEF Provenance, ComposedOK
<1>6. CASE in[n][no] = NoFile
  <2>1. f = out[n][no]
    BY <1>3, <1>6 DEF ReadArchived
  <2>2. f.from = n /\ f.no = no /\ f.to = m /\ n # m
    BY <1>3, <1>5, <2>1 DEF ComposedFile
  <2> QED
    BY <1>2, <1>3, <2>1, <2>2 DEF Known, Genuine
<1>7. CASE in[n][no] # NoFile
  <2>1. f = in[n][no]
    BY <1>3, <1>7 DEF ReadArchived
  <2>2. f.no = no
    BY <1>3, <1>7, <2>1, OfNode DEF BooksOK
  <2>3. Genuine(n, f)
    BY <1>3, <1>7, <2>1 DEF Provenance, FilesOK
  <2>4. f.from = m
    BY <1>3, <1>7, <2>1 DEF NumbersClash
  <2>5. out[m][no] = f /\ f # NoFile
    BY <1>7, <2>1, <2>2, <2>3, <2>4 DEF Genuine
  <2> QED
    BY <1>2, <2>2, <2>5 DEF Known
<1> QED
  BY <1>6, <1>7

(* The files of the folders, and of the calls. *)
LEMMA FoldersProvenance ==
    ASSUME ExchangeInv, Provenance, ~NumbersClash, gone' = {}, NEW n \in Nodes, StepOf(n),
           NEW m \in Nodes, NEW f \in folder'[m]
    PROVE  Known(m, f)'
<1>1. f \in Files /\ Known(m, f)
  <2>1. CASE f \in folder[m]
    BY <2>1 DEF Provenance, FilesOK, ExchangeInv, TypeOK
  <2> QED
    BY <2>1, FolderChanges, ArrivingIsKnown
<1>2. f.no \in Numbers
  BY <1>1 DEF Files
<1> QED
  BY <1>1, <1>2, StepCarries, StaysKnown

LEMMA CallsProvenance ==
    ASSUME ExchangeInv, Provenance, ~NumbersClash, gone' = {}, NEW n \in Nodes, StepOf(n),
           NEW call \in calls'
    PROVE  Known(call.at, call.file)'
<1>0. call \in Calls
  BY ExchangeStep DEF ExchangeInv, TypeOK, Next, StepOf
<1>1. call.at \in Nodes /\ call.file \in Files /\ call.file.no \in Numbers
  BY <1>0 DEF Calls, Files
<1>2. Known(call.at, call.file)
  <2>1. ASSUME NEW b \in calls, b.at = call.at, b.file = call.file
        PROVE  Known(call.at, call.file)
    BY <2>1 DEF Provenance, CallsOK
  <2> QED
    BY <1>1, <2>1, CallsChange, ArrivingIsKnown
<1> QED
  BY <1>1, <1>2, StepCarries, StaysKnown

(* What a node has read, and the file it is at. *)
LEMMA BatchProvenance ==
    ASSUME ExchangeInv, Provenance, gone' = {}, NEW n \in Nodes, StepOf(n),
           NEW m \in Nodes, NEW f \in work'[m].batch
    PROVE  Known(m, f)'
<1>1. f \in work[m].batch \cup folder[m]
  BY OwnHands, OthersHands
<1>2. work[m] \in Works /\ folder[m] \subseteq Files
  BY OfNode DEF ExchangeInv, TypeOK
<1>3. f \in Files /\ f.no \in Numbers
  BY <1>1, <1>2 DEF Works, Files
<1>4. Known(m, f)
  BY <1>1 DEF Provenance, FilesOK
<1> QED
  BY <1>3, <1>4, StepCarries, StaysKnown

LEMMA HandProvenance ==
    ASSUME ExchangeInv, Provenance, gone' = {}, NEW n \in Nodes, StepOf(n), NEW m \in Nodes,
           NEW f, f # NoFile, f = work'[m].file
    PROVE  Genuine(m, f)'
<1>1. work'[m] \in Works
  <2>1. TypeOK'
    BY ExchangeStep DEF ExchangeInv, Next, StepOf
  <2> QED
    BY <2>1 DEF TypeOK
<1>2. f \in Files /\ f.no \in Numbers
  BY <1>1 DEF Works, Files
<1>3. Genuine(m, f)
  <2>1. CASE f = work[m].file
    BY <2>1 DEF Provenance, FilesOK
  <2>2. CASE TakenUp(m, f)
    <3>1. Known(m, f)
      BY <2>2 DEF TakenUp, Provenance, FilesOK, CallsOK
    <3> QED
      BY <2>2, <3>1 DEF TakenUp, Known, Archived
  <2> QED
    BY <2>1, <2>2, OwnHands, OthersHands
<1> QED
  BY <1>2, <1>3, StepCarries, StaysGenuine

(* What a node has archived as received. *)
LEMMA ArchiveProvenance ==
    ASSUME ExchangeInv, Provenance, gone' = {}, NEW n \in Nodes, StepOf(n), NEW m \in Nodes,
           NEW no \in Numbers, NEW f, f # NoFile, f = in'[m][no]
    PROVE  Genuine(m, f)'
<1>1. f \in Files /\ Genuine(m, f)
  <2>1. CASE f = in[m][no]
    <3>1. in[m] \in Archives
      BY RowTypes DEF ExchangeInv
    <3> QED
      BY <2>1, <3>1 DEF Provenance, FilesOK, Archives
  <2>2. CASE ArchiveIn(n) /\ m = n /\ f = work[n].file
    BY <2>2, Archiving DEF Provenance, FilesOK
  <2> QED
    BY <2>1, <2>2, InChanges, Archiving
<1>2. f.no \in Numbers
  BY <1>1 DEF Files
<1> QED
  BY <1>1, <1>2, StepCarries, StaysGenuine

(* What a node has verified stays verified. *)
LEMMA StaysVerified ==
    ASSUME Carries, NEW n \in Nodes, NEW s, s.no \in Numbers, s.by \in Nodes, Has(n, s)
    PROVE  Has(n, s)'
BY DEF Carries, InKept, Has

(* A message is composed for another node, and a receipt about what that   *)
(* node sent.                                                              *)
Composed(n, no, to, about) ==
    /\ no \in Numbers /\ to \in Nodes \ {n} /\ ~Filed(n, no)
    /\ IsReceipt(no) => about \in Numbers /\ Has(n, [by |-> to, no |-> about])
    /\ \A m \in Nodes, x \in Numbers :
         out'[m][x] = IF m = n /\ x = no
                      THEN [from |-> n, to |-> to, no |-> no, about |-> about] ELSE out[m][x]
    /\ work'[n].no = no /\ work'[n].to = to
    /\ UNCHANGED <<queue, in>>

LEMMA ComposedNow ==
    ASSUME ExchangeInv, Provenance, gone = {}, NEW n \in Nodes,
           SendReceipt(n) \/ \E note \in agenda : SendNote(n, note)
    PROVE  \E no, to, about : Composed(n, no, to, about)
<1>1. CASE SendReceipt(n)
  <2> DEFINE f == work[n].file
             no == NextNumber(n, Receipt)
  <2>1. /\ Compose(n, f.from, Receipt, f.no, work[n]) /\ work[n].step = "receipt"
        /\ UNCHANGED <<queue, in>>
    BY <1>1 DEF SendReceipt, At
  <2>2. f # NoFile /\ in[n][f.no] = f /\ f \in Files
    BY <2>1, OfNode DEF HandOK, Works
  <2>3. Genuine(n, f) /\ f.no \in Numbers
    BY <2>2 DEF Provenance, FilesOK, Files
  <2>4. /\ no \in Numbers /\ no.type = Receipt /\ ~Filed(n, no)
        /\ \A m \in Nodes, x \in Numbers :
             out'[m][x] = IF m = n /\ x = no
                          THEN [from |-> n, to |-> f.from, no |-> no, about |-> f.no]
                          ELSE out[m][x]
        /\ work'[n].no = no /\ work'[n].to = f.from
    BY <2>1, Composing
  <2>5. Has(n, [by |-> f.from, no |-> f.no]) /\ f.from \in Nodes \ {n}
    BY <2>2, <2>3 DEF Has, Genuine
  <2> HIDE DEF f, no
  <2>6. Composed(n, no, f.from, f.no)
    BY <2>1, <2>3, <2>4, <2>5 DEF Composed
  <2> QED
    BY <2>6
<1>2. ASSUME NEW note \in agenda, SendNote(n, note)
      PROVE  \E no, to, about : Composed(n, no, to, about)
  <2> DEFINE no == NextNumber(n, note.type)
  <2>1. /\ Compose(n, note.to, note.type, NoNumber, work[n]) /\ note.from = n
        /\ UNCHANGED <<queue, in>>
    BY <1>2 DEF SendNote
  <2>2. note \in Notes
    BY DEF ExchangeInv, TypeOK
  <2>3. note.to \in Nodes \ {n} /\ note.type # Receipt
    BY <2>1, <2>2, TypesAssumption DEF Notes
  <2>4. /\ no \in Numbers /\ no.type = note.type /\ ~Filed(n, no)
        /\ \A m \in Nodes, x \in Numbers :
             out'[m][x] = IF m = n /\ x = no
                          THEN [from |-> n, to |-> note.to, no |-> no, about |-> NoNumber]
                          ELSE out[m][x]
        /\ work'[n].no = no /\ work'[n].to = note.to
    BY <2>1, Composing
  <2>5. ~IsReceipt(no)
    BY <2>3, <2>4 DEF IsReceipt
  <2> HIDE DEF no
  <2>6. Composed(n, no, note.to, NoNumber)
    BY <2>1, <2>3, <2>4, <2>5 DEF Composed
  <2> QED
    BY <2>6
<1> QED
  BY <1>1, <1>2

(* A message a node has composed. *)
LEMMA MessagesProvenance ==
    ASSUME ExchangeInv, Provenance, gone' = {}, NEW n \in Nodes, StepOf(n), NEW m \in Nodes,
           NEW no \in Numbers, NEW f, f # NoFile, f = out'[m][no]
    PROVE  ComposedFile(m, no, f)'
<1>0. Carries /\ gone = {}
  BY StepCarries, GoneStays
<1>1. CASE f = out[m][no]
  <2>1. ComposedFile(m, no, f) /\ f \in Files
    <3>1. out[m] \in Archives
      BY RowTypes DEF ExchangeInv
    <3> QED
      BY <1>1, <3>1 DEF Provenance, ComposedOK, Archives
  <2>2. f.from = m /\ f.no = no /\ f.to \in Nodes \ {m}
    BY <2>1 DEF ComposedFile
  <2>3. IsReceipt(no) => f.about \in Numbers /\ Has(m, [by |-> f.to, no |-> f.about])'
    BY <1>0, <2>1, <2>2 DEF ComposedFile, Carries, InKept, Has
  <2>4. Filed(m, no)' => queue'[m][no].to = f.to
    <3>1. ASSUME Filed(m, no)' PROVE queue'[m][no].to = f.to
      <4>1. CASE Filed(m, no) /\ queue'[m][no].to = queue[m][no].to
        BY <2>1, <4>1 DEF ComposedFile
      <4>2. CASE /\ m = n /\ At(n, "enqueue") /\ no = work[n].no
                 /\ queue'[m][no] = [to |-> work[n].to, state |-> "queued"]
        BY <1>1, <4>2 DEF Provenance, ComposedOK, At
      <4> QED
        BY <3>1, <4>1, <4>2, FiledChanges
    <3> QED
      BY <3>1
  <2> QED
    BY <2>2, <2>3, <2>4 DEF ComposedFile, IsReceipt
<1>2. CASE f # out[m][no]
  <2>1. SendReceipt(n) \/ \E note \in agenda : SendNote(n, note)
    BY <1>2, OutChanges
  <2>2. PICK x, to, about : Composed(n, x, to, about)
    BY <1>0, <2>1, ComposedNow
  <2>3. /\ m = n /\ no = x
        /\ f = [from |-> n, to |-> to, no |-> no, about |-> about]
    BY <1>2, <2>2 DEF Composed
  <2>4. f.from = n /\ f.no = no /\ f.to = to /\ f.about = about
    BY <2>3
  <2>5. IsReceipt(no) => about \in Numbers /\ Has(n, [by |-> to, no |-> about])'
    BY <2>2, <2>3 DEF Composed, Has
  <2>6. ~Filed(n, no)' /\ to \in Nodes \ {n}
    BY <2>2, <2>3 DEF Composed, Filed
  <2> QED
    BY <2>3, <2>4, <2>5, <2>6 DEF ComposedFile, IsReceipt
<1> QED
  BY <1>1, <1>2

LEMMA EnqueueProvenance ==
    ASSUME ExchangeInv, Provenance, gone' = {}, NEW n \in Nodes, StepOf(n), NEW m \in Nodes,
           work'[m].step = "enqueue"
    PROVE  work'[m].to = out'[m][work'[m].no].to
<1>0. gone = {}
  BY GoneStays
<1>1. ASSUME NEW no, NEW to, NEW about, Composed(n, no, to, about)
      PROVE  /\ out'[n][no].to = to /\ work'[n].no = no /\ work'[n].to = to
             /\ \A k \in Nodes \ {n}, x \in Numbers : out'[k][x] = out[k][x]
  BY <1>1 DEF Composed
<1>2. CASE m = n
  <2>1. SendReceipt(n) \/ \E note \in agenda : SendNote(n, note)
    BY <1>2, EnqueueHand
  <2> QED
    BY <1>0, <1>1, <1>2, <2>1, ComposedNow
<1>3. CASE m # n
  <2>1. /\ work[m].step = "enqueue"
        /\ work'[m].no = work[m].no /\ work'[m].to = work[m].to
    BY <1>3, OthersHands
  <2>2. work[m].no \in Numbers /\ work[m].to = out[m][work[m].no].to
    BY <2>1, OfNode DEF HandOK, Provenance, ComposedOK
  <2>3. out'[m][work[m].no] = out[m][work[m].no]
    BY <1>0, <1>1, <1>3, <2>2, OutChanges, ComposedNow
  <2> QED
    BY <2>1, <2>2, <2>3
<1> QED
  BY <1>2, <1>3

LEMMA ProvenanceStep ==
    ASSUME ExchangeInv, Provenance, ~NumbersClash, gone' = {}, NEW n \in Nodes, StepOf(n)
    PROVE  Provenance'
<1>1. \A call \in calls' : Known(call.at, call.file)'
  BY CallsProvenance
<1>2. ASSUME NEW m \in Nodes
      PROVE  /\ \A f \in folder'[m] : Known(m, f)'
             /\ \A f \in work'[m].batch : Known(m, f)'
  BY FoldersProvenance, BatchProvenance
<1>3. ASSUME NEW m \in Nodes, work'[m].file # NoFile
      PROVE  Genuine(m, work[m].file)'
  <2>1. PICK f : f = work'[m].file
    OBVIOUS
  <2>2. Genuine(m, f)'
    BY <1>3, <2>1, HandProvenance
  <2> QED
    BY <2>1, <2>2 DEF Genuine, Filed
<1>4. ASSUME NEW m \in Nodes, NEW no \in Numbers, in'[m][no] # NoFile
      PROVE  Genuine(m, in[m][no])'
  <2>1. PICK f : f = in'[m][no]
    OBVIOUS
  <2>2. Genuine(m, f)'
    BY <1>4, <2>1, ArchiveProvenance
  <2> QED
    BY <2>1, <2>2 DEF Genuine, Filed
<1>5. ASSUME NEW m \in Nodes, NEW no \in Numbers, out'[m][no] # NoFile
      PROVE  ComposedFile(m, no, out[m][no])'
  <2>1. PICK f : f = out'[m][no]
    OBVIOUS
  <2>2. ComposedFile(m, no, f)'
    BY <1>5, <2>1, MessagesProvenance
  <2> QED
    BY <2>1, <2>2 DEF ComposedFile, Has, Filed
<1> QED
  BY <1>1, <1>2, <1>3, <1>4, <1>5, EnqueueProvenance DEF Provenance, CallsOK, FilesOK, ComposedOK

(* A message becomes delivered when its receipt is handled: a receipt that *)
(* is genuine was written by the receiver, which had verified the message. *)
LEMMA ReceiptSpeaksTrue ==
    ASSUME ExchangeInv, Provenance, NEW n \in Nodes, At(n, "process"),
           IsReceipt(work[n].file.no), NEW no \in Numbers, no = work[n].file.about,
           Filed(n, no)
    PROVE  Has(queue[n][no].to, [by |-> n, no |-> no])
<1> DEFINE f == work[n].file
           k == f.from
<1>1. f # NoFile /\ f \in Files
  BY OfNode DEF At, HandOK, Works
<1>2. Genuine(n, f) /\ f.no \in Numbers
  BY <1>1 DEF Provenance, FilesOK, Files
<1>3. k \in Nodes /\ f.to = n /\ out[k][f.no] = f
  BY <1>2 DEF Genuine
<1>4. ComposedFile(k, f.no, f)
  BY <1>1, <1>2, <1>3 DEF Provenance, ComposedOK
<1>5. Has(k, [by |-> n, no |-> no])
  BY <1>3, <1>4 DEF ComposedFile
<1> DEFINE g == in[k][no]
<1>6. g # NoFile /\ g.from = n /\ g.no = no
  BY <1>3, <1>5, OfNode DEF Has, BooksOK
<1>7. Genuine(k, g)
  BY <1>3, <1>6 DEF Provenance, FilesOK
<1>8. out[n][no] = g /\ g.to = k
  BY <1>6, <1>7 DEF Genuine
<1>9. ComposedFile(n, no, g)
  BY <1>6, <1>8 DEF Provenance, ComposedOK
<1>10. queue[n][no].to = k
  BY <1>8, <1>9 DEF ComposedFile
<1> QED
  BY <1>5, <1>10

LEMMA ReceiptedStep ==
    ASSUME ExchangeInv, Provenance, DeliveredIsReceipted, gone' = {}, NEW n \in Nodes, StepOf(n)
    PROVE  DeliveredIsReceipted'
<1> SUFFICES ASSUME NEW s \in Sent, ClaimOf(s)' = "delivered", ~IsReceipt(s.no)
             PROVE  Has(queue[s.by][s.no].to, s)'
  BY DEF DeliveredIsReceipted, IsReceipt
<1>1. s.by \in Nodes /\ s.no \in Numbers /\ s = [by |-> s.by, no |-> s.no]
  BY DEF Sent
<1>2. queue'[s.by][s.no].state = "delivered"
  BY DEF ClaimOf
<1>3. Filed(s.by, s.no) /\ Has(queue[s.by][s.no].to, s)
  <2>1. CASE queue[s.by][s.no].state = "delivered"
    <3>1. ClaimOf(s) = "delivered"
      BY <2>1 DEF ClaimOf
    <3> QED
      BY <1>1, <1>2, <3>1, DeliveredChanges DEF DeliveredIsReceipted
  <2>2. CASE /\ s.by = n /\ At(n, "process") /\ IsReceipt(work[n].file.no)
             /\ s.no = work[n].file.about
    BY <1>1, <1>2, <2>2, DeliveredChanges, ReceiptSpeaksTrue
  <2> QED
    BY <1>1, <1>2, <2>1, <2>2, DeliveredChanges
<1>4. Carries
  BY StepCarries
<1>5. queue'[s.by][s.no].to = queue[s.by][s.no].to
  BY <1>1, <1>3, <1>4 DEF Carries, FiledKept, Kept, FiledIn, Filed
<1>6. queue[s.by][s.no].to \in Nodes
  <2>1. queue[s.by] \in Queues
    BY <1>1, RowTypes DEF ExchangeInv
  <2> QED
    BY <1>1, <1>3, <2>1 DEF Queues, Records, Filed
<1> QED
  BY <1>1, <1>3, <1>4, <1>5, <1>6 DEF Has, Carries, InKept

(* Once numbers have clashed, they have. *)
LEMMA ClashStays ==
    ASSUME ExchangeInv, NumbersClash, gone' = {}, NEW n \in Nodes, StepOf(n)
    PROVE  NumbersClash'
<1>1. PICK m \in Nodes, no \in Numbers :
         Filed(m, no) /\ in[m][no] # NoFile /\ in[m][no].from # queue[m][no].to
  BY DEF NumbersClash
<1>2. Carries
  BY StepCarries
<1>3. Filed(m, no)' /\ queue'[m][no].to = queue[m][no].to /\ in'[m][no] = in[m][no]
  BY <1>1, <1>2 DEF Carries, InKept, FiledKept, Kept, FiledIn, Filed
<1> QED
  BY <1>1, <1>3 DEF NumbersClash

(* What holds of the nodes at first, and while nothing happens.             *)
LEMMA HonestInit == Init => Provenance /\ DeliveredIsReceipted
<1> SUFFICES ASSUME Init PROVE Provenance /\ DeliveredIsReceipted
  OBVIOUS
<1>1. \A n \in Nodes : /\ folder[n] = {} /\ work[n] = Idle
                       /\ \A no \in Numbers : /\ queue[n][no] = NoRecord
                                              /\ in[n][no] = NoFile /\ out[n][no] = NoFile
  BY DEF Init
<1>2. Idle.batch = {} /\ Idle.file = NoFile /\ Idle.step = "idle" /\ calls = {}
  BY DEF Idle, Init
<1>3. Provenance
  BY <1>1, <1>2 DEF Provenance, CallsOK, FilesOK, ComposedOK
<1>4. DeliveredIsReceipted
  BY <1>1 DEF DeliveredIsReceipted, Sent, ClaimOf, NoRecord
<1> QED
  BY <1>3, <1>4

LEMMA HonestStutter ==
    ASSUME UNCHANGED vars
    PROVE  /\ gone' = gone
           /\ NumbersClash => NumbersClash'
           /\ Provenance => Provenance'
           /\ DeliveredIsReceipted => DeliveredIsReceipted'
<1>1. NumbersClash => NumbersClash'
  BY DEF vars, NumbersClash, Filed
<1>2. Provenance => Provenance'
  BY DEF vars, Provenance, CallsOK, FilesOK, ComposedOK, Known, Genuine, ComposedFile, Filed, Has
<1>3. DeliveredIsReceipted => DeliveredIsReceipted'
  BY DEF vars, DeliveredIsReceipted, ClaimOf, Has
<1>4. gone' = gone
  BY DEF vars
<1> QED
  BY <1>1, <1>2, <1>3, <1>4

(* The invariant, always. *)
LEMMA HonestNodes == Spec => []HonestInv
<1>1. Init => HonestInv
  BY HonestInit DEF HonestInv
<1>2. ExchangeInv /\ HonestInv /\ [Next]_vars => HonestInv'
  <2> SUFFICES ASSUME ExchangeInv, HonestInv, [Next]_vars, gone' = {} PROVE HonestInv'
    BY DEF HonestInv
  <2>1. CASE UNCHANGED vars
    BY <2>1, HonestStutter DEF HonestInv
  <2>2. ASSUME NEW n \in Nodes, StepOf(n) PROVE HonestInv'
    <3>1. gone = {}
      BY <2>2, GoneStays
    <3> QED
      BY <2>2, <3>1, ProvenanceStep, ReceiptedStep, ClashStays DEF HonestInv
  <2> QED
    BY <2>1, <2>2 DEF Next, StepOf
<1> QED
  BY <1>1, <1>2, ExchangeInvariant, PTL DEF Spec

(* transport, engine.Ingest: what a node keeps as received is what its     *)
(* sender keeps as sent, and has on file, for this node; unless a number   *)
(* was given to two messages that met in one archive, or a queue has lost  *)
(* a file its numbers were counted from.                                   *)
ArchivesAgree == \A n \in Nodes, no \in Numbers : in[n][no] # NoFile => Genuine(n, in[n][no])

THEOREM WhatIsKeptWasSent == Spec => [](gone = {} => NumbersClash \/ ArchivesAgree)
<1>1. HonestInv => (gone = {} => NumbersClash \/ ArchivesAgree)
  BY DEF HonestInv, Provenance, FilesOK, ArchivesAgree
<1> QED
  BY <1>1, HonestNodes, PTL

(* delivery.go, "delivered is only ever set when the partner's node sent   *)
(* back a signed receipt": among any number of nodes, that is so until a   *)
(* number was given to two messages that met in one archive, or a queue    *)
(* has lost a file its numbers were counted from.                          *)
THEOREM HonestUnlessNumbersClash ==
    Spec => [](gone = {} => NumbersClash \/ DeliveredIsReceipted)
<1>1. HonestInv => (gone = {} => NumbersClash \/ DeliveredIsReceipted)
  BY DEF HonestInv
<1> QED
  BY <1>1, HonestNodes, PTL

(* Two companies: there is one other node, and everything is from it or    *)
(* for it, so that numbers cannot clash.                                   *)
TwoNodes == \A n, m, k \in Nodes : n = m \/ n = k \/ m = k

TwoNodesInv == gone # {} \/ (Provenance /\ DeliveredIsReceipted /\ ~NumbersClash)

LEMMA TwoNodesInvariant == ASSUME TwoNodes PROVE Spec => []TwoNodesInv
<1>1. ExchangeInv /\ Provenance => ~NumbersClash
  <2> SUFFICES ASSUME ExchangeInv, Provenance,
                      NEW n \in Nodes, NEW no \in Numbers, Filed(n, no), in[n][no] # NoFile
               PROVE  in[n][no].from = queue[n][no].to
    BY DEF NumbersClash
  <2>1. in[n][no].from \in Nodes \ {n}
    BY DEF Provenance, FilesOK, Genuine
  <2>2. out[n][no] # NoFile
    BY OfNode DEF BooksOK, FiledIn, Filed
  <2>3. queue[n][no].to \in Nodes \ {n}
    BY <2>2 DEF Provenance, ComposedOK, ComposedFile
  <2> QED
    BY <2>1, <2>3 DEF TwoNodes
<1> DEFINE OK == gone # {} \/ (Provenance /\ DeliveredIsReceipted)
<1>2. Init => OK
  BY HonestInit
<1>3. ExchangeInv /\ OK /\ [Next]_vars => OK'
  <2> SUFFICES ASSUME ExchangeInv, OK, [Next]_vars, gone' = {}
               PROVE  Provenance' /\ DeliveredIsReceipted'
    OBVIOUS
  <2>1. CASE UNCHANGED vars
    BY <2>1, HonestStutter
  <2>2. ASSUME NEW n \in Nodes, StepOf(n) PROVE Provenance' /\ DeliveredIsReceipted'
    <3>1. Provenance /\ DeliveredIsReceipted
      BY <2>2, GoneStays
    <3> QED
      BY <1>1, <2>2, <3>1, ProvenanceStep, ReceiptedStep
  <2> QED
    BY <2>1, <2>2 DEF Next, StepOf
<1>4. OK /\ ExchangeInv => TwoNodesInv
  BY <1>1 DEF TwoNodesInv
<1> HIDE DEF OK
<1> QED
  BY <1>2, <1>3, <1>4, ExchangeInvariant, PTL DEF Spec

(* delivery.go, "delivered is only ever set when the partner's node sent   *)
(* back a signed receipt": between two companies it is so, whatever is     *)
(* lost, sent twice or pushed across each other and wherever a server      *)
(* dies, as long as no queue has lost a file its numbers were counted      *)
(* from.                                                                   *)
THEOREM TwoCompaniesAreHonest ==
    ASSUME TwoNodes PROVE Spec => [](gone = {} => DeliveredIsReceipted)
<1>1. TwoNodesInv => (gone = {} => DeliveredIsReceipted)
  BY DEF TwoNodesInv
<1> QED
  BY <1>1, TwoNodesInvariant, PTL
-----------------------------------------------------------------------------
(* The nodes keep the promise of DeliveryPromise to each other.            *)

ClaimsNow == [s \in Sent |-> ClaimOf(s)]
VerifiedNow == {s \in Sent : \E n \in Nodes : Has(n, s)}

(* A file is archived: its message is verified. *)
LEMMA ArchiveVerifies ==
    ASSUME ExchangeInv, Provenance, NEW n \in Nodes, ArchiveIn(n)
    PROVE  [Promise!Next]_Promise!vars
<1> DEFINE f == work[n].file
           s == [by |-> f.from, no |-> f.no]
<1>1. /\ f \in Files /\ f # NoFile /\ f.no \in Numbers
      /\ in[n][f.no] = NoFile
      /\ \A m \in Nodes, no \in Numbers : in'[m][no] = IF m = n /\ no = f.no THEN f ELSE in[m][no]
      /\ queue' = queue
  BY Archiving
<1>2. Genuine(n, f)
  BY <1>1 DEF Provenance, FilesOK
<1>3. f.from \in Nodes /\ f.to = n /\ Filed(f.from, f.no)
  BY <1>2 DEF Genuine
<1> HIDE DEF f
<1>4. s \in Sent /\ s.by = f.from /\ s.no = f.no
  BY <1>1, <1>3 DEF Sent
<1>5. ASSUME NEW t \in Sent, NEW m \in Nodes
      PROVE  Has(m, t)' <=> Has(m, t) \/ (m = n /\ t = s)
  <2>1. t.by \in Nodes /\ t.no \in Numbers /\ t = [by |-> t.by, no |-> t.no]
    BY DEF Sent
  <2>2. CASE m = n /\ t.no = f.no
    <3>1. in'[m][t.no] = f /\ in[m][t.no] = NoFile
      BY <1>1, <2>1, <2>2
    <3>2. t = s <=> f.from = t.by
      BY <2>1, <2>2, <1>4
    <3> QED
      BY <1>1, <1>3, <2>2, <3>1, <3>2 DEF Has
  <2>3. CASE ~(m = n /\ t.no = f.no)
    <3>1. in'[m][t.no] = in[m][t.no]
      BY <1>1, <2>1, <2>3
    <3> QED
      BY <1>4, <2>3, <3>1 DEF Has
  <2> QED
    BY <2>2, <2>3
<1> HIDE DEF s
<1>6. VerifiedNow' = VerifiedNow \cup {s}
  BY <1>4, <1>5 DEF VerifiedNow, Sent
<1>7. ClaimsNow' = ClaimsNow
  BY <1>1 DEF ClaimsNow, ClaimOf, Sent
<1>8. ClaimsNow[s] # "none"
  <2>1. queue[s.by] \in Queues
    BY <1>3, <1>4, RowTypes DEF ExchangeInv
  <2>2. queue[s.by][s.no] \in Records
    BY <1>1, <1>3, <1>4, <2>1 DEF Filed, Queues
  <2>3. ClaimOf(s) # "none"
    BY <2>2 DEF ClaimOf, Records, States
  <2> QED
    BY <1>4, <2>3 DEF ClaimsNow
<1>9. CASE s \in VerifiedNow
  BY <1>6, <1>7, <1>9 DEF Promise!vars, ClaimsNow, VerifiedNow
<1>10. CASE s \notin VerifiedNow
  <2>1. Promise!Verify(s)
    BY <1>6, <1>7, <1>8, <1>10 DEF Promise!Verify, ClaimsNow, VerifiedNow
  <2> QED
    BY <1>4, <2>1 DEF Promise!Next
<1> QED
  BY <1>9, <1>10

(* A record is written: its message is submitted, confirmed, opened again, *)
(* or what is claimed of it stays.                                         *)
LEMMA RecordIsClaim ==
    ASSUME ExchangeInv, ExchangeInv', FiledKept, gone' = {}, DeliveredIsReceipted', in' = in,
           NEW s \in Sent,
           \A t \in Sent \ {s} : queue'[t.by][t.no] = queue[t.by][t.no],
           Filed(s.by, s.no)' => Filed(s.by, s.no) \/ queue'[s.by][s.no].state = "queued"
    PROVE  [Promise!Next]_Promise!vars
<1>1. s.by \in Nodes /\ s.no \in Numbers
  BY DEF Sent
<1>2. VerifiedNow' = VerifiedNow
  BY DEF VerifiedNow, Has, Sent
<1>3. ClaimsNow' = [ClaimsNow EXCEPT ![s] = ClaimOf(s)']
  BY DEF ClaimsNow, ClaimOf
<1>4. ClaimsNow[s] = ClaimOf(s)
  BY DEF ClaimsNow
<1>5. /\ queue[s.by][s.no] \in Records \cup {NoRecord}
      /\ queue'[s.by][s.no] \in Records \cup {NoRecord}
  BY <1>1 DEF ExchangeInv, TypeOK
<1>6. /\ ClaimOf(s) = "none" <=> ~Filed(s.by, s.no)
      /\ ClaimOf(s) \in {"none", "open", "delivered"}
  BY <1>5 DEF ClaimOf, Filed, Records, NoRecord, States
<1>7. /\ ClaimOf(s)' = "none" <=> ~Filed(s.by, s.no)'
      /\ ClaimOf(s)' \in {"none", "open", "delivered"}
  BY <1>5 DEF ClaimOf, Filed, Records, NoRecord, States
<1>8. Filed(s.by, s.no) => Filed(s.by, s.no)'
  BY <1>1 DEF FiledKept, Kept, FiledIn, Filed
<1>9. ClaimOf(s) = "none" /\ ClaimOf(s)' # "none" => ClaimOf(s)' = "open"
  BY <1>6, <1>7 DEF ClaimOf
<1>10. ClaimOf(s)' = "delivered" => s \in VerifiedNow \cup {t \in Sent : IsReceipt(t.no)}
  <2>1. ASSUME ClaimOf(s)' = "delivered", ~IsReceipt(s.no) PROVE s \in VerifiedNow
    <3>1. Has(queue[s.by][s.no].to, s)'
      BY <2>1 DEF DeliveredIsReceipted, IsReceipt
    <3>2. queue'[s.by][s.no].to \in Nodes
      BY <1>5, <1>7, <2>1 DEF Filed, Records
    <3> QED
      BY <1>2, <3>1, <3>2 DEF VerifiedNow, Has
  <2> QED
    BY <2>1
<1>11. CASE ClaimOf(s)' = ClaimOf(s)
  <2>1. ClaimsNow' = ClaimsNow
    BY <1>3, <1>4, <1>11 DEF ClaimsNow
  <2> QED
    BY <1>2, <2>1 DEF Promise!vars, ClaimsNow, VerifiedNow
<1>12. CASE ClaimOf(s) = "none" /\ ClaimOf(s)' = "open"
  <2>1. Promise!Submit(s)
    BY <1>2, <1>3, <1>4, <1>12 DEF Promise!Submit, ClaimsNow, VerifiedNow
  <2> QED
    BY <2>1 DEF Promise!Next
<1>13. CASE ClaimOf(s) = "open" /\ ClaimOf(s)' = "delivered"
  <2>1. Promise!Confirm(s)
    BY <1>2, <1>3, <1>4, <1>10, <1>13 DEF Promise!Confirm, ClaimsNow, VerifiedNow
  <2> QED
    BY <2>1 DEF Promise!Next
<1>14. CASE ClaimOf(s) = "delivered" /\ ClaimOf(s)' = "open"
  <2>1. Promise!Reopen(s)
    BY <1>2, <1>3, <1>4, <1>14 DEF Promise!Reopen, ClaimsNow, VerifiedNow
  <2> QED
    BY <2>1 DEF Promise!Next
<1> QED
  BY <1>6, <1>7, <1>8, <1>9, <1>11, <1>12, <1>13, <1>14

(* Every step of a node is a step of the promise, or none. *)
LEMMA ExchangePromiseStep ==
    ASSUME ExchangeInv, Provenance, DeliveredIsReceipted', gone' = {}, NEW n \in Nodes, StepOf(n)
    PROVE  [Promise!Next]_Promise!vars
<1>1. ExchangeInv' /\ FiledKept
  BY ExchangeStep DEF Next, StepOf
<1>2. queue \in [Nodes -> Queues]
  BY DEF ExchangeInv, TypeOK, Queues
<1>3. ASSUME NEW no \in Numbers, NEW r \in Queues, in' = in,
             queue' = [queue EXCEPT ![n] = r],
             \A x \in Numbers \ {no} : r[x] = queue[n][x]
      PROVE  [Promise!Next]_Promise!vars
  <2> DEFINE s == [by |-> n, no |-> no]
  <2>1. s \in Sent /\ s.by = n /\ s.no = no
    BY DEF Sent
  <2>2. ASSUME NEW t \in Sent \ {s} PROVE queue'[t.by][t.no] = queue[t.by][t.no]
    <3>1. t.by \in Nodes /\ t.no \in Numbers /\ t = [by |-> t.by, no |-> t.no]
      BY DEF Sent
    <3> QED
      BY <1>2, <1>3, <3>1
  <2>3. ASSUME Filed(n, no)'
        PROVE  Filed(n, no) \/ queue'[n][no].state = "queued"
    <3>1. \/ Filed(n, no)
          \/ queue'[n][no] = [to |-> work[n].to, state |-> "queued"]
      BY <2>3, FiledChanges
    <3> QED
      BY <3>1
  <2> HIDE DEF s
  <2> QED
    BY <1>1, <1>3, <2>1, <2>2, <2>3, RecordIsClaim
<1>4. CASE ArchiveIn(n)
  BY <1>4, ArchiveVerifies
<1>5. CASE in' = in /\ queue' = queue
  BY <1>5 DEF Promise!vars, ClaimOf, Has
<1>6. CASE EnqueueDelivery(n)
  <2> DEFINE record == [to |-> work[n].to, state |-> "queued"]
             r == [queue[n] EXCEPT ![work[n].no] = record]
  <2>1. /\ in' = in /\ queue' = [queue EXCEPT ![n] = r] /\ At(n, "enqueue")
    BY <1>6 DEF EnqueueDelivery
  <2>2. work[n].no \in Numbers /\ work[n].to \in Nodes
    BY <2>1, OfNode DEF HandOK, At
  <2>3. record \in Records
    BY <2>2 DEF Records, States
  <2>4. r \in Queues /\ \A x \in Numbers \ {work[n].no} : r[x] = queue[n][x]
    <3> HIDE DEF record
    <3> QED
      BY <1>2, <2>2, <2>3 DEF Queues
  <2> HIDE DEF r
  <2> QED
    BY <1>3, <2>1, <2>2, <2>4
<1>7. ASSUME NEW no \in FiledIn(queue[n]), NEW state \in States, Marked(n, no, state),
             UNCHANGED <<in, out>>
      PROVE  [Promise!Next]_Promise!vars
  <2> DEFINE r == [queue[n] EXCEPT ![no] = [@ EXCEPT !.state = state]]
  <2>1. queue' = [queue EXCEPT ![n] = r]
    BY <1>7 DEF Marked
  <2>2. no \in Numbers /\ r \in Queues
    BY <1>2, OtherState DEF FiledIn
  <2>3. \A x \in Numbers \ {no} : r[x] = queue[n][x]
    BY <1>2 DEF Queues
  <2> HIDE DEF r
  <2> QED
    BY <1>3, <1>7, <2>1, <2>2, <2>3
<1> QED
  BY <1>4, <1>5, <1>6, <1>7, QueueChanges, InChanges

(* At first nothing is claimed and nothing verified. *)
LEMMA ExchangePromiseInit == Init => Promise!Init
<1> SUFFICES ASSUME Init PROVE Promise!Init
  OBVIOUS
<1>1. \A n \in Nodes, no \in Numbers : queue[n][no] = NoRecord /\ in[n][no] = NoFile
  BY DEF Init
<1>2. ClaimsNow = [s \in Sent |-> "none"]
  BY <1>1 DEF ClaimsNow, ClaimOf, NoRecord, Sent
<1>3. VerifiedNow = {}
  BY <1>1 DEF VerifiedNow, Has, Sent
<1> QED
  BY <1>2, <1>3 DEF Promise!Init, ClaimsNow, VerifiedNow

LEMMA StutterIsStutter == UNCHANGED vars => UNCHANGED Promise!vars
BY DEF vars, Promise!vars, ClaimOf, Has

(* Nothing but a clash of numbers, or a queue that has lost a file its     *)
(* numbers were counted from, keeps the nodes from their promise: what a   *)
(* page of deliveries claims is what the receivers verified.               *)
THEOREM PromiseUnlessNumbersClash == Spec /\ []~NumbersClash => ImplementsPromise
<1>1. /\ ExchangeInv /\ HonestInv /\ ~NumbersClash
      /\ HonestInv' /\ ~NumbersClash'
      /\ [Next]_vars
      => [Promise!Next \/ gone' # {}]_(Promise!vars)
  <2> SUFFICES ASSUME ExchangeInv, HonestInv, ~NumbersClash, HonestInv', ~NumbersClash',
                      NEW n \in Nodes, StepOf(n), gone' = {}
               PROVE  [Promise!Next]_Promise!vars
    BY StutterIsStutter DEF Next, StepOf
  <2>1. Provenance /\ DeliveredIsReceipted'
    BY GoneStays DEF HonestInv
  <2> QED
    BY <2>1, ExchangePromiseStep
<1> QED
  BY <1>1, ExchangePromiseInit, ExchangeInvariant, HonestNodes, PTL
     DEF Spec, ImplementsPromise

(* Two companies keep the promise to each other (delivery.go), whatever is *)
(* lost, repeated or pushed across each other and wherever a server dies,  *)
(* until a queue has lost a file its numbers were counted from.            *)
THEOREM TwoCompaniesKeepThePromise == ASSUME TwoNodes PROVE Spec => ImplementsPromise
<1>1. ExchangeInv /\ TwoNodesInv /\ TwoNodesInv' /\ [Next]_vars
        => [Promise!Next \/ gone' # {}]_(Promise!vars)
  <2> SUFFICES ASSUME ExchangeInv, TwoNodesInv, TwoNodesInv',
                      NEW n \in Nodes, StepOf(n), gone' = {}
               PROVE  [Promise!Next]_Promise!vars
    BY StutterIsStutter DEF Next, StepOf
  <2>1. Provenance /\ DeliveredIsReceipted'
    BY GoneStays DEF TwoNodesInv
  <2> QED
    BY <2>1, ExchangePromiseStep
<1> QED
  BY <1>1, ExchangePromiseInit, ExchangeInvariant, TwoNodesInvariant, PTL
     DEF Spec, ImplementsPromise

-----------------------------------------------------------------------------
(* A server that is at work comes nearer to the end of it with each of its *)
(* steps, whatever it took up: names still to read, files still to ingest, *)
(* and then how far the one file or message it is at has got.              *)

Rank == [idle |-> 0, take |-> 1, remove |-> 1, process |-> 2, answered |-> 3, wait |-> 4,
         upload |-> 4, deliver |-> 5, enqueue |-> 6, receipt |-> 7, archive |-> 8,
         collect |-> 15]

Left(w) == 30 * Cardinality(w.names) + 10 * Cardinality(w.batch) + Rank[w.step]

OperationsGetOn ==
    [][\A n \in Nodes : work[n] # Idle =>
         /\ StepOf(n) => Left(work'[n]) < Left(work[n])
         /\ Left(work'[n]) <= Left(work[n])]_vars

(* A server that is idle holds nothing; a file is removed that is listed;  *)
(* what is listed and read is finite. *)
ListOK(w) == /\ w.step = "idle" => w = Idle
             /\ w.step = "remove" => w.no \in w.names

ListFinite(w) == IsFiniteSet(w.names) /\ IsFiniteSet(w.batch)

ListsInv == /\ ExchangeInv
            /\ \A n \in Nodes : /\ ListOK(work[n]) /\ ListFinite(work[n])
                                /\ IsFiniteSet(folder[n])

(* The beginning of an operation, and its steps. *)
Begun(w, files) == w.batch = {} /\ w.names \in {{}, {f.no : f \in files}}

Advances(v, w) ==
    /\ Rank[w.step] < Rank[v.step] /\ w.step # "remove"
    /\ w.names \in {v.names, {}} /\ w.batch \in {v.batch, {}}

Reads(v, w) ==
    /\ v.step = "collect" /\ w.step = "remove"
    /\ w.names = v.names /\ w.no \in v.names
    /\ \E f \in Files : w.batch = v.batch \cup {f}

Removes(v, w) ==
    /\ v.step = "remove" /\ w.step \in {"take", "collect"}
    /\ w.names = v.names \ {v.no} /\ w.batch = v.batch

TakesUp(v, w) ==
    /\ v.step = "take" /\ w.step \in {"archive", "take", "idle"}
    /\ w.names \in {v.names, {}}
    /\ \E f \in v.batch : w.batch = v.batch \ {f}

GoesOn(v, w) == Advances(v, w) \/ Reads(v, w) \/ Removes(v, w) \/ TakesUp(v, w)

(* A step of a node is one of these. *)
Moves(n, v, w) == IF v.step = "idle" THEN Begun(w, folder[n]) ELSE GoesOn(v, w)

LEMMA IdleParts == /\ Idle.step = "idle" /\ Idle.names = {} /\ Idle.batch = {}
                   /\ Idle.file = NoFile /\ Idle.by = NoNode
BY DEF Idle

LEMMA AfterIngestMoves ==
    ASSUME NEW w
    PROVE  LET x == AfterIngest(w) IN
           /\ x.names = {} /\ x.batch = w.batch
           /\ x.step = IF w.batch = {} THEN "idle" ELSE "take"
           /\ x.step = "idle" => x = Idle
<1>1. CASE w.batch = {}
  <2>1. AfterIngest(w) = [Idle EXCEPT !.step = "idle", !.batch = {}]
    BY <1>1 DEF AfterIngest
  <2>2. AfterIngest(w) = Idle
    BY <2>1 DEF Idle
  <2> QED
    BY <1>1, <2>2, IdleParts
<1>2. CASE w.batch # {}
  <2>1. AfterIngest(w) = [Idle EXCEPT !.step = "take", !.batch = w.batch]
    BY <1>2 DEF AfterIngest
  <2> QED
    BY <1>2, <2>1 DEF Idle
<1> QED
  BY <1>1, <1>2

LEMMA AfterAttemptMoves ==
    ASSUME NEW v \in Works
    PROVE  LET x == AfterAttempt(v) IN
           \/ x = Idle
           \/ x.step = "process" /\ x.names = v.names /\ x.batch = v.batch
BY DEF AfterAttempt, Works

(* What the node that steps is at afterwards. *)
LEMMA OwnMoves ==
    ASSUME ListsInv, NEW n \in Nodes, StepOf(n)
    PROVE  ListOK(work'[n]) /\ Moves(n, work[n], work'[n])
<1> DEFINE v == work[n]
<1>1. ExchangeInv /\ TypeOK /\ v \in Works /\ ListOK(v)
  BY OfNode DEF ListsInv, ExchangeInv
<1>2. ASSUME NEW w, Become(n, w) PROVE work'[n] = w
  BY <1>1, <1>2, OwnStep
<1>3. ASSUME work'[n] = Idle, v.step \in Steps \ {"idle"}
      PROVE  ListOK(work'[n]) /\ Moves(n, v, work'[n])
  BY <1>3, IdleParts DEF ListOK, Moves, GoesOn, Advances, Rank, Steps
<1>4. ASSUME work'[n] = AfterAttempt(v), v.step \in {"deliver", "upload", "wait", "answered"}
      PROVE  ListOK(work'[n]) /\ Moves(n, v, work'[n])
  <2>1. \/ work'[n] = Idle
        \/ work'[n].step = "process" /\ work'[n].names = v.names /\ work'[n].batch = v.batch
    BY <1>1, <1>4, AfterAttemptMoves
  <2>2. CASE work'[n].step = "process" /\ work'[n].names = v.names /\ work'[n].batch = v.batch
    BY <1>4, <2>2 DEF ListOK, Moves, GoesOn, Advances, Rank
  <2> QED
    BY <1>3, <1>4, <2>1, <2>2 DEF Steps
<1>5. ASSUME NEW w, Finish(n, w)
      PROVE  /\ work'[n].names = {} /\ work'[n].batch = w.batch
             /\ work'[n].step \in {"idle", "take"}
             /\ ListOK(work'[n])
  <2>1. work'[n] = AfterIngest(w)
    BY <1>5 DEF Finish
  <2> QED
    BY <2>1, AfterIngestMoves DEF ListOK
<1>6. ASSUME NEW to, NEW type, NEW about, Compose(n, to, type, about, v),
             v.step \in {"idle", "receipt"}
      PROVE  ListOK(work'[n]) /\ Moves(n, v, work'[n])
  <2>1. work'[n] = [v EXCEPT !.step = "enqueue", !.no = NextNumber(n, type), !.to = to]
    BY <1>2, <1>6 DEF Compose
  <2>2. work'[n].step = "enqueue" /\ work'[n].names = v.names /\ work'[n].batch = v.batch
    BY <1>1, <2>1 DEF Works
  <2>3. CASE v.step = "idle"
    <3>1. v = Idle
      BY <1>1, <2>3 DEF ListOK
    <3> QED
      BY <2>2, <2>3, <3>1, IdleParts DEF ListOK, Moves, Begun
  <2>4. CASE v.step = "receipt"
    BY <2>2, <2>4 DEF ListOK, Moves, GoesOn, Advances, Rank
  <2> QED
    BY <1>6, <2>3, <2>4
<1>7. CASE Send(n)
  <2>1. ASSUME NEW note \in agenda, SendNote(n, note)
        PROVE  ListOK(work'[n]) /\ Moves(n, v, work'[n])
    BY <1>6, <2>1 DEF SendNote, At
  <2>2. CASE EnqueueDelivery(n)
    <3>1. work'[n] = [v EXCEPT !.step = "deliver", !.to = NoNode] /\ v.step = "enqueue"
      BY <1>2, <2>2 DEF EnqueueDelivery, At
    <3>2. work'[n].step = "deliver" /\ work'[n].names = v.names /\ work'[n].batch = v.batch
      BY <1>1, <3>1 DEF Works
    <3> QED
      BY <3>1, <3>2 DEF ListOK, Moves, GoesOn, Advances, Rank
  <2> QED
    BY <1>7, <2>1, <2>2 DEF Send
<1>8. CASE Attempt(n)
  <2>1. CASE PushTimesOut(n)
    <3>1. work'[n] = AfterAttempt(v) /\ v.step = "wait"
      BY <2>1 DEF PushTimesOut, At
    <3> QED
      BY <1>4, <3>1
  <2>2. CASE DeliverByFolder(n) \/ RenameUpload(n) \/ PushAnswered(n) \/ DeliverFails(n)
    <3>1. work'[n] = AfterAttempt(v) /\ v.step \in {"deliver", "upload", "answered"}
      BY <1>2, <2>2 DEF DeliverByFolder, RenameUpload, PushAnswered, DeliverFails, At
    <3> QED
      BY <1>4, <3>1
  <2>3. CASE DeliverBySFTP(n) \/ DeliverByPush(n)
    <3>1. PICK step \in {"upload", "wait"} : work'[n] = [v EXCEPT !.step = step]
      BY <1>2, <2>3 DEF DeliverBySFTP, DeliverByPush
    <3>2. v.step = "deliver"
      BY <2>3 DEF DeliverBySFTP, DeliverByPush, At
    <3>3. work'[n].step = step /\ work'[n].names = v.names /\ work'[n].batch = v.batch
      BY <1>1, <3>1 DEF Works
    <3> QED
      BY <3>2, <3>3 DEF ListOK, Moves, GoesOn, Advances, Rank
  <2> QED
    BY <1>8, <2>1, <2>2, <2>3 DEF Attempt
<1>9. CASE Again(n)
  <2>1. PICK no \in Numbers : work'[n] = [Idle EXCEPT !.step = "deliver", !.no = no]
    BY <1>2, <1>9 DEF Again, RetryDelivery, ResendDelivery
  <2>2. v.step = "idle"
    BY <1>9 DEF Again, RetryDelivery, ResendDelivery, At
  <2>3. work'[n].step = "deliver" /\ work'[n].names = {} /\ work'[n].batch = {}
    BY <2>1 DEF Idle
  <2> QED
    BY <2>2, <2>3 DEF ListOK, Moves, Begun
<1>10. CASE Receive(n)
  <2>1. CASE Collect(n)
    <3>1. /\ work'[n] = [Idle EXCEPT !.step = "collect", !.names = {f.no : f \in folder[n]}]
          /\ v.step = "idle"
      BY <1>2, <2>1 DEF Collect, At
    <3>2. /\ work'[n].step = "collect" /\ work'[n].batch = {}
          /\ work'[n].names = {f.no : f \in folder[n]}
      BY <3>1 DEF Idle
    <3> QED
      BY <3>1, <3>2 DEF ListOK, Moves, Begun
  <2>2. CASE RemoveFile(n)
    <3> DEFINE left == v.names \ {v.no}
               step == IF left = {} THEN "take" ELSE "collect"
    <3>1. /\ work'[n] = [v EXCEPT !.step = step, !.names = left, !.no = NoNumber]
          /\ v.step = "remove"
      BY <1>2, <2>2 DEF RemoveFile, At
    <3>2. step \in {"take", "collect"}
      OBVIOUS
    <3> HIDE DEF step
    <3>3. work'[n].step = step /\ work'[n].names = left /\ work'[n].batch = v.batch
      BY <1>1, <3>1 DEF Works
    <3> QED
      BY <3>1, <3>2, <3>3 DEF ListOK, Moves, GoesOn, Removes
  <2>3. ASSUME NEW f \in folder[n], ReadFile(n, f)
        PROVE  ListOK(work'[n]) /\ Moves(n, v, work'[n])
    <3>1. /\ work'[n] = [v EXCEPT !.step = "remove", !.batch = @ \cup {f}, !.no = f.no]
          /\ v.step = "collect" /\ f.no \in v.names
      BY <1>2, <2>3 DEF ReadFile, At
    <3>2. f \in Files
      BY <1>1 DEF TypeOK
    <3>3. /\ work'[n].step = "remove" /\ work'[n].names = v.names
          /\ work'[n].batch = v.batch \cup {f} /\ work'[n].no = f.no
      BY <1>1, <3>1 DEF Works
    <3> QED
      BY <3>1, <3>2, <3>3 DEF ListOK, Moves, GoesOn, Reads
  <2>4. ASSUME NEW no \in v.names, ReadFails(n, no)
        PROVE  ListOK(work'[n]) /\ Moves(n, v, work'[n])
    <3>1. work'[n] = Idle /\ v.step = "collect"
      BY <1>2, <2>4 DEF ReadFails, At
    <3> QED
      BY <1>3, <3>1 DEF Steps
  <2> QED
    BY <1>10, <2>1, <2>2, <2>3, <2>4 DEF Receive
<1>11. CASE Ingest(n)
  <2>1. ASSUME NEW f, NEW w, Begin(n, f, w), w \in Works
        PROVE  /\ ListOK(work'[n])
               /\ work'[n].step \in {"archive", "take", "idle"}
               /\ work'[n].names \in {w.names, {}} /\ work'[n].batch = w.batch
    <3>1. CASE Archived(n, f.no)
      BY <1>5, <2>1, <3>1 DEF Begin
    <3>2. CASE ~Archived(n, f.no)
      <4>1. work'[n] = [w EXCEPT !.step = "archive", !.file = f]
        BY <1>2, <2>1, <3>2 DEF Begin
      <4>2. work'[n].step = "archive" /\ work'[n].names = w.names /\ work'[n].batch = w.batch
        BY <2>1, <4>1 DEF Works
      <4> QED
        BY <4>2 DEF ListOK
    <3> QED
      BY <3>1, <3>2
  <2>2. ASSUME NEW f \in v.batch, TakeFile(n, f)
        PROVE  ListOK(work'[n]) /\ Moves(n, v, work'[n])
    <3> DEFINE w == [v EXCEPT !.batch = @ \ {f}]
    <3>1. Begin(n, f, w) /\ v.step = "take"
      BY <2>2 DEF TakeFile, At
    <3>2. w \in Works /\ w.names = v.names /\ w.batch = v.batch \ {f}
      BY <1>1 DEF Works
    <3> HIDE DEF w
    <3> QED
      BY <2>1, <3>1, <3>2 DEF Moves, GoesOn, TakesUp
  <2>3. ASSUME NEW call \in calls, AnswerCall(n, call)
        PROVE  ListOK(work'[n]) /\ Moves(n, v, work'[n])
    <3> DEFINE w == [Idle EXCEPT !.by = call.by]
    <3>1. Begin(n, call.file, w) /\ v.step = "idle"
      BY <2>3 DEF AnswerCall, At
    <3>2. call \in Calls
      BY <1>1 DEF TypeOK
    <3>3. w \in Works /\ w.names = {} /\ w.batch = {}
      BY <3>2, IdleType, IdleParts DEF Works, Steps, Calls
    <3> HIDE DEF w
    <3> QED
      BY <2>1, <3>1, <3>3 DEF Moves, Begun
  <2>4. CASE ArchiveIn(n)
    <3>1. PICK step \in {"process", "receipt"} : work'[n] = [v EXCEPT !.step = step]
      BY <1>2, <2>4 DEF ArchiveIn
    <3>2. v.step = "archive"
      BY <2>4 DEF ArchiveIn, At
    <3>3. work'[n].step = step /\ work'[n].names = v.names /\ work'[n].batch = v.batch
      BY <1>1, <3>1 DEF Works
    <3> QED
      BY <3>2, <3>3 DEF ListOK, Moves, GoesOn, Advances, Rank
  <2>5. CASE SendReceipt(n)
    BY <1>6, <2>5 DEF SendReceipt, At
  <2>6. CASE HandleReceipt(n) \/ ContinuePipeline(n)
    <3>1. Finish(n, v) /\ v.step = "process"
      BY <2>6 DEF HandleReceipt, ContinuePipeline, At
    <3> QED
      BY <1>5, <3>1 DEF Moves, GoesOn, Advances, Rank
  <2> QED
    BY <1>11, <2>2, <2>3, <2>4, <2>5, <2>6 DEF Ingest
<1>12. CASE Dies(n)
  <2>1. work'[n] = Idle
    BY <1>12 DEF Dies, Crash, CrashHanded, CrashSaving, Die
  <2>2. v.step \in Steps
    BY <1>1 DEF Works
  <2>3. CASE v.step = "idle"
    BY <2>1, <2>3, IdleParts DEF ListOK, Moves, Begun
  <2>4. CASE v.step # "idle"
    BY <1>3, <2>1, <2>2, <2>4
  <2> QED
    BY <2>3, <2>4
<1> QED
  BY <1>7, <1>8, <1>9, <1>10, <1>11, <1>12 DEF StepOf

(* What the others are at goes on, but that a push is answered, or that    *)
(* nobody waits for an answer any more.                                    *)
LEMMA OthersMove ==
    ASSUME ExchangeInv, NEW n \in Nodes, StepOf(n)
    PROVE  OthersGoOn(n)
<1>1. TypeOK /\ PushesOK /\ work[n] \in Works
  BY OfNode DEF ExchangeInv
<1>2. ASSUME NEW w, Become(n, w) PROVE OthersGoOn(n)
  BY <1>1, <1>2, OwnStep
<1>3. ASSUME NEW w, Finish(n, w), w.by # NoNode => Waiting(w.by) PROVE OthersGoOn(n)
  <2>1. \A m \in Nodes \ {n} :
          work'[m] = IF m = w.by THEN [work[m] EXCEPT !.step = "answered"] ELSE work[m]
    BY <1>3 DEF Finish
  <2>2. NoNode \notin Nodes
    OBVIOUS
  <2> QED
    BY <1>3, <2>1, <2>2 DEF OthersGoOn
<1>4. CASE PushTimesOut(n) \/ Dies(n)
  BY <1>4 DEF PushTimesOut, Dies, Crash, CrashHanded, CrashSaving, Die, Abandoned, OthersGoOn
<1>5. CASE Send(n)
  BY <1>2, <1>5 DEF Send, SendNote, EnqueueDelivery, Compose
<1>6. CASE Attempt(n) /\ ~PushTimesOut(n)
  BY <1>2, <1>6 DEF Attempt, DeliverByFolder, DeliverBySFTP, RenameUpload, DeliverByPush,
                    PushAnswered, DeliverFails
<1>7. CASE Again(n) \/ Receive(n)
  BY <1>2, <1>7 DEF Again, RetryDelivery, ResendDelivery, Receive, Collect, RemoveFile,
                    ReadFile, ReadFails
<1>8. CASE Ingest(n)
  <2>1. ASSUME NEW f, NEW w, Begin(n, f, w), w.by # NoNode => Waiting(w.by)
        PROVE  OthersGoOn(n)
    BY <1>2, <1>3, <2>1 DEF Begin
  <2>2. work[n].by # NoNode => Waiting(work[n].by)
    BY <1>1 DEF PushesOK
  <2>3. ASSUME NEW f \in work[n].batch, TakeFile(n, f) PROVE OthersGoOn(n)
    <3> DEFINE w == [work[n] EXCEPT !.batch = @ \ {f}]
    <3>1. Begin(n, f, w)
      BY <2>3 DEF TakeFile
    <3>2. w.by = work[n].by
      BY <1>1 DEF Works
    <3> HIDE DEF w
    <3> QED
      BY <2>1, <2>2, <3>1, <3>2
  <2>4. ASSUME NEW call \in calls, AnswerCall(n, call) PROVE OthersGoOn(n)
    <3> DEFINE w == [Idle EXCEPT !.by = call.by]
    <3>1. Begin(n, call.file, w)
      BY <2>4 DEF AnswerCall
    <3>2. w.by = call.by
      BY DEF Idle
    <3>3. call.by # NoNode => Waiting(call.by)
      BY <1>1 DEF PushesOK
    <3> HIDE DEF w
    <3> QED
      BY <2>1, <3>1, <3>2, <3>3
  <2>5. CASE ArchiveIn(n) \/ SendReceipt(n)
    BY <1>2, <2>5 DEF ArchiveIn, SendReceipt, Compose
  <2>6. CASE HandleReceipt(n) \/ ContinuePipeline(n)
    BY <1>3, <2>2, <2>6 DEF HandleReceipt, ContinuePipeline
  <2> QED
    BY <1>8, <2>3, <2>4, <2>5, <2>6 DEF Ingest
<1> QED
  BY <1>4, <1>5, <1>6, <1>7, <1>8 DEF StepOf

LEMMA RankType ==
    \A step \in Steps : Rank[step] \in 0..15 /\ (step # "collect" => Rank[step] <= 8)
BY DEF Steps, Rank

(* A step of an operation leaves less to do. *)
LEMMA GoesOnNearer ==
    ASSUME NEW v \in Works, NEW w \in Works, ListOK(v), ListFinite(v), GoesOn(v, w)
    PROVE  ListFinite(w) /\ Left(w) < Left(v)
<1> DEFINE nv == Cardinality(v.names)
           bv == Cardinality(v.batch)
           nw == Cardinality(w.names)
           bw == Cardinality(w.batch)
           rv == Rank[v.step]
           rw == Rank[w.step]
<1>1. nv \in Nat /\ bv \in Nat
  BY FS_CardinalityType DEF ListFinite
<1>2. rv \in 0..15 /\ rw \in 0..15
  BY RankType DEF Works
<1>3. Left(v) = 30 * nv + 10 * bv + rv /\ Left(w) = 30 * nw + 10 * bw + rw
  BY DEF Left
<1>4. IsFiniteSet({}) /\ Cardinality({}) = 0
  BY FS_EmptySet
<1>5. CASE Advances(v, w)
  <2>1. IsFiniteSet(w.names) /\ nw \in Nat /\ nw <= nv
    BY <1>1, <1>4, <1>5 DEF Advances, ListFinite
  <2>2. IsFiniteSet(w.batch) /\ bw \in Nat /\ bw <= bv
    BY <1>1, <1>4, <1>5 DEF Advances, ListFinite
  <2>3. rw < rv
    BY <1>5 DEF Advances
  <2> HIDE DEF nv, bv, nw, bw, rv, rw
  <2> QED
    BY <1>1, <1>2, <1>3, <2>1, <2>2, <2>3 DEF ListFinite
<1>6. CASE Reads(v, w)
  <2>1. w.names = v.names /\ nw = nv
    BY <1>6 DEF Reads
  <2>2. PICK f \in Files : w.batch = v.batch \cup {f}
    BY <1>6 DEF Reads
  <2>3. IsFiniteSet(w.batch) /\ bw \in Nat /\ bw <= bv + 1
    <3>1. IsFiniteSet(v.batch)
      BY DEF ListFinite
    <3>2. /\ IsFiniteSet(v.batch \cup {f})
          /\ Cardinality(v.batch \cup {f}) = IF f \in v.batch THEN bv ELSE bv + 1
      BY <3>1, FS_AddElement
    <3>3. IsFiniteSet(w.batch) /\ (bw = bv \/ bw = bv + 1)
      BY <2>2, <3>2
    <3> HIDE DEF bw, bv
    <3> QED
      BY <1>1, <3>3
  <2>4. rv = 15 /\ rw = 1
    BY <1>6 DEF Reads, Rank
  <2>5. IsFiniteSet(w.names)
    BY <2>1 DEF ListFinite
  <2> HIDE DEF nv, bv, nw, bw, rv, rw
  <2> QED
    BY <1>1, <1>3, <2>1, <2>3, <2>4, <2>5 DEF ListFinite
<1>7. CASE Removes(v, w)
  <2>1. w.batch = v.batch /\ bw = bv
    BY <1>7 DEF Removes
  <2>2. w.names = v.names \ {v.no} /\ v.no \in v.names
    BY <1>7 DEF Removes, ListOK
  <2>3. IsFiniteSet(w.names) /\ nw = nv - 1
    BY <2>2, FS_RemoveElement DEF ListFinite
  <2>4. rv = 1
    BY <1>7 DEF Removes, Rank
  <2>5. IsFiniteSet(w.batch)
    BY <2>1 DEF ListFinite
  <2> HIDE DEF nv, bv, nw, bw, rv, rw
  <2> QED
    BY <1>1, <1>2, <1>3, <2>1, <2>3, <2>4, <2>5 DEF ListFinite
<1>8. CASE TakesUp(v, w)
  <2>1. IsFiniteSet(w.names) /\ nw \in Nat /\ nw <= nv
    BY <1>1, <1>4, <1>8 DEF TakesUp, ListFinite
  <2>2. PICK f \in v.batch : w.batch = v.batch \ {f}
    BY <1>8 DEF TakesUp
  <2>3. IsFiniteSet(w.batch) /\ bw = bv - 1
    BY <2>2, FS_RemoveElement DEF ListFinite
  <2>4. rv = 1 /\ rw <= 8
    BY <1>8 DEF TakesUp, Rank
  <2> HIDE DEF nv, bv, nw, bw, rv, rw
  <2> QED
    BY <1>1, <1>2, <1>3, <2>1, <2>3, <2>4 DEF ListFinite
<1> QED
  BY <1>5, <1>6, <1>7, <1>8 DEF GoesOn

(* The names of finitely many files are finitely many. *)
LEMMA NamesFinite ==
    ASSUME NEW files, IsFiniteSet(files)
    PROVE  IsFiniteSet({f.no : f \in files})
<1> DEFINE names == {f.no : f \in files}
           g == [f \in files |-> f.no]
<1>1. g \in Surjection(files, names)
  BY DEF Surjection
<1> HIDE DEF g
<1> QED
  BY <1>1, FS_Surjection

(* Files arrive one at a time. *)
LEMMA FoldersStayFinite ==
    ASSUME ListsInv, NEW n \in Nodes, StepOf(n), NEW m \in Nodes
    PROVE  IsFiniteSet(folder'[m])
<1>1. folder \in [Nodes -> SUBSET Files] /\ IsFiniteSet(folder[m])
  BY DEF ListsInv, ExchangeInv, TypeOK
<1>2. ASSUME NEW k, NEW no, NEW f,
             \/ folder' = [folder EXCEPT ![k] = With(@, no, f)]
             \/ folder' = [folder EXCEPT ![k] = Without(@, no)]
      PROVE  IsFiniteSet(folder'[m])
  <2>1. IsFiniteSet(Without(folder[m], no))
    BY <1>1, FS_Subset DEF Without
  <2>2. IsFiniteSet(With(folder[m], no, f))
    BY <2>1, FS_AddElement DEF With
  <2>3. folder'[m] \in {folder[m], With(folder[m], no, f), Without(folder[m], no)}
    BY <1>1, <1>2
  <2> QED
    BY <1>1, <2>1, <2>2, <2>3
<1>3. CASE folder' = folder
  BY <1>1, <1>3
<1>4. CASE DeliverByFolder(n) \/ RenameUpload(n) \/ DeliverBySFTP(n) \/ CrashHanded(n)
  BY <1>2, <1>4 DEF DeliverByFolder, RenameUpload, DeliverBySFTP, CrashHanded
<1>5. CASE RemoveFile(n)
  BY <1>2, <1>5 DEF RemoveFile
<1> QED
  BY <1>3, <1>4, <1>5
     DEF StepOf, Send, SendNote, EnqueueDelivery, Attempt, DeliverByPush, PushAnswered,
         PushTimesOut, DeliverFails, Again, RetryDelivery, ResendDelivery,
         Receive, Collect, ReadFile, ReadFails, Ingest, TakeFile, AnswerCall, ArchiveIn,
         SendReceipt, HandleReceipt, ContinuePipeline, Dies, Crash, CrashSaving

(* A step of one node, for itself and for the others. *)
LEMMA ListsStep ==
    ASSUME ListsInv, NEW n \in Nodes, StepOf(n)
    PROVE  /\ ListsInv'
           /\ work[n] # Idle => Left(work'[n]) < Left(work[n])
           /\ \A m \in Nodes \ {n} : Left(work'[m]) <= Left(work[m])
<1>1. ExchangeInv /\ ExchangeInv'
  BY ExchangeStep DEF ListsInv, Next, StepOf
<1>2. \A m \in Nodes : work[m] \in Works /\ work'[m] \in Works
  BY <1>1 DEF ExchangeInv, TypeOK
<1>3. ListOK(work'[n]) /\ Moves(n, work[n], work'[n])
  BY OwnMoves
<1>4. ListOK(work[n]) /\ ListFinite(work[n])
  BY DEF ListsInv
<1>5. ListFinite(work'[n])
  <2>1. CASE work[n].step = "idle"
    <3>1. Begun(work'[n], folder[n])
      BY <1>3, <2>1 DEF Moves
    <3>2. IsFiniteSet({f.no : f \in folder[n]})
      BY NamesFinite DEF ListsInv
    <3> QED
      BY <3>1, <3>2, FS_EmptySet DEF Begun, ListFinite
  <2>2. CASE work[n].step # "idle"
    BY <1>2, <1>3, <1>4, <2>2, GoesOnNearer DEF Moves
  <2> QED
    BY <2>1, <2>2
<1>6. ASSUME work[n] # Idle PROVE Left(work'[n]) < Left(work[n])
  <2>1. work[n].step # "idle"
    BY <1>4, <1>6 DEF ListOK
  <2> QED
    BY <1>2, <1>3, <1>4, <2>1, GoesOnNearer DEF Moves
<1>7. ASSUME NEW m \in Nodes \ {n}
      PROVE  /\ ListOK(work'[m]) /\ ListFinite(work'[m])
             /\ Left(work'[m]) <= Left(work[m])
  <2>1. ListOK(work[m]) /\ ListFinite(work[m]) /\ work[m] \in Works
    BY <1>2 DEF ListsInv
  <2>2. Cardinality(work[m].names) \in Nat /\ Cardinality(work[m].batch) \in Nat
    BY <2>1, FS_CardinalityType DEF ListFinite
  <2>3. Left(work[m]) \in Nat
    BY <2>1, <2>2, RankType DEF Left, Works
  <2>4. CASE work'[m] = work[m]
    BY <2>1, <2>3, <2>4
  <2>5. CASE work'[m] = [work[m] EXCEPT !.by = NoNode]
    <3>1. /\ work'[m].step = work[m].step /\ work'[m].names = work[m].names
          /\ work'[m].batch = work[m].batch /\ work'[m].no = work[m].no
      BY <2>1, <2>5 DEF Works
    <3>2. work[m] = Idle => work'[m] = Idle
      BY <2>5 DEF Idle
    <3> QED
      BY <2>1, <2>3, <3>1, <3>2 DEF ListOK, ListFinite, Left
  <2>6. CASE Waiting(m) /\ work'[m] = [work[m] EXCEPT !.step = "answered"]
    <3>1. /\ work[m].step = "wait" /\ work'[m].step = "answered"
          /\ work'[m].names = work[m].names /\ work'[m].batch = work[m].batch
      BY <2>1, <2>6 DEF Works, Waiting
    <3>2. Left(work'[m]) <= Left(work[m])
      BY <2>2, <3>1 DEF Left, Rank
    <3> QED
      BY <2>1, <3>1, <3>2 DEF ListOK, ListFinite
  <2> QED
    BY <1>1, <2>4, <2>5, <2>6, OthersMove DEF OthersGoOn
<1>8. \A m \in Nodes : ListOK(work'[m]) /\ ListFinite(work'[m])
  BY <1>3, <1>5, <1>7
<1> QED
  BY <1>1, <1>6, <1>7, <1>8, FoldersStayFinite DEF ListsInv, ListOK, ListFinite

(* Whatever operation has a server's mutex (webconsole.Server.Mu), each of *)
(* its steps brings it nearer to giving the mutex back, and no step of     *)
(* another server takes it further away: not the answer to its push, which *)
(* comes or times out (httpClient's 30 s), nor what arrives in its folder  *)
(* while it collects.  So a server that runs on comes free, after at most  *)
(* 30 steps for each file it listed and 15 more.                           *)
THEOREM EveryOperationGetsOn == Spec => OperationsGetOn
<1>1. Init => ListsInv
  <2>1. \A n \in Nodes : Init => work[n] = Idle /\ folder[n] = {}
    BY DEF Init
  <2> QED
    BY <2>1, ExchangeInit, IdleParts, FS_EmptySet DEF ListsInv, ListOK, ListFinite
<1>2. ListsInv /\ [Next]_vars => ListsInv'
  <2>1. CASE UNCHANGED vars
    BY <2>1, ExchangeStutter DEF ListsInv, ListOK, ListFinite, vars
  <2>2. ASSUME ListsInv, NEW n \in Nodes, StepOf(n) PROVE ListsInv'
    BY <2>2, ListsStep
  <2> QED
    BY <2>1, <2>2 DEF Next, StepOf
<1>3. ListsInv /\ [Next]_vars =>
        [\A n \in Nodes : work[n] # Idle =>
           /\ StepOf(n) => Left(work'[n]) < Left(work[n])
           /\ Left(work'[n]) <= Left(work[n])]_vars
  <2> SUFFICES ASSUME ListsInv, Next, NEW n \in Nodes, work[n] # Idle
               PROVE  /\ StepOf(n) => Left(work'[n]) < Left(work[n])
                      /\ Left(work'[n]) <= Left(work[n])
    OBVIOUS
  <2>1. Left(work[n]) \in Nat
    <3>1. ListFinite(work[n]) /\ work[n] \in Works
      BY OfNode DEF ListsInv
    <3>2. Cardinality(work[n].names) \in Nat /\ Cardinality(work[n].batch) \in Nat
      BY <3>1, FS_CardinalityType DEF ListFinite
    <3> QED
      BY <3>1, <3>2, RankType DEF Left, Works
  <2>2. StepOf(n) => ListsInv' /\ Left(work'[n]) < Left(work[n])
    BY ListsStep
  <2>3. ListsInv' => Left(work'[n]) \in Nat
    <3> SUFFICES ASSUME ListsInv' PROVE Left(work'[n]) \in Nat
      OBVIOUS
    <3>1. ListFinite(work'[n]) /\ work'[n] \in Works
      BY DEF ListsInv, ExchangeInv, TypeOK, ListFinite
    <3>2. Cardinality(work'[n].names) \in Nat /\ Cardinality(work'[n].batch) \in Nat
      BY <3>1, FS_CardinalityType DEF ListFinite
    <3> QED
      BY <3>1, <3>2, RankType DEF Left, Works
  <2>4. ASSUME NEW m \in Nodes \ {n}, StepOf(m) PROVE Left(work'[n]) <= Left(work[n])
    BY <2>4, ListsStep
  <2>5. \E m \in Nodes : StepOf(m)
    BY DEF Next, StepOf
  <2> QED
    BY <2>1, <2>2, <2>3, <2>4, <2>5
<1> QED
  BY <1>1, <1>2, <1>3, PTL DEF Spec, OperationsGetOn
=============================================================================
