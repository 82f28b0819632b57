---------------------------- MODULE RespondProofs ----------------------------
(***************************************************************************)
(* Proofs about Respond, for every set of messages, fields and rules, and  *)
(* whatever editors do to drafts.  With any number of processes: what is   *)
(* signed honours the original as far as the draft allows, and a marked    *)
(* message has an answer, or had one that was replaced.  With one process: *)
(* what is reported done is done, a draft is sent once, and no answer is   *)
(* replaced as long as nobody leaves a temporary file in the queue.        *)
(***************************************************************************)
EXTENDS Respond, FiniteSetTheorems, TLAPS

USE ChoreographyAssumption, MarkerAssumption, PrintAssumption, BoundAssumption

-----------------------------------------------------------------------------
(* Finish. *)

(* Build writes a draft. *)
LEMMA BuildIsDraft ==
    ASSUME NEW m \in Orders, NEW t \in Types
    PROVE  Build(m, t) \in Draft
<1>1. HolesOf(t) \in SUBSET Hole
  <2> SUFFICES ASSUME NEW f \in Holes[t]
               PROVE  [path |-> f, allowed |-> Codes[f], when |-> OnlyWhen[f]] \in Hole
    BY DEF HolesOf
  <2>1. f \in Fields
    OBVIOUS
  <2> QED
    BY <2>1 DEF Hole
<1>2. Dictated(m, t) \in SUBSET Fields
  BY DEF Dictated
<1>3. [f \in Fields |-> IF f \in Echoed[t] THEN Original[m][f]
                        ELSE IF f \in Holes[t] THEN Fill ELSE Absent] \in Contents
  BY DEF Contents
<1> QED
  BY <1>1, <1>2, <1>3 DEF Build, Draft

(* Finished takes no value away but markers. *)
LEMMA FinishedIsContent ==
    ASSUME NEW d \in Draft
    PROVE  /\ Finished(d) \in Contents
           /\ \A f \in Fields : Finished(d)[f] = d.content[f] \/ Finished(d)[f] = Absent
BY DEF Finished, Contents, Draft

(* Leaving empty holes out excuses no hole and makes none due: no note is  *)
(* about an empty field. *)
LEMMA FinishedKeepsExcuses ==
    ASSUME NEW d \in Draft, NEW h \in Hole, Excused(d.content, h)
    PROVE  Excused(Finished(d), h)
<1> DEFINE g == h.when.field
<1>1. h.when # Always /\ h.when \in Conditions /\ Reread[d.content[g]] # h.when.value
  BY DEF Excused, Hole
<1>2. g \in Fields /\ h.when.value # Reread[Absent]
  BY <1>1 DEF Conditions
<1>3. Finished(d)[g] = d.content[g] \/ Finished(d)[g] = Absent
  BY <1>2, FinishedIsContent
<1> QED
  BY <1>1, <1>2, <1>3 DEF Excused

(* Every hole that the draft lists is settled in what leaves. *)
LEMMA FinishedSettles ==
    ASSUME NEW d \in Draft, HolesFilled(d), NEW h \in d.holes
    PROVE  Settled(Finished(d), h)
<1>1. h \in Hole /\ h.path \in Fields
  BY DEF Draft, Hole
<1>2. d.content[h.path] \in Values \cup {Fill, Absent}
  BY <1>1 DEF Draft, Contents
<1>3. CASE Unset(d.content, h) /\ Excused(d.content, h)
  <2>1. Finished(d)[h.path] = Absent
    BY <1>1, <1>2, <1>3 DEF Finished, Unset
  <2>2. Excused(Finished(d), h)
    BY <1>1, <1>3, FinishedKeepsExcuses
  <2> QED
    BY <2>1, <2>2 DEF Settled
<1>4. CASE ~Unset(d.content, h) /\ Allowed(d.content, h)
  <2>1. d.content[h.path] \in Values /\ Finished(d)[h.path] = d.content[h.path]
    BY <1>1, <1>2, <1>4 DEF Finished, Unset
  <2> QED
    BY <1>4, <2>1 DEF Settled, Allowed
<1> QED
  BY <1>3, <1>4 DEF HolesFilled

(* What Finish accepts honours the original. *)
LEMMA FinishedHonours ==
    ASSUME NEW d \in Draft, NEW m \in Orders, NEW t \in Types, t \in Allows[m], ReadyToSend(d)
    PROVE  Honours([d EXCEPT !.content = Finished(d)], Slot(m, t))
<1> DEFINE l == [d EXCEPT !.content = Finished(d)]
<1>1. /\ l.content = Finished(d) /\ l.type = d.type /\ l.about = d.about
      /\ l.to = d.to /\ l.holes = d.holes
  BY DEF Draft
<1>2. Slot(m, t).about = m /\ Slot(m, t).type = t
  BY DEF Slot
<1> HIDE DEF l
<1>3. CopiesWhatItMust(l, l.content) /\ KeepsTheRules(l, l.content)
  BY <1>1 DEF ReadyToSend, CopiesWhatItMust, KeepsTheRules
<1>4. \A h \in l.holes : Settled(l.content, h)
  BY <1>1, FinishedSettles DEF ReadyToSend
<1>5. ASSUME AsBuilt(l, m, t)
      PROVE  EchoesKept(l.content, m, t) /\ \A h \in HolesOf(t) : Settled(l.content, h)
  <2>1. l.type = t /\ l.about = m /\ l.holes = HolesOf(t)
    BY <1>5 DEF AsBuilt
  <2>2. EchoesKept(l.content, m, t)
    BY <1>3, <2>1 DEF CopiesWhatItMust
  <2> QED
    BY <1>4, <2>1, <2>2
<1>6. Honours(l, Slot(m, t))
  BY <1>2, <1>3, <1>4, <1>5 DEF Honours
<1> QED
  BY <1>6 DEF l

-----------------------------------------------------------------------------
(* Numbers count finite sets of files. *)
RespondInv == /\ TypeOK
              /\ IsFiniteSet(sent) /\ IsFiniteSet(torn)
              /\ AnswersHonourTheOriginal

LEMMA RespondInit == Init => RespondInv
<1> SUFFICES ASSUME Init PROVE RespondInv
  OBVIOUS
<1>1. TypeOK
  BY DEF Init, TypeOK, Work
<1>2. IsFiniteSet(sent) /\ IsFiniteSet(torn)
  BY FS_EmptySet DEF Init
<1>3. AnswersHonourTheOriginal
  BY DEF Init, AnswersHonourTheOriginal, At, NoWork
<1> QED
  BY <1>1, <1>2, <1>3 DEF RespondInv

(* What is at a step of an answer holds one. *)
LEMMA WorkTypes ==
    ASSUME TypeOK, NEW p \in Procs
    PROVE  /\ At(p, "deliver") => work[p] \in Delivering
           /\ At(p, "send") => work[p] \in Sending
           /\ At(p, "remove") \/ At(p, "mark") => work[p] \in Answering
           /\ At(p, "save") => work[p] \in Marking
BY DEF TypeOK, At, Work, Delivering, Sending, Answering, Marking, NoWork

LEMMA AnswerTypes ==
    ASSUME TypeOK, NEW p \in Procs, work[p].step \in {"send", "remove", "mark", "save"}
    PROVE  /\ work[p].answer \in Answer /\ work[p].answer.about \in Orders
           /\ work[p].answer.draft \in Slots \cup {NoSlot}
<1>1. work[p].answer \in Answer
  BY WorkTypes DEF At, Sending, Answering, Marking
<1> QED
  BY <1>1 DEF Answer

(* The number of the next answer is a number within the bound. *)
LEMMA NextNumberType ==
    ASSUME RespondInv, NextNumber <= MaxSent
    PROVE  NextNumber \in 1..MaxSent
BY FS_CardinalityType DEF RespondInv, NextNumber

LEMMA FileTypes ==
    ASSUME NEW a \in Answer
    PROVE  File(a) \in Files
<1>1. Prefix(a.kind) \in {"ORSP", "DESP", "REJ", "MSG"}
  BY DEF Prefix
<1>2. a.number \in 1..MaxSent
  BY DEF Answer
<1> QED
  BY <1>1, <1>2 DEF File, Files

(* The steps that leave the answers in the queue, and hand out for         *)
(* signing at most what honours its original.                              *)
LEMMA LettersHonour ==
    ASSUME RespondInv,
           \/ work' = work
           \/ \E p \in Procs : \E w :
                /\ work' = [work EXCEPT ![p] = w]
                /\ w.step = "send" /\ w.letter # NoDraft => Honours(w.letter, w.answer.draft)
    PROVE  AnswersHonourTheOriginal'
<1> SUFFICES ASSUME NEW q \in Procs, work'[q].step = "send", work'[q].letter # NoDraft
             PROVE  Honours(work'[q].letter, work'[q].answer.draft)
  BY DEF AnswersHonourTheOriginal, At, Honours, CopiesWhatItMust, EchoesKept, KeepsTheRules,
         Settled, Allowed, Excused, AsBuilt, HolesOf, Dictated
<1>1. work[q].step = "send" /\ work[q].letter # NoDraft
        => Honours(work[q].letter, work[q].answer.draft)
  BY DEF RespondInv, AnswersHonourTheOriginal, At
<1>2. CASE work' = work
  BY <1>1, <1>2
<1>3. ASSUME NEW p \in Procs, NEW w, work' = [work EXCEPT ![p] = w],
             w.step = "send" /\ w.letter # NoDraft => Honours(w.letter, w.answer.draft)
      PROVE  Honours(work'[q].letter, work'[q].answer.draft)
  <2>1. work'[q] = work[q] \/ work'[q] = w
    BY <1>3 DEF RespondInv, TypeOK
  <2> QED
    BY <1>1, <1>3, <2>1
<1> QED
  BY <1>2, <1>3

LEMMA QueueUntouched ==
    ASSUME RespondInv, TypeOK', UNCHANGED <<sent, torn>>,
           \/ work' = work
           \/ \E p \in Procs : \E w : w.step # "send" /\ work' = [work EXCEPT ![p] = w]
    PROVE  RespondInv'
<1>1. IsFiniteSet(sent)' /\ IsFiniteSet(torn)'
  BY DEF RespondInv
<1>2. AnswersHonourTheOriginal'
  BY LettersHonour
<1> QED
  BY <1>1, <1>2 DEF RespondInv
-----------------------------------------------------------------------------
(* Receiving, and drafts. *)

LEMMA ReceiveStep ==
    ASSUME RespondInv, NEW p \in Procs, NEW m \in Orders, Receive(p, m)
    PROVE  RespondInv'
<1> DEFINE w == [step |-> "deliver", about |-> m]
<1>1. w \in Work /\ w.step # "send"
  BY DEF Work, Delivering
<1>2. work' = [work EXCEPT ![p] = w] /\ UNCHANGED <<sent, torn>>
  BY DEF Receive, queue
<1> HIDE DEF w
<1>3. TypeOK'
  BY <1>1, <1>2 DEF RespondInv, TypeOK, Receive, queue, counts
<1> QED
  BY <1>1, <1>2, <1>3, QueueUntouched

LEMMA ReprocessStep ==
    ASSUME RespondInv, NEW p \in Procs, NEW m \in Orders, Reprocess(p, m)
    PROVE  RespondInv'
<1> DEFINE w == [step |-> "deliver", about |-> m]
<1>1. w \in Work /\ w.step # "send"
  BY DEF Work, Delivering
<1>2. work' = [work EXCEPT ![p] = w] /\ UNCHANGED <<sent, torn>>
  BY DEF Reprocess, queue
<1> HIDE DEF w
<1>3. TypeOK'
  BY <1>1, <1>2 DEF RespondInv, TypeOK, Reprocess, queue, counts
<1> QED
  BY <1>1, <1>2, <1>3, QueueUntouched

(* What ends an operation. *)
LEMMA EndsWork ==
    ASSUME RespondInv, NEW p \in Procs, work' = [work EXCEPT ![p] = NoWork]
    PROVE  work' \in [Procs -> Work] /\ AnswersHonourTheOriginal'
<1>1. NoWork \in Work /\ NoWork.step # "send"
  BY DEF Work, NoWork
<1>2. work' \in [Procs -> Work]
  BY <1>1 DEF RespondInv, TypeOK
<1>3. \E w : /\ work' = [work EXCEPT ![p] = w]
             /\ w.step = "send" /\ w.letter # NoDraft => Honours(w.letter, w.answer.draft)
  BY <1>1
<1> QED
  BY <1>2, <1>3, LettersHonour

LEMMA DeliverStep ==
    ASSUME RespondInv, NEW p \in Procs, Deliver(p)
    PROVE  RespondInv'
<1>1. work' = [work EXCEPT ![p] = NoWork] /\ UNCHANGED <<sent, torn>>
  BY DEF Deliver, queue
<1>2. work[p].about \in Orders
  BY WorkTypes DEF RespondInv, Deliver, Delivering
<1>3. inbox' \in [Orders -> Record \cup {NoRecord}]
  <2>1. \A status \in {"green", "red"} : NewRecord(status) \in Record
    BY DEF NewRecord, Record
  <2>2. inbox' = inbox \/ \E r \in Record : inbox' = [inbox EXCEPT ![work[p].about] = r]
    BY <2>1 DEF Deliver
  <2> QED
    BY <1>2, <2>2 DEF RespondInv, TypeOK
<1>4. TypeOK'
  BY <1>1, <1>3, EndsWork DEF RespondInv, TypeOK, Deliver, queue, counts
<1> QED
  BY <1>1, <1>4, EndsWork DEF RespondInv

(* One draft replaced by another is a set of drafts again. *)
LEMMA DraftSet ==
    ASSUME RespondInv, NEW m \in Orders, NEW t \in Types, NEW d \in Draft, t \in Allows[m],
           drafts' = [drafts EXCEPT ![m][t] = d], UNCHANGED <<archive, inbox, queue, work, crashes>>,
           started' \in [Orders -> [Types -> 0..MaxStarts]], edits' \in 0..MaxEdits
    PROVE  RespondInv'
<1>1. /\ drafts' \in [Orders -> [Types -> Draft \cup {NoDraft}]]
      /\ \A n \in Orders, u \in Types : drafts'[n][u] # NoDraft => u \in Allows[n]
  BY DEF RespondInv, TypeOK
<1>2. TypeOK'
  BY <1>1 DEF RespondInv, TypeOK, queue
<1> QED
  BY <1>2, QueueUntouched DEF queue

LEMMA StartResponseStep ==
    ASSUME RespondInv, NEW p \in Procs, NEW m \in Orders, NEW t \in Types,
           StartResponse(p, m, t)
    PROVE  RespondInv'
<1> DEFINE d == Build(m, t)
<1>1. started' \in [Orders -> [Types -> 0..MaxStarts]] /\ edits' \in 0..MaxEdits
  BY DEF RespondInv, TypeOK, StartResponse
<1>2. d \in Draft /\ t \in Allows[m]
  BY BuildIsDraft DEF StartResponse, CanBuild
<1>3. /\ drafts' = [drafts EXCEPT ![m][t] = d]
      /\ UNCHANGED <<archive, inbox, queue, work, crashes>>
  BY DEF StartResponse
<1> HIDE DEF d
<1> QED
  BY <1>1, <1>2, <1>3, DraftSet

(* A draft with one field set is a draft. *)
LEMMA FieldSet ==
    ASSUME NEW d \in Draft, NEW f \in Fields, NEW v \in Values \cup {Absent, Fill}
    PROVE  [d EXCEPT !.content[f] = v] \in Draft
<1> DEFINE c == [d.content EXCEPT ![f] = v]
<1>1. c \in Contents
  BY DEF Draft, Contents
<1>2. [d EXCEPT !.content[f] = v] = [d EXCEPT !.content = c]
  BY DEF Draft
<1> HIDE DEF c
<1> QED
  BY <1>1, <1>2 DEF Draft

LEMMA FillDraftStep ==
    ASSUME RespondInv, NEW p \in Procs, NEW m \in Orders, NEW t \in Types,
           NEW f \in Fields, NEW v \in Tries[f] \cup {Absent}, FillDraft(p, m, t, f, v)
    PROVE  RespondInv'
<1> DEFINE d == [drafts[m][t] EXCEPT !.content[f] = v]
<1>1. drafts[m][t] \in Draft /\ t \in Allows[m]
  BY DEF RespondInv, TypeOK, FillDraft
<1>2. d \in Draft
  BY <1>1, FieldSet
<1>3. /\ drafts' = [drafts EXCEPT ![m][t] = d]
      /\ UNCHANGED <<archive, inbox, queue, work, started, edits, crashes>>
  BY DEF FillDraft, counts
<1>4. started' \in [Orders -> [Types -> 0..MaxStarts]] /\ edits' \in 0..MaxEdits
  BY <1>3 DEF RespondInv, TypeOK
<1> HIDE DEF d
<1> QED
  BY <1>1, <1>2, <1>3, <1>4, DraftSet

(* What an editor leaves is a draft. *)
LEMMA EditLeavesADraft ==
    ASSUME NEW m \in Orders, NEW t \in Types, drafts[m][t] \in Draft, EditDraft(m, t)
    PROVE  \E d \in Draft : drafts' = [drafts EXCEPT ![m][t] = d]
<1>1. ASSUME NEW f \in Fields, NEW v \in Tries[f] \cup {Fill, Absent},
             drafts' = [drafts EXCEPT ![m][t].content[f] = v]
      PROVE  \E d \in Draft : drafts' = [drafts EXCEPT ![m][t] = d]
  <2>1. [drafts[m][t] EXCEPT !.content[f] = v] \in Draft
    BY FieldSet
  <2> QED
    BY <1>1, <2>1
<1>2. ASSUME NEW u \in Types, drafts' = [drafts EXCEPT ![m][t].type = u]
      PROVE  \E d \in Draft : drafts' = [drafts EXCEPT ![m][t] = d]
  <2>1. [drafts[m][t] EXCEPT !.type = u] \in Draft
    BY DEF Draft
  <2> QED
    BY <1>2, <2>1
<1>3. ASSUME NEW n \in Orders, drafts' = [drafts EXCEPT ![m][t].about = n]
      PROVE  \E d \in Draft : drafts' = [drafts EXCEPT ![m][t] = d]
  <2>1. [drafts[m][t] EXCEPT !.about = n] \in Draft
    BY DEF Draft
  <2> QED
    BY <1>3, <2>1
<1>4. ASSUME NEW q \in Partners, drafts' = [drafts EXCEPT ![m][t].to = q]
      PROVE  \E d \in Draft : drafts' = [drafts EXCEPT ![m][t] = d]
  <2>1. [drafts[m][t] EXCEPT !.to = q] \in Draft
    BY DEF Draft
  <2> QED
    BY <1>4, <2>1
<1>5. ASSUME NEW fs \in SUBSET Fields, drafts' = [drafts EXCEPT ![m][t].locked = fs]
      PROVE  \E d \in Draft : drafts' = [drafts EXCEPT ![m][t] = d]
  <2>1. [drafts[m][t] EXCEPT !.locked = fs] \in Draft
    BY DEF Draft
  <2> QED
    BY <1>5, <2>1
<1>6. ASSUME NEW hs \in HoleLists, drafts' = [drafts EXCEPT ![m][t].holes = hs]
      PROVE  \E d \in Draft : drafts' = [drafts EXCEPT ![m][t] = d]
  <2>1. [drafts[m][t] EXCEPT !.holes = hs] \in Draft
    BY DEF Draft
  <2> QED
    BY <1>6, <2>1
<1> QED
  BY <1>1, <1>2, <1>3, <1>4, <1>5, <1>6 DEF EditDraft

LEMMA EditDraftStep ==
    ASSUME RespondInv, NEW m \in Orders, NEW t \in Types, EditDraft(m, t)
    PROVE  RespondInv'
<1>1. drafts[m][t] \in Draft /\ t \in Allows[m]
  BY DEF RespondInv, TypeOK, EditDraft
<1>2. PICK d \in Draft : drafts' = [drafts EXCEPT ![m][t] = d]
  BY <1>1, EditLeavesADraft
<1>3. started' \in [Orders -> [Types -> 0..MaxStarts]] /\ edits' \in 0..MaxEdits
  BY DEF RespondInv, TypeOK, EditDraft
<1> QED
  BY <1>1, <1>2, <1>3, DraftSet DEF EditDraft
-----------------------------------------------------------------------------
(* The steps of an answer. *)

LEMMA FinishResponseStep ==
    ASSUME RespondInv, NEW p \in Procs, NEW m \in Orders, NEW t \in Types,
           FinishResponse(p, m, t)
    PROVE  RespondInv'
<1> DEFINE d == drafts[m][t]
           l == [d EXCEPT !.content = Finished(d)]
           a == NewAnswer(d.about, d.type, Slot(m, t))
           w == [step |-> "send", letter |-> l, answer |-> a]
<1>1. d \in Draft /\ t \in Allows[m] /\ ReadyToSend(d)
  BY DEF RespondInv, TypeOK, FinishResponse
<1>2. Honours(l, Slot(m, t)) /\ a.draft = Slot(m, t)
  BY <1>1, FinishedHonours DEF NewAnswer
<1>3. a \in Answer
  BY <1>1, NextNumberType
     DEF FinishResponse, NewAnswer, Answer, Kinds, Draft, Slot, Slots
<1>4. l \in Draft
  BY <1>1, FinishedIsContent DEF Draft
<1> HIDE DEF a, l
<1>5. w \in Work /\ w.letter = l /\ w.answer = a
  BY <1>3, <1>4 DEF Work, Sending
<1>6. /\ work' = [work EXCEPT ![p] = w]
      /\ UNCHANGED <<archive, inbox, drafts, queue, counts, crashes>>
  BY DEF FinishResponse, a, l
<1> HIDE DEF w
<1>7. TypeOK' /\ IsFiniteSet(sent)' /\ IsFiniteSet(torn)'
  BY <1>5, <1>6 DEF RespondInv, TypeOK, queue, counts
<1>8. Honours(w.letter, w.answer.draft)
  BY <1>2, <1>5
<1>9. AnswersHonourTheOriginal'
  BY <1>6, <1>8, LettersHonour
<1> QED
  BY <1>7, <1>9 DEF RespondInv

LEMMA SendRejectionStep ==
    ASSUME RespondInv, NEW p \in Procs, NEW m \in Orders, SendRejection(p, m)
    PROVE  RespondInv'
<1> DEFINE a == NewAnswer(m, "rejection_notice", NoSlot)
           w == [step |-> "send", letter |-> NoDraft, answer |-> a]
<1>1. a \in Answer
  BY NextNumberType DEF SendRejection, NewAnswer, Answer, Kinds
<1> HIDE DEF a
<1>2. w \in Work /\ w.letter = NoDraft
  BY <1>1 DEF Work, Sending
<1>3. /\ work' = [work EXCEPT ![p] = w]
      /\ UNCHANGED <<archive, inbox, drafts, queue, counts, crashes>>
  BY DEF SendRejection, a
<1> HIDE DEF w
<1>4. TypeOK' /\ IsFiniteSet(sent)' /\ IsFiniteSet(torn)'
  BY <1>2, <1>3 DEF RespondInv, TypeOK, queue, counts
<1>5. AnswersHonourTheOriginal'
  BY <1>2, <1>3, LettersHonour
<1> QED
  BY <1>4, <1>5 DEF RespondInv

(* What signing makes of the work. *)
LEMMA Signed ==
    ASSUME TypeOK, NEW p \in Procs, SignAndSend(p)
    PROVE  \E w \in Answering :
             /\ work' = [work EXCEPT ![p] = w] /\ w.answer = work[p].answer
             /\ w.step = IF work[p].answer.draft # NoSlot THEN "remove" ELSE "mark"
<1> DEFINE a == work[p].answer
           step == IF a.draft # NoSlot THEN "remove" ELSE "mark"
           w == [step |-> step, answer |-> a]
<1>1. a \in Answer
  BY AnswerTypes DEF SignAndSend, At
<1>2. step \in {"remove", "mark"}
  OBVIOUS
<1>3. w \in Answering /\ w.answer = a /\ w.step = step
  BY <1>1, <1>2 DEF Answering
<1>4. work' = [work EXCEPT ![p] = w]
  BY DEF SignAndSend
<1> QED
  BY <1>3, <1>4

(* And removing the draft. *)
LEMMA Removed ==
    ASSUME TypeOK, NEW p \in Procs, RemoveDraft(p)
    PROVE  \E w \in Answering :
             /\ work' = [work EXCEPT ![p] = w]
             /\ w.answer = work[p].answer /\ w.step = "mark"
<1> DEFINE w == [work[p] EXCEPT !.step = "mark"]
<1>1. work[p] \in Answering
  BY WorkTypes DEF RemoveDraft
<1>2. w \in Answering /\ w.answer = work[p].answer /\ w.step = "mark"
  BY <1>1 DEF Answering
<1>3. work' = [work EXCEPT ![p] = w]
  BY DEF RemoveDraft, TypeOK
<1> QED
  BY <1>2, <1>3

(* The messages whose answers are replaced are messages. *)
LEMMA ReplacesTypes ==
    ASSUME TypeOK, NEW a, Replaces(a)
    PROVE  overwritten' \subseteq Orders
<1>1. \A s \in Replaced(a) : s.about \in Orders
  BY DEF TypeOK, Replaced, Answer
<1> QED
  BY <1>1 DEF TypeOK, Replaces

LEMMA SignAndSendStep ==
    ASSUME RespondInv, NEW p \in Procs, SignAndSend(p)
    PROVE  RespondInv'
<1> DEFINE a == work[p].answer
<1>1. a \in Answer /\ TypeOK
  BY AnswerTypes DEF RespondInv, SignAndSend, At
<1>2. PICK w \in Answering : work' = [work EXCEPT ![p] = w]
  BY <1>1, Signed
<1>3. w.step # "send" /\ w \in Work
  BY DEF Answering, Work
<1>4. /\ sent' = (sent \ Replaced(a)) \cup {a} /\ torn' = torn \ {File(a)} /\ Replaces(a)
      /\ UNCHANGED <<archive, inbox, drafts, counts, crashes>>
  BY DEF SignAndSend
<1> HIDE DEF a
<1>5. IsFiniteSet(sent)' /\ IsFiniteSet(torn)'
  <2>1. IsFiniteSet(sent \ Replaced(a)) /\ IsFiniteSet(torn \ {File(a)})
    BY FS_Subset DEF RespondInv
  <2> QED
    BY <1>4, <2>1, FS_AddElement
<1>6. TypeOK'
  <2>1. overwritten' \subseteq Orders
    BY <1>1, <1>4, ReplacesTypes
  <2>2. sent' \subseteq Answer /\ torn' \subseteq Files /\ work' \in [Procs -> Work]
    BY <1>1, <1>2, <1>3, <1>4 DEF TypeOK
  <2> QED
    BY <1>1, <1>4, <2>1, <2>2 DEF TypeOK, counts
<1>7. AnswersHonourTheOriginal'
  BY <1>2, <1>3, LettersHonour
<1> QED
  BY <1>5, <1>6, <1>7 DEF RespondInv

(* A removed draft disturbs no other. *)
LEMMA SlotRemoved ==
    ASSUME TypeOK, NEW m, NEW t, drafts' = [drafts EXCEPT ![m][t] = NoDraft]
    PROVE  /\ drafts' \in [Orders -> [Types -> Draft \cup {NoDraft}]]
           /\ \A n \in Orders, u \in Types :
                drafts'[n][u] = IF n = m /\ u = t THEN NoDraft ELSE drafts[n][u]
<1> DEFINE row == [drafts[m] EXCEPT ![t] = NoDraft]
<1>1. drafts' = [drafts EXCEPT ![m] = row]
  OBVIOUS
<1>2. m \in Orders => /\ row \in [Types -> Draft \cup {NoDraft}]
                      /\ \A u \in Types : row[u] = IF u = t THEN NoDraft ELSE drafts[m][u]
  BY DEF TypeOK
<1> HIDE DEF row
<1>3. \A n \in Orders : drafts'[n] = IF n = m THEN row ELSE drafts[n]
  BY <1>1 DEF TypeOK
<1>4. drafts' \in [Orders -> [Types -> Draft \cup {NoDraft}]]
  BY <1>1, <1>2 DEF TypeOK
<1> QED
  BY <1>2, <1>3, <1>4

LEMMA RemoveDraftStep ==
    ASSUME RespondInv, NEW p \in Procs, RemoveDraft(p)
    PROVE  RespondInv'
<1>1. PICK w \in Answering : work' = [work EXCEPT ![p] = w]
  BY Removed DEF RespondInv
<1>2. w.step # "send" /\ w \in Work
  BY DEF Answering, Work
<1> DEFINE m == work[p].answer.draft.about
           t == work[p].answer.draft.type
<1>3. drafts' = [drafts EXCEPT ![m][t] = NoDraft]
  BY DEF RemoveDraft
<1> HIDE DEF m, t
<1>4. /\ drafts' \in [Orders -> [Types -> Draft \cup {NoDraft}]]
      /\ \A n \in Orders, u \in Types : drafts'[n][u] # NoDraft => u \in Allows[n]
  <2>1. \A n \in Orders, u \in Types : drafts'[n][u] # NoDraft => drafts'[n][u] = drafts[n][u]
    BY <1>3, SlotRemoved DEF RespondInv
  <2>2. drafts' \in [Orders -> [Types -> Draft \cup {NoDraft}]]
    BY <1>3, SlotRemoved DEF RespondInv
  <2> QED
    BY <2>1, <2>2 DEF RespondInv, TypeOK
<1>5. work' \in [Procs -> Work]
  BY <1>1, <1>2 DEF RespondInv, TypeOK
<1>6. TypeOK'
  BY <1>4, <1>5 DEF RespondInv, TypeOK, RemoveDraft, queue, counts
<1> QED
  BY <1>1, <1>2, <1>6, QueueUntouched DEF RemoveDraft, queue

LEMMA MarkRespondedStep ==
    ASSUME RespondInv, NEW p \in Procs, MarkResponded(p)
    PROVE  RespondInv'
<1> DEFINE m == work[p].answer.about
           w == IF inbox[m] # NoRecord
                THEN [step |-> "save", answer |-> work[p].answer, rec |-> inbox[m]]
                ELSE NoWork
<1>1. work[p].answer \in Answer /\ m \in Orders
  BY AnswerTypes DEF RespondInv, MarkResponded, At
<1>2. w \in Work /\ w.step # "send"
  BY <1>1 DEF RespondInv, TypeOK, Marking, Work, NoWork
<1>3. work' = [work EXCEPT ![p] = w]
  BY DEF MarkResponded
<1> HIDE DEF w
<1>4. TypeOK'
  BY <1>2, <1>3 DEF RespondInv, TypeOK, MarkResponded, queue, counts
<1> QED
  BY <1>2, <1>3, <1>4, QueueUntouched DEF MarkResponded, queue

LEMMA SaveMarkStep ==
    ASSUME RespondInv, NEW p \in Procs, SaveMark(p)
    PROVE  RespondInv'
<1>1. work[p].answer.about \in Orders /\ work[p].rec \in Record
  BY WorkTypes DEF RespondInv, SaveMark, Marking, Answer
<1>2. [work[p].rec EXCEPT !.responded = TRUE] \in Record
  BY <1>1 DEF Record
<1>3. work' = [work EXCEPT ![p] = NoWork] /\ UNCHANGED <<sent, torn>>
  BY DEF SaveMark, queue
<1>4. TypeOK'
  BY <1>1, <1>2, <1>3, EndsWork DEF RespondInv, TypeOK, SaveMark, queue, counts
<1> QED
  BY <1>3, <1>4, EndsWork DEF RespondInv

-----------------------------------------------------------------------------
(* Saving records, and dying. *)

LEMMA SaveRecordStep ==
    ASSUME RespondInv, NEW p \in Procs, NEW s \in sent, SaveRecord(p, s)
    PROVE  RespondInv'
<1>1. TypeOK'
  BY DEF RespondInv, TypeOK, SaveRecord, counts
<1>2. IsFiniteSet(sent)' /\ IsFiniteSet(torn)'
  BY FS_Subset DEF RespondInv, SaveRecord
<1>3. AnswersHonourTheOriginal'
  BY LettersHonour DEF SaveRecord
<1> QED
  BY <1>1, <1>2, <1>3 DEF RespondInv

(* A process that dies leaves at most one file more. *)
LEMMA DyingStep ==
    ASSUME RespondInv, NEW p \in Procs, Dies(p), NEW f \in Files,
           torn' \in {torn, torn \cup {f}}, overwritten' \subseteq Orders,
           UNCHANGED <<archive, inbox, drafts, sent, counts>>
    PROVE  RespondInv'
<1>1. work' = [work EXCEPT ![p] = NoWork] /\ crashes' \in 0..MaxCrashes
  BY DEF RespondInv, TypeOK, Dies
<1>2. TypeOK'
  BY <1>1, EndsWork DEF RespondInv, TypeOK, counts
<1>3. IsFiniteSet(sent)' /\ IsFiniteSet(torn)'
  <2>1. IsFiniteSet(torn) /\ IsFiniteSet(torn \cup {f})
    BY FS_AddElement DEF RespondInv
  <2> QED
    BY <2>1 DEF RespondInv
<1>4. AnswersHonourTheOriginal'
  BY <1>1, EndsWork
<1> QED
  BY <1>2, <1>3, <1>4 DEF RespondInv

LEMMA DieStep ==
    ASSUME RespondInv, NEW p \in Procs, Die(p)
    PROVE  RespondInv'
<1>0. TypeOK /\ sent \subseteq Answer /\ overwritten \subseteq Orders
  BY DEF RespondInv, TypeOK
<1>1. CASE Crash(p)
  <2>1. work' = [work EXCEPT ![p] = NoWork] /\ crashes' \in 0..MaxCrashes
    BY <1>1 DEF RespondInv, TypeOK, Dies, Crash
  <2>2. TypeOK'
    BY <1>1, <2>1, EndsWork DEF RespondInv, TypeOK, Crash, queue, counts
  <2> QED
    BY <1>1, <2>1, <2>2, EndsWork DEF RespondInv, Crash, queue
<1>2. CASE DiesSending(p)
  <2>1. work[p].answer \in Answer
    BY <1>0, <1>2, AnswerTypes DEF DiesSending, At
  <2>2. File(work[p].answer) \in Files
    BY <2>1, FileTypes
  <2>3. overwritten' \subseteq Orders
    BY <1>0, <1>2, ReplacesTypes DEF DiesSending
  <2> QED
    BY <1>2, <2>2, <2>3, DyingStep DEF DiesSending
<1>3. ASSUME NEW s \in sent, DiesSaving(p, s) PROVE RespondInv'
  <2>1. File(s) \in Files
    BY <1>0, FileTypes
  <2>2. overwritten' \subseteq Orders
    BY <1>0, <1>3 DEF DiesSaving
  <2> QED
    BY <1>3, <2>1, <2>2, DyingStep DEF DiesSaving
<1> QED
  BY <1>1, <1>2, <1>3 DEF Die

LEMMA RespondStep == RespondInv /\ [Next]_vars => RespondInv'
<1> SUFFICES ASSUME RespondInv, [Next]_vars PROVE RespondInv'
  OBVIOUS
<1>1. ASSUME NEW p \in Procs, Begin(p) PROVE RespondInv'
  BY <1>1, ReceiveStep, ReprocessStep, SendRejectionStep, StartResponseStep,
     FinishResponseStep, FillDraftStep DEF Begin
<1>2. ASSUME NEW p \in Procs, GoOn(p) PROVE RespondInv'
  BY <1>2, DeliverStep, SignAndSendStep, RemoveDraftStep, MarkRespondedStep,
     SaveMarkStep DEF GoOn
<1>3. ASSUME NEW p \in Procs, Die(p) PROVE RespondInv'
  BY <1>3, DieStep
<1>4. ASSUME NEW m \in Orders, NEW t \in Types, EditDraft(m, t) PROVE RespondInv'
  BY <1>4, EditDraftStep
<1>5. ASSUME NEW p \in Procs, NEW s \in sent, SaveRecord(p, s) PROVE RespondInv'
  BY <1>5, SaveRecordStep
<1>6. CASE UNCHANGED vars
  <2>1. TypeOK'
    BY <1>6 DEF RespondInv, TypeOK, vars, queue, counts
  <2> QED
    BY <1>6, <2>1, QueueUntouched DEF vars, queue
<1> QED
  BY <1>1, <1>2, <1>3, <1>4, <1>5, <1>6 DEF Next

LEMMA RespondInvariant == Spec => []RespondInv
<1> QED
  BY RespondInit, RespondStep, PTL DEF Spec

(* The files keep their types, and a draft is in the file of a type that   *)
(* its original allows (Build's responseSpec).                             *)
THEOREM RespondTypeCorrect == Spec => []TypeOK
<1>1. RespondInv => TypeOK
  BY DEF RespondInv
<1> QED
  BY <1>1, RespondInvariant, PTL

(* What is about to be signed honours the original as far as the draft     *)
(* lets Finish tell, whatever editors made of the drafts (content, type,   *)
(* original, recipient, locks and holes), with however many processes, and *)
(* whoever dies; and wholly, when the type, the original, the recipient    *)
(* and the holes are those that Build wrote.                               *)
THEOREM OnlyProvenAnswers == Spec => []AnswersHonourTheOriginal
<1>1. RespondInv => AnswersHonourTheOriginal
  BY DEF RespondInv
<1> QED
  BY <1>1, RespondInvariant, PTL
-----------------------------------------------------------------------------
(* Marks, with any number of processes: whoever is about to mark a message *)
(* sent an answer to it, which is in the queue or was replaced.            *)

Answered(m) == m \in overwritten \/ \E s \in sent : s.about = m

SignedAtWork == \A p \in Procs :
    work[p].step \in {"remove", "mark", "save"} => Answered(work[p].answer.about)

MarkInv == RespondInv /\ SignedAtWork /\ MarkedIsAnswered

(* No answer leaves the queue but for one that replaces it. *)
LEMMA AnsweredStays ==
    ASSUME RespondInv, [Next]_vars
    PROVE  \A m : Answered(m) => m \in overwritten' \/ \E s \in sent' : s.about = m
<1> SUFFICES /\ overwritten \subseteq overwritten'
             /\ \A s \in sent : s \in sent' \/ s.about \in overwritten'
  BY DEF Answered
<1>1. ASSUME UNCHANGED <<sent, overwritten>>
      PROVE  /\ overwritten \subseteq overwritten'
             /\ \A s \in sent : s \in sent' \/ s.about \in overwritten'
  BY <1>1
<1>2. ASSUME NEW p \in Procs, SignAndSend(p)
      PROVE  /\ overwritten \subseteq overwritten'
             /\ \A s \in sent : s \in sent' \/ s.about \in overwritten'
  BY <1>2 DEF SignAndSend, Replaces
<1>3. ASSUME NEW p \in Procs, DiesSending(p)
      PROVE  /\ overwritten \subseteq overwritten'
             /\ \A s \in sent : s \in sent' \/ s.about \in overwritten'
  BY <1>3 DEF DiesSending, Replaces
<1>4. ASSUME NEW p \in Procs, Begin(p) PROVE UNCHANGED <<sent, overwritten>>
  BY <1>4 DEF Begin, Receive, Reprocess, SendRejection, StartResponse, FinishResponse,
              FillDraft, queue
<1>5. ASSUME NEW p \in Procs, Deliver(p) \/ RemoveDraft(p) \/ MarkResponded(p) \/ SaveMark(p)
      PROVE  UNCHANGED <<sent, overwritten>>
  BY <1>5 DEF Deliver, RemoveDraft, MarkResponded, SaveMark, queue
<1>6. ASSUME NEW p \in Procs,
             Crash(p) \/ \E s \in sent : DiesSaving(p, s) \/ SaveRecord(p, s)
      PROVE  UNCHANGED <<sent, overwritten>>
  BY <1>6 DEF Crash, DiesSaving, SaveRecord, queue
<1>7. ASSUME NEW n \in Orders, NEW t \in Types, EditDraft(n, t)
      PROVE  UNCHANGED <<sent, overwritten>>
  BY <1>7 DEF EditDraft, queue
<1>8. CASE UNCHANGED vars
  BY <1>1, <1>8 DEF vars, queue
<1> QED
  BY <1>1, <1>2, <1>3, <1>4, <1>5, <1>6, <1>7, <1>8 DEF Next, GoOn, Die

(* The step that a process makes, seen from its work: all but one leave    *)
(* it, end it or begin it; signing puts the answer into the queue; and     *)
(* what is behind signing stays the same answer.                           *)
LEMMA WorkOnAnswers ==
    ASSUME RespondInv, [Next]_vars, NEW q \in Procs,
           work'[q].step \in {"remove", "mark", "save"}
    PROVE  \/ work'[q] = work[q]
           \/ work'[q].answer = work[q].answer /\ work[q].step \in {"remove", "mark"}
           \/ work'[q].answer = work[q].answer /\ work[q].answer \in sent'
<1>0. TypeOK
  BY DEF RespondInv
<1>1. ASSUME NEW p \in Procs, NEW w, work' = [work EXCEPT ![p] = w],
             w.step \notin {"remove", "mark", "save"}
      PROVE  work'[q] = work[q]
  BY <1>0, <1>1 DEF TypeOK
<1>2. ASSUME NEW p \in Procs, Begin(p) PROVE work'[q] = work[q]
  <2>1. ASSUME NEW m \in Orders, Receive(p, m) \/ Reprocess(p, m) PROVE work'[q] = work[q]
    <3> DEFINE w == [step |-> "deliver", about |-> m]
    <3>1. work' = [work EXCEPT ![p] = w] /\ w.step \notin {"remove", "mark", "save"}
      BY <2>1 DEF Receive, Reprocess
    <3> HIDE DEF w
    <3> QED
      BY <1>1, <3>1
  <2>2. ASSUME NEW m \in Orders, SendRejection(p, m) PROVE work'[q] = work[q]
    <3> DEFINE w == [step |-> "send", letter |-> NoDraft,
                     answer |-> NewAnswer(m, "rejection_notice", NoSlot)]
    <3>1. work' = [work EXCEPT ![p] = w] /\ w.step \notin {"remove", "mark", "save"}
      BY <2>2 DEF SendRejection
    <3> HIDE DEF w
    <3> QED
      BY <1>1, <3>1
  <2>3. ASSUME NEW m \in Orders, NEW t \in Types, FinishResponse(p, m, t)
        PROVE  work'[q] = work[q]
    <3> DEFINE d == drafts[m][t]
               w == [step |-> "send", letter |-> [d EXCEPT !.content = Finished(d)],
                     answer |-> NewAnswer(d.about, d.type, Slot(m, t))]
    <3>1. work' = [work EXCEPT ![p] = w] /\ w.step \notin {"remove", "mark", "save"}
      BY <2>3 DEF FinishResponse
    <3> HIDE DEF w
    <3> QED
      BY <1>1, <3>1
  <2>4. ASSUME NEW m \in Orders, NEW t \in Types, StartResponse(p, m, t)
        PROVE  work'[q] = work[q]
    BY <2>4 DEF StartResponse
  <2>5. ASSUME NEW m \in Orders, NEW t \in Types, NEW f \in Fields,
               NEW v \in Tries[f] \cup {Absent}, FillDraft(p, m, t, f, v)
        PROVE  work'[q] = work[q]
    BY <2>5 DEF FillDraft
  <2> QED
    BY <1>2, <2>1, <2>2, <2>3, <2>4, <2>5 DEF Begin
<1>3. ASSUME NEW p \in Procs, Deliver(p) \/ SaveMark(p) \/ Die(p) PROVE work'[q] = work[q]
  <2>1. work' = [work EXCEPT ![p] = NoWork]
    BY <1>3 DEF Deliver, SaveMark, Die, Crash, DiesSending, DiesSaving, Dies
  <2> QED
    BY <1>1, <2>1 DEF NoWork
<1>4. ASSUME NEW p \in Procs, SignAndSend(p)
      PROVE  \/ work'[q] = work[q]
             \/ work'[q].answer = work[q].answer /\ work[q].answer \in sent'
  <2>1. work[p].answer \in sent'
    BY <1>4 DEF SignAndSend
  <2>2. PICK w \in Answering : work' = [work EXCEPT ![p] = w] /\ w.answer = work[p].answer
    BY <1>0, <1>4, Signed
  <2> QED
    BY <1>0, <2>1, <2>2 DEF TypeOK
<1>5. ASSUME NEW p \in Procs, RemoveDraft(p)
      PROVE  \/ work'[q] = work[q]
             \/ work'[q].answer = work[q].answer /\ work[q].step \in {"remove", "mark"}
  <2>1. work[p].step = "remove"
    BY <1>5 DEF RemoveDraft, At
  <2>2. PICK w \in Answering : work' = [work EXCEPT ![p] = w] /\ w.answer = work[p].answer
    BY <1>0, <1>5, Removed
  <2> QED
    BY <1>0, <2>1, <2>2 DEF TypeOK
<1>6. ASSUME NEW p \in Procs, MarkResponded(p)
      PROVE  \/ work'[q] = work[q]
             \/ work'[q].answer = work[q].answer /\ work[q].step \in {"remove", "mark"}
  <2> DEFINE m == work[p].answer.about
             w == [step |-> "save", answer |-> work[p].answer, rec |-> inbox[m]]
  <2>1. w.answer = work[p].answer /\ work[p].step = "mark"
    BY <1>6 DEF MarkResponded, At
  <2>2. work' = [work EXCEPT ![p] = w] \/ work' = [work EXCEPT ![p] = NoWork]
    BY <1>6 DEF MarkResponded
  <2> HIDE DEF w
  <2>3. CASE work' = [work EXCEPT ![p] = w]
    BY <1>0, <2>1, <2>3 DEF TypeOK
  <2>4. CASE work' = [work EXCEPT ![p] = NoWork]
    BY <1>1, <2>4 DEF NoWork
  <2> QED
    BY <2>2, <2>3, <2>4
<1>7. CASE UNCHANGED work
  BY <1>7
<1>8. ASSUME NEW p \in Procs, NEW s \in sent, SaveRecord(p, s) PROVE UNCHANGED work
  BY <1>8 DEF SaveRecord
<1>9. ASSUME NEW m \in Orders, NEW t \in Types, EditDraft(m, t) PROVE UNCHANGED work
  BY <1>9 DEF EditDraft
<1>10. UNCHANGED vars => UNCHANGED work
  BY DEF vars
<1>11. ASSUME NEW p \in Procs, GoOn(p)
       PROVE  \/ work'[q] = work[q]
              \/ work'[q].answer = work[q].answer /\ work[q].step \in {"remove", "mark"}
              \/ work'[q].answer = work[q].answer /\ work[q].answer \in sent'
  BY <1>3, <1>4, <1>5, <1>6, <1>11 DEF GoOn
<1> QED
  BY <1>2, <1>3, <1>7, <1>8, <1>9, <1>10, <1>11 DEF Next

LEMMA SignedStep ==
    ASSUME MarkInv, [Next]_vars
    PROVE  SignedAtWork'
<1> DEFINE Still(m) == m \in overwritten' \/ \E s \in sent' : s.about = m
<1> SUFFICES ASSUME NEW q \in Procs, work'[q].step \in {"remove", "mark", "save"}
             PROVE  Still(work'[q].answer.about)
  BY DEF SignedAtWork, Answered
<1>1. work[q].step \in {"remove", "mark", "save"} => Still(work[q].answer.about)
  BY AnsweredStays DEF MarkInv, SignedAtWork
<1>2. work[q].answer \in sent' => Still(work[q].answer.about)
  OBVIOUS
<1>3. \/ work'[q] = work[q]
      \/ work'[q].answer = work[q].answer /\ work[q].step \in {"remove", "mark"}
      \/ work'[q].answer = work[q].answer /\ work[q].answer \in sent'
  BY WorkOnAnswers DEF MarkInv
<1> HIDE DEF Still
<1> QED
  BY <1>1, <1>2, <1>3

(* A mark is only set by SaveMark; what the pipeline delivers has none.    *)
LEMMA InboxStep ==
    ASSUME RespondInv, [Next]_vars, NEW m \in Orders, inbox'[m].responded
    PROVE  \/ inbox[m].responded
           \/ \E p \in Procs : work[p].step = "save" /\ work[p].answer.about = m
<1>1. ASSUME NEW p \in Procs, SaveMark(p)
      PROVE  \/ inbox'[m] = inbox[m]
             \/ work[p].step = "save" /\ work[p].answer.about = m
  <2> DEFINE r == [work[p].rec EXCEPT !.responded = TRUE]
  <2>1. inbox' = [inbox EXCEPT ![work[p].answer.about] = r]
    BY <1>1 DEF SaveMark
  <2>2. work[p].step = "save"
    BY <1>1 DEF SaveMark, At
  <2> HIDE DEF r
  <2> QED
    BY <2>1, <2>2 DEF RespondInv, TypeOK
<1>2. ASSUME NEW n, NEW s, inbox' = [inbox EXCEPT ![n] = [status |-> s, responded |-> FALSE]]
      PROVE  inbox[m].responded
  BY <1>2 DEF RespondInv, TypeOK
<1>3. ASSUME NEW p \in Procs, Deliver(p) PROVE inbox[m].responded
  BY <1>2, <1>3 DEF Deliver, NewRecord
<1>4. ASSUME NEW p \in Procs, NEW n \in Orders, Reprocess(p, n) PROVE inbox[m].responded
  BY <1>2, <1>4 DEF Reprocess, NoRecord
<1>5. ASSUME NEW p \in Procs, NEW n \in Orders,
             \/ Receive(p, n) \/ SendRejection(p, n)
             \/ \E t \in Types : StartResponse(p, n, t) \/ FinishResponse(p, n, t)
             \/ \E t \in Types, f \in Fields : \E v \in Tries[f] \cup {Absent} :
                  FillDraft(p, n, t, f, v)
      PROVE  UNCHANGED inbox
  BY <1>5 DEF Receive, SendRejection, StartResponse, FinishResponse, FillDraft
<1>6. ASSUME NEW p \in Procs, SignAndSend(p) \/ RemoveDraft(p) \/ MarkResponded(p) \/ Die(p)
      PROVE  UNCHANGED inbox
  BY <1>6 DEF SignAndSend, RemoveDraft, MarkResponded, Die, Crash, DiesSending, DiesSaving
<1>7. ASSUME NEW n \in Orders, NEW t \in Types, EditDraft(n, t) PROVE UNCHANGED inbox
  BY <1>7 DEF EditDraft
<1>8. ASSUME NEW p \in Procs, NEW s \in sent, SaveRecord(p, s) PROVE UNCHANGED inbox
  BY <1>8 DEF SaveRecord
<1>9. UNCHANGED vars => UNCHANGED inbox
  BY DEF vars
<1> QED
  BY <1>1, <1>3, <1>4, <1>5, <1>6, <1>7, <1>8, <1>9 DEF Next, Begin, GoOn

LEMMA MarksStep ==
    ASSUME MarkInv, [Next]_vars
    PROVE  MarkedIsAnswered'
<1> SUFFICES ASSUME NEW m \in Orders, inbox'[m].responded
             PROVE  m \in overwritten' \/ \E s \in sent' : s.about = m
  BY DEF MarkedIsAnswered
<1>1. Answered(m)
  <2>1. CASE inbox[m].responded
    BY <2>1 DEF MarkInv, MarkedIsAnswered, Answered
  <2>2. ASSUME NEW p \in Procs, work[p].step = "save", work[p].answer.about = m
        PROVE  Answered(m)
    BY <2>2 DEF MarkInv, SignedAtWork
  <2> QED
    BY <2>1, <2>2, InboxStep DEF MarkInv
<1> QED
  BY <1>1, AnsweredStays DEF MarkInv

(* With however many processes, editors and deaths: a message is marked as *)
(* answered only when an answer or a rejection of it was sent, which is in *)
(* the queue unless a later answer got its number (FinishResponse and      *)
(* SendRejection send before they mark).                                   *)
THEOREM MarksAnswered == Spec => []MarkedIsAnswered
<1>1. Init => MarkInv
  BY RespondInit DEF Init, MarkInv, SignedAtWork, MarkedIsAnswered, NoWork, NoRecord
<1>2. MarkInv /\ [Next]_vars => MarkInv'
  BY RespondStep, SignedStep, MarksStep DEF MarkInv
<1>3. MarkInv => MarkedIsAnswered
  BY DEF MarkInv
<1> QED
  BY <1>1, <1>2, <1>3, PTL DEF Spec
-----------------------------------------------------------------------------
(* One process: what it sent stays sent until it is done. *)

Solo == \A p, q \in Procs : p = q

DraftGone(slot) == drafts[slot.about][slot.type] = NoDraft

AnswerAtWork == \A p \in Procs :
    /\ work[p].step \in {"remove", "mark", "save"} => work[p].answer \in sent
    /\ work[p].step \in {"mark", "save"} /\ work[p].answer.draft # NoSlot
         => DraftGone(work[p].answer.draft)

SoloInv == RespondInv /\ AnswerAtWork

(* A step of the process that takes it to w. *)
LEMMA SoloMoves ==
    ASSUME Solo, RespondInv, RespondInv', NEW p \in Procs, NEW w,
           work' = [work EXCEPT ![p] = w],
           w.step \in {"remove", "mark", "save"} => w.answer \in sent',
           w.step \in {"mark", "save"} /\ w.answer.draft # NoSlot
             => drafts'[w.answer.draft.about][w.answer.draft.type] = NoDraft
    PROVE  SoloInv'
<1>1. \A q \in Procs : work'[q] = w
  BY DEF Solo, RespondInv, TypeOK
<1>2. AnswerAtWork'
  BY <1>1 DEF AnswerAtWork, DraftGone
<1> QED
  BY <1>2 DEF SoloInv

(* A step that leaves it where it is, and makes no draft while it answers. *)
LEMMA SoloStays ==
    ASSUME SoloInv, RespondInv', UNCHANGED <<work, sent>>,
           \/ \A m \in Orders, t \in Types : drafts[m][t] = NoDraft => drafts'[m][t] = NoDraft
           \/ \A q \in Procs : work[q].step = "none"
    PROVE  SoloInv'
<1> SUFFICES ASSUME NEW q \in Procs
             PROVE  /\ work[q].step \in {"remove", "mark", "save"} => work[q].answer \in sent
                    /\ work[q].step \in {"mark", "save"} /\ work[q].answer.draft # NoSlot
                         => drafts'[work[q].answer.draft.about][work[q].answer.draft.type]
                              = NoDraft
  BY DEF SoloInv, AnswerAtWork, DraftGone
<1>1. work[q].step \in {"remove", "mark", "save"} => work[q].answer \in sent
  BY DEF SoloInv, AnswerAtWork
<1>2. ASSUME work[q].step \in {"mark", "save"}, work[q].answer.draft # NoSlot
      PROVE  drafts'[work[q].answer.draft.about][work[q].answer.draft.type] = NoDraft
  <2>1. work[q].answer.draft \in Slots
    BY <1>2, AnswerTypes DEF SoloInv, RespondInv
  <2>2. work[q].answer.draft.about \in Orders /\ work[q].answer.draft.type \in Types
    BY <2>1 DEF Slots
  <2>3. drafts[work[q].answer.draft.about][work[q].answer.draft.type] = NoDraft
    BY <1>2 DEF SoloInv, AnswerAtWork, DraftGone
  <2> QED
    BY <1>2, <2>2, <2>3
<1> QED
  BY <1>1, <1>2

(* With one process idle, every process is. *)
LEMMA SoloIdle ==
    ASSUME Solo, NEW p \in Procs, Idle(p)
    PROVE  \A q \in Procs : work[q].step = "none"
BY DEF Solo, Idle, NoWork

(* An edited draft is still there, and no other comes up. *)
LEMMA DraftEdited ==
    ASSUME RespondInv, NEW m \in Orders, NEW t \in Types,
           \/ EditDraft(m, t)
           \/ \E p \in Procs, f \in Fields : \E v \in Tries[f] \cup {Absent} :
                FillDraft(p, m, t, f, v)
    PROVE  \A n \in Orders, u \in Types : drafts[n][u] = NoDraft => drafts'[n][u] = NoDraft
<1>1. drafts[m][t] # NoDraft /\ drafts[m][t] \in Draft
  BY DEF RespondInv, TypeOK, EditDraft, FillDraft
<1>2. \E d : drafts' = [drafts EXCEPT ![m][t] = d]
  <2>1. CASE EditDraft(m, t)
    BY <1>1, <2>1, EditLeavesADraft
  <2>2. ASSUME NEW p \in Procs, NEW f \in Fields, NEW v \in Tries[f] \cup {Absent},
               FillDraft(p, m, t, f, v)
        PROVE  \E d : drafts' = [drafts EXCEPT ![m][t] = d]
    <3>1. drafts' = [drafts EXCEPT ![m][t] = [drafts[m][t] EXCEPT !.content[f] = v]]
      BY <2>2 DEF FillDraft
    <3> QED
      BY <3>1
  <2> QED
    BY <2>1, <2>2
<1> QED
  BY <1>1, <1>2 DEF RespondInv, TypeOK

LEMMA SoloBegins ==
    ASSUME Solo, SoloInv, RespondInv', NEW p \in Procs, Begin(p)
    PROVE  SoloInv'
<1>0. RespondInv
  BY DEF SoloInv
<1>1. ASSUME NEW m \in Orders, Receive(p, m) \/ Reprocess(p, m) PROVE SoloInv'
  <2> DEFINE w == [step |-> "deliver", about |-> m]
  <2>1. work' = [work EXCEPT ![p] = w] /\ w.step \notin {"remove", "mark", "save"}
    BY <1>1 DEF Receive, Reprocess
  <2> HIDE DEF w
  <2> QED
    BY <1>0, <2>1, SoloMoves
<1>2. ASSUME NEW m \in Orders, SendRejection(p, m) PROVE SoloInv'
  <2> DEFINE w == [step |-> "send", letter |-> NoDraft,
                   answer |-> NewAnswer(m, "rejection_notice", NoSlot)]
  <2>1. work' = [work EXCEPT ![p] = w] /\ w.step \notin {"remove", "mark", "save"}
    BY <1>2 DEF SendRejection
  <2> HIDE DEF w
  <2> QED
    BY <1>0, <2>1, SoloMoves
<1>3. ASSUME NEW m \in Orders, NEW t \in Types, FinishResponse(p, m, t) PROVE SoloInv'
  <2> DEFINE d == drafts[m][t]
             w == [step |-> "send", letter |-> [d EXCEPT !.content = Finished(d)],
                   answer |-> NewAnswer(d.about, d.type, Slot(m, t))]
  <2>1. work' = [work EXCEPT ![p] = w] /\ w.step \notin {"remove", "mark", "save"}
    BY <1>3 DEF FinishResponse
  <2> HIDE DEF w
  <2> QED
    BY <1>0, <2>1, SoloMoves
<1>4. ASSUME NEW m \in Orders, NEW t \in Types, StartResponse(p, m, t) PROVE SoloInv'
  <2>1. UNCHANGED <<work, sent>> /\ \A q \in Procs : work[q].step = "none"
    BY <1>4, SoloIdle DEF StartResponse, queue
  <2> QED
    BY <2>1, SoloStays
<1>5. ASSUME NEW m \in Orders, NEW t \in Types, NEW f \in Fields,
             NEW v \in Tries[f] \cup {Absent}, FillDraft(p, m, t, f, v)
      PROVE  SoloInv'
  <2>1. UNCHANGED <<work, sent>> /\ \A q \in Procs : work[q].step = "none"
    BY <1>5, SoloIdle DEF FillDraft, queue
  <2> QED
    BY <2>1, SoloStays
<1> QED
  BY <1>1, <1>2, <1>3, <1>4, <1>5 DEF Begin

LEMMA SoloEnds ==
    ASSUME Solo, SoloInv, RespondInv', NEW p \in Procs, work' = [work EXCEPT ![p] = NoWork]
    PROVE  SoloInv'
BY SoloMoves DEF SoloInv, NoWork

LEMMA SoloGoesOn ==
    ASSUME Solo, SoloInv, RespondInv', NEW p \in Procs, GoOn(p)
    PROVE  SoloInv'
<1>0. RespondInv /\ TypeOK
  BY DEF SoloInv, RespondInv
<1>1. CASE Deliver(p) \/ SaveMark(p)
  BY <1>1, SoloEnds DEF Deliver, SaveMark
<1>2. CASE SignAndSend(p)
  <2>1. work[p].answer \in sent'
    BY <1>2 DEF SignAndSend
  <2>2. PICK w \in Answering :
          /\ work' = [work EXCEPT ![p] = w] /\ w.answer = work[p].answer
          /\ w.step = IF work[p].answer.draft # NoSlot THEN "remove" ELSE "mark"
    BY <1>0, <1>2, Signed
  <2>3. ~(w.step \in {"mark", "save"} /\ w.answer.draft # NoSlot)
    BY <2>2
  <2> QED
    BY <1>0, <2>1, <2>2, <2>3, SoloMoves
<1>3. CASE RemoveDraft(p)
  <2> DEFINE slot == work[p].answer.draft
  <2>1. work[p].answer \in sent'
    BY <1>3 DEF SoloInv, AnswerAtWork, RemoveDraft, At, queue
  <2>2. PICK w \in Answering : /\ work' = [work EXCEPT ![p] = w]
                               /\ w.answer = work[p].answer /\ w.step = "mark"
    BY <1>0, <1>3, Removed
  <2>3. ASSUME slot # NoSlot PROVE drafts'[slot.about][slot.type] = NoDraft
    <3> DEFINE m == slot.about
               t == slot.type
    <3>1. slot \in Slots
      BY <1>0, <1>3, <2>3, AnswerTypes DEF RemoveDraft, At
    <3>2. m \in Orders /\ t \in Types
      BY <3>1 DEF Slots
    <3>3. drafts' = [drafts EXCEPT ![m][t] = NoDraft]
      BY <1>3 DEF RemoveDraft
    <3> HIDE DEF m, t
    <3>4. drafts'[m][t] = NoDraft
      BY <1>0, <3>2, <3>3 DEF TypeOK
    <3> QED
      BY <3>4 DEF m, t
  <2> QED
    BY <1>0, <2>1, <2>2, <2>3, SoloMoves
<1>4. CASE MarkResponded(p)
  <2> DEFINE a == work[p].answer
             w == [step |-> "save", answer |-> a, rec |-> inbox[a.about]]
  <2>1. /\ a \in sent' /\ UNCHANGED drafts
        /\ a.draft # NoSlot => drafts[a.draft.about][a.draft.type] = NoDraft
    BY <1>4 DEF SoloInv, AnswerAtWork, DraftGone, MarkResponded, At, queue
  <2>2. w.answer = a
    OBVIOUS
  <2>3. work' = [work EXCEPT ![p] = w] \/ work' = [work EXCEPT ![p] = NoWork]
    BY <1>4 DEF MarkResponded
  <2> HIDE DEF a, w
  <2>4. CASE work' = [work EXCEPT ![p] = w]
    BY <1>0, <2>1, <2>2, <2>4, SoloMoves
  <2> QED
    BY <2>3, <2>4, SoloEnds
<1> QED
  BY <1>1, <1>2, <1>3, <1>4 DEF GoOn

LEMMA SoloStep == Solo /\ SoloInv /\ [Next]_vars => SoloInv'
<1> SUFFICES ASSUME Solo, SoloInv, [Next]_vars PROVE SoloInv'
  OBVIOUS
<1>1. RespondInv /\ RespondInv'
  BY RespondStep DEF SoloInv
<1>2. ASSUME NEW p \in Procs, Die(p) PROVE SoloInv'
  BY <1>1, <1>2, SoloEnds DEF Die, Crash, DiesSending, DiesSaving, Dies
<1>3. ASSUME NEW m \in Orders, NEW t \in Types, EditDraft(m, t) PROVE SoloInv'
  <2>1. UNCHANGED <<work, sent>>
    BY <1>3 DEF EditDraft, queue
  <2> QED
    BY <1>1, <1>3, <2>1, DraftEdited, SoloStays
<1>4. ASSUME NEW p \in Procs, NEW s \in sent, SaveRecord(p, s) PROVE SoloInv'
  <2>1. UNCHANGED <<work, sent, drafts>>
    BY <1>4 DEF SaveRecord
  <2> QED
    BY <1>1, <2>1, SoloStays
<1>5. CASE UNCHANGED vars
  <2>1. UNCHANGED <<work, sent, drafts>>
    BY <1>5 DEF vars, queue
  <2> QED
    BY <1>1, <2>1, SoloStays
<1> QED
  BY <1>1, <1>2, <1>3, <1>4, <1>5, SoloBegins, SoloGoesOn DEF Next

LEMMA SoloInvariant == ASSUME Solo PROVE Spec => []SoloInv
<1>1. Init => SoloInv
  BY RespondInit DEF Init, SoloInv, AnswerAtWork, NoWork
<1>2. SoloInv /\ [Next]_vars => SoloInv'
  BY SoloStep
<1> QED
  BY <1>1, <1>2, PTL DEF Spec

(* The last step of an operation finds everything done.                    *)
LEMMA SoloReports ==
    ASSUME Solo, SoloInv, [Next]_vars, NEW p \in Procs,
           work[p].step \in {"mark", "save"}, Idle(p)', crashes' = crashes
    PROVE  LET a == work[p].answer IN
           /\ a \in sent'
           /\ a.draft # NoSlot => drafts'[a.draft.about][a.draft.type] = NoDraft
           /\ inbox'[a.about] # NoRecord => inbox'[a.about].responded
<1> DEFINE a == work[p].answer
<1>0. RespondInv /\ TypeOK
  BY DEF SoloInv, RespondInv
<1>1. /\ a \in sent /\ a.about \in Orders
      /\ a.draft # NoSlot => drafts[a.draft.about][a.draft.type] = NoDraft
  BY <1>0, AnswerTypes DEF SoloInv, AnswerAtWork, DraftGone
<1>2. MarkResponded(p) \/ SaveMark(p)
  <2>1. ASSUME NEW q \in Procs, Begin(q) \/ \E s \in sent : SaveRecord(q, s) PROVE FALSE
    <3>1. Idle(q)
      BY <2>1 DEF Begin, Receive, Reprocess, SendRejection, StartResponse,
                  FinishResponse, FillDraft, SaveRecord
    <3> QED
      BY <3>1, SoloIdle
  <2>2. ASSUME NEW q \in Procs, Die(q) PROVE FALSE
    <3>1. crashes' = crashes + 1 /\ crashes \in Nat
      BY <1>0, <2>2 DEF Die, Crash, DiesSending, DiesSaving, Dies, TypeOK
    <3> QED
      BY <3>1
  <2>3. UNCHANGED work => FALSE
    BY DEF Idle, NoWork
  <2>4. ASSUME NEW q \in Procs, GoOn(q) PROVE MarkResponded(p) \/ SaveMark(p)
    <3>1. q = p
      BY DEF Solo
    <3> QED
      BY <2>4, <3>1 DEF GoOn, Deliver, SignAndSend, RemoveDraft, At
  <2> QED
    BY <2>1, <2>2, <2>3, <2>4 DEF Next, EditDraft, vars
<1>3. CASE MarkResponded(p)
  <2>1. inbox[a.about] = NoRecord
    BY <1>0, <1>3 DEF MarkResponded, Idle, NoWork, TypeOK
  <2> QED
    BY <1>1, <1>3, <2>1 DEF MarkResponded, queue
<1>4. CASE SaveMark(p)
  <2>1. inbox'[a.about].responded
    <3>1. work[p].rec \in Record
      BY <1>0, <1>4, WorkTypes DEF SaveMark, Marking
    <3> QED
      BY <1>0, <1>1, <1>4, <3>1 DEF SaveMark, TypeOK, Record
  <2> QED
    BY <1>1, <1>4, <2>1 DEF SaveMark, queue
<1> QED
  BY <1>2, <1>3, <1>4

(* What FinishResponse or SendRejection reports as sent, without a crash,  *)
(* is queued, its draft removed, and the message marked if it has a record.*)
THEOREM SoloReportsDone == ASSUME Solo PROVE Spec => ReportedIsDone
<1>1. SoloInv /\ [Next]_vars =>
        [\A p \in Procs :
           (work[p].step \in {"mark", "save"} /\ Idle(p)' /\ crashes' = crashes) =>
             LET a == work[p].answer IN
             /\ a \in sent'
             /\ a.draft # NoSlot => drafts'[a.draft.about][a.draft.type] = NoDraft
             /\ inbox'[a.about] # NoRecord => inbox'[a.about].responded]_vars
  BY SoloReports
<1> QED
  BY <1>1, SoloInvariant, PTL DEF Spec, ReportedIsDone
-----------------------------------------------------------------------------
(* One process, and nobody leaves a temporary file: numbers are new.       *)

FreshInv ==
    /\ overwritten = {}
    /\ \A s \in sent : s.number <= Cardinality(sent)
    /\ \A p \in Procs : At(p, "send") => work[p].answer.number = Cardinality(sent) + 1

(* A number beyond the count is on no file yet. *)
LEMMA NothingReplaced ==
    ASSUME RespondInv, FreshInv, NEW a, a.number = Cardinality(sent) + 1
    PROVE  Replaced(a) = {}
<1> SUFFICES ASSUME NEW s \in sent, File(s) = File(a) PROVE FALSE
  BY DEF Replaced
<1>1. s.number = a.number
  BY DEF File
<1>2. s.number \in Nat /\ s.number <= Cardinality(sent)
  BY DEF RespondInv, TypeOK, FreshInv, Answer
<1>3. Cardinality(sent) \in Nat
  BY FS_CardinalityType DEF RespondInv
<1> QED
  BY <1>1, <1>2, <1>3

(* What sends nothing and proposes nothing. *)
LEMMA FreshStays ==
    ASSUME RespondInv, FreshInv, UNCHANGED <<sent, overwritten>>,
           \/ work' = work
           \/ \E p \in Procs : \E w : w.step # "send" /\ work' = [work EXCEPT ![p] = w]
    PROVE  FreshInv'
BY DEF FreshInv, At, RespondInv, TypeOK

LEMMA FreshProposed ==
    ASSUME RespondInv, FreshInv, torn = {}, NEW p \in Procs,
           \/ \E m \in Orders, t \in Types : FinishResponse(p, m, t)
           \/ \E m \in Orders : SendRejection(p, m)
    PROVE  FreshInv'
<1>1. Cardinality(torn) = 0 /\ Cardinality(sent) \in Nat
  BY FS_EmptySet, FS_CardinalityType DEF RespondInv
<1>2. NextNumber = Cardinality(sent) + 1
  BY <1>1 DEF NextNumber
<1>3. ASSUME NEW m, NEW k, NEW slot PROVE NewAnswer(m, k, slot).number = NextNumber
  BY DEF NewAnswer
<1>4. PICK l, a : /\ a.number = NextNumber
                  /\ work' = [work EXCEPT ![p] = [step |-> "send", letter |-> l, answer |-> a]]
  <2>1. ASSUME NEW m \in Orders, SendRejection(p, m)
        PROVE  \E l, a : /\ a.number = NextNumber
                 /\ work' = [work EXCEPT ![p] = [step |-> "send", letter |-> l, answer |-> a]]
    <3> DEFINE a == NewAnswer(m, "rejection_notice", NoSlot)
    <3>1. work' = [work EXCEPT ![p] = [step |-> "send", letter |-> NoDraft, answer |-> a]]
      BY <2>1 DEF SendRejection
    <3>2. a.number = NextNumber
      BY DEF NewAnswer
    <3> HIDE DEF a
    <3> QED
      BY <3>1, <3>2
  <2>2. ASSUME NEW m \in Orders, NEW t \in Types, FinishResponse(p, m, t)
        PROVE  \E l, a : /\ a.number = NextNumber
                 /\ work' = [work EXCEPT ![p] = [step |-> "send", letter |-> l, answer |-> a]]
    <3> DEFINE d == drafts[m][t]
               a == NewAnswer(d.about, d.type, Slot(m, t))
               l == [d EXCEPT !.content = Finished(d)]
    <3>1. work' = [work EXCEPT ![p] = [step |-> "send", letter |-> l, answer |-> a]]
      BY <2>2 DEF FinishResponse
    <3>2. a.number = NextNumber
      BY DEF NewAnswer
    <3> HIDE DEF a, l
    <3> QED
      BY <3>1, <3>2
  <2> QED
    BY <2>1, <2>2
<1>5. UNCHANGED <<sent, overwritten>>
  BY DEF FinishResponse, SendRejection, queue
<1>6. \A q \in Procs : work'[q] = work[q] \/ work'[q].answer.number = NextNumber
  BY <1>4 DEF RespondInv, TypeOK
<1> QED
  BY <1>2, <1>5, <1>6 DEF FreshInv, At

LEMMA FreshSigned ==
    ASSUME Solo, RespondInv, FreshInv, NEW p \in Procs, SignAndSend(p)
    PROVE  FreshInv'
<1> DEFINE a == work[p].answer
<1>1. a.number = Cardinality(sent) + 1 /\ Cardinality(sent) \in Nat /\ IsFiniteSet(sent)
  BY FS_CardinalityType DEF FreshInv, SignAndSend, RespondInv
<1>2. PICK w \in Answering : work' = [work EXCEPT ![p] = w]
  BY Signed DEF RespondInv
<1>3. sent' = (sent \ Replaced(a)) \cup {a} /\ Replaces(a)
  BY DEF SignAndSend
<1> HIDE DEF a
<1>4. Replaced(a) = {}
  BY <1>1, NothingReplaced
<1>5. overwritten' = {} /\ sent' = sent \cup {a}
  BY <1>3, <1>4 DEF Replaces, FreshInv
<1>6. \A s \in sent : s.number \in Nat /\ s.number <= Cardinality(sent)
  BY DEF FreshInv, RespondInv, TypeOK, Answer
<1>7. a \notin sent
  BY <1>1, <1>6
<1>8. Cardinality(sent') = Cardinality(sent) + 1
  BY <1>1, <1>5, <1>7, FS_AddElement
<1>9. \A s \in sent' : s.number <= Cardinality(sent')
  BY <1>1, <1>5, <1>6, <1>8
<1>10. \A q \in Procs : work'[q].step # "send"
  <2>1. \A q \in Procs : work'[q] = w
    BY <1>2 DEF Solo, RespondInv, TypeOK
  <2> QED
    BY <2>1 DEF Answering
<1> QED
  BY <1>5, <1>9, <1>10 DEF FreshInv, At

LEMMA FreshStep == Solo /\ RespondInv /\ FreshInv /\ torn = {} /\ [Next]_vars => FreshInv'
<1> SUFFICES ASSUME Solo, RespondInv, FreshInv, torn = {}, [Next]_vars PROVE FreshInv'
  OBVIOUS
<1>1. ASSUME NEW p \in Procs, NEW m \in Orders, Receive(p, m) \/ Reprocess(p, m)
      PROVE  FreshInv'
  <2> DEFINE w == [step |-> "deliver", about |-> m]
  <2>1. work' = [work EXCEPT ![p] = w] /\ w.step # "send" /\ UNCHANGED <<sent, overwritten>>
    BY <1>1 DEF Receive, Reprocess, queue
  <2> HIDE DEF w
  <2> QED
    BY <2>1, FreshStays
<1>2. ASSUME NEW p \in Procs, NEW m \in Orders, NEW t \in Types,
             \/ StartResponse(p, m, t)
             \/ \E f \in Fields : \E v \in Tries[f] \cup {Absent} : FillDraft(p, m, t, f, v)
      PROVE  FreshInv'
  BY <1>2, FreshStays DEF StartResponse, FillDraft, queue
<1>3. ASSUME NEW p \in Procs, Begin(p) PROVE FreshInv'
  BY <1>1, <1>2, <1>3, FreshProposed DEF Begin
<1>4. ASSUME NEW p \in Procs,
             \/ Deliver(p) \/ SaveMark(p) \/ Crash(p) \/ \E s \in sent : DiesSaving(p, s)
      PROVE  FreshInv'
  <2>1. work' = [work EXCEPT ![p] = NoWork] /\ UNCHANGED <<sent, overwritten>>
    BY <1>4 DEF Deliver, SaveMark, Crash, DiesSaving, Dies, queue
  <2>2. NoWork.step # "send"
    BY DEF NoWork
  <2> QED
    BY <2>1, <2>2, FreshStays
<1>5. ASSUME NEW p \in Procs, DiesSending(p) PROVE FreshInv'
  <2> DEFINE a == work[p].answer
  <2>1. a.number = Cardinality(sent) + 1 /\ Replaces(a) /\ UNCHANGED sent
    BY <1>5 DEF FreshInv, DiesSending
  <2>2. work' = [work EXCEPT ![p] = NoWork] /\ NoWork.step # "send"
    BY <1>5 DEF DiesSending, Dies, NoWork
  <2> HIDE DEF a
  <2>3. UNCHANGED overwritten
    BY <2>1, NothingReplaced DEF Replaces
  <2> QED
    BY <2>1, <2>2, <2>3, FreshStays
<1>6. ASSUME NEW p \in Procs, RemoveDraft(p) PROVE FreshInv'
  <2>1. PICK w \in Answering : work' = [work EXCEPT ![p] = w] /\ w.step = "mark"
    BY <1>6, Removed DEF RespondInv
  <2>2. UNCHANGED <<sent, overwritten>>
    BY <1>6 DEF RemoveDraft, queue
  <2> QED
    BY <2>1, <2>2, FreshStays
<1>7. ASSUME NEW p \in Procs, MarkResponded(p) PROVE FreshInv'
  <2> DEFINE a == work[p].answer
             w == IF inbox[a.about] # NoRecord
                  THEN [step |-> "save", answer |-> a, rec |-> inbox[a.about]] ELSE NoWork
  <2>1. work' = [work EXCEPT ![p] = w] /\ UNCHANGED <<sent, overwritten>>
    BY <1>7 DEF MarkResponded, queue
  <2>2. w.step # "send"
    BY DEF NoWork
  <2> HIDE DEF w
  <2> QED
    BY <2>1, <2>2, FreshStays
<1>8. ASSUME NEW p \in Procs, GoOn(p) \/ Die(p) PROVE FreshInv'
  BY <1>4, <1>5, <1>6, <1>7, <1>8, FreshSigned DEF GoOn, Die
<1>9. ASSUME NEW m \in Orders, NEW t \in Types, EditDraft(m, t) PROVE FreshInv'
  BY <1>9, FreshStays DEF EditDraft, queue
<1>10. ASSUME NEW p \in Procs, NEW s \in sent, SaveRecord(p, s) PROVE FreshInv'
  BY <1>10, FreshStays DEF SaveRecord
<1>11. CASE UNCHANGED vars
  BY <1>11, FreshStays DEF vars, queue
<1> QED
  BY <1>3, <1>8, <1>9, <1>10, <1>11 DEF Next

NothingTorn == torn = {}

(* With one process at work on the home directory, and as long as no       *)
(* process dies between the writing and the renaming of a file of the      *)
(* queue (AtomicWrite), whatever else interrupts it, an answer keeps its   *)
(* number, and a message marked as answered has its answer or rejection in *)
(* the queue.  A temporary file left there is counted by nextNumber until  *)
(* its record is saved again, and then a number is given out twice.        *)
THEOREM SoloMarksAnswered ==
    ASSUME Solo
    PROVE  Spec /\ []NothingTorn =>
             [](\A m \in Orders : inbox[m].responded => \E s \in sent : s.about = m)
<1>1. Init => FreshInv
  BY DEF Init, FreshInv, At, NoWork
<1>2. RespondInv /\ FreshInv /\ NothingTorn /\ [Next]_vars => FreshInv'
  BY FreshStep DEF NothingTorn
<1>3. FreshInv /\ MarkedIsAnswered
        => \A m \in Orders : inbox[m].responded => \E s \in sent : s.about = m
  BY DEF FreshInv, MarkedIsAnswered
<1> QED
  BY <1>1, <1>2, <1>3, RespondInvariant, MarksAnswered, PTL DEF Spec
-----------------------------------------------------------------------------
(* One process: a draft is gone before another operation can send it.      *)

AnswersFrom(m, t) == {s \in sent : s.draft = Slot(m, t)}
Spent(m, t) == Cardinality(AnswersFrom(m, t))
Allowance(m, t) == started[m][t] + crashes
Is(step, m, t) == \E p \in Procs : At(p, step) /\ work[p].answer.draft = Slot(m, t)

(* A draft that is there, but for one that was just sent, and an answer    *)
(* that waits to be signed may still be sent.                              *)
MaySend(m, t) == \/ Is("send", m, t)
                 \/ drafts[m][t] # NoDraft /\ ~Is("remove", m, t)

OnceInv == \A m \in Orders, t \in Types :
    /\ Spent(m, t) <= Allowance(m, t)
    /\ MaySend(m, t) => Spent(m, t) < Allowance(m, t)

LEMMA SlotsDiffer ==
    ASSUME NEW m, NEW t
    PROVE  /\ Slot(m, t) # NoSlot
           /\ \A n, u : Slot(m, t) = Slot(n, u) => m = n /\ t = u
<1>1. Slot(m, t).about = m /\ Slot(m, t).type = t
  BY DEF Slot
<1>2. \A n, u : Slot(n, u).about = n /\ Slot(n, u).type = u
  BY DEF Slot
<1>3. Slot(m, t) # NoSlot
  BY DEF Slot, NoSlot
<1> QED
  BY <1>1, <1>2, <1>3

LEMMA Counted ==
    ASSUME RespondInv, NEW m \in Orders, NEW t \in Types
    PROVE  Spent(m, t) \in Nat /\ Allowance(m, t) \in Nat
<1>1. AnswersFrom(m, t) \subseteq sent
  BY DEF AnswersFrom
<1>2. Spent(m, t) \in Nat
  BY <1>1, FS_Subset, FS_CardinalityType DEF RespondInv, Spent
<1>3. started[m][t] \in Nat /\ crashes \in Nat
  BY DEF RespondInv, TypeOK
<1> QED
  BY <1>2, <1>3 DEF Allowance

(* While nothing is queued, what may be sent could be before, or a draft   *)
(* was built or a process died.                                            *)
LEMMA OnceKept ==
    ASSUME RespondInv, OnceInv, UNCHANGED sent,
           \A m \in Orders, t \in Types :
             \/ Allowance(m, t)' = Allowance(m, t) + 1
             \/ /\ Allowance(m, t)' = Allowance(m, t)
                /\ MaySend(m, t)' => MaySend(m, t)
    PROVE  OnceInv'
<1> SUFFICES ASSUME NEW m \in Orders, NEW t \in Types
             PROVE  /\ Spent(m, t)' <= Allowance(m, t)'
                    /\ MaySend(m, t)' => Spent(m, t)' < Allowance(m, t)'
  BY DEF OnceInv
<1>1. Spent(m, t)' = Spent(m, t)
  BY DEF Spent, AnswersFrom
<1>2. Spent(m, t) \in Nat /\ Allowance(m, t) \in Nat
  BY Counted
<1> QED
  BY <1>1, <1>2 DEF OnceInv

(* With one process: what it is not at, none is at. *)
LEMMA SoloNone ==
    ASSUME Solo, NEW p \in Procs, NEW m, NEW t
    PROVE  /\ work[p].step \notin {"send", "remove"} =>
                ~Is("send", m, t) /\ ~Is("remove", m, t)
           /\ work'[p].step \notin {"send", "remove"} =>
                ~Is("send", m, t)' /\ ~Is("remove", m, t)'
BY DEF Solo, Is, At

LEMMA OnceQuiet ==
    ASSUME Solo, RespondInv, OnceInv, NEW p \in Procs,
           \/ \E m \in Orders : Receive(p, m) \/ Reprocess(p, m)
           \/ Deliver(p) \/ MarkResponded(p) \/ SaveMark(p)
    PROVE  OnceInv'
<1>1. UNCHANGED <<drafts, sent, started, crashes>>
  BY DEF Receive, Reprocess, Deliver, MarkResponded, SaveMark, queue, counts
<1>2. work[p].step \notin {"send", "remove"}
  BY DEF Receive, Reprocess, Deliver, MarkResponded, SaveMark, Idle, At, NoWork
<1>3. work'[p].step \notin {"send", "remove"}
  BY DEF Receive, Reprocess, Deliver, MarkResponded, SaveMark, NoWork, RespondInv, TypeOK
<1>4. \A m \in Orders, t \in Types : MaySend(m, t)' => MaySend(m, t)
  BY <1>1, <1>2, <1>3, SoloNone DEF MaySend
<1>5. \A m \in Orders, t \in Types : Allowance(m, t)' = Allowance(m, t)
  BY <1>1 DEF Allowance
<1> QED
  BY <1>1, <1>4, <1>5, OnceKept

(* A draft that changes was there. *)
LEMMA OnceEdited ==
    ASSUME RespondInv, OnceInv, UNCHANGED <<sent, work, started, crashes>>,
           \A n \in Orders, u \in Types : drafts[n][u] = NoDraft => drafts'[n][u] = NoDraft
    PROVE  OnceInv'
<1>1. \A n \in Orders, u \in Types : MaySend(n, u)' => MaySend(n, u)
  BY DEF MaySend, Is, At
<1>2. \A n \in Orders, u \in Types : Allowance(n, u)' = Allowance(n, u)
  BY DEF Allowance
<1> QED
  BY <1>1, <1>2, OnceKept

LEMMA OnceStarted ==
    ASSUME RespondInv, OnceInv, NEW p \in Procs, NEW m \in Orders, NEW t \in Types,
           StartResponse(p, m, t)
    PROVE  OnceInv'
<1>1. /\ UNCHANGED <<sent, work, crashes>>
      /\ \A n \in Orders, u \in Types :
           /\ started'[n][u] = IF n = m /\ u = t THEN started[n][u] + 1 ELSE started[n][u]
           /\ n # m \/ u # t => drafts'[n][u] = drafts[n][u]
      /\ \A n \in Orders, u \in Types : started[n][u] \in Nat
      /\ crashes \in Nat
  BY DEF StartResponse, RespondInv, TypeOK, queue
<1>2. \A n \in Orders, u \in Types : n # m \/ u # t => (MaySend(n, u)' => MaySend(n, u))
  BY <1>1 DEF MaySend, Is, At
<1>3. \A n \in Orders, u \in Types :
        Allowance(n, u)' = IF n = m /\ u = t THEN Allowance(n, u) + 1 ELSE Allowance(n, u)
  <2> SUFFICES ASSUME NEW n \in Orders, NEW u \in Types
               PROVE  started'[n][u] + crashes = IF n = m /\ u = t
                        THEN started[n][u] + crashes + 1 ELSE started[n][u] + crashes
    BY <1>1 DEF Allowance
  <2>1. CASE n = m /\ u = t
    <3>1. started'[n][u] = started[n][u] + 1
      BY <1>1, <2>1
    <3>2. started[n][u] \in Nat /\ crashes \in Nat
      BY <1>1
    <3> QED
      BY <2>1, <3>1, <3>2
  <2>2. CASE ~(n = m /\ u = t)
    BY <1>1, <2>2
  <2> QED
    BY <2>1, <2>2
<1> QED
  BY <1>1, <1>2, <1>3, OnceKept

LEMMA OnceProposed ==
    ASSUME Solo, RespondInv, OnceInv, NEW p \in Procs,
           \/ \E m \in Orders, t \in Types : FinishResponse(p, m, t)
           \/ \E m \in Orders : SendRejection(p, m)
    PROVE  OnceInv'
<1>1. UNCHANGED <<drafts, sent, started, crashes>> /\ Idle(p)
  BY DEF FinishResponse, SendRejection, queue, counts
<1> DEFINE Sends(w) ==
             /\ w.step = "send"
             /\ \A m \in Orders, t \in Types :
                  w.answer.draft = Slot(m, t) => drafts[m][t] # NoDraft
<1>2. PICK w : Sends(w) /\ work' = [work EXCEPT ![p] = w]
  <2>1. ASSUME NEW m \in Orders, NEW t \in Types, FinishResponse(p, m, t)
        PROVE  \E w : Sends(w) /\ work' = [work EXCEPT ![p] = w]
    <3> DEFINE d == drafts[m][t]
               w == [step |-> "send", letter |-> [d EXCEPT !.content = Finished(d)],
                     answer |-> NewAnswer(d.about, d.type, Slot(m, t))]
    <3>1. work' = [work EXCEPT ![p] = w]
      BY <2>1 DEF FinishResponse
    <3>2. w.step = "send" /\ w.answer.draft = Slot(m, t) /\ drafts[m][t] # NoDraft
      BY <2>1 DEF NewAnswer, FinishResponse
    <3> HIDE DEF w
    <3>3. \A n, u : Slot(m, t) = Slot(n, u) => m = n /\ t = u
      BY SlotsDiffer
    <3>4. Sends(w)
      BY <3>2, <3>3
    <3> HIDE DEF Sends
    <3> QED
      BY <3>1, <3>4
  <2>2. ASSUME NEW m \in Orders, SendRejection(p, m)
        PROVE  \E w : Sends(w) /\ work' = [work EXCEPT ![p] = w]
    <3> DEFINE w == [step |-> "send", letter |-> NoDraft,
                     answer |-> NewAnswer(m, "rejection_notice", NoSlot)]
    <3>1. work' = [work EXCEPT ![p] = w]
      BY <2>2 DEF SendRejection
    <3>2. w.step = "send" /\ w.answer.draft = NoSlot
      BY DEF NewAnswer
    <3> HIDE DEF w
    <3>3. Sends(w)
      BY <3>2, SlotsDiffer
    <3> HIDE DEF Sends
    <3> QED
      BY <3>1, <3>3
  <2> QED
    BY <2>1, <2>2
<1>3. \A q \in Procs : q = p /\ work'[q] = w
  BY <1>2 DEF Solo, RespondInv, TypeOK
<1>4. \A m \in Orders, t \in Types : MaySend(m, t)' => MaySend(m, t)
  <2> SUFFICES ASSUME NEW m \in Orders, NEW t \in Types, MaySend(m, t)'
               PROVE  MaySend(m, t)
    OBVIOUS
  <2>1. ~Is("remove", m, t)
    BY <1>1, SoloIdle DEF Is, At
  <2>2. drafts[m][t] # NoDraft
    BY <1>1, <1>2, <1>3 DEF MaySend, Is, At
  <2> QED
    BY <2>1, <2>2 DEF MaySend
<1>5. \A m \in Orders, t \in Types : Allowance(m, t)' = Allowance(m, t)
  BY <1>1 DEF Allowance
<1> QED
  BY <1>1, <1>4, <1>5, OnceKept

(* The answer is counted, and its draft waits to be removed. *)
LEMMA OnceSigned ==
    ASSUME Solo, RespondInv, OnceInv, NEW p \in Procs, SignAndSend(p)
    PROVE  OnceInv'
<1> DEFINE a == work[p].answer
<1>1. work[p].step = "send"
  BY DEF SignAndSend, At
<1>2. /\ sent' \subseteq sent \cup {a} /\ IsFiniteSet(sent)
      /\ UNCHANGED <<drafts, started, crashes>>
  BY DEF SignAndSend, RespondInv, counts
<1>3. PICK w \in Answering :
        /\ work' = [work EXCEPT ![p] = w] /\ w.answer = a
        /\ w.step = IF a.draft # NoSlot THEN "remove" ELSE "mark"
  BY Signed DEF RespondInv
<1>4. \A q \in Procs : q = p /\ work'[q] = w
  BY <1>3 DEF Solo, RespondInv, TypeOK
<1> HIDE DEF a
<1> SUFFICES ASSUME NEW m \in Orders, NEW t \in Types
             PROVE  /\ Spent(m, t)' <= Allowance(m, t)'
                    /\ MaySend(m, t)' => Spent(m, t)' < Allowance(m, t)'
  BY DEF OnceInv
<1>5. /\ Spent(m, t) \in Nat /\ Allowance(m, t) \in Nat
      /\ Allowance(m, t)' = Allowance(m, t)
  BY <1>2, Counted DEF Allowance
<1>6. ~Is("send", m, t)' /\ ~Is("remove", m, t)
  BY <1>1, <1>3, <1>4 DEF Is, At
<1>7. IsFiniteSet(AnswersFrom(m, t))
  BY <1>2, FS_Subset DEF AnswersFrom
<1>8. CASE a.draft = Slot(m, t)
  <2>1. Is("send", m, t)
    BY <1>1, <1>8 DEF Is, At, a
  <2>2. AnswersFrom(m, t)' \subseteq AnswersFrom(m, t) \cup {a}
    BY <1>2 DEF AnswersFrom
  <2>3. Spent(m, t)' <= Spent(m, t) + 1 /\ Spent(m, t)' \in Nat
    <3> DEFINE S == AnswersFrom(m, t)
               T == AnswersFrom(m, t)'
    <3>1. IsFiniteSet(S) /\ T \subseteq S \cup {a}
      BY <1>7, <2>2
    <3> HIDE DEF S, T
    <3>2. IsFiniteSet(S \cup {a})
      BY <3>1, FS_AddElement
    <3>3. \/ Cardinality(S \cup {a}) = Cardinality(S)
          \/ Cardinality(S \cup {a}) = Cardinality(S) + 1
      BY <3>1, FS_AddElement
    <3>4. IsFiniteSet(T) /\ Cardinality(T) <= Cardinality(S \cup {a})
      BY <3>1, <3>2, FS_Subset
    <3>5. Cardinality(S) \in Nat /\ Cardinality(T) \in Nat
      BY <3>1, <3>4, FS_CardinalityType
    <3>6. Cardinality(T) <= Cardinality(S) + 1
      BY <3>3, <3>4, <3>5
    <3> QED
      BY <3>5, <3>6 DEF S, T, Spent
  <2>4. Spent(m, t) < Allowance(m, t)
    BY <2>1 DEF OnceInv, MaySend
  <2>5. w.step = "remove"
    BY <1>3, <1>8, SlotsDiffer
  <2>6. Is("remove", m, t)'
    BY <1>3, <1>4, <1>8, <2>5 DEF Is, At
  <2> QED
    BY <1>5, <1>6, <2>3, <2>4, <2>6 DEF MaySend
<1>9. CASE a.draft # Slot(m, t)
  <2>1. AnswersFrom(m, t)' \subseteq AnswersFrom(m, t)
    BY <1>2, <1>9 DEF AnswersFrom
  <2>2. /\ Cardinality(AnswersFrom(m, t)') <= Cardinality(AnswersFrom(m, t))
        /\ IsFiniteSet(AnswersFrom(m, t)')
    BY <1>7, <2>1, FS_Subset
  <2>3. Spent(m, t)' <= Spent(m, t) /\ Spent(m, t)' \in Nat
    BY <2>2, FS_CardinalityType DEF Spent
  <2>4. MaySend(m, t)' => MaySend(m, t)
    BY <1>2, <1>6 DEF MaySend
  <2> QED
    BY <1>5, <2>3, <2>4 DEF OnceInv
<1> QED
  BY <1>8, <1>9

LEMMA OnceRemoved ==
    ASSUME Solo, RespondInv, OnceInv, NEW p \in Procs, RemoveDraft(p)
    PROVE  OnceInv'
<1> DEFINE m == work[p].answer.draft.about
           t == work[p].answer.draft.type
<1>1. work[p].step = "remove"
  BY DEF RemoveDraft, At
<1>2. PICK w \in Answering : w.step = "mark" /\ work' = [work EXCEPT ![p] = w]
  BY Removed DEF RespondInv
<1>3. work'[p].step = "mark" /\ \A q \in Procs : q = p
  BY <1>2 DEF Solo, RespondInv, TypeOK
<1>4. UNCHANGED <<sent, started, crashes>>
  BY DEF RemoveDraft, queue, counts
<1>5. \A n \in Orders, u \in Types : work[p].answer.draft = Slot(n, u) => m = n /\ t = u
  BY DEF Slot
<1>6. drafts' = [drafts EXCEPT ![m][t] = NoDraft]
  BY DEF RemoveDraft
<1> HIDE DEF m, t
<1>7. \A n \in Orders, u \in Types :
        drafts'[n][u] # NoDraft => drafts'[n][u] = drafts[n][u] /\ ~(m = n /\ t = u)
  BY <1>6 DEF RespondInv, TypeOK
<1>8. \A n \in Orders, u \in Types : drafts'[n][u] # NoDraft => ~Is("remove", n, u)
  BY <1>3, <1>5, <1>7 DEF Is
<1>9. \A n \in Orders, u \in Types : MaySend(n, u)' => MaySend(n, u)
  BY <1>3, <1>7, <1>8, SoloNone DEF MaySend
<1>10. \A n \in Orders, u \in Types : Allowance(n, u)' = Allowance(n, u)
  BY <1>4 DEF Allowance
<1> QED
  BY <1>4, <1>9, <1>10, OnceKept

LEMMA OnceStep == Solo /\ RespondInv /\ OnceInv /\ [Next]_vars => OnceInv'
<1> SUFFICES ASSUME Solo, RespondInv, OnceInv, [Next]_vars PROVE OnceInv'
  OBVIOUS
<1>1. ASSUME NEW p \in Procs, NEW m \in Orders, NEW t \in Types,
             NEW f \in Fields, NEW v \in Tries[f] \cup {Absent}, FillDraft(p, m, t, f, v)
      PROVE  OnceInv'
  <2>1. UNCHANGED <<sent, work, started, crashes>>
    BY <1>1 DEF FillDraft, queue, counts
  <2>2. \A n \in Orders, u \in Types : drafts[n][u] = NoDraft => drafts'[n][u] = NoDraft
    BY <1>1, DraftEdited
  <2> QED
    BY <2>1, <2>2, OnceEdited
<1>2. ASSUME NEW p \in Procs, Begin(p) PROVE OnceInv'
  BY <1>1, <1>2, OnceQuiet, OnceProposed, OnceStarted DEF Begin
<1>3. ASSUME NEW p \in Procs, GoOn(p) PROVE OnceInv'
  BY <1>3, OnceQuiet, OnceSigned, OnceRemoved DEF GoOn
<1>4. ASSUME NEW p \in Procs, Die(p) PROVE OnceInv'
  <2>1. UNCHANGED <<sent, started>> /\ crashes' = crashes + 1
    BY <1>4 DEF Die, Crash, DiesSending, DiesSaving, Dies, queue, counts
  <2>2. crashes \in Nat /\ \A m \in Orders, t \in Types : started[m][t] \in Nat
    BY DEF RespondInv, TypeOK
  <2>3. \A i, j \in Nat : i + (j + 1) = (i + j) + 1
    OBVIOUS
  <2>4. \A m \in Orders, t \in Types :
          started[m][t] + (crashes + 1) = (started[m][t] + crashes) + 1
    BY <2>2, <2>3
  <2>5. \A m \in Orders, t \in Types : Allowance(m, t)' = Allowance(m, t) + 1
    BY <2>1, <2>4 DEF Allowance
  <2> QED
    BY <2>1, <2>5, OnceKept
<1>5. ASSUME NEW m \in Orders, NEW t \in Types, EditDraft(m, t) PROVE OnceInv'
  <2>1. UNCHANGED <<sent, work, started, crashes>>
    BY <1>5 DEF EditDraft, queue
  <2>2. \A n \in Orders, u \in Types : drafts[n][u] = NoDraft => drafts'[n][u] = NoDraft
    BY <1>5, DraftEdited
  <2> QED
    BY <2>1, <2>2, OnceEdited
<1>6. ASSUME UNCHANGED <<sent, work, drafts, started, crashes>> PROVE OnceInv'
  BY <1>6, OnceEdited
<1>7. ASSUME NEW p \in Procs, NEW s \in sent, SaveRecord(p, s) PROVE OnceInv'
  BY <1>6, <1>7 DEF SaveRecord, counts
<1>8. CASE UNCHANGED vars
  BY <1>6, <1>8 DEF vars, queue, counts
<1> QED
  BY <1>2, <1>3, <1>4, <1>5, <1>7, <1>8 DEF Next

(* With one process at work, a draft is sent once: one answer for each     *)
(* draft built, and one more for each time the process died before the     *)
(* sent draft was removed (FinishResponse sends first).                    *)
THEOREM SoloSendsADraftOnce == ASSUME Solo PROVE Spec => []OneAnswerPerDraft
<1>1. Init => OnceInv
  <2> SUFFICES ASSUME Init, NEW m \in Orders, NEW t \in Types
               PROVE  Spent(m, t) <= Allowance(m, t) /\ ~MaySend(m, t)
    BY DEF OnceInv
  <2>1. AnswersFrom(m, t) = {} /\ Allowance(m, t) = 0
    BY DEF Init, AnswersFrom, Allowance
  <2>2. ~MaySend(m, t)
    BY DEF Init, MaySend, Is, At, NoWork
  <2> QED
    BY <2>1, <2>2, FS_EmptySet DEF Spent
<1>2. RespondInv /\ OnceInv /\ [Next]_vars => OnceInv'
  BY OnceStep
<1>3. OnceInv => OneAnswerPerDraft
  BY DEF OnceInv, OneAnswerPerDraft, Spent, Allowance, AnswersFrom
<1> QED
  BY <1>1, <1>2, <1>3, RespondInvariant, PTL DEF Spec

-----------------------------------------------------------------------------
(* A correctly filled draft.                                               *)

(* It is ready to send exactly when what it copies prints, read back from  *)
(* the draft, as it prints in the message (checkEchoes compares with %v):  *)
(* nothing else that Finish proves stands in its way.                      *)
LEMMA CorrectIsReadyWhenAlike ==
    ASSUME NEW m \in Orders, NEW t \in Types, t \in Allows[m],
           NEW d \in Draft, CorrectlyFilled(d, m, t)
    PROVE  ReadyToSend(d) <=>
             \A f \in Dictated(m, t) : Reread[Original[m][f]] = Shown[Original[m][f]]
<1>1. /\ d.type = t /\ d.about = m /\ d.holes = HolesOf(t) /\ HolesOf(t) \subseteq Hole
      /\ \A f \in Dictated(m, t) : d.content[f] = Original[m][f]
      /\ KeepsTheRules(d, Finished(d))
  BY DEF CorrectlyFilled, AsBuilt, Draft
<1>2. \A f \in Dictated(m, t) : Finished(d)[f] = Original[m][f]
  <2> SUFFICES ASSUME NEW f \in Dictated(m, t)
               PROVE  Finished(d)[f] = Original[m][f]
    OBVIOUS
  <2>1. f \in Fields /\ d.content[f] = Original[m][f] /\ Original[m][f] # Fill
    BY <1>1 DEF Dictated
  <2> QED
    BY <2>1 DEF Finished
<1>3. CopiesWhatItMust(d, Finished(d)) <=>
        \A f \in Dictated(m, t) : Reread[Original[m][f]] = Shown[Original[m][f]]
  BY <1>1, <1>2 DEF CopiesWhatItMust, EchoesKept
<1>4. HolesFilled(d)
  <2> SUFFICES ASSUME NEW h \in HolesOf(t), ~(Unset(d.content, h) /\ Excused(d.content, h))
               PROVE  ~Unset(d.content, h) /\ Allowed(d.content, h)
    BY <1>1 DEF HolesFilled
  <2>1. /\ h.allowed \subseteq Values
        /\ d.content[h.path] \in IF h.allowed = {} THEN Values ELSE h.allowed
    BY <1>1 DEF CorrectlyFilled, Hole
  <2>2. d.content[h.path] \in Values
    BY <2>1
  <2> QED
    BY <2>1, <2>2 DEF Unset, Allowed
<1> QED
  BY <1>1, <1>3, <1>4 DEF ReadyToSend

(* Every value an answer copies prints alike in both places.               *)
CopiesPrintAlike ==
    \A m \in Orders : \A t \in Allows[m] : \A f \in Echoed[t] :
        Original[m][f] # Absent => Reread[Original[m][f]] = Shown[Original[m][f]]

(* "A correctly filled draft finishes" (respond_test.go) wherever the      *)
(* values that answers copy print alike as they were sent and as they are  *)
(* read back from the draft: all strings do.  A number of a million or     *)
(* more does not, and its draft never finishes (run respond_number).       *)
THEOREM CorrectDraftsFinish ==
    ASSUME CopiesPrintAlike
    PROVE  Spec => []CorrectDraftFinishes
<1>1. RespondInv => CorrectDraftFinishes
  <2> SUFFICES ASSUME RespondInv, NEW m \in Orders, NEW t \in Types,
                      drafts[m][t] # NoDraft, CorrectlyFilled(drafts[m][t], m, t)
               PROVE  ReadyToSend(drafts[m][t])
    BY DEF CorrectDraftFinishes
  <2>1. drafts[m][t] \in Draft /\ t \in Allows[m]
    BY DEF RespondInv, TypeOK
  <2>2. \A f \in Dictated(m, t) : Reread[Original[m][f]] = Shown[Original[m][f]]
    BY <2>1 DEF CopiesPrintAlike, Dictated
  <2> QED
    BY <2>1, <2>2, CorrectIsReadyWhenAlike
<1> QED
  BY <1>1, RespondInvariant, PTL
=============================================================================
