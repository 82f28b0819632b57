------------------------------- MODULE Respond -------------------------------
(***************************************************************************)
(* Answering a message (internal/respond and the outbound half of          *)
(* engine.go): a draft is built the way the original dictates, its holes   *)
(* are filled in the console or in a text editor, and finishing it proves  *)
(* that the choreography was honoured before it is signed and sent, the    *)
(* draft removed and the original marked as answered.  A red message may   *)
(* be rejected instead.                                                    *)
(*                                                                         *)
(* A draft is a file that anybody may edit, and Finish goes by what it     *)
(* says: of which type the answer is, to which message and for whom, and   *)
(* which holes are to be filled with what.                                 *)
(*                                                                         *)
(* A process runs one operation at a time, one step for each file it       *)
(* writes, and may die between two steps or while it writes one.  The      *)
(* content of an answer is a function from fields (the paths of            *)
(* respond.go) to values.                                                  *)
(***************************************************************************)
EXTENDS Naturals, FiniteSets

CONSTANTS Orders,       \* inbound messages to answer
          Sender,       \* who sent each of them
          Partners,     \* company ids an answer may be for
          Types,        \* response types
          Allows,       \* how_to_respond: the response types of each message
          Fields,       \* paths an answer may have
          Lines,        \* those inside the items of a list
          Loose,        \* in lines no item of a message from there on has
          Echoed,       \* must_copy: the fields an answer of each type copies
          Holes,        \* you_fill_in: the fields its author decides
          Original,     \* what each message dictates for the copied fields
          Codes,        \* allowed values of a hole; {} when it is free
          OnlyWhen,     \* "required when <field> is '<value>'", or Always
          Always,       \* a hole without condition
          WithRulebook, \* messages that include their rulebook
          Forbidden,    \* contents its rules refuse, for each type
          Values,       \* what may stand in a field
          Texts,        \* those that are strings
          Prints,       \* what %v prints, and for each value:
          Shown,        \* as it prints in a message (Normalize: int64)
          Reread,       \* as it prints read back from a draft (float64)
          Fill,         \* the <<FILL>> marker
          Absent,       \* no such field
          Procs,        \* processes working on this home directory
          Tries,        \* bound: values written into each field
          HoleLists,    \* bound: lists of holes an editor leaves
          MaxEdits,     \* bound: edits of drafts in one behaviour
          MaxStarts,    \* bound: drafts built for one message and type
          MaxSent,      \* bound: numbers of answers
          MaxCrashes    \* bound: processes that die in one behaviour

Contents == [Fields -> Values \cup {Fill, Absent}]

(* A note that is no condition, or is one; none is about an empty field.   *)
Conditions == [field : Fields, value : Prints \ {Reread[Fill], Reread[Absent]}] \cup {Always}

(* respond.Hole and respond.Draft. *)
Hole == [path : Fields, allowed : SUBSET Values, when : Conditions]
Draft == [type : Types, about : Orders, to : Partners, content : Contents,
          locked : SUBSET Fields, holes : SUBSET Hole]
NoDraft == [none |-> TRUE]

ASSUME ChoreographyAssumption ==
    /\ Sender \in [Orders -> Partners]
    /\ Allows \in [Orders -> SUBSET Types]
    /\ Echoed \in [Types -> SUBSET Fields] /\ Holes \in [Types -> SUBSET Fields]
    /\ \A t \in Types : Echoed[t] \cap Holes[t] = {}
    /\ Original \in [Orders -> [Fields -> Values \cup {Absent}]]
    /\ Lines \subseteq Fields /\ Loose \in [Orders -> SUBSET Lines]
    /\ \A m \in Orders : \A f \in Loose[m] : Original[m][f] = Absent
    /\ Codes \in [Fields -> SUBSET Values]
    /\ OnlyWhen \in [Fields -> Conditions]
    /\ WithRulebook \subseteq Orders /\ Forbidden \in [Types -> SUBSET Contents]
ASSUME MarkerAssumption == Fill \notin Values /\ Absent \notin Values /\ Fill # Absent
ASSUME PrintAssumption ==
    /\ Texts \subseteq Values
    /\ Shown \in [Values \cup {Absent} -> Prints]
    /\ Reread \in [Values \cup {Fill, Absent} -> Prints]
    /\ \A v \in Texts \cup {Absent} : Reread[v] = Shown[v]
ASSUME BoundAssumption == /\ Tries \in [Fields -> SUBSET Values]
                          /\ HoleLists \subseteq SUBSET Hole
                          /\ MaxEdits \in Nat /\ MaxStarts \in Nat
                          /\ MaxSent \in Nat /\ MaxCrashes \in Nat

VARIABLES archive,      \* inbound messages in archive/
          inbox,        \* the inbox record of each message
          drafts,       \* outbox/drafts: the draft of each message and type
          sent,         \* outbox/queue: the answers filed there
          torn,         \* .tmp files in outbox/queue, left by who died writing
          work,         \* what each process is doing
          started,      \* how many drafts were built for each message and type
          edits,        \* how many edits there were
          crashes,      \* how many processes died
          overwritten   \* history: messages an answer of which was replaced

queue == <<sent, torn, overwritten>>
counts == <<started, edits>>
vars == <<archive, inbox, drafts, queue, work, counts, crashes>>

-----------------------------------------------------------------------------
Record == [status : {"green", "red"}, responded : BOOLEAN]
NoRecord == [status |-> "none", responded |-> FALSE]
NewRecord(status) == [status |-> status, responded |-> FALSE]

(* An answer in the queue, with the draft it was made from; a rejection    *)
(* was made from none.  What it says is in the archive.                    *)
Slot(m, t) == [about |-> m, type |-> t]
NoSlot == [none |-> TRUE]
Slots == [about : Orders, type : Types]

Kinds == Types \cup {"rejection_notice"}
Answer == [about : Orders, kind : Kinds, number : 1..MaxSent, draft : Slots \cup {NoSlot}]

(* nextNumber: the prefix of a type. *)
Prefix(kind) == CASE kind = "order_response" -> "ORSP"
                  [] kind = "despatch_advice" -> "DESP"
                  [] kind = "rejection_notice" -> "REJ"
                  [] OTHER -> "MSG"
File(a) == [prefix |-> Prefix(a.kind), number |-> a.number]
Files == [prefix : {"ORSP", "DESP", "REJ", "MSG"}, number : 1..MaxSent]

NoWork == [step |-> "none"]
Delivering == [step : {"deliver"}, about : Orders]
Sending == [step : {"send"}, answer : Answer, letter : Draft \cup {NoDraft}]
Answering == [step : {"remove", "mark"}, answer : Answer]
Marking == [step : {"save"}, answer : Answer, rec : Record]
Work == Delivering \cup Sending \cup Answering \cup Marking \cup {NoWork}

TypeOK == /\ archive \subseteq Orders
          /\ inbox \in [Orders -> Record \cup {NoRecord}]
          /\ drafts \in [Orders -> [Types -> Draft \cup {NoDraft}]]
          /\ \A m \in Orders, t \in Types : drafts[m][t] # NoDraft => t \in Allows[m]
          /\ sent \subseteq Answer
          /\ torn \subseteq Files
          /\ work \in [Procs -> Work]
          /\ started \in [Orders -> [Types -> 0..MaxStarts]]
          /\ edits \in 0..MaxEdits
          /\ crashes \in 0..MaxCrashes
          /\ overwritten \subseteq Orders

Init == /\ archive = {}
        /\ inbox = [m \in Orders |-> NoRecord]
        /\ drafts = [m \in Orders |-> [t \in Types |-> NoDraft]]
        /\ sent = {} /\ torn = {} /\ overwritten = {}
        /\ work = [p \in Procs |-> NoWork]
        /\ started = [m \in Orders |-> [t \in Types |-> 0]]
        /\ edits = 0 /\ crashes = 0

Idle(p) == work[p] = NoWork
At(p, step) == work[p].step = step

-----------------------------------------------------------------------------
(* Two plausible bugs, for checking the properties below. *)

(* The marker of a hole that may stay empty is left where it is. *)
KeepsMarkers(d) == d.content

(* Any response type will do. *)
BuildsAnything(m, t) == \A f \in Echoed[t] \ Lines : Original[m][f] # Absent

-----------------------------------------------------------------------------
(* Build, and Finish with its three proofs. *)

(* A field to copy that the original does not have fails the whole draft,  *)
(* but one of a list's items is passed over. *)
CanBuild(m, t) == t \in Allows[m] /\ \A f \in Echoed[t] \ Lines : Original[m][f] # Absent

Dictated(m, t) == Echoed[t] \ Loose[m]
HolesOf(t) == {[path |-> f, allowed |-> Codes[f], when |-> OnlyWhen[f]] : f \in Holes[t]}

Build(m, t) ==
    [type |-> t, about |-> m, to |-> Sender[m],
     content |-> [f \in Fields |-> IF f \in Echoed[t] THEN Original[m][f]
                                   ELSE IF f \in Holes[t] THEN Fill ELSE Absent],
     locked |-> Dictated(m, t), holes |-> HolesOf(t)]

Unset(c, h) == c[h.path] \in {Fill, Absent}
Excused(c, h) == h.when # Always /\ Reread[c[h.when.field]] # h.when.value

(* Only strings are held against the allowed codes. *)
Allowed(c, h) == h.allowed = {} \/ c[h.path] \notin Texts \/ c[h.path] \in h.allowed

HolesFilled(d) == \A h \in d.holes :
    \/ Unset(d.content, h) /\ Excused(d.content, h)
    \/ ~Unset(d.content, h) /\ Allowed(d.content, h)

(* A hole that may stay empty leaves the content. *)
Finished(d) == [f \in Fields |->
    IF d.content[f] = Fill /\ \E h \in d.holes : h.path = f /\ Excused(d.content, h)
    THEN Absent ELSE d.content[f]]

EchoesKept(c, m, t) == \A f \in Dictated(m, t) : Reread[c[f]] = Shown[Original[m][f]]

(* Of a type that the original does not allow, nothing has to be copied:   *)
(* the error of responseSpec is passed over. *)
CopiesWhatItMust(d, c) == d.type \in Allows[d.about] => EchoesKept(c, d.about, d.type)
KeepsTheRules(d, c) == d.about \in WithRulebook => c \notin Forbidden[d.type]

ReadyToSend(d) == /\ HolesFilled(d)
                  /\ CopiesWhatItMust(d, Finished(d))
                  /\ KeepsTheRules(d, Finished(d))

(* nextNumber counts the files in the queue, leftovers included. *)
NextNumber == Cardinality(sent) + Cardinality(torn) + 1

NewAnswer(m, k, slot) == [about |-> m, kind |-> k, number |-> NextNumber, draft |-> slot]

-----------------------------------------------------------------------------
(* More plausible bugs. *)

(* The draft is kept for the records. *)
KeepDraft(p) ==
    /\ At(p, "remove")
    /\ work' = [work EXCEPT ![p].step = "mark"]
    /\ UNCHANGED <<archive, inbox, drafts, queue, counts, crashes>>

(* Only a green message is marked as answered. *)
MarkGreenOnly(p) ==
    LET m == work[p].answer.about IN
    /\ At(p, "mark")
    /\ work' = [work EXCEPT ![p] =
                  IF inbox[m].status = "green"
                  THEN [step |-> "save", answer |-> work[p].answer, rec |-> inbox[m]]
                  ELSE NoWork]
    /\ UNCHANGED <<archive, inbox, drafts, queue, counts, crashes>>

(* The message is marked first and then rejected. *)
MarkThenReject(p, m) ==
    /\ Idle(p)
    /\ inbox[m].status = "red"
    /\ NextNumber <= MaxSent
    /\ inbox' = [inbox EXCEPT ![m].responded = TRUE]
    /\ work' = [work EXCEPT ![p] = [step |-> "send", letter |-> NoDraft,
                                    answer |-> NewAnswer(m, "rejection_notice", NoSlot)]]
    /\ UNCHANGED <<archive, drafts, queue, counts, crashes>>

-----------------------------------------------------------------------------
(* The inbox: a message is archived, and what the pipeline makes of it is  *)
(* delivered as a record, or not (held, quarantined, refused).             *)

Receive(p, m) ==
    /\ Idle(p)
    /\ m \notin archive
    /\ archive' = archive \cup {m}
    /\ work' = [work EXCEPT ![p] = [step |-> "deliver", about |-> m]]
    /\ UNCHANGED <<inbox, drafts, queue, counts, crashes>>

Reprocess(p, m) ==
    /\ Idle(p)
    /\ m \in archive
    /\ inbox' = [inbox EXCEPT ![m] = NoRecord]
    /\ work' = [work EXCEPT ![p] = [step |-> "deliver", about |-> m]]
    /\ UNCHANGED <<archive, drafts, queue, counts, crashes>>

Deliver(p) ==
    /\ At(p, "deliver")
    /\ \/ UNCHANGED inbox
       \/ \E status \in {"green", "red"} :
            inbox' = [inbox EXCEPT ![work[p].about] = NewRecord(status)]
    /\ work' = [work EXCEPT ![p] = NoWork]
    /\ UNCHANGED <<archive, drafts, queue, counts, crashes>>

-----------------------------------------------------------------------------
(* Drafts. *)

(* A draft already there, with what was filled in, is overwritten. *)
StartResponse(p, m, t) ==
    /\ Idle(p)
    /\ m \in archive
    /\ CanBuild(m, t)
    /\ started[m][t] < MaxStarts
    /\ drafts' = [drafts EXCEPT ![m][t] = Build(m, t)]
    /\ started' = [started EXCEPT ![m][t] = @ + 1]
    /\ UNCHANGED <<archive, inbox, queue, work, edits, crashes>>

(* ApplyFills passes over locked fields and takes an empty value for no    *)
(* field. *)
FillDraft(p, m, t, f, v) ==
    /\ Idle(p)
    /\ drafts[m][t] # NoDraft
    /\ f \notin drafts[m][t].locked
    /\ drafts' = [drafts EXCEPT ![m][t].content[f] = v]
    /\ UNCHANGED <<archive, inbox, queue, work, counts, crashes>>

(* "Open it, fill the holes": a text editor locks nothing, and one part of *)
(* the file after another may be changed. *)
EditDraft(m, t) ==
    /\ drafts[m][t] # NoDraft
    /\ edits < MaxEdits
    /\ \/ \E f \in Fields : \E v \in Tries[f] \cup {Fill, Absent} :
             drafts' = [drafts EXCEPT ![m][t].content[f] = v]
       \/ \E u \in Types : drafts' = [drafts EXCEPT ![m][t].type = u]
       \/ \E n \in Orders : drafts' = [drafts EXCEPT ![m][t].about = n]
       \/ \E q \in Partners : drafts' = [drafts EXCEPT ![m][t].to = q]
       \/ \E fs \in SUBSET Fields : drafts' = [drafts EXCEPT ![m][t].locked = fs]
       \/ \E hs \in HoleLists : drafts' = [drafts EXCEPT ![m][t].holes = hs]
    /\ edits' = edits + 1
    /\ UNCHANGED <<archive, inbox, queue, work, started, crashes>>

-----------------------------------------------------------------------------
(* Answering. *)

(* The type of the answer and the message it is about are the draft's. *)
FinishResponse(p, m, t) ==
    LET d == drafts[m][t] IN
    /\ Idle(p)
    /\ d # NoDraft
    /\ d.about \in archive
    /\ ReadyToSend(d)
    /\ NextNumber <= MaxSent
    /\ work' = [work EXCEPT ![p] = [step |-> "send",
                                    letter |-> [d EXCEPT !.content = Finished(d)],
                                    answer |-> NewAnswer(d.about, d.type, Slot(m, t))]]
    /\ UNCHANGED <<archive, inbox, drafts, queue, counts, crashes>>

SendRejection(p, m) ==
    /\ Idle(p)
    /\ inbox[m].status = "red"
    /\ NextNumber <= MaxSent
    /\ work' = [work EXCEPT ![p] = [step |-> "send", letter |-> NoDraft,
                                    answer |-> NewAnswer(m, "rejection_notice", NoSlot)]]
    /\ UNCHANGED <<archive, inbox, drafts, queue, counts, crashes>>

(* Archived and queued under its number, over what has it already; what    *)
(* becomes of it in the queue is Delivery's.  The leftover of a file goes  *)
(* when the file is written again. *)
Replaced(a) == {s \in sent : File(s) = File(a)}
Replaces(a) == overwritten' = overwritten \cup {s.about : s \in Replaced(a)}

SignAndSend(p) ==
    LET a == work[p].answer IN
    /\ At(p, "send")
    /\ sent' = (sent \ Replaced(a)) \cup {a}
    /\ torn' = torn \ {File(a)}
    /\ Replaces(a)
    /\ work' = [work EXCEPT ![p] = [step |-> IF a.draft # NoSlot THEN "remove" ELSE "mark",
                                    answer |-> a]]
    /\ UNCHANGED <<archive, inbox, drafts, counts, crashes>>

RemoveDraft(p) ==
    LET slot == work[p].answer.draft IN
    /\ At(p, "remove")
    /\ drafts' = [drafts EXCEPT ![slot.about][slot.type] = NoDraft]
    /\ work' = [work EXCEPT ![p].step = "mark"]
    /\ UNCHANGED <<archive, inbox, queue, counts, crashes>>

(* markResponded: a message without inbox record is passed over. *)
MarkResponded(p) ==
    LET m == work[p].answer.about IN
    /\ At(p, "mark")
    /\ work' = [work EXCEPT ![p] =
                  IF inbox[m] # NoRecord
                  THEN [step |-> "save", answer |-> work[p].answer, rec |-> inbox[m]]
                  ELSE NoWork]
    /\ UNCHANGED <<archive, inbox, drafts, queue, counts, crashes>>

SaveMark(p) ==
    /\ At(p, "save")
    /\ inbox' = [inbox EXCEPT ![work[p].answer.about] =
                   [work[p].rec EXCEPT !.responded = TRUE]]
    /\ work' = [work EXCEPT ![p] = NoWork]
    /\ UNCHANGED <<archive, drafts, queue, counts, crashes>>

-----------------------------------------------------------------------------
(* Delivery saves the record of an answer again: an attempt, a resend, a   *)
(* receipt. *)
SaveRecord(p, s) ==
    /\ Idle(p) /\ s \in sent
    /\ torn' = torn \ {File(s)}
    /\ UNCHANGED <<archive, inbox, drafts, sent, overwritten, work, counts, crashes>>

(* Processes that die: between two files, between the archive and the      *)
(* queue or while writing the record there, or while saving it later.      *)
Dies(p) == /\ crashes < MaxCrashes
           /\ crashes' = crashes + 1
           /\ work' = [work EXCEPT ![p] = NoWork]

Crash(p) ==
    /\ ~Idle(p)
    /\ Dies(p)
    /\ UNCHANGED <<archive, inbox, drafts, queue, counts>>

DiesSending(p) ==
    LET a == work[p].answer IN
    /\ At(p, "send")
    /\ Dies(p)
    /\ torn' \in {torn, torn \cup {File(a)}}
    /\ Replaces(a)
    /\ UNCHANGED <<archive, inbox, drafts, sent, counts>>

DiesSaving(p, s) ==
    /\ s \in sent
    /\ Idle(p) \/ (work[p].step \in {"remove", "mark"} /\ s = work[p].answer)
    /\ Dies(p)
    /\ torn' = torn \cup {File(s)}
    /\ UNCHANGED <<archive, inbox, drafts, sent, overwritten, counts>>

-----------------------------------------------------------------------------
Begin(p) == \E m \in Orders :
    \/ Receive(p, m) \/ Reprocess(p, m) \/ SendRejection(p, m)
    \/ \E t \in Types : StartResponse(p, m, t) \/ FinishResponse(p, m, t)
    \/ \E t \in Types, f \in Fields : \E v \in Tries[f] \cup {Absent} : FillDraft(p, m, t, f, v)

GoOn(p) == Deliver(p) \/ SignAndSend(p) \/ RemoveDraft(p) \/ MarkResponded(p) \/ SaveMark(p)

Die(p) == Crash(p) \/ DiesSending(p) \/ \E s \in sent : DiesSaving(p, s)

Next == \/ \E p \in Procs : Begin(p) \/ GoOn(p) \/ Die(p) \/ \E s \in sent : SaveRecord(p, s)
        \/ \E m \in Orders, t \in Types : EditDraft(m, t)

Spec == Init /\ [][Next]_vars

-----------------------------------------------------------------------------
(* Safety. *)

(* The node refuses to send a response that breaks the choreography        *)
(* (respond.go, the package comment; NODE.md), as far as Finish can tell   *)
(* from the file it is given.  Whatever was filled, edited or left, and    *)
(* whenever, what is about to be signed keeps the rules for its type if    *)
(* its original includes them, has no marker and no string but a code in a *)
(* hole that the draft lists, leaves such a hole empty only when its       *)
(* condition does not hold in what is sent, and copies (as printed) what   *)
(* the original dictates to an answer of its type, if it allows one.  And  *)
(* when nobody edited the type, the original, the recipient or the holes   *)
(* of the draft, all that holds of the type, the original and the holes    *)
(* the draft was built for, and the type is one the original allows.       *)
Settled(c, h) == \/ c[h.path] \in Values /\ Allowed(c, h)
                 \/ c[h.path] = Absent /\ Excused(c, h)

AsBuilt(d, m, t) == d.type = t /\ d.about = m /\ d.to = Sender[m] /\ d.holes = HolesOf(t)

Honours(d, slot) ==
    /\ CopiesWhatItMust(d, d.content) /\ KeepsTheRules(d, d.content)
    /\ \A h \in d.holes : Settled(d.content, h)
    /\ AsBuilt(d, slot.about, slot.type) =>
         /\ slot.type \in Allows[slot.about]
         /\ EchoesKept(d.content, slot.about, slot.type)
         /\ \A h \in HolesOf(slot.type) : Settled(d.content, h)

AnswersHonourTheOriginal ==
    \A p \in Procs : At(p, "send") /\ work[p].letter # NoDraft
        => Honours(work[p].letter, work[p].answer.draft)

(* A message is marked as answered only when an answer or a rejection of   *)
(* it is in the queue (FinishResponse and SendRejection send before they   *)
(* mark), also after a crash: there, or replaced by a later answer that    *)
(* got its number.                                                         *)
MarkedIsAnswered ==
    \A m \in Orders : inbox[m].responded =>
        m \in overwritten \/ \E s \in sent : s.about = m

(* A draft is sent once: the answers made from it do not outnumber the     *)
(* drafts built, but for one more after each process that died in between. *)
OneAnswerPerDraft ==
    \A m \in Orders, t \in Types :
        Cardinality({s \in sent : s.draft = Slot(m, t)}) <= started[m][t] + crashes

(* When FinishResponse or SendRejection come back without a crash, their   *)
(* answer is in the queue, the draft it came from is gone, and the message *)
(* is marked if it has an inbox record.                                    *)
ReportedIsDone ==
    [][\A p \in Procs :
         (work[p].step \in {"mark", "save"} /\ Idle(p)' /\ crashes' = crashes) =>
             LET a == work[p].answer IN
             /\ a \in sent'
             /\ a.draft # NoSlot => drafts'[a.draft.about][a.draft.type] = NoDraft
             /\ inbox'[a.about] # NoRecord => inbox'[a.about].responded]_vars

-----------------------------------------------------------------------------
(* A statement of the repository that the code does not keep. *)

(* "A correctly filled draft finishes" (respond_test.go): a draft that has *)
(* every copied field as Build wrote it, an allowed value in every hole    *)
(* but those that may stay empty, and keeps the rules, is ready to send.   *)
CorrectlyFilled(d, m, t) ==
    /\ AsBuilt(d, m, t)
    /\ \A f \in Dictated(m, t) : d.content[f] = Original[m][f]
    /\ \A h \in HolesOf(t) :
         \/ Unset(d.content, h) /\ Excused(d.content, h)
         \/ d.content[h.path] \in IF h.allowed = {} THEN Values ELSE h.allowed
    /\ KeepsTheRules(d, Finished(d))

CorrectDraftFinishes ==
    \A m \in Orders, t \in Types :
        drafts[m][t] # NoDraft /\ CorrectlyFilled(drafts[m][t], m, t)
            => ReadyToSend(drafts[m][t])
=============================================================================
