----------------------------- MODULE ChangesDesk -----------------------------
(***************************************************************************)
(* The inbound half of one exchange node and its changes desk: the         *)
(* pipeline a received message walks (engine.Ingest, continuePipeline),    *)
(* the proposals it files (changesdesk), the trusted configuration they    *)
(* may become (trust), the messages held meanwhile, and the decisions a    *)
(* person takes (engine.Approve, engine.Reject).  "Messages propose;       *)
(* humans apply."                                                          *)
(*                                                                         *)
(* One partner and one rulebook are modelled, the rulebook in several      *)
(* editions: an edition is one fingerprint, and carries a version number.  *)
(* A message is a business message; receipts and notes, which never reach  *)
(* the desk, are in Delivery and Exchange.                                 *)
(*                                                                         *)
(* A decision is carried out in steps, one for each file it writes, since  *)
(* the process may die between two of them, and it may end with an error   *)
(* after it was recorded.  In the console the node's mutex keeps messages  *)
(* out meanwhile (DecideUnderLock); "exnode review" is another process,    *)
(* and the server goes on receiving beside it.  Receiving a message, and   *)
(* moving a proposal to review/decided, are one step each unless the       *)
(* process dies in between (DiesInPipeline, DiesMoving).                   *)
(***************************************************************************)
EXTENDS Naturals, Sequences

CONSTANTS Messages,         \* message numbers a partner's node uses
          Editions,         \* fingerprints of the rulebook
          Version,          \* the version each edition declares
          ConnectionSets,   \* channel lists: functions from channel to address
          NoConnections,    \* no connections file, or no channels in a message
          Cites,            \* the edition each message follows
          Complete,         \* the messages that include the rulebook
          Offers,           \* the channels each message carries
          Unsigned,         \* messages whose file signature does not verify
          Tampered,         \* messages whose rulebook does not verify
          Broken,           \* messages whose content breaks the rules
          Failing,          \* messages whose rulebook fails their answer key
          BackDated,        \* editions whose overlap is over when approved
          DecideUnderLock,  \* decisions in the console, or beside the server
          MaxCrashes        \* bound: processes that die

ASSUME MessageAssumption == /\ Cites \in [Messages -> Editions]
                            /\ Offers \in [Messages -> ConnectionSets \cup {NoConnections}]
                            /\ Complete \subseteq Messages
                            /\ Unsigned \subseteq Messages
                            /\ Tampered \subseteq Complete
                            /\ Broken \subseteq Messages
                            /\ Failing \subseteq Complete
ASSUME EditionAssumption == /\ Version \in [Editions -> Nat]
                            /\ BackDated \subseteq Editions
ASSUME ConnectionAssumption == NoConnections \notin ConnectionSets
ASSUME DeskAssumption == DecideUnderLock \in BOOLEAN /\ MaxCrashes \in Nat

VARIABLES archive,      \* inbound messages in archive/
          quarantine,   \* messages in inbox/quarantine
          held,         \* messages in held/
          inbox,        \* inbox record of each message
          rulebooks,    \* trust_rulebook proposals, by edition
          moves,        \* update_connections proposals, by offered channels
          accepting,    \* trust.json: accepted editions, oldest approval first
          partner,      \* is the partner pinned in trusted/partners
          connections,  \* trusted/connections of the partner
          notes,        \* configuration_response notes sent: <<about, decision>>
          work,         \* the decision being carried out
          crashes       \* how many processes died, or could not save a decision

intake == <<archive, quarantine, held, inbox>>
desk == <<rulebooks, moves>>
trusted == <<accepting, partner, connections>>
vars == <<intake, desk, trusted, notes, work, crashes>>

-----------------------------------------------------------------------------
(* Proposals. *)

ProposalStates == {"waiting_for_review", "approved", "rejected", "applied"}
NoProposal == [state |-> "none"]

(* The files beside the record in a proposal's folder:                     *)
(* proposed-rulebook.json and offered-connections.json.                    *)
Files == {"rulebook", "connections"}

(* A rulebook proposal: does it pass the answer key it came with, is it    *)
(* first contact, the channels it brought for that case, the files stored  *)
(* with it, and the messages held for it.                                  *)
RulebookProposal == [state : ProposalStates, passes : BOOLEAN, firstContact : BOOLEAN,
                     offered : ConnectionSets \cup {NoConnections}, files : SUBSET Files,
                     heldMessages : SUBSET Messages]

(* A connections proposal, with the out-of-band check of its decision. *)
MoveProposal == [state : ProposalStates, outOfBand : BOOLEAN, files : SUBSET Files]

Waits(p) == p.state = "waiting_for_review"
Pending(p) == p.state \in {"waiting_for_review", "approved"}

-----------------------------------------------------------------------------
(* Trust. *)

(* AlsoAcceptedUntil: unset, a day to come, or a day gone by. *)
Ends == {"", "ahead", "past"}
TrustedVersion == [edition : Editions, until : Ends]

(* The version of HighestTrusted. *)
IsHighest(v) == /\ \E i \in DOMAIN accepting : v = Version[accepting[i].edition]
                /\ \A i \in DOMAIN accepting : v >= Version[accepting[i].edition]

(* StatusOf: the first entry with the fingerprint or the version decides. *)
Matches(e, i) == \/ accepting[i].edition = e
                 \/ Version[accepting[i].edition] = Version[e]

FirstMatch(e, i) == Matches(e, i) /\ \A j \in 1..(i - 1) : ~Matches(e, j)

IsTrusted(e) == \E i \in DOMAIN accepting :
    FirstMatch(e, i) /\ accepting[i].edition = e /\ accepting[i].until # "past"

IsDowngrade(e) == \E i \in DOMAIN accepting :
    FirstMatch(e, i) /\ accepting[i].edition = e /\ accepting[i].until = "past"

(* No trust record yet, or a version above every accepted one. *)
IsNew(e) == \A i \in DOMAIN accepting : Version[e] > Version[accepting[i].edition]

StatusOf(e) == CASE IsTrusted(e) -> "trusted"
                 [] IsDowngrade(e) -> "downgrade"
                 [] IsNew(e) -> "update"
                 [] OTHER -> "counterfeit"

-----------------------------------------------------------------------------
(* Connections. *)

(* DiffConnections: a channel is added or has another address.  A channel  *)
(* the message does not mention is no difference.                          *)
Differs(old, new) == \E c \in DOMAIN new : c \notin DOMAIN old \/ old[c] # new[c]

ChangesConnections(m) == /\ Offers[m] # NoConnections
                         /\ connections # NoConnections
                         /\ Differs(connections, Offers[m])

-----------------------------------------------------------------------------
(* What the deciding process has in memory: the step it is at, what it     *)
(* decides about, the record it loaded, the channels it may store, and the *)
(* messages it still has to release; "resume" has one of them in hand, no  *)
(* longer in held/.                                                        *)
Steps == {"trust", "pin", "connect", "apply", "tell", "release", "resume", "refuse", "remove"}
NoWork == [step |-> "none"]
RulebookWork == [step : Steps, edition : Editions, record : RulebookProposal,
                 offered : ConnectionSets \cup {NoConnections},
                 release : SUBSET Messages, inHand : SUBSET Messages]
MoveWork == [step : Steps, record : MoveProposal, offered : ConnectionSets]

TypeOK == /\ archive \subseteq Messages
          /\ quarantine \subseteq archive
          /\ held \subseteq archive
          /\ inbox \in [Messages -> {"none", "green", "red"}]
          /\ rulebooks \in [Editions -> RulebookProposal \cup {NoProposal}]
          /\ moves \in [ConnectionSets -> MoveProposal \cup {NoProposal}]
          /\ accepting \in Seq(TrustedVersion)
          /\ partner \in BOOLEAN
          /\ connections \in ConnectionSets \cup {NoConnections}
          /\ work \in RulebookWork \cup MoveWork \cup {NoWork}
          /\ crashes \in 0..MaxCrashes

Init == /\ archive = {} /\ quarantine = {} /\ held = {}
        /\ inbox = [m \in Messages |-> "none"]
        /\ rulebooks = [e \in Editions |-> NoProposal]
        /\ moves = [c \in ConnectionSets |-> NoProposal]
        /\ accepting = <<>>
        /\ partner = FALSE
        /\ connections = NoConnections
        /\ notes = {}
        /\ work = NoWork
        /\ crashes = 0

At(step) == work.step = step
OfRulebook == "edition" \in DOMAIN work

(* The channels Apply will find in the proposal's folder. *)
Stored(p) == IF "connections" \in p.files THEN p.offered ELSE NoConnections

RulebookDecision(e, step, p) == [step |-> step, edition |-> e, record |-> p,
                                 offered |-> Stored(p), release |-> {}, inHand |-> {}]
MoveDecision(c, step, p) == [step |-> step, record |-> p, offered |-> c]

NewRulebookProposal(m) ==
    [state |-> "waiting_for_review", passes |-> m \notin Failing,
     firstContact |-> ~partner, offered |-> IF partner THEN NoConnections ELSE Offers[m],
     files |-> IF partner \/ Offers[m] = NoConnections THEN {"rulebook"} ELSE Files,
     heldMessages |-> {m}]

NewMoveProposal(files) ==
    [state |-> "waiting_for_review", outOfBand |-> FALSE, files |-> files]

-----------------------------------------------------------------------------
(* Plausible bugs, for checking the properties below. *)

RequeueRejected(m) ==
    LET p == rulebooks[Cites[m]] IN
    IF Pending(p) THEN [p EXCEPT !.heldMessages = @ \cup {m}] ELSE NewRulebookProposal(m)

SeenAgainOnly(m) ==
    LET p == rulebooks[Cites[m]] IN
    IF p = NoProposal THEN NewRulebookProposal(m) ELSE p

(* Everything accepted before is over at once. *)
NoOverlap(e) == [i \in DOMAIN accepting |-> [accepting[i] EXCEPT !.until = "past"]]

(* The decision is saved only once it has been applied. *)
SaveLater(e) ==
    /\ work = NoWork
    /\ Waits(rulebooks[e]) /\ rulebooks[e].passes
    /\ work' = RulebookDecision(e, "trust", [rulebooks[e] EXCEPT !.state = "approved"])
    /\ UNCHANGED <<intake, desk, trusted, notes, crashes>>

(* The held files are removed before the loop that resumes them. *)
TakeAllHeld(m) ==
    /\ At("release") /\ m \in work.release
    /\ held' = held \ work.release
    /\ work' = [work EXCEPT !.release = @ \ {m},
                            !.inHand = {m} \cap held,
                            !.step = IF m \in held THEN "resume" ELSE "release"]
    /\ UNCHANGED <<archive, quarantine, inbox, desk, trusted, notes, crashes>>

ForgetsToRelease(e) ==
    /\ At("apply") /\ OfRulebook /\ work.edition = e
    /\ rulebooks' = [rulebooks EXCEPT ![e] = [work.record EXCEPT !.state = "applied"]]
    /\ work' = [work EXCEPT !.step = "tell"]
    /\ UNCHANGED <<intake, moves, trusted, notes, crashes>>

-----------------------------------------------------------------------------
(* continuePipeline: what becomes of a message whose file verified.  The   *)
(* first arguments are held/ and the inbox as the pipeline finds them.     *)

Quarantine(h, b, m) ==
    /\ quarantine' = quarantine \cup {m}
    /\ held' = h /\ inbox' = b
    /\ UNCHANGED <<desk, notes>>

RefuseRetired(h, b, m) ==
    /\ notes' = notes \cup {<<m, "declined">>}
    /\ held' = h /\ inbox' = b
    /\ UNCHANGED <<quarantine, desk>>

(* A rulebook known by its fingerprint only: hold, and ask for the text. *)
AskForRulebook(h, b, m) ==
    /\ held' = h \cup {m} /\ inbox' = b
    /\ notes' = notes \cup {<<m, "please_resend_complete">>}
    /\ UNCHANGED <<quarantine, desk>>

(* NoticeRulebook: file the proposal or note that it was seen again, and   *)
(* hold the message.  A rejected proposal is left as it is.                *)
NoticedRulebook(m) ==
    LET p == rulebooks[Cites[m]] IN
    IF Pending(p) THEN [p EXCEPT !.heldMessages = @ \cup {m}]
    ELSE IF p.state = "rejected" THEN p
    ELSE NewRulebookProposal(m)

HoldForReview(h, b, m) ==
    /\ rulebooks' = [rulebooks EXCEPT ![Cites[m]] = NoticedRulebook(m)]
    /\ held' = h \cup {m} /\ inbox' = b
    /\ UNCHANGED <<quarantine, moves, notes>>

(* NoticeConnections: only what was never proposed before is filed. *)
NoticedMoves(m, files) ==
    IF partner /\ ChangesConnections(m) /\ moves[Offers[m]] = NoProposal
    THEN [moves EXCEPT ![Offers[m]] = NewMoveProposal(files)]
    ELSE moves

DeliverToInbox(h, b, m) ==
    /\ moves' = NoticedMoves(m, {"connections"})
    /\ inbox' = [b EXCEPT ![m] = IF m \in Broken THEN "red" ELSE "green"]
    /\ held' = h
    /\ UNCHANGED <<quarantine, rulebooks, notes>>

Pipeline(h, b, m) ==
    LET status == StatusOf(Cites[m]) IN
    \/ m \in Tampered /\ Quarantine(h, b, m)
    \/ /\ m \notin Tampered
       /\ \/ status = "counterfeit" /\ Quarantine(h, b, m)
          \/ status = "downgrade" /\ RefuseRetired(h, b, m)
          \/ status = "update" /\ m \notin Complete /\ AskForRulebook(h, b, m)
          \/ status = "update" /\ m \in Complete /\ HoldForReview(h, b, m)
          \/ status = "trusted" /\ DeliverToInbox(h, b, m)

(* The process dies in the pipeline: a proposal is filed before the files  *)
(* that belong to it, and both before the message is held or delivered; a  *)
(* message is held before its sender is asked for the rulebook.            *)
CutShort(m) ==
    LET p == NoticedRulebook(m)  old == rulebooks[Cites[m]].state IN
    IF old \in {"none", "applied"}
    THEN {[p EXCEPT !.files = fs] : fs \in {{}, p.files \ {"connections"}, p.files}}
    ELSE {p}

HeldUnasked(m) == /\ m \notin Complete
                  /\ held' = held \cup {m}
                  /\ UNCHANGED desk

FiledOnly(m) == /\ m \in Complete
                /\ \E p \in CutShort(m) : rulebooks' = [rulebooks EXCEPT ![Cites[m]] = p]
                /\ UNCHANGED <<held, moves>>

MoveFiledOnly(m) == /\ \E files \in {{}, {"connections"}} : moves' = NoticedMoves(m, files)
                    /\ UNCHANGED <<held, rulebooks>>

DiesInPipeline(b, m) ==
    LET status == StatusOf(Cites[m]) IN
    /\ inbox' = b
    /\ \/ UNCHANGED <<held, desk>>
       \/ /\ m \notin Tampered
          /\ \/ status = "update" /\ (HeldUnasked(m) \/ FiledOnly(m))
             \/ status = "trusted" /\ MoveFiledOnly(m)
    /\ UNCHANGED <<quarantine, notes>>

-----------------------------------------------------------------------------
(* Receiving. *)

Receiving == DecideUnderLock => work = NoWork

(* A plausible bug: only a message that verifies is archived. *)
ArchiveVerified(m) ==
    /\ Receiving
    /\ m \notin archive
    /\ archive' = archive \cup ({m} \ Unsigned)
    /\ IF m \in Unsigned THEN Quarantine(held, inbox, m) ELSE Pipeline(held, inbox, m)
    /\ UNCHANGED <<trusted, work, crashes>>

(* Ingest of a number not seen before: archived first, whatever follows.   *)
(* A known number is ignored.                                              *)
Ingest(m) ==
    /\ Receiving
    /\ m \notin archive
    /\ archive' = archive \cup {m}
    /\ IF m \in Unsigned THEN Quarantine(held, inbox, m) ELSE Pipeline(held, inbox, m)
    /\ UNCHANGED <<trusted, work, crashes>>

(* ReprocessInbound: the inbox record goes, and the archived bytes walk    *)
(* the pipeline again.                                                     *)
ReprocessInbound(m) ==
    /\ Receiving
    /\ m \in archive \ Unsigned
    /\ Pipeline(held, [inbox EXCEPT ![m] = "none"], m)
    /\ UNCHANGED <<archive, trusted, work, crashes>>

-----------------------------------------------------------------------------
(* Deciding about a rulebook. *)

(* Desk.Approve saves the decision; Node.Approve goes on with the record   *)
(* it has in memory. *)
ApproveRulebook(e) ==
    /\ work = NoWork
    /\ Waits(rulebooks[e]) /\ rulebooks[e].passes
    /\ rulebooks' = [rulebooks EXCEPT ![e].state = "approved"]
    /\ work' = RulebookDecision(e, "trust", rulebooks'[e])
    /\ UNCHANGED <<intake, moves, trusted, notes, crashes>>

(* Node.Approve returns an error after the decision was recorded: the      *)
(* partner's key cannot be looked up, the stored rulebook is missing or    *)
(* does not verify, the offered channels are missing, or the first file    *)
(* cannot be written.  Nothing takes the approval back or goes on with it. *)
GiveUp ==
    /\ At("trust") \/ (At("connect") /\ ~OfRulebook)
    /\ work' = NoWork
    /\ UNCHANGED <<intake, desk, trusted, notes, crashes>>

(* The trust record: the highest version so far gets an end of overlap,    *)
(* the new one is accepted without end.                                    *)
OverlapEnd(e) == IF e \in BackDated THEN "past" ELSE "ahead"

Superseded(e) == [i \in DOMAIN accepting |->
    IF IsHighest(Version[accepting[i].edition])
    THEN [accepting[i] EXCEPT !.until = OverlapEnd(e)] ELSE accepting[i]]

ApplyTrust(e) ==
    /\ At("trust") /\ work.edition = e
    /\ "rulebook" \in work.record.files
    /\ accepting' = Append(Superseded(e), [edition |-> e, until |-> ""])
    /\ work' = [work EXCEPT !.step = IF work.record.firstContact THEN "pin" ELSE "apply"]
    /\ UNCHANGED <<intake, desk, partner, connections, notes, crashes>>

PinPartner ==
    /\ At("pin")
    /\ partner' = TRUE
    /\ work' = [work EXCEPT !.step = IF work.offered # NoConnections THEN "connect" ELSE "apply"]
    /\ UNCHANGED <<intake, desk, accepting, connections, notes, crashes>>

(* The connections file is replaced as a whole. *)
StoreConnections ==
    /\ At("connect") /\ "connections" \in work.record.files
    /\ connections' = work.offered
    /\ work' = [work EXCEPT !.step = "apply"]
    /\ UNCHANGED <<intake, desk, accepting, partner, notes, crashes>>

(* Desk.Apply saves the record it had in memory, the acknowledgement goes  *)
(* out, and the messages that record names are released. *)
MarkApplied(e) ==
    /\ At("apply") /\ OfRulebook /\ work.edition = e
    /\ rulebooks' = [rulebooks EXCEPT ![e] = [work.record EXCEPT !.state = "applied"]]
    /\ work' = [work EXCEPT !.step = "tell", !.release = work.record.heldMessages]
    /\ UNCHANGED <<intake, moves, trusted, notes, crashes>>

MarkMoved ==
    /\ At("apply") /\ ~OfRulebook
    /\ moves' = [moves EXCEPT ![work.offered] = [work.record EXCEPT !.state = "applied"]]
    /\ work' = [work EXCEPT !.step = "tell"]
    /\ UNCHANGED <<intake, rulebooks, trusted, notes, crashes>>

TellAccepted ==
    /\ At("tell")
    /\ notes' = notes \cup {<<IF OfRulebook THEN work.edition ELSE work.offered, "accepted">>}
    /\ work' = IF OfRulebook THEN [work EXCEPT !.step = "release"] ELSE NoWork
    /\ UNCHANGED <<intake, desk, trusted, crashes>>

(* Releasing: one message at a time is taken out of held/ and walks the    *)
(* pipeline; one that is not there any more is passed over.                *)
TakeHeld(m) ==
    /\ At("release") /\ m \in work.release
    /\ held' = held \ {m}
    /\ work' = [work EXCEPT !.release = @ \ {m},
                            !.inHand = {m} \cap held,
                            !.step = IF m \in held THEN "resume" ELSE "release"]
    /\ UNCHANGED <<archive, quarantine, inbox, desk, trusted, notes, crashes>>

Resume(m) ==
    /\ At("resume") /\ m \in work.inHand
    /\ Pipeline(held, inbox, m)
    /\ work' = [work EXCEPT !.step = "release", !.inHand = {}]
    /\ UNCHANGED <<archive, trusted, crashes>>

DoneDeciding ==
    /\ At("release") \/ At("remove")
    /\ work.release = {}
    /\ work' = NoWork
    /\ UNCHANGED <<intake, desk, trusted, notes, crashes>>

RejectRulebook(e) ==
    /\ work = NoWork
    /\ Waits(rulebooks[e])
    /\ rulebooks' = [rulebooks EXCEPT ![e].state = "rejected"]
    /\ work' = RulebookDecision(e, "refuse", rulebooks'[e])
    /\ UNCHANGED <<intake, moves, trusted, notes, crashes>>

(* After a rejection: the decline goes out, the held messages go. *)
TellDeclined ==
    /\ At("refuse")
    /\ notes' = notes \cup {<<IF OfRulebook THEN work.edition ELSE work.offered, "declined">>}
    /\ work' = IF OfRulebook
               THEN [work EXCEPT !.step = "remove", !.release = work.record.heldMessages]
               ELSE NoWork
    /\ UNCHANGED <<intake, desk, trusted, crashes>>

RefuseHeld(m) ==
    /\ At("remove") /\ m \in work.release
    /\ held' = held \ {m}
    /\ work' = [work EXCEPT !.release = @ \ {m}]
    /\ UNCHANGED <<archive, quarantine, inbox, desk, trusted, notes, crashes>>

-----------------------------------------------------------------------------
(* Deciding about connections: confirmed through another channel or not    *)
(* approved at all.                                                        *)

ApproveMove(c) ==
    /\ work = NoWork
    /\ Waits(moves[c])
    /\ moves' = [moves EXCEPT ![c].state = "approved", ![c].outOfBand = TRUE]
    /\ work' = MoveDecision(c, "connect", moves'[c])
    /\ UNCHANGED <<intake, rulebooks, trusted, notes, crashes>>

RejectMove(c) ==
    /\ work = NoWork
    /\ Waits(moves[c])
    /\ moves' = [moves EXCEPT ![c].state = "rejected"]
    /\ work' = MoveDecision(c, "refuse", moves'[c])
    /\ UNCHANGED <<intake, rulebooks, trusted, notes, crashes>>

-----------------------------------------------------------------------------
(* The calendar, and processes that die. *)

OverlapEnds(i) ==
    /\ i \in DOMAIN accepting /\ accepting[i].until = "ahead"
    /\ accepting' = [accepting EXCEPT ![i].until = "past"]
    /\ UNCHANGED <<intake, desk, partner, connections, notes, work, crashes>>

Dies == crashes < MaxCrashes /\ crashes' = crashes + 1

(* Between two files of a decision; a record that cannot be saved at the   *)
(* end of Desk.Apply leaves the same. *)
Crash ==
    /\ work # NoWork
    /\ Dies
    /\ work' = NoWork
    /\ UNCHANGED <<intake, desk, trusted, notes>>

(* While Queue.Save moves a decided proposal out of review/pending: the    *)
(* record goes last, and until it does it is the one that is loaded, as it *)
(* was, but the files that went before it are not beside it any more.      *)
LeftBehind(files) == {files \ {"connections"}, {}}

DiesMoving(e) ==
    /\ \/ work = NoWork /\ Waits(rulebooks[e])
       \/ At("apply") /\ OfRulebook /\ work.edition = e
    /\ Dies
    /\ \E files \in LeftBehind(rulebooks[e].files) :
          rulebooks' = [rulebooks EXCEPT ![e].files = files]
    /\ work' = NoWork
    /\ UNCHANGED <<intake, moves, trusted, notes>>

DiesMovingMove(c) ==
    /\ \/ work = NoWork /\ Waits(moves[c])
       \/ At("apply") /\ ~OfRulebook /\ work.offered = c
    /\ Dies
    /\ moves' = [moves EXCEPT ![c].files = {}]
    /\ work' = NoWork
    /\ UNCHANGED <<intake, rulebooks, trusted, notes>>

DiesIngesting(m) ==
    /\ Receiving
    /\ m \notin archive
    /\ Dies
    /\ archive' = archive \cup {m}
    /\ IF m \in Unsigned THEN UNCHANGED <<quarantine, held, inbox, desk, notes>>
       ELSE DiesInPipeline(inbox, m)
    /\ UNCHANGED <<trusted, work>>

DiesReprocessing(m) ==
    /\ Receiving
    /\ m \in archive \ Unsigned
    /\ Dies
    /\ DiesInPipeline([inbox EXCEPT ![m] = "none"], m)
    /\ UNCHANGED <<archive, trusted, work>>

DiesResuming(m) ==
    /\ At("resume") /\ m \in work.inHand
    /\ Dies
    /\ DiesInPipeline(inbox, m)
    /\ work' = NoWork
    /\ UNCHANGED <<archive, trusted>>

-----------------------------------------------------------------------------
Receive == \E m \in Messages : Ingest(m) \/ ReprocessInbound(m)

Decide == \/ \E e \in Editions : ApproveRulebook(e) \/ RejectRulebook(e)
          \/ \E c \in ConnectionSets : ApproveMove(c) \/ RejectMove(c)

CarryOut == \/ \E e \in Editions : ApplyTrust(e) \/ MarkApplied(e)
            \/ \E m \in Messages : TakeHeld(m) \/ Resume(m) \/ RefuseHeld(m)
            \/ GiveUp \/ PinPartner \/ StoreConnections \/ MarkMoved
            \/ TellAccepted \/ TellDeclined \/ DoneDeciding

Die == \/ Crash
       \/ \E e \in Editions : DiesMoving(e)
       \/ \E c \in ConnectionSets : DiesMovingMove(c)
       \/ \E m \in Messages : DiesIngesting(m) \/ DiesReprocessing(m) \/ DiesResuming(m)

Next == Receive \/ Decide \/ CarryOut \/ Die \/ \E i \in DOMAIN accepting : OverlapEnds(i)

Spec == Init /\ [][Next]_vars

(* A decision once begun runs on to its end; people and partners owe       *)
(* nothing.                                                                *)
FairSpec == Spec /\ WF_vars(CarryOut)

-----------------------------------------------------------------------------
(* Safety. *)

Decided(p) == p.state \in {"approved", "applied"}

(* "Messages propose; humans apply" (changesdesk, the package comment):    *)
(* every accepted edition, the partner and the connections in use come     *)
(* from a proposal a person approved, and every proposal rests on          *)
(* complete messages whose signatures verified.  Wherever a process died.  *)
OnlyApprovedIsLive ==
    /\ \A i \in DOMAIN accepting :
         LET p == rulebooks[accepting[i].edition] IN Decided(p) /\ p.passes
    /\ partner => \E e \in Editions : Decided(rulebooks[e]) /\ rulebooks[e].firstContact
    /\ connections # NoConnections =>
         \/ \E e \in Editions : /\ Decided(rulebooks[e])
                                /\ rulebooks[e].firstContact
                                /\ rulebooks[e].offered = connections
         \/ Decided(moves[connections]) /\ moves[connections].outOfBand
    /\ \A e \in Editions : rulebooks[e] # NoProposal =>
         rulebooks[e].heldMessages \subseteq Complete \ (Unsigned \cup Tampered)

(* A decision is final: no message that arrives afterwards reopens what    *)
(* was rejected or applied, withdraws an approval, or changes whether the  *)
(* rulebook passed its answer key and what channels it brought.            *)
DecisionsAreFinal ==
    [][/\ \A e \in Editions :
            LET old == rulebooks[e]  new == rulebooks'[e] IN
            /\ old # NoProposal => /\ new # NoProposal
                                   /\ new.passes = old.passes
                                   /\ new.offered = old.offered
            /\ old.state = "approved" => Decided(new)
            /\ old.state \in {"rejected", "applied"} => new.state = old.state
       /\ \A c \in ConnectionSets :
            /\ moves[c].state = "approved" => Decided(moves'[c])
            /\ moves[c].state \in {"rejected", "applied"} => moves'[c] = moves[c]]_vars

(* As long as no process has died: a held message is one the sender was    *)
(* asked to send again complete, or a proposal that is not applied yet     *)
(* names it, or its rulebook was rejected, or it is being released.        *)
HeldIsOnTheDesk ==
    crashes = 0 => \A m \in held :
        LET p == rulebooks[Cites[m]] IN
        \/ <<m, "please_resend_complete">> \in notes
        \/ Pending(p) /\ m \in p.heldMessages
        \/ p.state = "rejected"
        \/ OfRulebook /\ m \in work.release

(* As long as no process has died, no archived message is lost: it is in   *)
(* the inbox, held, quarantined or refused with a note, or its rulebook    *)
(* was rejected, or it is on its way from held/ through the pipeline.      *)
NothingIsLost ==
    crashes = 0 => \A m \in archive :
        \/ inbox[m] # "none"
        \/ m \in held \cup quarantine
        \/ <<m, "declined">> \in notes
        \/ rulebooks[Cites[m]].state = "rejected"
        \/ OfRulebook /\ m \in work.inHand

(* Approving an edition takes no accepted edition out of use in the same   *)
(* step: it stays trusted for its overlap (Desk.ifApprovedRulebook), but   *)
(* for an edition whose valid_from lies more than the overlap in the past. *)
ApprovalKeepsTheOld ==
    [][\A e \in Editions :
         (ApplyTrust(work.edition) /\ work.edition \notin BackDated /\ IsTrusted(e))
           => IsTrusted(e)']_vars

-----------------------------------------------------------------------------
(* Liveness, under FairSpec. *)

(* An approval is carried out whole or not at all, unless a process dies:  *)
(* what a person approved is applied and the messages held for it leave    *)
(* held/, or Node.Approve gave up with an error, and then the edition is   *)
(* not accepted and the messages are still held.                           *)
Accepted(e) == \E i \in DOMAIN accepting : accepting[i].edition = e

CarriedOut(e) == rulebooks[e].state = "applied" /\ rulebooks[e].heldMessages \cap held = {}
GivenUp(e) == /\ work = NoWork /\ rulebooks[e].state = "approved"
              /\ ~Accepted(e) /\ rulebooks[e].heldMessages \subseteq held

ApprovedWholeOrNotAtAll ==
    \A e \in Editions :
        rulebooks[e].state = "approved" ~> (CarriedOut(e) \/ GivenUp(e) \/ crashes > 0)

-----------------------------------------------------------------------------
(* Statements of the repository that the code does not keep. *)

(* Desk.ifApprovedRulebook: "held messages are processed".                 *)
ApprovedIsProcessed ==
    (work = NoWork /\ crashes = 0) =>
        \A m \in held \cap Complete : rulebooks[Cites[m]].state # "applied"

(* trust.go: downgrade is "version below trusted, not accepted anymore".   *)
DowngradeIsBelow ==
    \A e \in Editions : IsDowngrade(e) =>
        \E f \in Editions : IsTrusted(f) /\ Version[f] > Version[e]

(* DiffConnections: an address changes only after confirmation "through a  *)
(* channel other than this message".                                       *)
AddressNeedsOtherChannel ==
    [][(connections # NoConnections /\ connections' # connections) =>
         Decided(moves[connections']) /\ moves[connections'].outOfBand]_vars
=============================================================================
