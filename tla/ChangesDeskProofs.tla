-------------------------- MODULE ChangesDeskProofs --------------------------
(***************************************************************************)
(* Proofs about ChangesDesk, for any messages, editions, versions and      *)
(* channels, for decisions in the console or beside the server, and        *)
(* wherever a process dies.                                                *)
(*                                                                         *)
(* Live configuration is approved because of what a deciding process       *)
(* carries in memory: between "trust" and "apply" the proposal on file is  *)
(* approved and agrees with the record in memory on everything but the     *)
(* messages held for it.  No message can reopen an applied proposal,       *)
(* because its edition is accepted by then, and an accepted edition is     *)
(* never news.                                                             *)
(***************************************************************************)
EXTENDS ChangesDesk, SequenceTheorems, FiniteSetTheorems, TLAPS

Verified == Complete \ (Unsigned \cup Tampered)

(* A decision about a rulebook, as its process has it in memory. *)
RulebookWorkOK ==
    /\ work \in RulebookWork
    /\ work.release \subseteq Verified
    /\ work.inHand \subseteq Verified \cap archive
    /\ work.record.heldMessages \subseteq Verified
    /\ work.step \in {"trust", "pin", "connect", "apply"} =>
         /\ rulebooks[work.edition].state = "approved"
         /\ rulebooks[work.edition].passes
         /\ work.record.passes
         /\ work.record.firstContact = rulebooks[work.edition].firstContact
         /\ work.record.offered = rulebooks[work.edition].offered
    /\ work.offered \in {work.record.offered, NoConnections}
    /\ work.step \in {"pin", "connect"} => work.record.firstContact
    /\ work.step = "connect" => work.offered # NoConnections
    /\ work.step \in {"pin", "connect", "apply"} => Accepted(work.edition)

(* A decision about connections. *)
MoveWorkOK ==
    /\ work \in MoveWork
    /\ work.step \in {"connect", "apply", "tell", "refuse"}
    /\ work.step \in {"connect", "apply"} =>
         /\ moves[work.offered].state = "approved"
         /\ moves[work.offered].outOfBand
         /\ work.record.outOfBand

WorkOK == work = NoWork \/ RulebookWorkOK \/ MoveWorkOK

AppliedIsAccepted == \A e \in Editions : rulebooks[e].state = "applied" => Accepted(e)

DeskInv == TypeOK /\ WorkOK /\ AppliedIsAccepted /\ OnlyApprovedIsLive

-----------------------------------------------------------------------------
(* What a step may do to the proposals: a decision stays, and what was     *)
(* proposed stays what it was; held messages that join it are verified.    *)
RulebooksKept ==
    \A e \in Editions :
        /\ rulebooks[e] # NoProposal =>
             /\ rulebooks'[e] # NoProposal
             /\ rulebooks'[e].passes = rulebooks[e].passes
             /\ rulebooks'[e].firstContact = rulebooks[e].firstContact
             /\ rulebooks'[e].offered = rulebooks[e].offered
        /\ rulebooks[e].state = "approved" => Decided(rulebooks'[e])
        /\ rulebooks[e].state \in {"rejected", "applied"} =>
             rulebooks'[e].state = rulebooks[e].state

(* What only receiving does: it decides nothing. *)
SameDecisions ==
    \A e \in Editions : /\ rulebooks'[e].state = "approved" <=> rulebooks[e].state = "approved"
                        /\ rulebooks'[e].state = "applied" <=> rulebooks[e].state = "applied"

SameMoveDecisions == \A c \in ConnectionSets :
    moves[c].state = "approved" => moves'[c] = moves[c]

HeldVerified == \A e \in Editions : rulebooks[e] # NoProposal =>
                    rulebooks[e].heldMessages \subseteq Verified

MovesKept ==
    \A c \in ConnectionSets :
        /\ moves[c].state = "approved" => Decided(moves'[c])
        /\ moves[c].state \in {"rejected", "applied"} => moves'[c] = moves[c]
        /\ (Decided(moves[c]) /\ moves[c].outOfBand) => moves'[c].outOfBand

-----------------------------------------------------------------------------
(* Shapes. *)

(* The three kinds of decision in memory are told apart by their fields. *)
LEMMA WorkKinds == /\ work \in RulebookWork => OfRulebook /\ work # NoWork
                   /\ work \in MoveWork => ~OfRulebook /\ work # NoWork
                   /\ work = NoWork => ~OfRulebook
  BY DEF RulebookWork, MoveWork, NoWork, OfRulebook, Steps

(* A state other than "none" tells a proposal from no proposal. *)
LEMMA ProposalState ==
    ASSUME NEW p \in RulebookProposal \cup MoveProposal \cup {NoProposal}
    PROVE  (p = NoProposal) <=> (p.state = "none")
  BY DEF RulebookProposal, MoveProposal, NoProposal, ProposalStates

(* An accepted edition is no news. *)
LEMMA AcceptedIsNoNews ==
    ASSUME TypeOK, NEW e \in Editions, Accepted(e)
    PROVE  ~IsNew(e)
  <1>1. PICK i \in DOMAIN accepting : accepting[i].edition = e
    BY DEF Accepted
  <1>2. Version[e] \in Nat
    BY EditionAssumption
  <1>3. QED
    BY <1>1, <1>2 DEF IsNew

LEMMA AcceptingType ==
    ASSUME TypeOK
    PROVE  /\ DOMAIN accepting = 1..Len(accepting)
           /\ \A i \in DOMAIN accepting : accepting[i] \in TrustedVersion
  <1>1. accepting \in Seq(TrustedVersion)
    BY DEF TypeOK
  <1>2. QED
    BY <1>1

(* What is filed about a message is a well-formed proposal. *)
LEMMA NewProposalType ==
    ASSUME TypeOK, NEW m \in Messages
    PROVE  NewRulebookProposal(m) \in RulebookProposal
  BY MessageAssumption DEF TypeOK, NewRulebookProposal, RulebookProposal, ProposalStates, Files

LEMMA NoticedType ==
    ASSUME TypeOK, NEW m \in Messages
    PROVE  NoticedRulebook(m) \in RulebookProposal
  <1> DEFINE p == rulebooks[Cites[m]]
  <1>1. p \in RulebookProposal \cup {NoProposal}
    BY MessageAssumption DEF TypeOK
  <1>2. CASE Pending(p)
    <2>1. p \in RulebookProposal
      BY <1>1, <1>2 DEF Pending, NoProposal
    <2>2. QED
      BY <1>2, <2>1 DEF NoticedRulebook, RulebookProposal
  <1>3. CASE ~Pending(p) /\ p.state = "rejected"
    BY <1>1, <1>3 DEF NoticedRulebook, NoProposal
  <1>4. CASE ~Pending(p) /\ p.state # "rejected"
    BY <1>4, NewProposalType DEF NoticedRulebook
  <1>5. QED
    BY <1>2, <1>3, <1>4

LEMMA NoticedMovesType ==
    ASSUME TypeOK, NEW m \in Messages, NEW files \in SUBSET Files
    PROVE  NoticedMoves(m, files) \in [ConnectionSets -> MoveProposal \cup {NoProposal}]
  <1>1. Offers[m] \in ConnectionSets \cup {NoConnections}
    BY MessageAssumption
  <1>2. NewMoveProposal(files) \in MoveProposal
    BY DEF NewMoveProposal, MoveProposal, ProposalStates
  <1>3. QED
    BY <1>1, <1>2 DEF TypeOK, NoticedMoves

(* A proposal with other files beside it is the same proposal.             *)
LEMMA FilesOnly ==
    ASSUME NEW p \in RulebookProposal, NEW files \in SUBSET Files
    PROVE  LET q == [p EXCEPT !.files = files] IN
           /\ q \in RulebookProposal
           /\ q.state = p.state /\ q.passes = p.passes
           /\ q.firstContact = p.firstContact /\ q.offered = p.offered
           /\ q.heldMessages = p.heldMessages
  BY DEF RulebookProposal

(* What may be on file about a message: its proposal, whole or without     *)
(* files, if a process died while filing it.                               *)
Filed(m) == {NoticedRulebook(m)} \cup CutShort(m)
MovesFiled(m) == {moves} \cup {NoticedMoves(m, files) : files \in SUBSET Files}

LEMMA FiledLikeNoticed ==
    ASSUME TypeOK, NEW m \in Messages, NEW q \in Filed(m)
    PROVE  LET p == NoticedRulebook(m) IN
           /\ q \in RulebookProposal
           /\ q.state = p.state /\ q.passes = p.passes
           /\ q.firstContact = p.firstContact /\ q.offered = p.offered
           /\ q.heldMessages = p.heldMessages
  <1> DEFINE p == NoticedRulebook(m)
  <1>1. p \in RulebookProposal
    BY NoticedType
  <1>2. p.files \subseteq Files
    BY <1>1 DEF RulebookProposal
  <1>3. q = p \/ \E files \in SUBSET Files : q = [p EXCEPT !.files = files]
    BY <1>2 DEF Filed, CutShort
  <1> HIDE DEF p
  <1>4. ASSUME NEW files \in SUBSET Files, q = [p EXCEPT !.files = files]
        PROVE  /\ q \in RulebookProposal
               /\ q.state = p.state /\ q.passes = p.passes
               /\ q.firstContact = p.firstContact /\ q.offered = p.offered
               /\ q.heldMessages = p.heldMessages
    BY <1>1, <1>4, FilesOnly
  <1>5. /\ q \in RulebookProposal
        /\ q.state = p.state /\ q.passes = p.passes
        /\ q.firstContact = p.firstContact /\ q.offered = p.offered
        /\ q.heldMessages = p.heldMessages
    BY <1>1, <1>3, <1>4
  <1>6. QED
    BY <1>5 DEF p

-----------------------------------------------------------------------------
(* The pipeline. *)

LEMMA UpdateIsNews ==
    ASSUME NEW e, StatusOf(e) = "update"
    PROVE  IsNew(e)
  BY DEF StatusOf

(* What becomes of a message that walks the pipeline, to its end or until  *)
(* the process dies.                                                       *)
Walks(h, b, m) == Pipeline(h, b, m) \/ (h = held /\ DiesInPipeline(b, m))

(* What the pipeline may change, whatever becomes of the message. *)
LEMMA PipelineEffect ==
    ASSUME NEW h, NEW b, NEW m, Walks(h, b, m)
    PROVE  /\ quarantine' \subseteq quarantine \cup {m}
           /\ held' \subseteq h \cup {m}
           /\ inbox' \in {b, [b EXCEPT ![m] = "red"], [b EXCEPT ![m] = "green"]}
           /\ \/ rulebooks' = rulebooks
              \/ /\ IsNew(Cites[m]) /\ m \in Complete \ Tampered
                 /\ \E q \in Filed(m) : rulebooks' = [rulebooks EXCEPT ![Cites[m]] = q]
           /\ moves' \in MovesFiled(m)
  <1>a. moves \in MovesFiled(m)
    BY DEF MovesFiled
  <1>b. ASSUME NEW files \in SUBSET Files
        PROVE  NoticedMoves(m, files) \in MovesFiled(m)
    BY DEF MovesFiled
  <1>c. {} \in SUBSET Files /\ {"connections"} \in SUBSET Files
    BY DEF Files
  <1>1. CASE Quarantine(h, b, m)
    BY <1>1, <1>a DEF Quarantine, desk
  <1>2. CASE RefuseRetired(h, b, m)
    BY <1>2, <1>a DEF RefuseRetired, desk
  <1>3. CASE AskForRulebook(h, b, m)
    BY <1>3, <1>a DEF AskForRulebook, desk
  <1>4. CASE /\ StatusOf(Cites[m]) = "update" /\ m \in Complete /\ m \notin Tampered
             /\ HoldForReview(h, b, m)
    BY <1>4, <1>a, UpdateIsNews DEF HoldForReview, Filed
  <1>5. CASE DeliverToInbox(h, b, m)
    BY <1>5, <1>b, <1>c DEF DeliverToInbox
  <1>6. CASE h = held /\ DiesInPipeline(b, m)
    <2>0. inbox' = b /\ quarantine' = quarantine
      BY <1>6 DEF DiesInPipeline
    <2>1. CASE UNCHANGED <<held, desk>>
      BY <1>6, <2>0, <2>1, <1>a DEF desk
    <2>2. CASE m \notin Tampered /\ HeldUnasked(m)
      BY <1>6, <2>0, <2>2, <1>a DEF HeldUnasked, desk
    <2>3. CASE m \notin Tampered /\ StatusOf(Cites[m]) = "update" /\ FiledOnly(m)
      <3>1. m \in Complete /\ held' = held /\ moves' = moves
        BY <2>3 DEF FiledOnly
      <3>2. \E q \in Filed(m) : rulebooks' = [rulebooks EXCEPT ![Cites[m]] = q]
        BY <2>3 DEF FiledOnly, Filed
      <3>3. QED
        BY <1>6, <2>0, <2>3, <3>1, <3>2, <1>a, UpdateIsNews
    <2>4. CASE MoveFiledOnly(m)
      <3>1. held' = held /\ rulebooks' = rulebooks
        BY <2>4 DEF MoveFiledOnly
      <3>2. moves' \in MovesFiled(m)
        BY <2>4, <1>b, <1>c DEF MoveFiledOnly
      <3>3. QED
        BY <1>6, <2>0, <3>1, <3>2
    <2>5. QED
      BY <1>6, <2>1, <2>2, <2>3, <2>4 DEF DiesInPipeline
  <1>7. QED
    BY <1>1, <1>2, <1>3, <1>4, <1>5, <1>6 DEF Walks, Pipeline

(* Taken together, for a message whose file verified. *)
Processed(m) ==
    /\ \/ rulebooks' = rulebooks
       \/ /\ IsNew(Cites[m]) /\ m \in Verified
          /\ \E q \in Filed(m) : rulebooks' = [rulebooks EXCEPT ![Cites[m]] = q]
    /\ moves' \in MovesFiled(m)

LEMMA ProcessedKeepsRulebooks ==
    ASSUME TypeOK, AppliedIsAccepted, HeldVerified, NEW m \in Messages, Processed(m)
    PROVE  /\ rulebooks' \in [Editions -> RulebookProposal \cup {NoProposal}]
           /\ RulebooksKept /\ SameDecisions
           /\ HeldVerified'
  <1>1. CASE rulebooks' = rulebooks
    BY <1>1 DEF TypeOK, RulebooksKept, SameDecisions, HeldVerified, Decided, Verified
  <1>2. ASSUME IsNew(Cites[m]), m \in Verified, NEW q \in Filed(m),
               rulebooks' = [rulebooks EXCEPT ![Cites[m]] = q]
        PROVE  /\ rulebooks' \in [Editions -> RulebookProposal \cup {NoProposal}]
               /\ RulebooksKept /\ SameDecisions
               /\ HeldVerified'
    <2> DEFINE c == Cites[m]
               p == rulebooks[c]
    <2>1. c \in Editions /\ p \in RulebookProposal \cup {NoProposal}
      BY MessageAssumption DEF TypeOK
    <2>2. /\ q \in RulebookProposal
          /\ q.state = NoticedRulebook(m).state /\ q.passes = NoticedRulebook(m).passes
          /\ q.firstContact = NoticedRulebook(m).firstContact
          /\ q.offered = NoticedRulebook(m).offered
          /\ q.heldMessages = NoticedRulebook(m).heldMessages
      BY FiledLikeNoticed
    <2>3. p.state # "applied"
      BY <1>2, <2>1, AcceptedIsNoNews DEF AppliedIsAccepted
    <2>4. /\ rulebooks' \in [Editions -> RulebookProposal \cup {NoProposal}]
          /\ rulebooks'[c] = q
          /\ \A e \in Editions \ {c} : rulebooks'[e] = rulebooks[e]
      BY <1>2, <2>1, <2>2 DEF TypeOK
    <2>5. q # NoProposal
      BY <2>2, ProposalState DEF RulebookProposal, ProposalStates, NoProposal
    <2>6. CASE Pending(p)
      <3>1. p \in RulebookProposal
        BY <2>1, <2>6 DEF Pending, NoProposal
      <3>2. NoticedRulebook(m) = [p EXCEPT !.heldMessages = @ \cup {m}]
        BY <2>6 DEF NoticedRulebook
      <3>3. p # NoProposal
        BY <2>6 DEF Pending, NoProposal
      <3>4. /\ q.state = p.state /\ q.passes = p.passes
            /\ q.firstContact = p.firstContact /\ q.offered = p.offered
            /\ q.heldMessages = p.heldMessages \cup {m}
        BY <2>2, <3>1, <3>2 DEF RulebookProposal
      <3>5. q.heldMessages \subseteq Verified
        BY <1>2, <2>1, <3>3, <3>4 DEF HeldVerified
      <3>6. QED
        BY <2>4, <2>5, <3>4, <3>5 DEF RulebooksKept, SameDecisions, HeldVerified, Decided, Verified
    <2>7. CASE ~Pending(p) /\ p.state = "rejected"
      <3>1. NoticedRulebook(m) = p
        BY <2>7 DEF NoticedRulebook
      <3>2. p # NoProposal
        BY <2>7 DEF NoProposal
      <3>3. /\ q.state = p.state /\ q.passes = p.passes
            /\ q.firstContact = p.firstContact /\ q.offered = p.offered
            /\ q.heldMessages = p.heldMessages
        BY <2>2, <3>1
      <3>4. q.heldMessages \subseteq Verified
        BY <2>1, <3>2, <3>3 DEF HeldVerified
      <3>5. QED
        BY <2>4, <2>5, <3>3, <3>4 DEF RulebooksKept, SameDecisions, HeldVerified, Decided, Verified
    <2>8. CASE ~Pending(p) /\ p.state # "rejected"
      <3>0. q.state = "waiting_for_review"
        BY <2>2, <2>8 DEF NoticedRulebook, NewRulebookProposal
      <3>1. p = NoProposal
        BY <2>1, <2>3, <2>8 DEF Pending, RulebookProposal, ProposalStates
      <3>2. q.heldMessages = {m}
        BY <2>2, <2>8 DEF NoticedRulebook, NewRulebookProposal
      <3>3. p.state = "none"
        BY <3>1 DEF NoProposal
      <3>4. QED
        BY <1>2, <2>4, <3>0, <3>1, <3>2, <3>3 DEF RulebooksKept, SameDecisions, HeldVerified, Decided, Verified
    <2>9. QED
      BY <2>6, <2>7, <2>8
  <1>3. QED
    BY <1>1, <1>2 DEF Processed

LEMMA ProcessedKeepsMoves ==
    ASSUME TypeOK, NEW m \in Messages, Processed(m)
    PROVE  /\ moves' \in [ConnectionSets -> MoveProposal \cup {NoProposal}]
           /\ MovesKept /\ SameMoveDecisions
  <1>1. CASE moves' = moves
    BY <1>1 DEF TypeOK, MovesKept, SameMoveDecisions, Decided
  <1>2. ASSUME NEW files \in SUBSET Files, moves' = NoticedMoves(m, files)
        PROVE  /\ moves' \in [ConnectionSets -> MoveProposal \cup {NoProposal}]
               /\ MovesKept /\ SameMoveDecisions
    <2>1. \A c \in ConnectionSets : moves'[c] = moves[c] \/ moves[c] = NoProposal
      BY <1>2 DEF NoticedMoves, TypeOK
    <2>2. \A c \in ConnectionSets : moves[c] = NoProposal => moves[c].state = "none"
      BY DEF NoProposal
    <2>3. QED
      BY <1>2, <2>1, <2>2, NoticedMovesType DEF MovesKept, SameMoveDecisions, Decided
  <1>3. QED
    BY <1>1, <1>2 DEF Processed, MovesFiled

-----------------------------------------------------------------------------
(* What is live stays approved. *)

LEMMA LiveStaysApproved ==
    ASSUME TypeOK, OnlyApprovedIsLive, RulebooksKept, MovesKept, HeldVerified',
           UNCHANGED trusted
    PROVE  OnlyApprovedIsLive'
  <1>1. \A e : Decided(rulebooks[e]) => rulebooks[e] # NoProposal
    BY DEF Decided, NoProposal
  <1>2. \A e \in Editions : Decided(rulebooks[e]) =>
          /\ Decided(rulebooks'[e])
          /\ rulebooks'[e].passes = rulebooks[e].passes
          /\ rulebooks'[e].firstContact = rulebooks[e].firstContact
          /\ rulebooks'[e].offered = rulebooks[e].offered
    BY <1>1 DEF RulebooksKept, Decided
  <1>3. \A c \in ConnectionSets : (Decided(moves[c]) /\ moves[c].outOfBand) =>
          Decided(moves'[c]) /\ moves'[c].outOfBand
    BY DEF MovesKept, Decided
  <1>4. \A i \in DOMAIN accepting : accepting[i].edition \in Editions
    BY AcceptingType DEF TrustedVersion
  <1>5. \A i \in DOMAIN accepting' :
          Decided(rulebooks'[accepting'[i].edition]) /\ rulebooks'[accepting'[i].edition].passes
    BY <1>2, <1>4 DEF OnlyApprovedIsLive, trusted
  <1>6. partner' => \E e \in Editions : Decided(rulebooks'[e]) /\ rulebooks'[e].firstContact
    BY <1>2 DEF OnlyApprovedIsLive, trusted
  <1>7. ASSUME connections' # NoConnections
        PROVE  \/ \E e \in Editions : /\ Decided(rulebooks'[e])
                                      /\ rulebooks'[e].firstContact
                                      /\ rulebooks'[e].offered = connections'
               \/ Decided(moves'[connections']) /\ moves'[connections'].outOfBand
    BY <1>2, <1>3, <1>7 DEF OnlyApprovedIsLive, trusted, TypeOK
  <1>8. \A e \in Editions : rulebooks'[e] # NoProposal =>
          rulebooks'[e].heldMessages \subseteq Complete \ (Unsigned \cup Tampered)
    BY DEF HeldVerified, Verified, NoProposal
  <1>9. QED
    BY <1>5, <1>6, <1>7, <1>8, Zenon DEF OnlyApprovedIsLive, Decided, NoProposal

(* A step of receiving keeps the invariant but for what it does to work.   *)
LEMMA ProcessedStep ==
    ASSUME DeskInv, NEW m \in Messages, Processed(m), UNCHANGED trusted
    PROVE  /\ rulebooks' \in [Editions -> RulebookProposal \cup {NoProposal}]
           /\ moves' \in [ConnectionSets -> MoveProposal \cup {NoProposal}]
           /\ AppliedIsAccepted'
           /\ OnlyApprovedIsLive'
           /\ (RulebookWorkOK /\ work' = work /\ archive \subseteq archive') => RulebookWorkOK'
           /\ (MoveWorkOK /\ work' = work) => MoveWorkOK'
  <1> USE DEF DeskInv
  <1>1. HeldVerified
    BY DEF OnlyApprovedIsLive, HeldVerified, Verified
  <1>2. /\ rulebooks' \in [Editions -> RulebookProposal \cup {NoProposal}]
        /\ RulebooksKept /\ SameDecisions /\ HeldVerified'
    BY <1>1, ProcessedKeepsRulebooks
  <1>3. /\ moves' \in [ConnectionSets -> MoveProposal \cup {NoProposal}]
        /\ MovesKept /\ SameMoveDecisions
    BY ProcessedKeepsMoves
  <1>4. AppliedIsAccepted'
    BY <1>2 DEF AppliedIsAccepted, SameDecisions, Accepted, trusted
  <1>5. OnlyApprovedIsLive'
    BY <1>2, <1>3, LiveStaysApproved
  <1>6. ASSUME RulebookWorkOK, work' = work, archive \subseteq archive'
        PROVE  RulebookWorkOK'
    <2>1. work.edition \in Editions
      BY <1>6 DEF RulebookWorkOK, RulebookWork
    <2>2. rulebooks[work.edition].state = "approved" => rulebooks[work.edition] # NoProposal
      BY DEF NoProposal
    <2>3. QED
      BY <1>2, <1>6, <2>1, <2>2
      DEF RulebookWorkOK, RulebooksKept, SameDecisions, Accepted, trusted
  <1>7. ASSUME MoveWorkOK, work' = work
        PROVE  MoveWorkOK'
    <2>1. work.offered \in ConnectionSets
      BY <1>7 DEF MoveWorkOK, MoveWork
    <2>2. QED
      BY <1>3, <1>7, <2>1 DEF MoveWorkOK, SameMoveDecisions
  <1>8. QED
    BY <1>2, <1>3, <1>4, <1>5, <1>6, <1>7

-----------------------------------------------------------------------------
(* Receiving. *)

LEMMA PipelineStep ==
    ASSUME DeskInv, NEW h, NEW b, NEW m \in Messages \ Unsigned, Walks(h, b, m),
           UNCHANGED trusted, crashes' \in 0..MaxCrashes,
           archive' \subseteq Messages, archive \cup {m} \subseteq archive',
           h \subseteq archive', b \in [Messages -> {"none", "green", "red"}],
           work' \in RulebookWork \cup MoveWork \cup {NoWork}
    PROVE  TypeOK' /\ Processed(m)
  <1>1. Processed(m)
    BY PipelineEffect DEF Processed, Verified
  <1>2. /\ rulebooks' \in [Editions -> RulebookProposal \cup {NoProposal}]
        /\ moves' \in [ConnectionSets -> MoveProposal \cup {NoProposal}]
    BY <1>1, ProcessedStep
  <1>3. /\ quarantine' \subseteq archive'
        /\ held' \subseteq archive'
        /\ inbox' \in [Messages -> {"none", "green", "red"}]
    BY PipelineEffect DEF DeskInv, TypeOK
  <1>4. QED
    BY <1>1, <1>2, <1>3 DEF DeskInv, TypeOK, trusted

LEMMA CrashCount ==
    ASSUME TypeOK, crashes' = crashes \/ Dies
    PROVE  crashes' \in 0..MaxCrashes
  BY DeskAssumption DEF TypeOK, Dies

LEMMA DeskUntouched ==
    ASSUME DeskInv, UNCHANGED <<desk, trusted>>
    PROVE  AppliedIsAccepted' /\ OnlyApprovedIsLive'
  BY DEF DeskInv, AppliedIsAccepted, OnlyApprovedIsLive, Accepted, Decided, desk, trusted

LEMMA SameWork ==
    ASSUME DeskInv, UNCHANGED <<desk, trusted, work>>, archive \subseteq archive'
    PROVE  WorkOK'
  BY DEF DeskInv, WorkOK, RulebookWorkOK, MoveWorkOK, Accepted, desk, trusted

Receives(m) == Ingest(m) \/ DiesIngesting(m) \/ ReprocessInbound(m) \/ DiesReprocessing(m)

LEMMA ReceiveStep ==
    ASSUME DeskInv, NEW m \in Messages, Receives(m)
    PROVE  DeskInv'
  <1> USE DEF DeskInv
  <1>0. /\ crashes' \in 0..MaxCrashes
        /\ UNCHANGED <<trusted, work>> /\ archive \subseteq archive'
    BY CrashCount DEF Receives, Ingest, DiesIngesting, ReprocessInbound, DiesReprocessing
  <1>1. CASE (Ingest(m) \/ DiesIngesting(m)) /\ m \in Unsigned
    <2>1. /\ UNCHANGED desk
          /\ archive' = archive \cup {m} /\ quarantine' \subseteq quarantine \cup {m}
          /\ held' = held /\ inbox' = inbox
      BY <1>1 DEF Ingest, DiesIngesting, Quarantine
    <2>2. TypeOK'
      BY <1>0, <2>1 DEF TypeOK, desk, trusted
    <2>3. QED
      BY <1>0, <2>1, <2>2, DeskUntouched, SameWork
  <1>2. CASE (Ingest(m) \/ DiesIngesting(m)) /\ m \notin Unsigned
    <2>1. TypeOK' /\ Processed(m)
      <3>1. Walks(held, inbox, m) /\ archive' = archive \cup {m}
        BY <1>2 DEF Ingest, DiesIngesting, Walks
      <3>2. QED
        BY <1>0, <1>2, <3>1, PipelineStep DEF TypeOK
    <2>2. WorkOK'
      BY <1>0, <2>1, ProcessedStep DEF WorkOK
    <2>3. QED
      BY <1>0, <2>1, <2>2, ProcessedStep
  <1>3. CASE ReprocessInbound(m) \/ DiesReprocessing(m)
    <2>1. TypeOK' /\ Processed(m)
      <3> DEFINE b == [inbox EXCEPT ![m] = "none"]
      <3>1. Walks(held, b, m) /\ m \in archive \ Unsigned /\ archive' = archive
        BY <1>3 DEF ReprocessInbound, DiesReprocessing, Walks
      <3>2. b \in [Messages -> {"none", "green", "red"}]
        BY DEF TypeOK
      <3> HIDE DEF b
      <3>3. QED
        BY <1>0, <3>1, <3>2, PipelineStep DEF TypeOK
    <2>2. WorkOK'
      BY <1>0, <2>1, ProcessedStep DEF WorkOK
    <2>3. QED
      BY <1>0, <2>1, <2>2, ProcessedStep
  <1>4. QED
    BY <1>1, <1>2, <1>3 DEF Receives

(* The message a deciding process has in hand is verified and archived.    *)
LEMMA InHand ==
    ASSUME DeskInv, NEW m \in Messages, Resume(m) \/ DiesResuming(m)
    PROVE  RulebookWorkOK /\ work.step = "resume" /\ m \in Verified \cap archive
  <1>1. work.step = "resume"
    BY DEF Resume, DiesResuming, At
  <1>2. work # NoWork /\ ~MoveWorkOK
    BY <1>1 DEF NoWork, MoveWorkOK
  <1>3. RulebookWorkOK
    BY <1>2 DEF DeskInv, WorkOK
  <1>4. QED
    BY <1>1, <1>3 DEF Resume, DiesResuming, RulebookWorkOK

LEMMA ResumeStep ==
    ASSUME DeskInv, NEW m \in Messages, Resume(m) \/ DiesResuming(m)
    PROVE  DeskInv'
  <1> USE DEF DeskInv
  <1>1. RulebookWorkOK /\ m \in Verified \cap archive
    BY InHand
  <1>2. /\ Walks(held, inbox, m)
        /\ archive' = archive /\ UNCHANGED trusted /\ crashes' \in 0..MaxCrashes
    BY CrashCount DEF Resume, DiesResuming, Walks
  <1>3. ASSUME Resume(m)
        PROVE  RulebookWorkOK'
    <2>1. /\ work' \in RulebookWork
          /\ work'.step = "release"
          /\ work'.inHand = {}
          /\ work'.release = work.release
          /\ work'.record = work.record /\ work'.offered = work.offered
      BY <1>1, <1>3 DEF Resume, RulebookWorkOK, RulebookWork, Steps
    <2>2. QED
      BY <1>1, <2>1 DEF RulebookWorkOK
  <1>4. work' = NoWork \/ RulebookWorkOK'
    BY <1>3 DEF DiesResuming
  <1>5. WorkOK' /\ work' \in RulebookWork \cup MoveWork \cup {NoWork}
    BY <1>4 DEF WorkOK, RulebookWorkOK
  <1>6. TypeOK' /\ Processed(m)
    BY <1>1, <1>2, <1>5, PipelineStep DEF TypeOK, Verified
  <1>7. QED
    BY <1>2, <1>5, <1>6, ProcessedStep

-----------------------------------------------------------------------------
(* Deciding. *)

(* Which decision is being carried out, from the step it is at. *)
LEMMA WhichWork ==
    ASSUME WorkOK
    PROVE  /\ work.step \in {"trust", "pin", "release", "resume", "remove"} => RulebookWorkOK
           /\ (work.step \in Steps /\ OfRulebook) => RulebookWorkOK
           /\ (work.step \in Steps /\ ~OfRulebook) => MoveWorkOK
  <1>1. NoWork.step \notin Steps
    BY DEF NoWork, Steps
  <1>2. RulebookWorkOK => OfRulebook
    BY WorkKinds DEF RulebookWorkOK
  <1>3. MoveWorkOK => ~OfRulebook
    BY WorkKinds DEF MoveWorkOK
  <1>4. MoveWorkOK => work.step \in {"connect", "apply", "tell", "refuse"}
    BY DEF MoveWorkOK
  <1>5. (work.step \in {"trust", "pin", "release", "resume", "remove"}) => work.step \in Steps
    BY DEF Steps
  <1>6. QED
    BY <1>1, <1>2, <1>3, <1>4, <1>5 DEF WorkOK

(* A decision writes one proposal: it was waiting, or approved and stays   *)
(* decided; nothing else about it changes but the messages held for it.    *)
LEMMA DecisionWritten ==
    ASSUME DeskInv, NEW e \in Editions, NEW r \in RulebookProposal,
           rulebooks' = [rulebooks EXCEPT ![e] = r],
           \/ Waits(rulebooks[e])
           \/ rulebooks[e].state = "approved" /\ Decided(r),
           r.passes = rulebooks[e].passes,
           r.firstContact = rulebooks[e].firstContact,
           r.offered = rulebooks[e].offered,
           r.heldMessages \subseteq Verified
    PROVE  /\ rulebooks' \in [Editions -> RulebookProposal \cup {NoProposal}]
           /\ RulebooksKept
           /\ HeldVerified'
  <1>1. /\ rulebooks' \in [Editions -> RulebookProposal \cup {NoProposal}]
        /\ rulebooks'[e] = r
        /\ \A f \in Editions \ {e} : rulebooks'[f] = rulebooks[f]
    BY DEF DeskInv, TypeOK
  <1>2. r # NoProposal
    BY ProposalState DEF RulebookProposal, ProposalStates, NoProposal
  <1>3. RulebooksKept
    BY <1>1, <1>2 DEF RulebooksKept, Decided, Waits
  <1>4. HeldVerified'
    BY <1>1 DEF HeldVerified, DeskInv, OnlyApprovedIsLive, Verified
  <1>5. QED
    BY <1>1, <1>3, <1>4

(* The proposal a person decides about. *)
LEMMA Waiting ==
    ASSUME DeskInv, NEW e \in Editions, Waits(rulebooks[e])
    PROVE  /\ rulebooks[e] \in RulebookProposal
           /\ rulebooks[e].heldMessages \subseteq Verified
  <1>1. rulebooks[e] # NoProposal
    BY DEF Waits, NoProposal
  <1>2. QED
    BY <1>1 DEF DeskInv, TypeOK, OnlyApprovedIsLive, Verified

LEMMA SameMoves ==
    ASSUME TypeOK, moves' = moves
    PROVE  MovesKept
  BY DEF MovesKept, Decided

LEMMA SameRulebooks ==
    ASSUME DeskInv, rulebooks' = rulebooks
    PROVE  RulebooksKept /\ HeldVerified'
  BY DEF DeskInv, OnlyApprovedIsLive, RulebooksKept, HeldVerified, Decided, Verified

LEMMA ApproveRulebookStep ==
    ASSUME DeskInv, NEW e \in Editions, ApproveRulebook(e)
    PROVE  DeskInv' /\ RulebooksKept /\ MovesKept
  <1> DEFINE p == rulebooks[e]
             r == [p EXCEPT !.state = "approved"]
  <1>1. /\ p \in RulebookProposal /\ p.heldMessages \subseteq Verified
        /\ Waits(p) /\ p.passes
    BY Waiting DEF ApproveRulebook
  <1>2. /\ r \in RulebookProposal
        /\ r.state = "approved" /\ r.passes
        /\ r.firstContact = p.firstContact /\ r.offered = p.offered
        /\ r.heldMessages = p.heldMessages
    BY <1>1 DEF RulebookProposal, ProposalStates
  <1>3. rulebooks' = [rulebooks EXCEPT ![e] = r]
    BY DEF ApproveRulebook
  <1>4. UNCHANGED <<intake, moves, trusted, notes, crashes>>
    BY DEF ApproveRulebook
  <1>5. rulebooks'[e] = r
    BY <1>3 DEF DeskInv, TypeOK
  <1>6. work' = RulebookDecision(e, "trust", r)
    BY <1>5 DEF ApproveRulebook
  <1> HIDE DEF r
  <1>7. /\ rulebooks' \in [Editions -> RulebookProposal \cup {NoProposal}]
        /\ RulebooksKept /\ HeldVerified'
    BY <1>1, <1>2, <1>3, DecisionWritten
  <1>8. MovesKept
    BY <1>4, SameMoves DEF DeskInv
  <1>9. OnlyApprovedIsLive'
    BY <1>4, <1>7, <1>8, LiveStaysApproved DEF DeskInv
  <1>10. AppliedIsAccepted'
    BY <1>2, <1>3, <1>4, <1>5 DEF AppliedIsAccepted, Accepted, DeskInv, TypeOK, trusted
  <1>11. /\ work' \in RulebookWork
         /\ work'.step = "trust" /\ work'.edition = e /\ work'.record = r
         /\ work'.offered \in {r.offered, NoConnections}
         /\ work'.release = {} /\ work'.inHand = {}
    BY <1>2, <1>6 DEF RulebookDecision, RulebookWork, RulebookProposal, Steps, Stored
  <1>12. RulebookWorkOK'
    BY <1>1, <1>2, <1>5, <1>11 DEF RulebookWorkOK
  <1>13. TypeOK'
    BY <1>4, <1>7, <1>11 DEF DeskInv, TypeOK, intake, trusted
  <1>14. QED
    BY <1>7, <1>8, <1>9, <1>10, <1>12, <1>13 DEF DeskInv, WorkOK

LEMMA RejectRulebookStep ==
    ASSUME DeskInv, NEW e \in Editions, RejectRulebook(e)
    PROVE  DeskInv' /\ RulebooksKept /\ MovesKept
  <1> DEFINE p == rulebooks[e]
             r == [p EXCEPT !.state = "rejected"]
  <1>1. /\ p \in RulebookProposal /\ p.heldMessages \subseteq Verified
        /\ Waits(p)
    BY Waiting DEF RejectRulebook
  <1>2. /\ r \in RulebookProposal
        /\ r.state = "rejected" /\ r.passes = p.passes
        /\ r.firstContact = p.firstContact /\ r.offered = p.offered
        /\ r.heldMessages = p.heldMessages
    BY <1>1 DEF RulebookProposal, ProposalStates
  <1>3. rulebooks' = [rulebooks EXCEPT ![e] = r]
    BY DEF RejectRulebook
  <1>4. UNCHANGED <<intake, moves, trusted, notes, crashes>>
    BY DEF RejectRulebook
  <1>5. rulebooks'[e] = r
    BY <1>3 DEF DeskInv, TypeOK
  <1>6. work' = RulebookDecision(e, "refuse", r)
    BY <1>5 DEF RejectRulebook
  <1> HIDE DEF r
  <1>7. /\ rulebooks' \in [Editions -> RulebookProposal \cup {NoProposal}]
        /\ RulebooksKept /\ HeldVerified'
    BY <1>1, <1>2, <1>3, DecisionWritten
  <1>8. MovesKept
    BY <1>4, SameMoves DEF DeskInv
  <1>9. OnlyApprovedIsLive'
    BY <1>4, <1>7, <1>8, LiveStaysApproved DEF DeskInv
  <1>10. AppliedIsAccepted'
    BY <1>2, <1>3, <1>4, <1>5 DEF AppliedIsAccepted, Accepted, DeskInv, TypeOK, trusted
  <1>11. /\ work' \in RulebookWork
         /\ work'.step = "refuse" /\ work'.edition = e /\ work'.record = r
         /\ work'.offered \in {r.offered, NoConnections}
         /\ work'.release = {} /\ work'.inHand = {}
    BY <1>2, <1>6 DEF RulebookDecision, RulebookWork, RulebookProposal, Steps, Stored
  <1>12. RulebookWorkOK'
    BY <1>1, <1>2, <1>5, <1>11 DEF RulebookWorkOK
  <1>13. TypeOK'
    BY <1>4, <1>7, <1>11 DEF DeskInv, TypeOK, intake, trusted
  <1>14. QED
    BY <1>7, <1>8, <1>9, <1>10, <1>12, <1>13 DEF DeskInv, WorkOK

(* Approving or rejecting channels. *)
LEMMA DecideMoveStep ==
    ASSUME DeskInv, NEW c \in ConnectionSets, ApproveMove(c) \/ RejectMove(c)
    PROVE  DeskInv' /\ RulebooksKept /\ MovesKept
  <1>1. /\ moves[c].state = "waiting_for_review"
        /\ UNCHANGED <<intake, rulebooks, trusted, notes, crashes>>
    BY DEF ApproveMove, RejectMove, Waits
  <1>2. moves[c] \in MoveProposal
    BY <1>1 DEF DeskInv, TypeOK, NoProposal
  <1>3. /\ moves' \in [ConnectionSets -> MoveProposal \cup {NoProposal}]
        /\ \A d \in ConnectionSets \ {c} : moves'[d] = moves[d]
        /\ moves'[c] \in MoveProposal
        /\ WorkOK' /\ work' \in MoveWork
    <2>1. CASE ApproveMove(c)
      <3> DEFINE r == [moves[c] EXCEPT !.state = "approved", !.outOfBand = TRUE]
      <3>0. r \in MoveProposal /\ r.state = "approved" /\ r.outOfBand
        BY <1>2 DEF MoveProposal, ProposalStates
      <3>1. moves' = [moves EXCEPT ![c] = r]
        BY <2>1 DEF ApproveMove
      <3> HIDE DEF r
      <3>2. moves'[c] = r
        BY <3>1 DEF DeskInv, TypeOK
      <3>3. /\ work' \in MoveWork /\ work'.step = "connect"
            /\ work'.offered = c /\ work'.record = r
        BY <2>1, <3>0, <3>1, <3>2 DEF ApproveMove, MoveDecision, MoveWork, Steps
      <3>4. QED
        BY <3>0, <3>1, <3>2, <3>3 DEF DeskInv, TypeOK, WorkOK, MoveWorkOK
    <2>2. CASE RejectMove(c)
      <3> DEFINE r == [moves[c] EXCEPT !.state = "rejected"]
      <3>1. r \in MoveProposal /\ moves' = [moves EXCEPT ![c] = r]
        BY <1>2, <2>2 DEF RejectMove, MoveProposal, ProposalStates
      <3> HIDE DEF r
      <3>2. moves'[c] = r
        BY <3>1 DEF DeskInv, TypeOK
      <3>3. /\ work' \in MoveWork /\ work'.step = "refuse"
        BY <2>2, <3>1, <3>2 DEF RejectMove, MoveDecision, MoveWork, Steps
      <3>4. QED
        BY <3>1, <3>2, <3>3 DEF DeskInv, TypeOK, WorkOK, MoveWorkOK
    <2>3. QED
      BY <2>1, <2>2
  <1>4. MovesKept
    BY <1>1, <1>3 DEF MovesKept, Decided
  <1>5. RulebooksKept /\ HeldVerified'
    BY <1>1, SameRulebooks
  <1>6. OnlyApprovedIsLive'
    BY <1>1, <1>4, <1>5, LiveStaysApproved DEF DeskInv
  <1>7. AppliedIsAccepted'
    BY <1>1 DEF DeskInv, AppliedIsAccepted, Accepted, trusted
  <1>8. TypeOK'
    BY <1>1, <1>3 DEF DeskInv, TypeOK, intake, trusted
  <1>9. QED
    BY <1>3, <1>4, <1>5, <1>6, <1>7, <1>8 DEF DeskInv

-----------------------------------------------------------------------------
(* Carrying out. *)

(* Superseding changes no edition: an entry may get an end of its overlap. *)
LEMMA SupersededSeq ==
    ASSUME TypeOK, NEW e \in Editions
    PROVE  /\ Superseded(e) \in Seq(TrustedVersion)
           /\ Len(Superseded(e)) = Len(accepting)
           /\ \A i \in 1..Len(accepting) :
                /\ Superseded(e)[i].edition = accepting[i].edition
                /\ \/ Superseded(e)[i].until = accepting[i].until
                   \/ Superseded(e)[i].until = OverlapEnd(e)
  <1> DEFINE s == Superseded(e)
  <1>1. accepting \in Seq(TrustedVersion) /\ Len(accepting) \in Nat
    BY DEF TypeOK
  <1>2. \A i \in 1..Len(accepting) :
          /\ s[i] \in TrustedVersion /\ s[i].edition = accepting[i].edition
          /\ s[i].until = accepting[i].until \/ s[i].until = OverlapEnd(e)
    BY AcceptingType DEF Superseded, TrustedVersion, OverlapEnd, Ends
  <1>3. DOMAIN s = 1..Len(accepting)
    BY AcceptingType DEF Superseded
  <1>4. s = [i \in 1..Len(accepting) |-> s[i]]
    BY <1>3 DEF Superseded
  <1> HIDE DEF s
  <1>5. s \in [1..Len(accepting) -> TrustedVersion]
    BY <1>2, <1>4
  <1>6. s \in Seq(TrustedVersion)
    BY <1>1, <1>5, SeqDef
  <1>7. Len(s) = Len(accepting)
    BY <1>1, <1>3, <1>6
  <1>8. QED
    BY <1>2, <1>6, <1>7 DEF s

LEMMA SupersededType ==
    ASSUME TypeOK, NEW e \in Editions, NEW f \in Editions
    PROVE  LET new == Append(Superseded(e), [edition |-> f, until |-> ""]) IN
           /\ new \in Seq(TrustedVersion)
           /\ DOMAIN new = 1..(Len(accepting) + 1)
           /\ \A i \in DOMAIN accepting :
                /\ new[i].edition = accepting[i].edition
                /\ \/ new[i].until = accepting[i].until
                   \/ new[i].until = OverlapEnd(e)
           /\ new[Len(accepting) + 1].edition = f
  <1> DEFINE s == Superseded(e)
             entry == [edition |-> f, until |-> ""]
             new == Append(s, entry)
  <1>1. /\ s \in Seq(TrustedVersion) /\ Len(s) = Len(accepting)
        /\ \A i \in 1..Len(accepting) :
             /\ s[i].edition = accepting[i].edition
             /\ s[i].until = accepting[i].until \/ s[i].until = OverlapEnd(e)
    BY SupersededSeq
  <1> HIDE DEF s
  <1>2. entry \in TrustedVersion
    BY DEF TrustedVersion, Ends
  <1> HIDE DEF entry
  <1>3. /\ new \in Seq(TrustedVersion)
        /\ Len(new) = Len(s) + 1
        /\ \A i \in 1..Len(s) : new[i] = s[i]
        /\ new[Len(s) + 1] = entry
    BY <1>1, <1>2, AppendProperties
  <1>4. DOMAIN new = 1..(Len(accepting) + 1)
    BY <1>1, <1>3
  <1>5. \A i \in DOMAIN accepting :
            /\ new[i].edition = accepting[i].edition
            /\ new[i].until = accepting[i].until \/ new[i].until = OverlapEnd(e)
    BY <1>1, <1>3, AcceptingType
  <1>6. entry.edition = f
    BY DEF entry
  <1>7. QED
    BY <1>1, <1>3, <1>4, <1>5, <1>6 DEF s, entry

LEMMA ApplyTrustStep ==
    ASSUME DeskInv, NEW e \in Editions, ApplyTrust(e)
    PROVE  DeskInv'
  <1> USE DEF DeskInv
  <1>1. RulebookWorkOK /\ work.step = "trust" /\ work.edition = e
    BY WhichWork DEF ApplyTrust, At
  <1>2. /\ rulebooks[e].state = "approved" /\ rulebooks[e].passes
        /\ work.record.firstContact = rulebooks[e].firstContact
        /\ work.record.passes
        /\ work.record.offered = rulebooks[e].offered
    BY <1>1 DEF RulebookWorkOK
  <1>3. /\ accepting' \in Seq(TrustedVersion)
        /\ DOMAIN accepting' = 1..(Len(accepting) + 1)
        /\ \A i \in DOMAIN accepting : accepting'[i].edition = accepting[i].edition
        /\ accepting'[Len(accepting) + 1].edition = e
    BY SupersededType DEF ApplyTrust
  <1>4. DOMAIN accepting = 1..Len(accepting) /\ Len(accepting) \in Nat
    BY AcceptingType DEF TypeOK
  <1>5. UNCHANGED <<intake, desk, partner, connections, notes, crashes>>
    BY DEF ApplyTrust
  <1>6. \A f \in Editions : Accepted(f) => Accepted(f)'
    <2>1. \A i \in DOMAIN accepting : i \in DOMAIN accepting'
      BY <1>3, <1>4
    <2>2. QED
      BY <1>3, <2>1 DEF Accepted
  <1>7. Accepted(e)'
    BY <1>3, <1>4 DEF Accepted
  <1>8. AppliedIsAccepted'
    BY <1>5, <1>6 DEF AppliedIsAccepted, desk
  <1>9. \A i \in DOMAIN accepting' :
          Decided(rulebooks'[accepting'[i].edition]) /\ rulebooks'[accepting'[i].edition].passes
    <2>1. \A i \in DOMAIN accepting :
            Decided(rulebooks[accepting[i].edition]) /\ rulebooks[accepting[i].edition].passes
      BY DEF OnlyApprovedIsLive
    <2>2. Decided(rulebooks[e])
      BY <1>2 DEF Decided
    <2>3. \A i \in DOMAIN accepting' : i \in DOMAIN accepting \/ i = Len(accepting) + 1
      BY <1>3, <1>4
    <2>4. rulebooks' = rulebooks
      BY <1>5 DEF desk
    <2>5. QED
      BY <1>2, <1>3, <2>1, <2>2, <2>3, <2>4
  <1>10. OnlyApprovedIsLive'
    BY <1>5, <1>9 DEF OnlyApprovedIsLive, Decided, desk
  <1>11. /\ work' \in RulebookWork
         /\ work'.step \in {"pin", "apply"}
         /\ work'.step = "pin" => work.record.firstContact
         /\ work'.edition = e /\ work'.record = work.record /\ work'.offered = work.offered
         /\ work'.release = work.release /\ work'.inHand = work.inHand
    BY <1>1 DEF ApplyTrust, RulebookWorkOK, RulebookWork, Steps
  <1>12. RulebookWorkOK'
    BY <1>1, <1>2, <1>5, <1>7, <1>11 DEF RulebookWorkOK, intake, desk
  <1>13. TypeOK'
    BY <1>3, <1>5, <1>11 DEF TypeOK, intake, desk
  <1>14. QED
    BY <1>8, <1>10, <1>12, <1>13 DEF WorkOK

LEMMA PinPartnerStep ==
    ASSUME DeskInv, PinPartner
    PROVE  DeskInv'
  <1> USE DEF DeskInv
  <1>1. RulebookWorkOK /\ work.step = "pin"
    BY WhichWork DEF PinPartner, At
  <1>2. /\ work.edition \in Editions
        /\ Decided(rulebooks[work.edition]) /\ rulebooks[work.edition].firstContact
    BY <1>1 DEF RulebookWorkOK, RulebookWork, Decided
  <1>3. /\ partner' = TRUE
        /\ UNCHANGED <<intake, desk, accepting, connections, notes, crashes>>
    BY DEF PinPartner
  <1>4. AppliedIsAccepted'
    BY <1>3 DEF AppliedIsAccepted, Accepted, desk
  <1>5. OnlyApprovedIsLive'
    BY <1>2, <1>3 DEF OnlyApprovedIsLive, Decided, desk
  <1>6. /\ work' \in RulebookWork
        /\ work'.step \in {"connect", "apply"}
        /\ work'.step = "connect" => work.offered # NoConnections
        /\ work'.edition = work.edition /\ work'.record = work.record
        /\ work'.offered = work.offered
        /\ work'.release = work.release /\ work'.inHand = work.inHand
    BY <1>1 DEF PinPartner, RulebookWorkOK, RulebookWork, Steps
  <1>7. RulebookWorkOK'
    BY <1>1, <1>3, <1>6 DEF RulebookWorkOK, Accepted, intake, desk
  <1>8. TypeOK'
    BY <1>3, <1>6 DEF TypeOK, intake, desk
  <1>9. QED
    BY <1>4, <1>5, <1>7, <1>8 DEF WorkOK

LEMMA StoreConnectionsStep ==
    ASSUME DeskInv, StoreConnections
    PROVE  DeskInv'
  <1> USE DEF DeskInv
  <1>1. /\ work.step = "connect"
        /\ connections' = work.offered
        /\ work' = [work EXCEPT !.step = "apply"]
        /\ UNCHANGED <<intake, desk, accepting, partner, notes, crashes>>
    BY DEF StoreConnections, At
  <1>2. AppliedIsAccepted'
    BY <1>1 DEF AppliedIsAccepted, Accepted, desk
  <1>3. CASE RulebookWorkOK
    <2>1. /\ work.edition \in Editions
          /\ Decided(rulebooks[work.edition]) /\ rulebooks[work.edition].firstContact
          /\ rulebooks[work.edition].offered = work.offered
      BY <1>1, <1>3 DEF RulebookWorkOK, RulebookWork, Decided
    <2>2. OnlyApprovedIsLive'
      BY <1>1, <2>1 DEF OnlyApprovedIsLive, Decided, desk
    <2>3. /\ work' \in RulebookWork /\ work'.step = "apply"
          /\ work'.edition = work.edition /\ work'.record = work.record
          /\ work'.offered = work.offered
          /\ work'.release = work.release /\ work'.inHand = work.inHand
      BY <1>1, <1>3 DEF RulebookWorkOK, RulebookWork, Steps
    <2>4. RulebookWorkOK'
      BY <1>1, <1>3, <2>3 DEF RulebookWorkOK, Accepted, intake, desk
    <2>5. work.offered \in ConnectionSets \cup {NoConnections}
      BY <1>3 DEF RulebookWorkOK, RulebookWork
    <2>6. TypeOK'
      BY <1>1, <2>3, <2>5 DEF TypeOK, intake, desk
    <2>7. QED
      BY <1>2, <2>2, <2>4, <2>6 DEF WorkOK
  <1>4. CASE MoveWorkOK
    <2>1. /\ work.offered \in ConnectionSets
          /\ Decided(moves[work.offered]) /\ moves[work.offered].outOfBand
      BY <1>1, <1>4 DEF MoveWorkOK, MoveWork, Decided
    <2>2. OnlyApprovedIsLive'
      BY <1>1, <2>1 DEF OnlyApprovedIsLive, Decided, desk
    <2>3. /\ work' \in MoveWork /\ work'.step = "apply"
          /\ work'.record = work.record /\ work'.offered = work.offered
      BY <1>1, <1>4 DEF MoveWorkOK, MoveWork, Steps
    <2>4. MoveWorkOK'
      BY <1>1, <1>4, <2>3 DEF MoveWorkOK, desk
    <2>5. TypeOK'
      BY <1>1, <2>1, <2>3 DEF TypeOK, intake, desk
    <2>6. QED
      BY <1>2, <2>2, <2>4, <2>5 DEF WorkOK
  <1>5. work # NoWork
    BY <1>1 DEF NoWork
  <1>6. QED
    BY <1>3, <1>4, <1>5 DEF WorkOK

(* The record saved at the end is the one loaded at the beginning: it      *)
(* keeps everything but the messages that joined meanwhile.                *)
LEMMA MarkAppliedStep ==
    ASSUME DeskInv, NEW e \in Editions, MarkApplied(e)
    PROVE  DeskInv' /\ RulebooksKept /\ MovesKept
  <1> DEFINE r == [work.record EXCEPT !.state = "applied"]
  <1>1. RulebookWorkOK /\ work.step = "apply" /\ work.edition = e
    BY WhichWork DEF MarkApplied, At, Steps, DeskInv
  <1>2. /\ rulebooks[e].state = "approved"
        /\ work.record \in RulebookProposal
        /\ work.record.heldMessages \subseteq Verified
        /\ work.record.passes = rulebooks[e].passes
        /\ work.record.firstContact = rulebooks[e].firstContact
        /\ work.record.offered = rulebooks[e].offered
        /\ Accepted(e)
    BY <1>1 DEF RulebookWorkOK, RulebookWork
  <1>3. /\ r \in RulebookProposal
        /\ r.state = "applied" /\ r.passes = work.record.passes
        /\ r.firstContact = work.record.firstContact
        /\ r.offered = work.record.offered
        /\ r.heldMessages = work.record.heldMessages
    BY <1>2 DEF RulebookProposal, ProposalStates
  <1>4. /\ rulebooks' = [rulebooks EXCEPT ![e] = r]
        /\ work' = [work EXCEPT !.step = "tell", !.release = work.record.heldMessages]
        /\ UNCHANGED <<intake, moves, trusted, notes, crashes>>
    BY DEF MarkApplied
  <1> HIDE DEF r
  <1>5. /\ rulebooks' \in [Editions -> RulebookProposal \cup {NoProposal}]
        /\ RulebooksKept /\ HeldVerified'
    BY <1>2, <1>3, <1>4, DecisionWritten DEF Decided
  <1>6. MovesKept
    BY <1>4, SameMoves DEF DeskInv
  <1>7. OnlyApprovedIsLive'
    BY <1>4, <1>5, <1>6, LiveStaysApproved DEF DeskInv
  <1>8. AppliedIsAccepted'
    BY <1>2, <1>4 DEF AppliedIsAccepted, Accepted, DeskInv, TypeOK, trusted
  <1>9. /\ work' \in RulebookWork
        /\ work'.step = "tell" /\ work'.record = work.record /\ work'.offered = work.offered
        /\ work'.release = work.record.heldMessages /\ work'.inHand = work.inHand
    BY <1>1, <1>2, <1>4 DEF RulebookWorkOK, RulebookWork, RulebookProposal, Steps
  <1>10. RulebookWorkOK'
    BY <1>1, <1>2, <1>4, <1>9 DEF RulebookWorkOK, intake
  <1>11. TypeOK'
    BY <1>4, <1>5, <1>9 DEF DeskInv, TypeOK, intake, trusted
  <1>12. QED
    BY <1>5, <1>6, <1>7, <1>8, <1>10, <1>11 DEF DeskInv, WorkOK

LEMMA MarkMovedStep ==
    ASSUME DeskInv, MarkMoved
    PROVE  DeskInv' /\ RulebooksKept /\ MovesKept
  <1> DEFINE c == work.offered
             r == [work.record EXCEPT !.state = "applied"]
  <1>1. MoveWorkOK /\ work.step = "apply"
    BY WhichWork DEF MarkMoved, At, Steps, DeskInv
  <1>2. /\ c \in ConnectionSets
        /\ moves[c].state = "approved" /\ moves[c].outOfBand
        /\ work.record \in MoveProposal /\ work.record.outOfBand
    BY <1>1 DEF MoveWorkOK, MoveWork
  <1>3. /\ r \in MoveProposal /\ r.state = "applied" /\ r.outOfBand
    BY <1>2 DEF MoveProposal, ProposalStates
  <1>4. /\ moves' = [moves EXCEPT ![c] = r]
        /\ work' = [work EXCEPT !.step = "tell"]
        /\ UNCHANGED <<intake, rulebooks, trusted, notes, crashes>>
    BY DEF MarkMoved
  <1> HIDE DEF r
  <1>5. /\ moves' \in [ConnectionSets -> MoveProposal \cup {NoProposal}]
        /\ moves'[c] = r
        /\ \A d \in ConnectionSets \ {c} : moves'[d] = moves[d]
    BY <1>2, <1>3, <1>4 DEF DeskInv, TypeOK
  <1>6. MovesKept
    BY <1>2, <1>3, <1>5 DEF MovesKept, Decided
  <1>7. RulebooksKept /\ HeldVerified'
    BY <1>4, SameRulebooks
  <1>8. OnlyApprovedIsLive'
    BY <1>4, <1>6, <1>7, LiveStaysApproved DEF DeskInv
  <1>9. AppliedIsAccepted'
    BY <1>4 DEF DeskInv, AppliedIsAccepted, Accepted, trusted
  <1>10. work' \in MoveWork /\ work'.step = "tell"
    BY <1>1, <1>4 DEF MoveWorkOK, MoveWork, Steps
  <1>11. TypeOK' /\ WorkOK'
    BY <1>4, <1>5, <1>10 DEF DeskInv, TypeOK, WorkOK, MoveWorkOK, intake, trusted
  <1>12. QED
    BY <1>6, <1>7, <1>8, <1>9, <1>11 DEF DeskInv

LEMMA TakeHeldStep ==
    ASSUME DeskInv, NEW m \in Messages, TakeHeld(m)
    PROVE  DeskInv'
  <1> USE DEF DeskInv
  <1>1. RulebookWorkOK /\ work.step = "release" /\ m \in work.release
    BY WhichWork DEF TakeHeld, At
  <1>2. /\ held' = held \ {m}
        /\ UNCHANGED <<archive, quarantine, inbox, desk, trusted, notes, crashes>>
    BY DEF TakeHeld
  <1>3. m \in Verified /\ {m} \cap held \subseteq Verified \cap archive
    BY <1>1 DEF RulebookWorkOK, TypeOK
  <1>4. /\ work' \in RulebookWork
        /\ work'.step \in {"resume", "release"}
        /\ work'.record = work.record /\ work'.offered = work.offered
        /\ work'.release = work.release \ {m} /\ work'.inHand = {m} \cap held
    BY <1>1 DEF TakeHeld, RulebookWorkOK, RulebookWork, Steps
  <1>5. RulebookWorkOK'
    BY <1>1, <1>2, <1>3, <1>4 DEF RulebookWorkOK
  <1>6. TypeOK'
    BY <1>2, <1>4 DEF TypeOK, desk, trusted
  <1>7. QED
    BY <1>2, <1>5, <1>6, DeskUntouched DEF WorkOK

LEMMA RefuseHeldStep ==
    ASSUME DeskInv, NEW m \in Messages, RefuseHeld(m)
    PROVE  DeskInv'
  <1> USE DEF DeskInv
  <1>1. RulebookWorkOK /\ work.step = "remove"
    BY WhichWork DEF RefuseHeld, At
  <1>2. /\ held' = held \ {m} /\ work' = [work EXCEPT !.release = @ \ {m}]
        /\ UNCHANGED <<archive, quarantine, inbox, desk, trusted, notes, crashes>>
    BY DEF RefuseHeld
  <1>3. /\ work' \in RulebookWork /\ work'.step = "remove"
        /\ work'.record = work.record /\ work'.offered = work.offered
        /\ work'.release = work.release \ {m} /\ work'.inHand = work.inHand
    BY <1>1, <1>2 DEF RulebookWorkOK, RulebookWork
  <1>4. RulebookWorkOK'
    BY <1>1, <1>2, <1>3 DEF RulebookWorkOK
  <1>5. TypeOK'
    BY <1>2, <1>3 DEF TypeOK, desk, trusted
  <1>6. QED
    BY <1>2, <1>4, <1>5, DeskUntouched DEF WorkOK

(* Telling the sender, after an approval or a rejection.                   *)
LEMMA TellStep ==
    ASSUME DeskInv, TellAccepted \/ TellDeclined
    PROVE  DeskInv'
  <1> USE DEF DeskInv
  <1>1. /\ work.step \in {"tell", "refuse"}
        /\ UNCHANGED <<intake, desk, trusted, crashes>>
    BY DEF TellAccepted, TellDeclined, At
  <1>2. WorkOK' /\ work' \in RulebookWork \cup {NoWork}
    <2>1. CASE OfRulebook
      <3>1. RulebookWorkOK
        BY <1>1, <2>1, WhichWork DEF Steps
      <3>2. /\ work' \in RulebookWork /\ work'.step \in {"release", "remove"}
            /\ work'.record = work.record /\ work'.offered = work.offered
            /\ work'.release \in {work.release, work.record.heldMessages}
            /\ work'.inHand = work.inHand
        BY <2>1, <3>1 DEF TellAccepted, TellDeclined, RulebookWorkOK, RulebookWork,
                          RulebookProposal, Steps
      <3>3. QED
        BY <1>1, <3>1, <3>2 DEF WorkOK, RulebookWorkOK, intake
    <2>2. CASE ~OfRulebook
      BY <2>2 DEF TellAccepted, TellDeclined, WorkOK
    <2>3. QED
      BY <2>1, <2>2
  <1>3. TypeOK'
    BY <1>1, <1>2 DEF TypeOK, intake, desk, trusted
  <1>4. QED
    BY <1>1, <1>2, <1>3, DeskUntouched

(* The decision is over, was given up, or its process is dead. *)
LEMMA EndStep ==
    ASSUME DeskInv, DoneDeciding \/ GiveUp \/ Crash
    PROVE  DeskInv'
  <1> USE DEF DeskInv
  <1>1. UNCHANGED <<intake, desk, trusted>> /\ crashes' \in 0..MaxCrashes
    BY CrashCount DEF DoneDeciding, GiveUp, Crash
  <1>2. work' = NoWork
    BY DEF DoneDeciding, GiveUp, Crash
  <1>3. TypeOK' /\ WorkOK'
    BY <1>1, <1>2 DEF TypeOK, WorkOK, intake, desk, trusted
  <1>4. QED
    BY <1>1, <1>3, DeskUntouched

(* A process dies while a proposal moves to review/decided: what is loaded *)
(* is still the record that was in review/pending.                         *)
LEMMA DiesMovingWrites ==
    ASSUME DeskInv, NEW e \in Editions, DiesMoving(e)
    PROVE  /\ rulebooks[e] \in RulebookProposal /\ rulebooks[e] # NoProposal
           /\ rulebooks[e].state \in {"waiting_for_review", "approved"}
           /\ \E files \in SUBSET Files :
                rulebooks' = [rulebooks EXCEPT ![e] = [rulebooks[e] EXCEPT !.files = files]]
  <1>0. rulebooks[e].state \in {"waiting_for_review", "approved"}
    <2>1. CASE At("apply") /\ OfRulebook /\ work.edition = e
      <3>1. RulebookWorkOK
        BY <2>1, WhichWork DEF At, Steps, DeskInv
      <3>2. QED
        BY <2>1, <3>1 DEF RulebookWorkOK, At
    <2>2. QED
      BY <2>1 DEF DiesMoving, Waits
  <1>1. rulebooks[e] \in RulebookProposal /\ rulebooks[e] # NoProposal
    BY <1>0 DEF DeskInv, TypeOK, NoProposal
  <1>2. LeftBehind(rulebooks[e].files) \subseteq SUBSET Files
    BY <1>1 DEF LeftBehind, RulebookProposal
  <1>3. QED
    BY <1>0, <1>1, <1>2 DEF DiesMoving

LEMMA DiesMovingStep ==
    ASSUME DeskInv, NEW e \in Editions, DiesMoving(e)
    PROVE  DeskInv' /\ RulebooksKept /\ MovesKept
  <1>1. /\ rulebooks[e] \in RulebookProposal /\ rulebooks[e] # NoProposal
        /\ rulebooks[e].state \in {"waiting_for_review", "approved"}
    BY DiesMovingWrites
  <1>2. PICK files \in SUBSET Files :
          rulebooks' = [rulebooks EXCEPT ![e] = [rulebooks[e] EXCEPT !.files = files]]
    BY DiesMovingWrites
  <1> DEFINE r == [rulebooks[e] EXCEPT !.files = files]
  <1>4. /\ r \in RulebookProposal
        /\ r.state = rulebooks[e].state /\ r.passes = rulebooks[e].passes
        /\ r.firstContact = rulebooks[e].firstContact /\ r.offered = rulebooks[e].offered
        /\ r.heldMessages = rulebooks[e].heldMessages
    BY <1>1, <1>2, FilesOnly
  <1>5. rulebooks' = [rulebooks EXCEPT ![e] = r]
    BY <1>2
  <1>6. /\ UNCHANGED <<intake, moves, trusted>> /\ work' = NoWork
        /\ crashes' \in 0..MaxCrashes
    BY CrashCount DEF DiesMoving, DeskInv
  <1> HIDE DEF r
  <1>7. r.heldMessages \subseteq Verified
    BY <1>1, <1>4 DEF DeskInv, OnlyApprovedIsLive, Verified
  <1>8. /\ rulebooks' \in [Editions -> RulebookProposal \cup {NoProposal}]
        /\ RulebooksKept /\ HeldVerified'
    BY <1>1, <1>4, <1>5, <1>7, DecisionWritten DEF Waits, Decided
  <1>9. MovesKept
    BY <1>6, SameMoves DEF DeskInv
  <1>10. OnlyApprovedIsLive'
    BY <1>6, <1>8, <1>9, LiveStaysApproved DEF DeskInv
  <1>11. AppliedIsAccepted'
    BY <1>1, <1>4, <1>5, <1>6 DEF AppliedIsAccepted, Accepted, DeskInv, TypeOK, trusted
  <1>12. TypeOK' /\ WorkOK'
    BY <1>6, <1>8 DEF DeskInv, TypeOK, WorkOK, intake, trusted
  <1>13. QED
    BY <1>8, <1>9, <1>10, <1>11, <1>12 DEF DeskInv

LEMMA DiesMovingMoveWrites ==
    ASSUME DeskInv, NEW c \in ConnectionSets, DiesMovingMove(c)
    PROVE  /\ moves[c] \in MoveProposal /\ moves[c] # NoProposal
           /\ moves[c].state \in {"waiting_for_review", "approved"}
  <1>0. moves[c].state \in {"waiting_for_review", "approved"}
    <2>1. CASE At("apply") /\ ~OfRulebook /\ work.offered = c
      <3>1. MoveWorkOK
        BY <2>1, WhichWork DEF At, Steps, DeskInv
      <3>2. QED
        BY <2>1, <3>1 DEF MoveWorkOK, At
    <2>2. QED
      BY <2>1 DEF DiesMovingMove, Waits
  <1>1. QED
    BY <1>0 DEF DeskInv, TypeOK, NoProposal

LEMMA DiesMovingMoveStep ==
    ASSUME DeskInv, NEW c \in ConnectionSets, DiesMovingMove(c)
    PROVE  DeskInv' /\ RulebooksKept /\ MovesKept
  <1> DEFINE r == [moves[c] EXCEPT !.files = {}]
  <1>1. moves[c] \in MoveProposal /\ moves[c].state \in {"waiting_for_review", "approved"}
    BY DiesMovingMoveWrites
  <1>2. /\ r \in MoveProposal /\ r.state = moves[c].state
        /\ r.outOfBand = moves[c].outOfBand
    BY <1>1 DEF MoveProposal
  <1>3. moves' = [moves EXCEPT ![c] = r]
    BY DEF DiesMovingMove
  <1>4. /\ UNCHANGED <<intake, rulebooks, trusted>> /\ work' = NoWork
        /\ crashes' \in 0..MaxCrashes
    BY CrashCount DEF DiesMovingMove, DeskInv
  <1> HIDE DEF r
  <1>5. /\ moves' \in [ConnectionSets -> MoveProposal \cup {NoProposal}]
        /\ moves'[c] = r
        /\ \A d \in ConnectionSets \ {c} : moves'[d] = moves[d]
    BY <1>2, <1>3 DEF DeskInv, TypeOK
  <1>6. MovesKept
    BY <1>1, <1>2, <1>5 DEF MovesKept, Decided
  <1>7. RulebooksKept /\ HeldVerified'
    BY <1>4, SameRulebooks
  <1>8. OnlyApprovedIsLive'
    BY <1>4, <1>6, <1>7, LiveStaysApproved DEF DeskInv
  <1>9. AppliedIsAccepted'
    BY <1>4 DEF DeskInv, AppliedIsAccepted, Accepted, trusted
  <1>10. TypeOK' /\ WorkOK'
    BY <1>4, <1>5 DEF DeskInv, TypeOK, WorkOK, intake, trusted
  <1>11. QED
    BY <1>6, <1>7, <1>8, <1>9, <1>10 DEF DeskInv

LEMMA OverlapEndsStep ==
    ASSUME DeskInv, NEW i \in DOMAIN accepting, OverlapEnds(i)
    PROVE  DeskInv'
  <1> USE DEF DeskInv
  <1> DEFINE entry == [accepting[i] EXCEPT !.until = "past"]
  <1>1. /\ accepting' = [accepting EXCEPT ![i] = entry]
        /\ UNCHANGED <<intake, desk, partner, connections, notes, work, crashes>>
    BY DEF OverlapEnds
  <1>2. entry \in TrustedVersion /\ entry.edition = accepting[i].edition
    BY AcceptingType DEF TrustedVersion, Ends
  <1>3. accepting \in Seq(TrustedVersion) /\ i \in 1..Len(accepting)
    BY AcceptingType DEF TypeOK
  <1> HIDE DEF entry
  <1>4. accepting' \in Seq(TrustedVersion)
    BY <1>1, <1>2, <1>3, ExceptSeq
  <1>5. /\ DOMAIN accepting' = DOMAIN accepting
        /\ \A j \in DOMAIN accepting : accepting'[j].edition = accepting[j].edition
    BY <1>1, <1>2, <1>3, AcceptingType
  <1>6. \A e \in Editions : Accepted(e)' <=> Accepted(e)
    BY <1>5 DEF Accepted
  <1>7. AppliedIsAccepted'
    BY <1>1, <1>6 DEF AppliedIsAccepted, desk
  <1>8. OnlyApprovedIsLive'
    BY <1>1, <1>5 DEF OnlyApprovedIsLive, Decided, desk
  <1>9. RulebookWorkOK => RulebookWorkOK'
    <2>1. RulebookWorkOK => work.edition \in Editions
      BY DEF RulebookWorkOK, RulebookWork
    <2>2. QED
      BY <1>1, <1>6, <2>1 DEF RulebookWorkOK, intake, desk
  <1>10. MoveWorkOK => MoveWorkOK'
    BY <1>1 DEF MoveWorkOK, desk
  <1>11. WorkOK'
    BY <1>1, <1>9, <1>10 DEF WorkOK
  <1>12. TypeOK'
    BY <1>1, <1>4 DEF TypeOK, intake, desk
  <1>13. QED
    BY <1>7, <1>8, <1>11, <1>12

-----------------------------------------------------------------------------
(* The invariant, and what every step does to decisions. *)

LEMMA DeskInvInit ==
    ASSUME Init
    PROVE  DeskInv
  <1>1. /\ \A e \in Editions : rulebooks[e] = NoProposal
        /\ \A c \in ConnectionSets : moves[c] = NoProposal
    BY DEF Init
  <1>2. TypeOK
    <2>1. accepting \in Seq(TrustedVersion)
      BY DEF Init
    <2>2. /\ rulebooks \in [Editions -> RulebookProposal \cup {NoProposal}]
          /\ moves \in [ConnectionSets -> MoveProposal \cup {NoProposal}]
      BY <1>1 DEF Init
    <2>3. inbox \in [Messages -> {"none", "green", "red"}]
      BY DEF Init
    <2>4. crashes \in 0..MaxCrashes
      BY DeskAssumption DEF Init
    <2>5. /\ archive \subseteq Messages /\ quarantine \subseteq archive /\ held \subseteq archive
          /\ partner \in BOOLEAN
          /\ connections \in ConnectionSets \cup {NoConnections}
          /\ work \in RulebookWork \cup MoveWork \cup {NoWork}
      BY DEF Init
    <2>6. QED
      BY <2>1, <2>2, <2>3, <2>4, <2>5 DEF TypeOK
  <1>3. WorkOK
    BY DEF Init, WorkOK
  <1>4. AppliedIsAccepted
    BY <1>1 DEF AppliedIsAccepted, NoProposal
  <1>5. OnlyApprovedIsLive
    BY <1>1 DEF Init, OnlyApprovedIsLive
  <1>6. QED
    BY <1>2, <1>3, <1>4, <1>5 DEF DeskInv

LEMMA DeskInvStep ==
    ASSUME DeskInv, [Next]_vars
    PROVE  DeskInv'
  <1>1. CASE Receive
    BY <1>1, ReceiveStep DEF Receive, Receives
  <1>2. CASE Decide
    BY <1>2, ApproveRulebookStep, RejectRulebookStep, DecideMoveStep DEF Decide
  <1>3. CASE CarryOut
    BY <1>3, ApplyTrustStep, MarkAppliedStep, TakeHeldStep, ResumeStep, RefuseHeldStep,
       PinPartnerStep, StoreConnectionsStep, MarkMovedStep, EndStep, TellStep DEF CarryOut
  <1>4. CASE Die
    BY <1>4, EndStep, DiesMovingStep, DiesMovingMoveStep, ReceiveStep, ResumeStep DEF Die, Receives
  <1>5. CASE \E i \in DOMAIN accepting : OverlapEnds(i)
    BY <1>5, OverlapEndsStep
  <1>6. CASE UNCHANGED vars
    <2>1. TypeOK'
      BY <1>6 DEF DeskInv, TypeOK, vars, intake, desk, trusted
    <2>2. UNCHANGED <<desk, trusted, work>> /\ archive \subseteq archive'
      BY <1>6 DEF vars, intake, desk, trusted
    <2>3. QED
      BY <2>1, <2>2, DeskUntouched, SameWork DEF DeskInv
  <1>7. QED
    BY <1>1, <1>2, <1>3, <1>4, <1>5, <1>6 DEF Next

(* Receiving, first or again, and releasing write proposals only through   *)
(* the pipeline. *)
LEMMA ReceiveKeepsDecisions ==
    ASSUME DeskInv, NEW m \in Messages, Receives(m) \/ Resume(m) \/ DiesResuming(m)
    PROVE  RulebooksKept /\ MovesKept
  <1> USE DEF DeskInv
  <1>1. CASE UNCHANGED desk
    <2>1. rulebooks' = rulebooks /\ moves' = moves
      BY <1>1 DEF desk
    <2>2. QED
      BY <2>1, SameRulebooks, SameMoves
  <1>2. CASE \E h, b : Walks(h, b, m) /\ m \notin Unsigned
    <2>1. Processed(m)
      BY <1>2, PipelineEffect DEF Processed, Verified
    <2>2. HeldVerified
      BY DEF OnlyApprovedIsLive, HeldVerified, Verified
    <2>3. QED
      BY <2>1, <2>2, ProcessedKeepsRulebooks, ProcessedKeepsMoves
  <1>3. Ingest(m) \/ DiesIngesting(m) =>
          UNCHANGED desk \/ (m \notin Unsigned /\ Walks(held, inbox, m))
    BY DEF Ingest, DiesIngesting, Quarantine, Walks
  <1>4. ReprocessInbound(m) \/ DiesReprocessing(m) =>
          m \notin Unsigned /\ Walks(held, [inbox EXCEPT ![m] = "none"], m)
    BY DEF ReprocessInbound, DiesReprocessing, Walks
  <1>5. Resume(m) \/ DiesResuming(m) => m \notin Unsigned /\ Walks(held, inbox, m)
    BY InHand DEF Resume, DiesResuming, Verified, Walks
  <1>6. QED
    BY <1>1, <1>2, <1>3, <1>4, <1>5 DEF Receives

(* The steps that touch no proposal.                                       *)
LEMMA DeskRests ==
    ASSUME [Next]_vars
    PROVE  \/ \E m \in Messages : Receives(m) \/ Resume(m) \/ DiesResuming(m)
           \/ Decide
           \/ \E e \in Editions : MarkApplied(e) \/ DiesMoving(e)
           \/ MarkMoved
           \/ \E c \in ConnectionSets : DiesMovingMove(c)
           \/ UNCHANGED desk
  <1>1. \/ \E e \in Editions : ApplyTrust(e)
        \/ \E m \in Messages : TakeHeld(m) \/ RefuseHeld(m)
        \/ PinPartner \/ StoreConnections \/ DoneDeciding \/ TellAccepted \/ TellDeclined
        \/ GiveUp \/ Crash \/ (\E i \in DOMAIN accepting : OverlapEnds(i))
        \/ UNCHANGED vars
        => UNCHANGED desk
    BY DEF ApplyTrust, TakeHeld, RefuseHeld, PinPartner, StoreConnections, DoneDeciding,
           TellAccepted, TellDeclined, GiveUp, Crash, OverlapEnds, vars
  <1>2. QED
    BY <1>1 DEF Next, Receive, Receives, CarryOut, Die

LEMMA DecisionsKept ==
    ASSUME DeskInv, [Next]_vars
    PROVE  RulebooksKept /\ MovesKept
  <1>1. CASE \E m \in Messages : Receives(m) \/ Resume(m) \/ DiesResuming(m)
    BY <1>1, ReceiveKeepsDecisions
  <1>2. CASE Decide
    BY <1>2, ApproveRulebookStep, RejectRulebookStep, DecideMoveStep DEF Decide
  <1>3. CASE \E e \in Editions : MarkApplied(e) \/ DiesMoving(e)
    BY <1>3, MarkAppliedStep, DiesMovingStep
  <1>4. CASE MarkMoved \/ \E c \in ConnectionSets : DiesMovingMove(c)
    BY <1>4, MarkMovedStep, DiesMovingMoveStep
  <1>5. CASE UNCHANGED desk
    BY <1>5, SameRulebooks, SameMoves DEF DeskInv, desk
  <1>6. QED
    BY <1>1, <1>2, <1>3, <1>4, <1>5, DeskRests

-----------------------------------------------------------------------------
LEMMA DeskInvariant == Spec => []DeskInv
  <1>1. Init => DeskInv
    BY DeskInvInit
  <1>2. DeskInv /\ [Next]_vars => DeskInv'
    BY DeskInvStep
  <1>3. QED
    BY <1>1, <1>2, PTL DEF Spec

(* Type correctness of the desk: whatever arrives and is decided, the      *)
(* files of the node hold what their loaders expect (changesdesk.Proposal, *)
(* trust.Record, the connections file), and every quarantined or held      *)
(* message is in the archive (engine.Ingest archives first).               *)
THEOREM DeskTypeCorrect == Spec => []TypeOK
  <1>1. DeskInv => TypeOK
    BY DEF DeskInv
  <1>2. QED
    BY <1>1, DeskInvariant, PTL

(* Messages propose; humans apply: whatever a node has live (the accepted  *)
(* rulebooks, the pinned partner, the stored connections) was approved by  *)
(* a person, on proposals that rest on verified messages, also while a     *)
(* decision is half carried out (Node.Approve) and after a process died    *)
(* there.                                                                  *)
THEOREM MessagesProposeHumansApply == Spec => []OnlyApprovedIsLive
  <1>1. DeskInv => OnlyApprovedIsLive
    BY DEF DeskInv
  <1>2. QED
    BY <1>1, DeskInvariant, PTL

(* A decision stands: no message (Desk.NoticeRulebook, NoticeConnections)  *)
(* and no other decision reopens what was rejected or applied, withdraws   *)
(* an approval, or changes what the proposal says.                         *)
THEOREM DecisionsStand == Spec => DecisionsAreFinal
  <1> DEFINE Final ==
        /\ \A e \in Editions :
             LET old == rulebooks[e]  new == rulebooks'[e] IN
             /\ old # NoProposal => /\ new # NoProposal
                                    /\ new.passes = old.passes
                                    /\ new.offered = old.offered
             /\ old.state = "approved" => Decided(new)
             /\ old.state \in {"rejected", "applied"} => new.state = old.state
        /\ \A c \in ConnectionSets :
             /\ moves[c].state = "approved" => Decided(moves'[c])
             /\ moves[c].state \in {"rejected", "applied"} => moves'[c] = moves[c]
  <1>1. DeskInv /\ [Next]_vars => [Final]_vars
    BY DecisionsKept DEF RulebooksKept, MovesKept
  <1>2. QED
    BY <1>1, DeskInvariant, PTL DEF Spec, DecisionsAreFinal

-----------------------------------------------------------------------------
(* Where messages are: nothing is lost, and what is held is on the desk.   *)

(* A message is held for the edition it cites. *)
HeldForItself == \A e \in Editions : rulebooks[e] # NoProposal =>
                     \A m \in rulebooks[e].heldMessages : Cites[m] = e

(* What a deciding process has in hand: one message, out of held/, while   *)
(* it resumes it, and those to come, of the messages its record names,     *)
(* only once the decision is applied or the refusal is out.                *)
Emptying == {"tell", "release", "resume", "remove"}

HandsOK == OfRulebook =>
    /\ work.step # "resume" => work.inHand = {}
    /\ \A m, k \in work.inHand : m = k
    /\ work.step \notin Emptying => work.release = {}
    /\ work.release \subseteq work.record.heldMessages
    /\ \A m \in work.record.heldMessages : Cites[m] = work.edition
    /\ work.step \in {"refuse", "remove"} => rulebooks[work.edition].state = "rejected"

(* With decisions under the lock no message joins while one is carried     *)
(* out: the record in memory is the one on file.                           *)
RecordIsCurrent ==
    (OfRulebook /\ work.step \in {"trust", "pin", "connect", "apply"}) =>
        work.record.heldMessages = rulebooks[work.edition].heldMessages

MessagesInv == DeskInv /\ HandsOK /\ HeldForItself /\ NothingIsLost
HeldInv == MessagesInv /\ RecordIsCurrent /\ HeldIsOnTheDesk

(* What joins a proposal cites its edition. *)
LEMMA NoticedForItself ==
    ASSUME DeskInv, HeldForItself, NEW m \in Messages
    PROVE  \A k \in NoticedRulebook(m).heldMessages : NoticedRulebook(m) # NoProposal => Cites[k] = Cites[m]
  <1> DEFINE p == rulebooks[Cites[m]]
  <1>1. Cites[m] \in Editions /\ p \in RulebookProposal \cup {NoProposal}
    BY MessageAssumption DEF DeskInv, TypeOK
  <1>2. CASE Pending(p)
    <2>1. p \in RulebookProposal /\ p # NoProposal
      BY <1>1, <1>2 DEF Pending, NoProposal
    <2>2. NoticedRulebook(m).heldMessages = p.heldMessages \cup {m}
      BY <1>2, <2>1 DEF NoticedRulebook, RulebookProposal
    <2>3. QED
      BY <1>1, <2>1, <2>2 DEF HeldForItself
  <1>3. CASE ~Pending(p) /\ p.state = "rejected"
    BY <1>1, <1>3 DEF NoticedRulebook, HeldForItself
  <1>4. CASE ~Pending(p) /\ p.state # "rejected"
    BY <1>4 DEF NoticedRulebook, NewRulebookProposal
  <1>5. QED
    BY <1>2, <1>3, <1>4

LEMMA PipelineForItself ==
    ASSUME DeskInv, HeldForItself, NEW h, NEW b, NEW m \in Messages, Walks(h, b, m)
    PROVE  HeldForItself'
  <1>1. \/ rulebooks' = rulebooks
        \/ \E q \in Filed(m) : rulebooks' = [rulebooks EXCEPT ![Cites[m]] = q]
    BY PipelineEffect
  <1>2. CASE rulebooks' = rulebooks
    BY <1>2 DEF HeldForItself
  <1>3. ASSUME NEW q \in Filed(m), rulebooks' = [rulebooks EXCEPT ![Cites[m]] = q]
        PROVE  HeldForItself'
    <2>1. /\ NoticedRulebook(m) \in RulebookProposal
          /\ q.heldMessages = NoticedRulebook(m).heldMessages
      BY FiledLikeNoticed, NoticedType DEF DeskInv
    <2>2. NoticedRulebook(m) # NoProposal
      BY <2>1, ProposalState DEF RulebookProposal, ProposalStates, NoProposal
    <2>3. \A k \in q.heldMessages : Cites[k] = Cites[m]
      BY <2>1, <2>2, NoticedForItself
    <2>4. \A e \in Editions : rulebooks'[e] = IF e = Cites[m] THEN q ELSE rulebooks[e]
      BY <1>3 DEF DeskInv, TypeOK
    <2>5. QED
      BY <2>3, <2>4 DEF HeldForItself
  <1>4. QED
    BY <1>1, <1>2, <1>3

(* One proposal is written, held for its edition. *)
LEMMA WrittenForItself ==
    ASSUME DeskInv, HeldForItself, NEW e \in Editions, NEW r,
           rulebooks' = [rulebooks EXCEPT ![e] = r],
           \A m \in r.heldMessages : Cites[m] = e
    PROVE  HeldForItself' /\ rulebooks'[e] = r
  <1>1. \A d \in Editions : rulebooks'[d] = IF d = e THEN r ELSE rulebooks[d]
    BY DEF DeskInv, TypeOK
  <1>2. QED
    BY <1>1 DEF HeldForItself

(* The hands do the same, but for the step. *)
LEMMA SameHands ==
    ASSUME DeskInv, HandsOK, RulebooksKept, OfRulebook, NEW s,
           work' = [work EXCEPT !.step = s], work.step # "resume",
           s \notin Emptying => work.step \notin Emptying,
           s \in {"refuse", "remove"} => work.step \in {"refuse", "remove"}
    PROVE  HandsOK'
  <1>1. work \in RulebookWork
    BY WorkKinds DEF DeskInv, TypeOK
  <1>2. /\ work'.step = s /\ work'.inHand = work.inHand /\ work'.release = work.release
        /\ work'.record = work.record /\ work'.edition = work.edition
        /\ work.edition \in Editions
    BY <1>1 DEF RulebookWork
  <1>3. QED
    BY <1>2 DEF HandsOK, RulebooksKept

(* The work stays, or is over, or is about connections. *)
LEMMA RestingHands ==
    ASSUME DeskInv, HandsOK, RulebooksKept, work' = work \/ ~OfRulebook'
    PROVE  HandsOK'
  <1>1. CASE work' = work /\ OfRulebook
    <2>1. work \in RulebookWork
      BY <1>1, WorkKinds DEF DeskInv, TypeOK
    <2>2. work.edition \in Editions
      BY <2>1 DEF RulebookWork
    <2>3. QED
      BY <1>1, <2>2 DEF HandsOK, RulebooksKept
  <1>2. CASE ~OfRulebook'
    BY <1>2 DEF HandsOK
  <1>3. CASE work' = work /\ ~OfRulebook
    BY <1>3 DEF HandsOK, OfRulebook
  <1>4. QED
    BY <1>1, <1>2, <1>3

(* Telling, and refusing the held messages one by one.                     *)
LEMMA TellingHands ==
    ASSUME DeskInv, HandsOK, TellAccepted \/ TellDeclined
    PROVE  HandsOK'
  <1>1. /\ rulebooks' = rulebooks /\ work.step \in {"tell", "refuse"}
        /\ work.step = "tell" <=> TellAccepted
    BY DEF TellAccepted, TellDeclined, At, desk
  <1>2. RulebooksKept
    BY <1>1, SameRulebooks DEF DeskInv
  <1>3. CASE ~OfRulebook
    <2>1. work' = NoWork
      BY <1>3 DEF TellAccepted, TellDeclined
    <2>2. ~OfRulebook'
      BY <2>1 DEF OfRulebook, NoWork
    <2>3. QED
      BY <1>2, <2>2, RestingHands
  <1>4. CASE OfRulebook /\ TellAccepted
    <2>1. work' = [work EXCEPT !.step = "release"] /\ work.step = "tell"
      BY <1>4 DEF TellAccepted, At
    <2>2. QED
      BY <1>2, <1>4, <2>1, SameHands DEF Emptying
  <1>5. CASE OfRulebook /\ TellDeclined
    <2>1. /\ RulebookWorkOK /\ work.step = "refuse"
          /\ work' = [work EXCEPT !.step = "remove", !.release = work.record.heldMessages]
      BY <1>1, <1>5, WhichWork DEF TellDeclined, At, Steps, DeskInv
    <2>2. /\ work'.step = "remove" /\ work'.release = work.record.heldMessages
          /\ work'.record = work.record /\ work'.edition = work.edition
          /\ work'.inHand = work.inHand
      BY <2>1 DEF RulebookWorkOK, RulebookWork
    <2>3. QED
      BY <1>1, <1>5, <2>1, <2>2 DEF HandsOK, Emptying
  <1>6. QED
    BY <1>3, <1>4, <1>5

LEMMA RefusingHands ==
    ASSUME DeskInv, HandsOK, NEW m \in Messages, RefuseHeld(m)
    PROVE  /\ HandsOK' /\ work.inHand = {}
           /\ m \in work.record.heldMessages
           /\ rulebooks[Cites[m]].state = "rejected"
           /\ OfRulebook' /\ OfRulebook /\ work'.release = work.release \ {m}
  <1>1. /\ RulebookWorkOK /\ OfRulebook /\ work.step = "remove" /\ rulebooks' = rulebooks
        /\ m \in work.release /\ work' = [work EXCEPT !.release = @ \ {m}]
    BY WhichWork, WorkKinds DEF RefuseHeld, At, DeskInv, RulebookWorkOK, desk
  <1>2. /\ work'.step = "remove" /\ work'.release = work.release \ {m}
        /\ work'.record = work.record /\ work'.edition = work.edition
        /\ work'.inHand = work.inHand /\ OfRulebook'
    BY <1>1 DEF RulebookWorkOK, RulebookWork, OfRulebook
  <1>3. HandsOK'
    BY <1>1, <1>2 DEF HandsOK, Emptying
  <1>4. QED
    BY <1>1, <1>2, <1>3 DEF HandsOK

LEMMA HandsStep ==
    ASSUME DeskInv, HandsOK, HeldForItself, [Next]_vars
    PROVE  HandsOK' /\ HeldForItself'
  <1>0. RulebooksKept
    BY DecisionsKept
  <1>1. ASSUME NEW m \in Messages, Receives(m)
        PROVE  HandsOK' /\ HeldForItself'
    <2>1. work' = work
      BY <1>1 DEF Receives, Ingest, DiesIngesting, ReprocessInbound, DiesReprocessing
    <2>2. HandsOK'
      BY <1>0, <2>1, RestingHands
    <2>3. HeldForItself'
      <3>1. rulebooks' = rulebooks \/ \E h, b : Walks(h, b, m)
        BY <1>1 DEF Receives, Ingest, DiesIngesting, ReprocessInbound, DiesReprocessing,
                    Quarantine, Walks, desk
      <3>2. QED
        BY <3>1, PipelineForItself DEF HeldForItself
    <2>4. QED
      BY <2>2, <2>3
  <1>2. ASSUME NEW e \in Editions, ApproveRulebook(e) \/ RejectRulebook(e)
        PROVE  HandsOK' /\ HeldForItself'
    <2>1. PICK state \in {"approved", "rejected"}, step \in {"trust", "refuse"} :
            /\ rulebooks' = [rulebooks EXCEPT ![e] = [rulebooks[e] EXCEPT !.state = state]]
            /\ work' = RulebookDecision(e, step, rulebooks'[e])
            /\ step = "refuse" => state = "rejected"
      BY <1>2 DEF ApproveRulebook, RejectRulebook
    <2>2. rulebooks[e] \in RulebookProposal /\ rulebooks[e] # NoProposal
      BY <1>2, Waiting DEF ApproveRulebook, RejectRulebook, Waits, NoProposal
    <2> DEFINE r == [rulebooks[e] EXCEPT !.state = state]
    <2>3. r.heldMessages = rulebooks[e].heldMessages /\ r.state = state
      BY <2>2 DEF RulebookProposal
    <2>4. \A m \in r.heldMessages : Cites[m] = e
      BY <2>2, <2>3 DEF HeldForItself
    <2>5. rulebooks' = [rulebooks EXCEPT ![e] = r]
      BY <2>1
    <2> HIDE DEF r
    <2>6. HeldForItself' /\ rulebooks'[e] = r
      BY <2>4, <2>5, WrittenForItself
    <2>7. /\ work'.step = step /\ work'.edition = e /\ work'.record = r
          /\ work'.release = {} /\ work'.inHand = {}
      BY <2>1, <2>6 DEF RulebookDecision
    <2>8. HandsOK'
      BY <2>1, <2>3, <2>4, <2>6, <2>7 DEF HandsOK, Emptying
    <2>9. QED
      BY <2>6, <2>8
  <1>3. ASSUME NEW c \in ConnectionSets, ApproveMove(c) \/ RejectMove(c)
        PROVE  HandsOK' /\ HeldForItself'
    <2>1. rulebooks' = rulebooks /\ \E s, p : work' = MoveDecision(c, s, p)
      BY <1>3 DEF ApproveMove, RejectMove
    <2>2. ~OfRulebook'
      BY <2>1 DEF MoveDecision, OfRulebook
    <2>3. QED
      BY <1>0, <2>1, <2>2, RestingHands DEF HeldForItself
  <1>4. ASSUME NEW e \in Editions, MarkApplied(e)
        PROVE  HandsOK' /\ HeldForItself'
    <2>1. /\ RulebookWorkOK /\ OfRulebook /\ work.edition = e /\ work.step = "apply"
          /\ work' = [work EXCEPT !.step = "tell", !.release = work.record.heldMessages]
      BY <1>4, WhichWork DEF MarkApplied, At, DeskInv, Steps
    <2> DEFINE r == [work.record EXCEPT !.state = "applied"]
    <2>2. work.record \in RulebookProposal /\ rulebooks' = [rulebooks EXCEPT ![e] = r]
      BY <1>4, <2>1 DEF MarkApplied, RulebookWorkOK, RulebookWork
    <2>3. r.heldMessages = work.record.heldMessages
      BY <2>2 DEF RulebookProposal
    <2>4. \A m \in r.heldMessages : Cites[m] = e
      BY <2>1, <2>3 DEF HandsOK
    <2> HIDE DEF r
    <2>5. HeldForItself'
      BY <2>2, <2>4, WrittenForItself
    <2>6. /\ work'.step = "tell" /\ work'.inHand = work.inHand
          /\ work'.release = work.record.heldMessages
          /\ work'.record = work.record /\ work'.edition = work.edition
      BY <2>1 DEF RulebookWorkOK, RulebookWork
    <2>7. HandsOK'
      BY <2>1, <2>6 DEF HandsOK, Emptying
    <2>8. QED
      BY <2>5, <2>7
  <1>5. ASSUME NEW m \in Messages, Resume(m)
        PROVE  HandsOK' /\ HeldForItself'
    <2>1. /\ RulebookWorkOK /\ OfRulebook
          /\ work' = [work EXCEPT !.step = "release", !.inHand = {}]
      BY <1>5, WhichWork, WorkKinds DEF Resume, At, DeskInv, RulebookWorkOK
    <2>2. /\ work'.step = "release" /\ work'.inHand = {}
          /\ work'.record = work.record /\ work'.edition = work.edition
          /\ work'.release = work.release
      BY <2>1 DEF RulebookWorkOK, RulebookWork
    <2>3. HandsOK'
      BY <2>1, <2>2 DEF HandsOK, Emptying
    <2>4. HeldForItself'
      BY <1>5, PipelineForItself DEF Resume, Walks
    <2>5. QED
      BY <2>3, <2>4
  <1>6. ASSUME NEW m \in Messages, TakeHeld(m)
        PROVE  HandsOK' /\ HeldForItself'
    <2>1. /\ RulebookWorkOK /\ OfRulebook
          /\ work' = [work EXCEPT !.release = @ \ {m}, !.inHand = {m} \cap held,
                                  !.step = IF m \in held THEN "resume" ELSE "release"]
          /\ rulebooks' = rulebooks
      BY <1>6, WhichWork, WorkKinds DEF TakeHeld, At, DeskInv, RulebookWorkOK, desk
    <2>2. /\ work'.step = IF m \in held THEN "resume" ELSE "release"
          /\ work'.inHand = {m} \cap held /\ work'.release = work.release \ {m}
          /\ work'.record = work.record /\ work'.edition = work.edition
      BY <2>1 DEF RulebookWorkOK, RulebookWork
    <2>3. HandsOK'
      BY <2>1, <2>2 DEF HandsOK, Emptying
    <2>4. QED
      BY <2>1, <2>3 DEF HeldForItself
  <1>7. ASSUME \/ (\E e \in Editions : ApplyTrust(e))
               \/ PinPartner \/ StoreConnections \/ MarkMoved
        PROVE  HandsOK' /\ HeldForItself'
    <2>1. /\ rulebooks' = rulebooks
          /\ work.step \in {"trust", "pin", "connect", "apply"}
          /\ \E s \in {"pin", "connect", "apply", "tell"} : work' = [work EXCEPT !.step = s]
      BY <1>7 DEF ApplyTrust, PinPartner, StoreConnections, MarkMoved, At, desk
    <2>2. CASE ~OfRulebook
      <3>1. work \in MoveWork
        BY <2>1, <2>2, WhichWork DEF DeskInv, MoveWorkOK, Steps
      <3>2. work' \in [step : {"pin", "connect", "apply", "tell"},
                       record : MoveProposal, offered : ConnectionSets]
        BY <2>1, <3>1 DEF MoveWork
      <3>3. ~OfRulebook'
        BY <3>2 DEF OfRulebook
      <3>4. QED
        BY <1>0, <2>1, <3>3, RestingHands DEF HeldForItself
    <2>3. CASE OfRulebook
      <3>1. HandsOK'
        BY <1>0, <2>1, <2>3, SameHands DEF Emptying
      <3>2. QED
        BY <2>1, <3>1 DEF HeldForItself
    <2>4. QED
      BY <2>2, <2>3
  <1>8. ASSUME TellAccepted \/ TellDeclined
        PROVE  HandsOK' /\ HeldForItself'
    <2>1. rulebooks' = rulebooks
      BY <1>8 DEF TellAccepted, TellDeclined, desk
    <2>2. QED
      BY <1>8, <2>1, TellingHands DEF HeldForItself
  <1>9. ASSUME NEW m \in Messages, RefuseHeld(m)
        PROVE  HandsOK' /\ HeldForItself'
    <2>1. rulebooks' = rulebooks
      BY <1>9 DEF RefuseHeld, desk
    <2>2. QED
      BY <1>9, <2>1, RefusingHands DEF HeldForItself
  <1>10. ASSUME \/ DoneDeciding \/ GiveUp \/ Crash
                \/ (\E c \in ConnectionSets : DiesMovingMove(c))
                \/ (\E i \in DOMAIN accepting : OverlapEnds(i)) \/ UNCHANGED vars
         PROVE  HandsOK' /\ HeldForItself'
    <2>1. rulebooks' = rulebooks /\ (work' = NoWork \/ work' = work)
      BY <1>10 DEF DoneDeciding, GiveUp, Crash, DiesMovingMove, OverlapEnds, vars, desk
    <2>2. work' = NoWork => ~OfRulebook'
      BY DEF OfRulebook, NoWork
    <2>3. QED
      BY <1>0, <2>1, <2>2, RestingHands DEF HeldForItself
  <1>11. ASSUME NEW e \in Editions, DiesMoving(e)
         PROVE  HandsOK' /\ HeldForItself'
    <2>1. work' = NoWork
      BY <1>11 DEF DiesMoving
    <2>2. ~OfRulebook'
      BY <2>1 DEF OfRulebook, NoWork
    <2>3. PICK files \in SUBSET Files :
            /\ rulebooks[e] \in RulebookProposal /\ rulebooks[e] # NoProposal
            /\ rulebooks' = [rulebooks EXCEPT ![e] = [rulebooks[e] EXCEPT !.files = files]]
      BY <1>11, DiesMovingWrites
    <2> DEFINE r == [rulebooks[e] EXCEPT !.files = files]
    <2>4. r.heldMessages = rulebooks[e].heldMessages
      BY <2>3, FilesOnly
    <2>5. rulebooks' = [rulebooks EXCEPT ![e] = r]
      BY <2>3
    <2> HIDE DEF r
    <2>6. \A m \in r.heldMessages : Cites[m] = e
      BY <2>3, <2>4 DEF HeldForItself
    <2>7. QED
      BY <1>0, <2>2, <2>5, <2>6, WrittenForItself, RestingHands
  <1>12. ASSUME NEW m \in Messages, DiesResuming(m)
         PROVE  HandsOK' /\ HeldForItself'
    <2>1. work' = NoWork /\ Walks(held, inbox, m)
      BY <1>12 DEF DiesResuming, Walks
    <2>2. ~OfRulebook'
      BY <2>1 DEF OfRulebook, NoWork
    <2>3. QED
      BY <1>0, <2>1, <2>2, RestingHands, PipelineForItself
  <1>13. QED
    BY <1>1, <1>2, <1>3, <1>4, <1>5, <1>6, <1>7, <1>8, <1>9, <1>10, <1>11, <1>12
    DEF Next, Receive, Receives, Decide, CarryOut, Die

(* The other messages stay where they are. *)
LEMMA OthersStay ==
    ASSUME NEW h, NEW b \in [Messages -> {"none", "green", "red"}], NEW m \in Messages,
           Pipeline(h, b, m)
    PROVE  \A k \in Messages \ {m} : inbox'[k] = b[k]
  <1>1. inbox' = b \/ inbox' = [b EXCEPT ![m] = "green"] \/ inbox' = [b EXCEPT ![m] = "red"]
    BY DEF Pipeline, Quarantine, RefuseRetired, AskForRulebook, HoldForReview, DeliverToInbox
  <1>2. QED
    BY <1>1

(* Wherever a message goes in the pipeline, it goes somewhere. *)
LEMMA PipelinePlaces ==
    ASSUME NEW h, NEW b \in [Messages -> {"none", "green", "red"}], NEW m \in Messages,
           Pipeline(h, b, m)
    PROVE  /\ \/ inbox'[m] # "none"
              \/ m \in held' \cup quarantine'
              \/ <<m, "declined">> \in notes'
           /\ h \subseteq held' /\ quarantine \subseteq quarantine' /\ notes \subseteq notes'
           /\ \/ held' = h /\ rulebooks' = rulebooks
              \/ /\ held' = h \cup {m} /\ rulebooks' = rulebooks
                 /\ <<m, "please_resend_complete">> \in notes'
              \/ /\ held' = h \cup {m} /\ IsNew(Cites[m])
                 /\ rulebooks' = [rulebooks EXCEPT ![Cites[m]] = NoticedRulebook(m)]
  <1>1. CASE Quarantine(h, b, m)
    BY <1>1 DEF Quarantine, desk
  <1>2. CASE RefuseRetired(h, b, m)
    BY <1>2 DEF RefuseRetired, desk
  <1>3. CASE AskForRulebook(h, b, m)
    BY <1>3 DEF AskForRulebook, desk
  <1>4. CASE StatusOf(Cites[m]) = "update" /\ HoldForReview(h, b, m)
    BY <1>4, UpdateIsNews DEF HoldForReview
  <1>5. CASE DeliverToInbox(h, b, m)
    BY <1>5 DEF DeliverToInbox
  <1>6. QED
    BY <1>1, <1>2, <1>3, <1>4, <1>5 DEF Pipeline

(* Messages that nothing is done to stay where they are. *)
LEMMA LeftWhereTheyAre ==
    ASSUME DeskInv, NothingIsLost, RulebooksKept,
           archive' = archive, inbox' = inbox, quarantine' = quarantine,
           held' = held, notes \subseteq notes', crashes' = 0 => crashes = 0,
           OfRulebook /\ work.inHand # {} => OfRulebook' /\ work'.inHand = work.inHand
    PROVE  NothingIsLost'
  <1>1. \A m \in archive : Cites[m] \in Editions
    BY MessageAssumption DEF DeskInv, TypeOK
  <1>2. \A e \in Editions : rulebooks[e].state = "rejected" => rulebooks'[e].state = "rejected"
    BY DEF RulebooksKept
  <1>3. QED
    BY <1>1, <1>2 DEF NothingIsLost

(* A message walks the pipeline, from the archive or out of hand. *)
LEMMA WalksThrough ==
    ASSUME DeskInv, NothingIsLost, RulebooksKept, NEW m \in Messages,
           NEW b \in [Messages -> {"none", "green", "red"}], Pipeline(held, b, m),
           \A k \in Messages \ {m} : b[k] = inbox[k],
           archive' \subseteq archive \cup {m}, crashes' = crashes,
           OfRulebook => /\ OfRulebook'
                         /\ \A k \in work.inHand : k = m \/ k \in work'.inHand
    PROVE  NothingIsLost'
  <1>1. \A k \in Messages : Cites[k] \in Editions
    BY MessageAssumption
  <1>2. \A e \in Editions : rulebooks[e].state = "rejected" => rulebooks'[e].state = "rejected"
    BY DEF RulebooksKept
  <1>3. /\ \/ inbox'[m] # "none"
           \/ m \in held' \cup quarantine'
           \/ <<m, "declined">> \in notes'
        /\ held \subseteq held' /\ quarantine \subseteq quarantine' /\ notes \subseteq notes'
        /\ \A k \in Messages \ {m} : inbox'[k] = inbox[k]
    <2>1. /\ \/ inbox'[m] # "none"
             \/ m \in held' \cup quarantine'
             \/ <<m, "declined">> \in notes'
          /\ held \subseteq held' /\ quarantine \subseteq quarantine' /\ notes \subseteq notes'
      BY PipelinePlaces
    <2>2. \A k \in Messages \ {m} : inbox'[k] = b[k]
      BY OthersStay
    <2>3. QED
      BY <2>1, <2>2
  <1>4. SUFFICES ASSUME crashes' = 0, NEW k \in archive'
                 PROVE  \/ inbox'[k] # "none"
                        \/ k \in held' \cup quarantine'
                        \/ <<k, "declined">> \in notes'
                        \/ rulebooks'[Cites[k]].state = "rejected"
                        \/ OfRulebook' /\ k \in work'.inHand
    BY DEF NothingIsLost
  <1>5. CASE k = m
    BY <1>3, <1>5
  <1>6. CASE k # m
    <2>1. k \in archive /\ k \in Messages
      BY <1>6 DEF DeskInv, TypeOK
    <2>2. \/ inbox[k] # "none"
          \/ k \in held \cup quarantine
          \/ <<k, "declined">> \in notes
          \/ rulebooks[Cites[k]].state = "rejected"
          \/ OfRulebook /\ k \in work.inHand
      BY <1>4, <2>1 DEF NothingIsLost
    <2>3. QED
      BY <1>1, <1>2, <1>3, <1>6, <2>1, <2>2
  <1>7. QED
    BY <1>5, <1>6

(* What a process that dies leaves behind is not spoken of.                *)
LEMMA DeadIsExcused ==
    ASSUME TypeOK, Die
    PROVE  crashes' # 0
  <1>1. Dies
    BY DEF Die, Crash, DiesMoving, DiesMovingMove, DiesIngesting, DiesReprocessing, DiesResuming
  <1>2. QED
    BY <1>1, DeskAssumption DEF Dies, TypeOK

LEMMA NothingLostStep ==
    ASSUME MessagesInv, [Next]_vars
    PROVE  MessagesInv'
  <1>0. DeskInv /\ NothingIsLost /\ HandsOK /\ HeldForItself /\ RulebooksKept
    BY DecisionsKept DEF MessagesInv
  <1>1. DeskInv' /\ HandsOK' /\ HeldForItself'
    BY <1>0, DeskInvStep, HandsStep
  <1>2. inbox \in [Messages -> {"none", "green", "red"}]
    BY <1>0 DEF DeskInv, TypeOK
  <1>3. ASSUME NEW m \in Messages, Ingest(m)
        PROVE  NothingIsLost'
    <2>1. archive' = archive \cup {m} /\ UNCHANGED <<work, crashes>>
      BY <1>3 DEF Ingest
    <2>2. work' = work => (OfRulebook => OfRulebook' /\ work'.inHand = work.inHand)
      BY DEF OfRulebook
    <2>3. CASE m \in Unsigned
      <3>1. /\ quarantine' = quarantine \cup {m} /\ held' = held /\ inbox' = inbox
            /\ notes' = notes /\ rulebooks' = rulebooks
        BY <1>3, <2>3 DEF Ingest, Quarantine, desk
      <3>2. QED
        BY <1>0, <2>1, <2>2, <3>1 DEF NothingIsLost
    <2>4. CASE m \notin Unsigned
      <3>1. Pipeline(held, inbox, m)
        BY <1>3, <2>4 DEF Ingest
      <3>2. QED
        BY <1>0, <1>2, <2>1, <2>2, <3>1, WalksThrough
    <2>5. QED
      BY <2>3, <2>4
  <1>4. ASSUME NEW m \in Messages, ReprocessInbound(m)
        PROVE  NothingIsLost'
    <2> DEFINE b == [inbox EXCEPT ![m] = "none"]
    <2>1. Pipeline(held, b, m) /\ UNCHANGED <<archive, work, crashes>>
      BY <1>4 DEF ReprocessInbound
    <2>2. /\ b \in [Messages -> {"none", "green", "red"}]
          /\ \A k \in Messages \ {m} : b[k] = inbox[k]
      BY <1>2
    <2>3. work' = work => (OfRulebook => OfRulebook' /\ work'.inHand = work.inHand)
      BY DEF OfRulebook
    <2> HIDE DEF b
    <2>4. QED
      BY <1>0, <2>1, <2>2, <2>3, WalksThrough
  <1>5. ASSUME NEW m \in Messages, Resume(m)
        PROVE  NothingIsLost'
    <2>1. /\ RulebookWorkOK /\ m \in work.inHand
          /\ work' = [work EXCEPT !.step = "release", !.inHand = {}]
          /\ Pipeline(held, inbox, m) /\ UNCHANGED <<archive, crashes>>
      BY <1>0, <1>5, WhichWork DEF Resume, At, DeskInv
    <2>2. work \in RulebookWork /\ work' \in RulebookWork
      BY <2>1 DEF RulebookWorkOK, RulebookWork, Steps
    <2>3. OfRulebook /\ OfRulebook'
      BY <2>2 DEF OfRulebook, RulebookWork
    <2>4. \A k \in work.inHand : k = m
      BY <1>0, <2>1, <2>3 DEF HandsOK
    <2>5. QED
      BY <1>0, <1>2, <2>1, <2>3, <2>4, WalksThrough
  <1>6. ASSUME NEW m \in Messages, TakeHeld(m)
        PROVE  NothingIsLost'
    <2>1. /\ RulebookWorkOK /\ work.step = "release" /\ held' = held \ {m}
          /\ work' = [work EXCEPT !.release = @ \ {m}, !.inHand = {m} \cap held,
                                  !.step = IF m \in held THEN "resume" ELSE "release"]
          /\ UNCHANGED <<archive, quarantine, inbox, desk, notes, crashes>>
      BY <1>0, <1>6, WhichWork DEF TakeHeld, At, DeskInv
    <2>2. work \in RulebookWork
      BY <2>1 DEF RulebookWorkOK
    <2>3. OfRulebook /\ OfRulebook' /\ work'.inHand = {m} \cap held
      BY <2>1, <2>2 DEF OfRulebook, RulebookWork
    <2>4. work.inHand = {}
      BY <1>0, <2>1, <2>3 DEF HandsOK
    <2>5. QED
      BY <1>0, <2>1, <2>3, <2>4 DEF NothingIsLost, desk
  <1>7. ASSUME NEW m \in Messages, RefuseHeld(m)
        PROVE  NothingIsLost'
    <2>1. /\ held' = held \ {m} /\ rulebooks[Cites[m]].state = "rejected"
          /\ UNCHANGED <<archive, quarantine, inbox, desk, notes, crashes>>
          /\ work.inHand = {}
      BY <1>0, <1>7, RefusingHands DEF RefuseHeld
    <2>2. QED
      BY <1>0, <2>1 DEF NothingIsLost, desk
  <1>8. ASSUME Die
        PROVE  NothingIsLost'
    <2>1. crashes' # 0
      BY <1>0, <1>8, DeadIsExcused DEF DeskInv
    <2>2. QED
      BY <2>1 DEF NothingIsLost
  <1>9. ASSUME Decide
        PROVE  NothingIsLost'
    <2>1. work = NoWork /\ UNCHANGED <<intake, notes, crashes>>
      BY <1>9 DEF Decide, ApproveRulebook, RejectRulebook, ApproveMove, RejectMove
    <2>2. ~OfRulebook
      BY <2>1 DEF NoWork, OfRulebook
    <2>3. QED
      BY <1>0, <2>1, <2>2, LeftWhereTheyAre DEF intake
  <1>10. ASSUME \/ (\E e \in Editions : ApplyTrust(e) \/ MarkApplied(e))
                \/ PinPartner \/ StoreConnections \/ MarkMoved \/ GiveUp \/ DoneDeciding
                \/ TellAccepted \/ TellDeclined
         PROVE  NothingIsLost'
    <2>1. work.step # "resume" /\ UNCHANGED <<intake, crashes>> /\ notes \subseteq notes'
      BY <1>10 DEF ApplyTrust, MarkApplied, PinPartner, StoreConnections, MarkMoved, GiveUp,
                   DoneDeciding, TellAccepted, TellDeclined, At
    <2>2. ~(OfRulebook /\ work.inHand # {})
      BY <1>0, <2>1 DEF HandsOK
    <2>3. QED
      BY <1>0, <2>1, <2>2, LeftWhereTheyAre DEF intake
  <1>11. ASSUME (\E i \in DOMAIN accepting : OverlapEnds(i)) \/ UNCHANGED vars
         PROVE  NothingIsLost'
    <2>1. UNCHANGED <<intake, notes, crashes, work>>
      BY <1>11 DEF OverlapEnds, vars
    <2>2. work' = work => (OfRulebook => OfRulebook' /\ work'.inHand = work.inHand)
      BY DEF OfRulebook
    <2>3. QED
      BY <1>0, <2>1, <2>2, LeftWhereTheyAre DEF intake
  <1>12. NothingIsLost'
    BY <1>3, <1>4, <1>5, <1>6, <1>7, <1>8, <1>9, <1>10, <1>11 DEF Next, Receive, CarryOut
  <1>13. QED
    BY <1>1, <1>12 DEF MessagesInv

LEMMA MessagesInvariant == Spec => []MessagesInv
  <1>1. Init => MessagesInv
    <2>1. Init => HandsOK /\ HeldForItself /\ NothingIsLost
      BY DEF Init, HandsOK, OfRulebook, NoWork, HeldForItself, NothingIsLost
    <2>2. QED
      BY <2>1, DeskInvInit DEF MessagesInv
  <1>2. MessagesInv /\ [Next]_vars => MessagesInv'
    BY NothingLostStep
  <1>3. QED
    BY <1>1, <1>2, PTL DEF Spec

(* No archived message is lost while no deciding process dies (engine.     *)
(* Ingest, Node.Approve): decisions may be taken under the lock or         *)
(* beside the server.                                                      *)
THEOREM NoMessageIsLost == Spec => []NothingIsLost
  <1>1. MessagesInv => NothingIsLost
    BY DEF MessagesInv
  <1>2. QED
    BY <1>1, MessagesInvariant, PTL

-----------------------------------------------------------------------------
(* With decisions under the lock, what is held is on the desk. *)

LEMMA CurrentRecordStep ==
    ASSUME DecideUnderLock, DeskInv, RecordIsCurrent, [Next]_vars
    PROVE  RecordIsCurrent'
  <1>1. CASE \E m \in Messages : Receives(m)
    <2>1. work = NoWork /\ work' = work
      BY <1>1 DEF Receives, Ingest, DiesIngesting, ReprocessInbound, DiesReprocessing, Receiving
    <2>2. QED
      BY <2>1 DEF RecordIsCurrent, OfRulebook, NoWork
  <1>2. ASSUME NEW e \in Editions, ApproveRulebook(e) \/ RejectRulebook(e)
        PROVE  RecordIsCurrent'
    <2>1. \E step : work' = RulebookDecision(e, step, rulebooks'[e])
      BY <1>2 DEF ApproveRulebook, RejectRulebook
    <2>2. work'.edition = e /\ work'.record = rulebooks'[e]
      BY <2>1 DEF RulebookDecision
    <2>3. QED
      BY <2>2 DEF RecordIsCurrent
  <1>3. ASSUME NEW c \in ConnectionSets, ApproveMove(c) \/ RejectMove(c)
        PROVE  RecordIsCurrent'
    <2>1. \E step, p : work' = MoveDecision(c, step, p)
      BY <1>3 DEF ApproveMove, RejectMove
    <2>2. ~OfRulebook'
      BY <2>1 DEF MoveDecision, OfRulebook
    <2>3. QED
      BY <2>2 DEF RecordIsCurrent
  <1>4. ASSUME \/ \E e \in Editions : ApplyTrust(e)
               \/ PinPartner \/ StoreConnections \/ MarkMoved
        PROVE  RecordIsCurrent'
    <2>1. /\ rulebooks' = rulebooks
          /\ work.step \in {"trust", "pin", "connect", "apply"}
          /\ \E s \in {"pin", "connect", "apply", "tell"} : work' = [work EXCEPT !.step = s]
      BY <1>4 DEF ApplyTrust, PinPartner, StoreConnections, MarkMoved, At, desk
    <2>2. CASE work \in RulebookWork
      <3>1. /\ work'.record = work.record /\ work'.edition = work.edition
            /\ OfRulebook
        BY <2>1, <2>2, WorkKinds DEF RulebookWork
      <3>2. QED
        BY <2>1, <3>1 DEF RecordIsCurrent
    <2>3. CASE work \in MoveWork
      <3>1. ~OfRulebook'
        <4>1. work' \in [step : {"pin", "connect", "apply", "tell"},
                         record : MoveProposal, offered : ConnectionSets]
          BY <2>1, <2>3 DEF MoveWork
        <4>2. QED
          BY <4>1 DEF OfRulebook
      <3>2. QED
        BY <3>1 DEF RecordIsCurrent
    <2>4. work # NoWork
      BY <2>1 DEF NoWork
    <2>5. QED
      BY <2>2, <2>3, <2>4 DEF DeskInv, TypeOK
  <1>5. ASSUME \/ \E e \in Editions : MarkApplied(e)
               \/ \E m \in Messages : TakeHeld(m) \/ Resume(m) \/ RefuseHeld(m)
        PROVE  RecordIsCurrent'
    <2>1. RulebookWorkOK
      BY <1>5, WhichWork DEF MarkApplied, TakeHeld, Resume, RefuseHeld, At, DeskInv, Steps
    <2>2. work'.step \in {"tell", "release", "resume", "remove"}
      BY <1>5, <2>1 DEF MarkApplied, TakeHeld, Resume, RefuseHeld, At, RulebookWorkOK, RulebookWork
    <2>3. QED
      BY <2>2 DEF RecordIsCurrent
  <1>6. ASSUME TellAccepted \/ TellDeclined
        PROVE  RecordIsCurrent'
    <2>1. CASE ~OfRulebook
      <3>1. work' = NoWork
        BY <1>6, <2>1 DEF TellAccepted, TellDeclined
      <3>2. QED
        BY <3>1 DEF RecordIsCurrent, OfRulebook, NoWork
    <2>2. CASE OfRulebook
      <3>1. work \in RulebookWork
        BY <2>2, WorkKinds DEF DeskInv, TypeOK
      <3>2. work'.step \in {"release", "remove"}
        BY <1>6, <2>2, <3>1 DEF TellAccepted, TellDeclined, RulebookWork
      <3>3. QED
        BY <3>2 DEF RecordIsCurrent
    <2>3. QED
      BY <2>1, <2>2
  <1>9. ASSUME \/ DoneDeciding \/ GiveUp \/ Crash
               \/ \E e \in Editions : DiesMoving(e)
               \/ \E c \in ConnectionSets : DiesMovingMove(c)
               \/ \E m \in Messages : DiesResuming(m)
        PROVE  RecordIsCurrent'
    <2>1. work' = NoWork
      BY <1>9 DEF DoneDeciding, GiveUp, Crash, DiesMoving, DiesMovingMove, DiesResuming
    <2>2. QED
      BY <2>1 DEF RecordIsCurrent, OfRulebook, NoWork
  <1>7. ASSUME (\E i \in DOMAIN accepting : OverlapEnds(i)) \/ UNCHANGED vars
        PROVE  RecordIsCurrent'
    <2>1. UNCHANGED <<work, rulebooks>>
      BY <1>7 DEF OverlapEnds, vars, desk
    <2>2. QED
      BY <2>1 DEF RecordIsCurrent, OfRulebook
  <1>8. QED
    BY <1>1, <1>2, <1>3, <1>4, <1>5, <1>6, <1>7, <1>9
    DEF Next, Receive, Receives, Decide, CarryOut, Die

(* Messages that stay in held/ stay on the desk: a proposal that waits     *)
(* goes on waiting for them, is rejected, or is released with them.        *)
LEMMA StaysOnTheDesk ==
    ASSUME DeskInv, HeldIsOnTheDesk,
           held' \subseteq held, notes \subseteq notes', crashes' = 0 => crashes = 0,
           \A e \in Editions :
             /\ rulebooks[e].state = "rejected" => rulebooks'[e].state = "rejected"
             /\ Pending(rulebooks[e]) =>
                  \/ rulebooks'[e].state = "rejected"
                  \/ /\ Pending(rulebooks'[e])
                     /\ rulebooks[e].heldMessages \subseteq rulebooks'[e].heldMessages
                  \/ /\ OfRulebook'
                     /\ rulebooks[e].heldMessages \subseteq work'.release,
           OfRulebook => \A k \in work.release \cap held' : OfRulebook' /\ k \in work'.release
    PROVE  HeldIsOnTheDesk'
  <1>1. SUFFICES ASSUME crashes' = 0, NEW m \in held'
                 PROVE  \/ <<m, "please_resend_complete">> \in notes'
                        \/ Pending(rulebooks'[Cites[m]]) /\ m \in rulebooks'[Cites[m]].heldMessages
                        \/ rulebooks'[Cites[m]].state = "rejected"
                        \/ OfRulebook' /\ m \in work'.release
    BY DEF HeldIsOnTheDesk
  <1>2. m \in held /\ crashes = 0 /\ Cites[m] \in Editions
    BY <1>1, MessageAssumption DEF DeskInv, TypeOK
  <1>3. \/ <<m, "please_resend_complete">> \in notes
        \/ Pending(rulebooks[Cites[m]]) /\ m \in rulebooks[Cites[m]].heldMessages
        \/ rulebooks[Cites[m]].state = "rejected"
        \/ OfRulebook /\ m \in work.release
    BY <1>2 DEF HeldIsOnTheDesk
  <1>4. QED
    BY <1>1, <1>2, <1>3

(* What a message held for review finds its edition's proposal to be. *)
LEMMA NoticedHolds ==
    ASSUME DeskInv, NEW m \in Messages
    PROVE  LET p == rulebooks[Cites[m]]  r == NoticedRulebook(m) IN
           /\ p.state = "rejected" => r.state = "rejected"
           /\ \/ r.state = "rejected"
              \/ Pending(r) /\ m \in r.heldMessages
           /\ Pending(p) => Pending(r) /\ p.heldMessages \subseteq r.heldMessages
  <1> DEFINE p == rulebooks[Cites[m]]
  <1>1. p \in RulebookProposal \cup {NoProposal}
    BY MessageAssumption DEF DeskInv, TypeOK
  <1>2. CASE Pending(p)
    <2>1. p \in RulebookProposal
      BY <1>1, <1>2 DEF Pending, NoProposal
    <2>2. /\ NoticedRulebook(m).heldMessages = p.heldMessages \cup {m}
          /\ NoticedRulebook(m).state = p.state
      BY <1>2, <2>1 DEF NoticedRulebook, RulebookProposal
    <2>3. QED
      BY <1>2, <2>2 DEF Pending
  <1>3. CASE ~Pending(p) /\ p.state = "rejected"
    BY <1>3 DEF NoticedRulebook
  <1>4. CASE ~Pending(p) /\ p.state # "rejected"
    <2>1. NoticedRulebook(m).heldMessages = {m} /\ NoticedRulebook(m).state = "waiting_for_review"
      BY <1>4 DEF NoticedRulebook, NewRulebookProposal
    <2>2. QED
      BY <1>4, <2>1 DEF Pending
  <1>5. QED
    BY <1>2, <1>3, <1>4

(* What the pipeline holds is on the desk. *)
LEMMA HeldByThePipeline ==
    ASSUME DeskInv, HeldIsOnTheDesk, NEW b \in [Messages -> {"none", "green", "red"}],
           NEW m \in Messages, Pipeline(held, b, m), crashes' = crashes,
           OfRulebook => OfRulebook' /\ work'.release = work.release
    PROVE  HeldIsOnTheDesk'
  <1>1. \A k \in Messages : Cites[k] \in Editions
    BY MessageAssumption
  <1>2. notes \subseteq notes'
    BY PipelinePlaces
  <1>3. \/ held' = held /\ rulebooks' = rulebooks
        \/ /\ held' = held \cup {m} /\ rulebooks' = rulebooks
           /\ <<m, "please_resend_complete">> \in notes'
        \/ /\ held' = held \cup {m}
           /\ rulebooks' = [rulebooks EXCEPT ![Cites[m]] = NoticedRulebook(m)]
    BY DEF Pipeline, Quarantine, RefuseRetired, AskForRulebook, HoldForReview,
           DeliverToInbox, desk
  <1>4. CASE held' = held /\ rulebooks' = rulebooks
    BY <1>2, <1>4, StaysOnTheDesk
  <1>5. ASSUME held' = held \cup {m},
               \/ rulebooks' = rulebooks /\ <<m, "please_resend_complete">> \in notes'
               \/ rulebooks' = [rulebooks EXCEPT ![Cites[m]] = NoticedRulebook(m)]
        PROVE  HeldIsOnTheDesk'
    <2>1. \/ rulebooks' = rulebooks /\ <<m, "please_resend_complete">> \in notes'
          \/ \A e \in Editions :
                rulebooks'[e] = IF e = Cites[m] THEN NoticedRulebook(m) ELSE rulebooks[e]
      BY <1>5 DEF DeskInv, TypeOK
    <2>2. \A e \in Editions :
            /\ rulebooks[e].state = "rejected" => rulebooks'[e].state = "rejected"
            /\ Pending(rulebooks[e]) =>
                 /\ Pending(rulebooks'[e])
                 /\ rulebooks[e].heldMessages \subseteq rulebooks'[e].heldMessages
      BY <2>1, NoticedHolds
    <2>3. \/ <<m, "please_resend_complete">> \in notes'
          \/ Pending(rulebooks'[Cites[m]]) /\ m \in rulebooks'[Cites[m]].heldMessages
          \/ rulebooks'[Cites[m]].state = "rejected"
      BY <1>1, <2>1, NoticedHolds
    <2>4. SUFFICES ASSUME crashes' = 0, NEW k \in held'
                   PROVE  \/ <<k, "please_resend_complete">> \in notes'
                          \/ Pending(rulebooks'[Cites[k]]) /\ k \in rulebooks'[Cites[k]].heldMessages
                          \/ rulebooks'[Cites[k]].state = "rejected"
                          \/ OfRulebook' /\ k \in work'.release
      BY DEF HeldIsOnTheDesk
    <2>5. CASE k = m
      BY <2>3, <2>5
    <2>6. CASE k # m
      <3>1. k \in held /\ crashes = 0 /\ k \in Messages
        BY <1>5, <2>4, <2>6 DEF DeskInv, TypeOK
      <3>2. \/ <<k, "please_resend_complete">> \in notes
            \/ Pending(rulebooks[Cites[k]]) /\ k \in rulebooks[Cites[k]].heldMessages
            \/ rulebooks[Cites[k]].state = "rejected"
            \/ OfRulebook /\ k \in work.release
        BY <3>1 DEF HeldIsOnTheDesk
      <3>3. QED
        BY <1>1, <1>2, <2>2, <3>1, <3>2
    <2>7. QED
      BY <2>5, <2>6
  <1>6. QED
    BY <1>3, <1>4, <1>5

LEMMA HeldStep ==
    ASSUME DecideUnderLock, HeldInv, [Next]_vars
    PROVE  HeldInv'
  <1>0. DeskInv /\ HandsOK /\ HeldIsOnTheDesk /\ RecordIsCurrent /\ RulebooksKept
    BY DecisionsKept DEF HeldInv, MessagesInv
  <1>1. MessagesInv' /\ RecordIsCurrent'
    BY <1>0, NothingLostStep, CurrentRecordStep DEF HeldInv
  <1>2. /\ inbox \in [Messages -> {"none", "green", "red"}]
        /\ \A e \in Editions : rulebooks[e] \in RulebookProposal \cup {NoProposal}
        /\ \A e \in Editions :
             rulebooks[e].state = "rejected" => rulebooks'[e].state = "rejected"
    BY <1>0 DEF DeskInv, TypeOK, RulebooksKept
  <1>3. ASSUME NEW m \in Messages, Ingest(m) \/ ReprocessInbound(m)
        PROVE  HeldIsOnTheDesk'
    <2>1. UNCHANGED <<work, crashes>>
      BY <1>3 DEF Ingest, ReprocessInbound
    <2>2. OfRulebook => OfRulebook' /\ work'.release = work.release
      BY <2>1 DEF OfRulebook
    <2>3. \/ Quarantine(held, inbox, m)
          \/ \E b \in [Messages -> {"none", "green", "red"}] : Pipeline(held, b, m)
      BY <1>2, <1>3 DEF Ingest, ReprocessInbound
    <2>4. CASE Quarantine(held, inbox, m)
      <3>1. held' = held /\ notes' = notes /\ rulebooks' = rulebooks
        BY <2>4 DEF Quarantine, desk
      <3>2. QED
        BY <1>0, <2>1, <2>2, <3>1, StaysOnTheDesk
    <2>5. QED
      BY <1>0, <2>1, <2>2, <2>3, <2>4, HeldByThePipeline
  <1>4. ASSUME NEW m \in Messages, Resume(m)
        PROVE  HeldIsOnTheDesk'
    <2>1. /\ RulebookWorkOK /\ Pipeline(held, inbox, m) /\ crashes' = crashes
          /\ work' = [work EXCEPT !.step = "release", !.inHand = {}]
      BY <1>0, <1>4, WhichWork DEF Resume, At, DeskInv
    <2>2. OfRulebook' /\ work'.release = work.release
      BY <2>1 DEF RulebookWorkOK, RulebookWork, OfRulebook
    <2>3. QED
      BY <1>0, <1>2, <2>1, <2>2, HeldByThePipeline
  <1>5. ASSUME NEW m \in Messages, TakeHeld(m)
        PROVE  HeldIsOnTheDesk'
    <2>1. /\ RulebookWorkOK /\ held' = held \ {m}
          /\ work' = [work EXCEPT !.release = @ \ {m}, !.inHand = {m} \cap held,
                                  !.step = IF m \in held THEN "resume" ELSE "release"]
          /\ rulebooks' = rulebooks /\ UNCHANGED <<notes, crashes>>
      BY <1>0, <1>5, WhichWork DEF TakeHeld, At, DeskInv, desk
    <2>2. OfRulebook' /\ work'.release = work.release \ {m}
      BY <2>1 DEF RulebookWorkOK, RulebookWork, OfRulebook
    <2>3. QED
      BY <1>0, <2>1, <2>2, StaysOnTheDesk
  <1>6. ASSUME NEW e \in Editions, ApproveRulebook(e) \/ RejectRulebook(e)
        PROVE  HeldIsOnTheDesk'
    <2>1. /\ work = NoWork /\ UNCHANGED <<held, notes, crashes>>
          /\ Waits(rulebooks[e])
          /\ \E state \in {"approved", "rejected"} :
               rulebooks' = [rulebooks EXCEPT ![e] = [rulebooks[e] EXCEPT !.state = state]]
      BY <1>6 DEF ApproveRulebook, RejectRulebook, intake
    <2>2. PICK state \in {"approved", "rejected"} :
            rulebooks' = [rulebooks EXCEPT ![e] = [rulebooks[e] EXCEPT !.state = state]]
      BY <2>1
    <2>3. rulebooks[e] \in RulebookProposal
      BY <1>0, <2>1, Waiting
    <2> DEFINE r == [rulebooks[e] EXCEPT !.state = state]
    <2>4. r.heldMessages = rulebooks[e].heldMessages /\ r.state = state
      BY <2>3 DEF RulebookProposal
    <2>5. rulebooks' = [rulebooks EXCEPT ![e] = r]
      BY <2>2
    <2> HIDE DEF r
    <2>6. \A d \in Editions : rulebooks'[d] = IF d = e THEN r ELSE rulebooks[d]
      BY <1>0, <2>5 DEF DeskInv, TypeOK
    <2>7. \A d \in Editions : Pending(rulebooks[d]) =>
            \/ rulebooks'[d].state = "rejected"
            \/ /\ Pending(rulebooks'[d])
               /\ rulebooks[d].heldMessages \subseteq rulebooks'[d].heldMessages
      BY <2>4, <2>6 DEF Pending
    <2>8. ~OfRulebook
      BY <2>1 DEF NoWork, OfRulebook
    <2>9. QED
      BY <1>0, <1>2, <2>1, <2>7, <2>8, StaysOnTheDesk
  <1>7. ASSUME NEW e \in Editions, MarkApplied(e)
        PROVE  HeldIsOnTheDesk'
    <2>1. /\ RulebookWorkOK /\ OfRulebook /\ work.edition = e /\ work.step = "apply"
          /\ work' = [work EXCEPT !.step = "tell", !.release = work.record.heldMessages]
          /\ UNCHANGED <<held, crashes>> /\ notes \subseteq notes'
      BY <1>0, <1>7, WhichWork DEF MarkApplied, At, DeskInv, Steps, intake
    <2>2. OfRulebook' /\ work'.release = rulebooks[e].heldMessages
      BY <1>0, <2>1 DEF RulebookWorkOK, RulebookWork, OfRulebook, RecordIsCurrent
    <2>3. work.release = {}
      BY <1>0, <2>1 DEF HandsOK, Emptying
    <2>4. \A d \in Editions : d # e => rulebooks'[d] = rulebooks[d]
      BY <1>0, <1>7 DEF MarkApplied, DeskInv, TypeOK
    <2>5. \A d \in Editions : Pending(rulebooks[d]) =>
            \/ /\ Pending(rulebooks'[d])
               /\ rulebooks[d].heldMessages \subseteq rulebooks'[d].heldMessages
            \/ /\ OfRulebook'
               /\ rulebooks[d].heldMessages \subseteq work'.release
      BY <2>2, <2>4
    <2>6. QED
      BY <1>0, <1>2, <2>1, <2>3, <2>5, StaysOnTheDesk
  <1>8. ASSUME \/ \E c \in ConnectionSets : ApproveMove(c) \/ RejectMove(c)
               \/ \E e \in Editions : ApplyTrust(e)
               \/ PinPartner \/ StoreConnections \/ MarkMoved \/ GiveUp \/ TellDeclined
        PROVE  HeldIsOnTheDesk'
    <2> DEFINE Unmoved == /\ rulebooks' = rulebooks /\ UNCHANGED <<held, crashes>>
                          /\ notes \subseteq notes'
                          /\ \/ work.step \notin Emptying
                             \/ ~OfRulebook
    <2>a. ASSUME NEW c \in ConnectionSets, ApproveMove(c) \/ RejectMove(c)
          PROVE  Unmoved
      BY <2>a DEF ApproveMove, RejectMove, intake, NoWork, Emptying
    <2>b. ASSUME NEW e \in Editions, ApplyTrust(e)
          PROVE  Unmoved
      BY <2>b DEF ApplyTrust, At, desk, intake, Emptying
    <2>c. ASSUME PinPartner \/ StoreConnections \/ MarkMoved \/ GiveUp \/ TellDeclined
          PROVE  Unmoved
      BY <2>c DEF PinPartner, StoreConnections, MarkMoved, GiveUp, TellDeclined, At, desk,
                  intake, Emptying
    <2>1. Unmoved
      BY <1>8, <2>a, <2>b, <2>c
    <2>2. OfRulebook => work.release = {}
      BY <1>0, <2>1 DEF HandsOK
    <2>3. QED
      BY <1>0, <2>1, <2>2, StaysOnTheDesk
  <1>9. ASSUME DoneDeciding
        PROVE  HeldIsOnTheDesk'
    <2>1. /\ rulebooks' = rulebooks /\ held' \subseteq held /\ UNCHANGED <<notes, crashes>>
          /\ work.release = {}
      BY <1>9 DEF DoneDeciding, desk, intake
    <2>2. QED
      BY <1>0, <2>1, StaysOnTheDesk
  <1>10. ASSUME Die
         PROVE  HeldIsOnTheDesk'
    <2>1. crashes' # 0
      BY <1>0, <1>10, DeadIsExcused DEF DeskInv
    <2>2. QED
      BY <2>1 DEF HeldIsOnTheDesk
  <1>14. ASSUME NEW m \in Messages, RefuseHeld(m)
         PROVE  HeldIsOnTheDesk'
    <2>1. /\ held' = held \ {m} /\ rulebooks' = rulebooks /\ UNCHANGED <<notes, crashes>>
          /\ OfRulebook' /\ work'.release = work.release \ {m}
      BY <1>0, <1>14, RefusingHands DEF RefuseHeld, desk
    <2>2. QED
      BY <1>0, <2>1, StaysOnTheDesk
  <1>15. ASSUME TellAccepted
         PROVE  HeldIsOnTheDesk'
    <2>1. /\ UNCHANGED <<rulebooks, held, crashes>> /\ notes \subseteq notes'
          /\ OfRulebook => work' = [work EXCEPT !.step = "release"]
      BY <1>15 DEF TellAccepted, intake, desk
    <2>2. OfRulebook => OfRulebook' /\ work'.release = work.release
      <3>1. OfRulebook => work \in RulebookWork
        BY <1>0, WorkKinds DEF DeskInv, TypeOK
      <3>2. QED
        BY <2>1, <3>1 DEF RulebookWork, OfRulebook
    <2>3. QED
      BY <1>0, <2>1, <2>2, StaysOnTheDesk
  <1>11. ASSUME (\E i \in DOMAIN accepting : OverlapEnds(i)) \/ UNCHANGED vars
         PROVE  HeldIsOnTheDesk'
    <2>1. UNCHANGED <<held, rulebooks, notes, crashes, work>>
      BY <1>11 DEF OverlapEnds, vars, desk, intake
    <2>2. OfRulebook => OfRulebook' /\ work'.release = work.release
      BY <2>1 DEF OfRulebook
    <2>3. QED
      BY <1>0, <2>1, <2>2, StaysOnTheDesk
  <1>12. HeldIsOnTheDesk'
    BY <1>3, <1>4, <1>5, <1>6, <1>7, <1>8, <1>9, <1>10, <1>11, <1>14, <1>15
    DEF Next, Receive, Decide, CarryOut
  <1>13. QED
    BY <1>1, <1>12 DEF HeldInv

(* While no deciding process dies, every held message has a reason: the    *)
(* sender was asked for the complete message, a proposal that waits names  *)
(* it, its rulebook was rejected, or it is being released                  *)
(* (Desk.NoticeRulebook, Node.Approve).  It rests on the lock: a decision  *)
(* beside the server applies a record that no longer names all of them.    *)
THEOREM HeldMessagesAreOnTheDesk ==
    ASSUME DecideUnderLock
    PROVE  Spec => []HeldIsOnTheDesk
  <1>1. Init => HeldInv
    <2>1. Init => /\ HandsOK /\ HeldForItself /\ NothingIsLost
                  /\ RecordIsCurrent /\ HeldIsOnTheDesk
      BY DEF Init, HandsOK, OfRulebook, NoWork, HeldForItself, NothingIsLost,
             RecordIsCurrent, HeldIsOnTheDesk
    <2>2. QED
      BY <2>1, DeskInvInit DEF HeldInv, MessagesInv
  <1>2. HeldInv /\ [Next]_vars => HeldInv'
    BY HeldStep
  <1>3. HeldInv => HeldIsOnTheDesk
    BY DEF HeldInv
  <1>4. QED
    BY <1>1, <1>2, <1>3, PTL DEF Spec

-----------------------------------------------------------------------------
(* The trust record grows at its end, and nothing but the overlap changes  *)
(* in what is there.                                                       *)
LEMMA TheOldStaysFirst ==
    ASSUME TypeOK, NEW d \in Editions, ApplyTrust(d), NEW e \in Editions,
           NEW i \in DOMAIN accepting, FirstMatch(e, i)
    PROVE  /\ i \in DOMAIN accepting'
           /\ FirstMatch(e, i)'
           /\ accepting'[i].edition = accepting[i].edition
           /\ \/ accepting'[i].until = accepting[i].until
              \/ accepting'[i].until = OverlapEnd(d)
  <1> DEFINE n == Len(accepting)
  <1>1. n \in Nat /\ DOMAIN accepting = 1..n
    BY AcceptingType
  <1>2. /\ DOMAIN accepting' = 1..(n + 1)
        /\ \A j \in DOMAIN accepting :
             /\ accepting'[j].edition = accepting[j].edition
             /\ \/ accepting'[j].until = accepting[j].until
                \/ accepting'[j].until = OverlapEnd(d)
    BY SupersededType DEF ApplyTrust
  <1> HIDE DEF n
  <1>3. i \in DOMAIN accepting' /\ \A j \in 1..i : j \in DOMAIN accepting
    BY <1>1, <1>2
  <1>4. FirstMatch(e, i)'
    BY <1>1, <1>2, <1>3 DEF FirstMatch, Matches
  <1>5. QED
    BY <1>2, <1>3, <1>4

(* Approving an edition whose overlap lies ahead takes no accepted edition *)
(* out of use in the same step (applyRulebook, trust.Record.StatusOf),     *)
(* whatever the versions and the order they were approved in.              *)
THEOREM TheOldStaysInUse == Spec => ApprovalKeepsTheOld
  <1>1. ASSUME TypeOK, NEW d \in Editions, d \notin BackDated, ApplyTrust(d),
               NEW e \in Editions, IsTrusted(e)
        PROVE  IsTrusted(e)'
    <2>1. PICK i \in DOMAIN accepting :
            FirstMatch(e, i) /\ accepting[i].edition = e /\ accepting[i].until # "past"
      BY <1>1 DEF IsTrusted
    <2>2. OverlapEnd(d) # "past"
      BY <1>1 DEF OverlapEnd
    <2>3. /\ i \in DOMAIN accepting' /\ FirstMatch(e, i)'
          /\ accepting'[i].edition = e /\ accepting'[i].until # "past"
      BY <1>1, <2>1, <2>2, TheOldStaysFirst
    <2>4. QED
      BY <2>3 DEF IsTrusted
  <1>2. ASSUME DeskInv, ApplyTrust(work.edition)
        PROVE  TypeOK /\ work.edition \in Editions
    <2>1. RulebookWorkOK
      BY <1>2, WhichWork DEF DeskInv, ApplyTrust, At
    <2>2. QED
      BY <1>2, <2>1 DEF DeskInv, RulebookWorkOK, RulebookWork
  <1>3. DeskInv /\ [Next]_vars =>
          [\A e \in Editions :
             (ApplyTrust(work.edition) /\ work.edition \notin BackDated /\ IsTrusted(e))
               => IsTrusted(e)']_vars
    BY <1>1, <1>2
  <1>4. QED
    BY <1>3, DeskInvariant, PTL DEF Spec, ApprovalKeepsTheOld

-----------------------------------------------------------------------------
(* Three statements of the repository that the code keeps only under a     *)
(* condition, each with the condition under which it does.                 *)

(* Only a message without its rulebook makes the node ask for it.          *)
NotAskedAgain == \A m \in Complete : <<m, "please_resend_complete">> \notin notes

LEMMA NotAskedStep ==
    ASSUME NotAskedAgain, [Next]_vars
    PROVE  NotAskedAgain'
  <1> DEFINE NewNotes == \A n \in notes' \ notes : \/ n[2] \in {"accepted", "declined"}
                                                   \/ n[1] \notin Complete
  <1>0. ASSUME NewNotes
        PROVE  NotAskedAgain'
    <2>1. SUFFICES ASSUME NEW m \in Complete, <<m, "please_resend_complete">> \in notes'
                   PROVE  FALSE
      BY DEF NotAskedAgain
    <2>2. <<m, "please_resend_complete">> \notin notes
      BY DEF NotAskedAgain
    <2>3. QED
      BY <1>0, <2>1, <2>2
  <1>1. ASSUME NEW h, NEW b, NEW m \in Messages, Pipeline(h, b, m) \/ Quarantine(h, b, m)
        PROVE  NewNotes
    <2>1. \/ notes' = notes \/ notes' = notes \cup {<<m, "declined">>}
          \/ m \notin Complete /\ notes' = notes \cup {<<m, "please_resend_complete">>}
      BY <1>1 DEF Pipeline, Quarantine, RefuseRetired, AskForRulebook, HoldForReview, DeliverToInbox
    <2>2. QED
      BY <2>1
  <1>2. ASSUME Receive \/ \E m \in Messages : Resume(m)
        PROVE  NewNotes
    BY <1>1, <1>2 DEF Receive, Ingest, ReprocessInbound, Resume
  <1>3. ASSUME TellAccepted \/ TellDeclined
        PROVE  NewNotes
    <2>1. \E n : notes' = notes \cup {<<n, "accepted">>} \/ notes' = notes \cup {<<n, "declined">>}
      BY <1>3 DEF TellAccepted, TellDeclined
    <2>2. QED
      BY <2>1
  <1>4. ASSUME \/ Decide \/ PinPartner \/ StoreConnections \/ MarkMoved \/ GiveUp \/ DoneDeciding
               \/ (\E e \in Editions : ApplyTrust(e) \/ MarkApplied(e))
               \/ (\E m \in Messages : TakeHeld(m) \/ RefuseHeld(m))
               \/ (\E i \in DOMAIN accepting : OverlapEnds(i)) \/ UNCHANGED vars
        PROVE  NewNotes
    <2>1. notes' = notes
      BY <1>4 DEF Decide, ApproveRulebook, RejectRulebook, ApproveMove, RejectMove, PinPartner,
                  StoreConnections, MarkMoved, GiveUp, DoneDeciding, RefuseHeld, ApplyTrust,
                  MarkApplied, TakeHeld, OverlapEnds, vars
    <2>2. QED
      BY <2>1
  <1>5. ASSUME Die
        PROVE  NewNotes
    <2>1. notes' = notes
      BY <1>5 DEF Die, Crash, DiesMoving, DiesMovingMove, DiesIngesting, DiesReprocessing,
                  DiesResuming, DiesInPipeline
    <2>2. QED
      BY <2>1
  <1>6. NewNotes
    BY <1>2, <1>3, <1>4, <1>5 DEF Next, CarryOut
  <1>7. QED
    BY <1>0, <1>6

(* "Held messages are processed" (Desk.ifApprovedRulebook) is true of      *)
(* decisions taken under the node's lock, in the console: once one is      *)
(* carried out, no complete message waits in held/ for a rulebook that is  *)
(* applied.  Beside the server it is false (run desk_beside).              *)
THEOREM ApprovedUnderTheLock ==
    ASSUME DecideUnderLock
    PROVE  Spec => []ApprovedIsProcessed
  <1>1. Init => NotAskedAgain
    BY DEF Init, NotAskedAgain
  <1>2. NotAskedAgain /\ [Next]_vars => NotAskedAgain'
    BY NotAskedStep
  <1>3. Spec => []NotAskedAgain
    BY <1>1, <1>2, PTL DEF Spec
  <1>4. NotAskedAgain /\ HeldIsOnTheDesk => ApprovedIsProcessed
    <2>1. SUFFICES ASSUME NotAskedAgain, HeldIsOnTheDesk, work = NoWork, crashes = 0,
                          NEW m \in held \cap Complete
                   PROVE  rulebooks[Cites[m]].state # "applied"
      BY DEF ApprovedIsProcessed
    <2>2. ~OfRulebook
      BY <2>1, WorkKinds
    <2>3. \/ Pending(rulebooks[Cites[m]])
          \/ rulebooks[Cites[m]].state = "rejected"
      BY <2>1, <2>2 DEF HeldIsOnTheDesk, NotAskedAgain
    <2>4. QED
      BY <2>3 DEF Pending
  <1>5. Spec => []HeldIsOnTheDesk
    BY HeldMessagesAreOnTheDesk
  <1>6. QED
    BY <1>3, <1>4, <1>5, PTL

-----------------------------------------------------------------------------
(* The edition accepted last has no end of its overlap yet.                *)
LastIsOpen == accepting # <<>> => accepting[Len(accepting)].until = ""

(* It declares a version above all accepted before it.                     *)
LastIsHighest ==
    \A i \in DOMAIN accepting :
        i # Len(accepting) =>
            Version[accepting[i].edition] < Version[accepting[Len(accepting)].edition]

(* Only three steps write what is trusted.                                 *)
LEMMA TrustedRests ==
    ASSUME [Next]_vars
    PROVE  \/ UNCHANGED trusted
           \/ \E e \in Editions : ApplyTrust(e)
           \/ UNCHANGED <<accepting, connections>> /\ PinPartner
           \/ UNCHANGED accepting /\ StoreConnections
           \/ UNCHANGED connections /\ \E i \in DOMAIN accepting : OverlapEnds(i)
  <1>1. Receive \/ Decide => UNCHANGED trusted
    BY DEF Receive, Ingest, ReprocessInbound, Decide, ApproveRulebook, RejectRulebook,
           ApproveMove, RejectMove
  <1>2. Die => UNCHANGED trusted
    BY DEF Die, Crash, DiesMoving, DiesMovingMove, DiesIngesting, DiesReprocessing, DiesResuming
  <1>3. \/ \E e \in Editions : MarkApplied(e)
        \/ \E m \in Messages : TakeHeld(m) \/ Resume(m) \/ RefuseHeld(m)
        \/ MarkMoved \/ GiveUp \/ DoneDeciding \/ TellAccepted \/ TellDeclined \/ UNCHANGED vars
        => UNCHANGED trusted
    BY DEF MarkApplied, TakeHeld, Resume, RefuseHeld, MarkMoved, GiveUp, DoneDeciding,
           TellAccepted, TellDeclined, vars
  <1>4. PinPartner => UNCHANGED <<accepting, connections>>
    BY DEF PinPartner
  <1>5. StoreConnections => UNCHANGED accepting
    BY DEF StoreConnections
  <1>6. (\E i \in DOMAIN accepting : OverlapEnds(i)) => UNCHANGED connections
    BY DEF OverlapEnds
  <1>7. QED
    BY <1>1, <1>2, <1>3, <1>4, <1>5, <1>6 DEF Next, CarryOut

LEMMA LastStaysOpen ==
    ASSUME DeskInv, LastIsOpen, [Next]_vars
    PROVE  LastIsOpen'
  <1> DEFINE n == Len(accepting)
  <1>0. n \in Nat /\ DOMAIN accepting = 1..n /\ accepting \in Seq(TrustedVersion)
    BY AcceptingType DEF DeskInv, TypeOK
  <1>1. accepting # <<>> => n \in DOMAIN accepting
    BY <1>0
  <1>2. ASSUME NEW e \in Editions, ApplyTrust(e)
        PROVE  LastIsOpen'
    <2> DEFINE s == Superseded(e)
               entry == [edition |-> e, until |-> ""]
    <2>1. s \in Seq(TrustedVersion) /\ Len(s) = n
      BY SupersededSeq DEF DeskInv
    <2>2. accepting' = Append(s, entry)
      BY <1>2 DEF ApplyTrust
    <2> HIDE DEF s
    <2>3. entry \in TrustedVersion /\ entry.until = ""
      BY DEF TrustedVersion, Ends
    <2> HIDE DEF entry, n
    <2>4. Len(accepting') = n + 1 /\ accepting'[n + 1] = entry
      BY <2>1, <2>2, <2>3, AppendProperties
    <2>5. QED
      BY <2>3, <2>4 DEF LastIsOpen
  <1>3. ASSUME NEW i \in DOMAIN accepting, OverlapEnds(i)
        PROVE  LastIsOpen'
    <2> DEFINE entry == [accepting[i] EXCEPT !.until = "past"]
    <2>1. accepting' = [accepting EXCEPT ![i] = entry] /\ accepting[i].until = "ahead"
      BY <1>3 DEF OverlapEnds
    <2>2. accepting # <<>>
      BY <1>0, <1>3
    <2>3. accepting[n].until = ""
      BY <2>2 DEF LastIsOpen
    <2>4. entry \in TrustedVersion
      BY <1>3, AcceptingType DEF TrustedVersion, Ends, DeskInv
    <2> HIDE DEF n, entry
    <2>5. accepting' \in Seq(TrustedVersion) /\ Len(accepting') = n
      BY <1>0, <1>3, <2>1, <2>4, ExceptSeq DEF n
    <2>6. i # n
      BY <2>1, <2>3
    <2>7. accepting'[n] = accepting[n]
      BY <1>0, <1>1, <2>1, <2>2, <2>6
    <2>8. QED
      BY <2>3, <2>5, <2>7 DEF LastIsOpen
  <1>4. ASSUME accepting' = accepting
        PROVE  LastIsOpen'
    BY <1>4 DEF LastIsOpen
  <1>5. \/ accepting' = accepting
        \/ \E e \in Editions : ApplyTrust(e)
        \/ \E i \in DOMAIN accepting : OverlapEnds(i)
    BY TrustedRests DEF trusted
  <1>6. QED
    BY <1>2, <1>3, <1>4, <1>5

(* "Version below trusted, not accepted anymore" (trust.go, on downgrade)  *)
(* is true as long as the edition approved last declares the highest       *)
(* version, whatever overlaps were granted: a message is refused as a      *)
(* downgrade only when a higher version is in use.  Approved out of order  *)
(* it is false (run desk_retired).                                         *)
THEOREM DowngradeIsBelowTheLast == Spec => [](LastIsHighest => DowngradeIsBelow)
  <1>1. Init => LastIsOpen
    BY DEF Init, LastIsOpen
  <1>2. DeskInv /\ LastIsOpen /\ [Next]_vars => LastIsOpen'
    BY LastStaysOpen
  <1>3. Spec => []LastIsOpen
    BY <1>1, <1>2, DeskInvariant, PTL DEF Spec
  <1>4. DeskInv /\ LastIsOpen => (LastIsHighest => DowngradeIsBelow)
    <2> DEFINE n == Len(accepting)
               f == accepting[n].edition
    <2>1. SUFFICES ASSUME DeskInv, LastIsOpen, LastIsHighest,
                          NEW e \in Editions, IsDowngrade(e)
                   PROVE  f \in Editions /\ IsTrusted(f) /\ Version[f] > Version[e]
      BY DEF DowngradeIsBelow
    <2>2. PICK i \in DOMAIN accepting : accepting[i].edition = e /\ accepting[i].until = "past"
      BY <2>1 DEF IsDowngrade
    <2>3. n \in Nat /\ DOMAIN accepting = 1..n /\ n \in DOMAIN accepting
      BY <2>1, <2>2, AcceptingType DEF DeskInv, TypeOK
    <2>4. accepting[n].until = ""
      <3>1. accepting \in Seq(TrustedVersion) /\ n # 0
        BY <2>1, <2>3 DEF DeskInv, TypeOK
      <3>2. accepting # <<>>
        BY <3>1
      <3>3. QED
        BY <2>1, <3>2 DEF LastIsOpen
    <2>5. i # n
      BY <2>2, <2>4
    <2>6. \A j \in DOMAIN accepting : accepting[j].edition \in Editions
      BY <2>1, AcceptingType DEF DeskInv, TrustedVersion
    <2>7. \A d \in Editions : Version[d] \in Nat
      BY EditionAssumption
    <2>8. f \in Editions /\ Version[f] > Version[e]
      BY <2>1, <2>2, <2>3, <2>5, <2>6, <2>7 DEF LastIsHighest
    <2>9. \A j \in 1..(n - 1) : j \in DOMAIN accepting /\ Version[accepting[j].edition] < Version[f]
      BY <2>1, <2>3 DEF LastIsHighest
    <2>10. FirstMatch(f, n)
      BY <2>3, <2>6, <2>7, <2>8, <2>9 DEF FirstMatch, Matches
    <2>11. IsTrusted(f)
      BY <2>3, <2>4, <2>10 DEF IsTrusted
    <2>12. QED
      BY <2>8, <2>11
  <1>5. QED
    BY <1>3, <1>4, DeskInvariant, PTL

-----------------------------------------------------------------------------
(* First contact was approved: the channels that came with it may be live. *)
Introduced(e) == Decided(rulebooks[e]) /\ rulebooks[e].firstContact

(* At most one edition was approved as first contact.                      *)
OneFirstContact == \A d, e \in Editions : Introduced(d) /\ Introduced(e) => d = e

(* A first contact that is being carried out and not through storing yet.  *)
Introducing(e) == OfRulebook /\ work.edition = e /\ work.step \in {"trust", "pin", "connect"}

(* An address in use came with a first contact that is through, and only   *)
(* against an address in use is a move proposed.                           *)
AddressHasOrigin ==
    connections # NoConnections => \E e \in Editions : Introduced(e) /\ ~Introducing(e)
MovesNeedAnAddress ==
    (\E c \in ConnectionSets : moves[c] # NoProposal) => connections # NoConnections

AddressInv == DeskInv /\ AddressHasOrigin /\ MovesNeedAnAddress

LEMMA IntroducedStays ==
    ASSUME DeskInv, [Next]_vars, NEW e \in Editions, Introduced(e)
    PROVE  Introduced(e)'
  <1>1. RulebooksKept
    BY DecisionsKept
  <1>2. rulebooks[e] # NoProposal
    BY DEF Introduced, Decided, NoProposal
  <1>3. QED
    BY <1>1, <1>2 DEF Introduced, RulebooksKept, Decided

(* Who has been introduced is not introduced again.                        *)
LEMMA IntroducedOnce ==
    ASSUME DeskInv, [Next]_vars, NEW e \in Editions, Introduced(e), ~Introducing(e)
    PROVE  ~Introducing(e)'
  <1>1. ASSUME NEW d \in Editions, ApproveRulebook(d)
        PROVE  ~Introducing(e)'
    <2>1. d # e
      BY <1>1 DEF ApproveRulebook, Introduced, Decided, Waits
    <2>2. work'.edition = d
      BY <1>1 DEF ApproveRulebook, RulebookDecision
    <2>3. QED
      BY <2>1, <2>2 DEF Introducing
  <1>2. ASSUME NEW d \in Editions, RejectRulebook(d)
        PROVE  ~Introducing(e)'
    <2>1. work'.step = "refuse"
      BY <1>2 DEF RejectRulebook, RulebookDecision
    <2>2. QED
      BY <2>1 DEF Introducing
  <1>3. ASSUME NEW c \in ConnectionSets, ApproveMove(c) \/ RejectMove(c)
        PROVE  ~Introducing(e)'
    <2>1. ~OfRulebook'
      BY <1>3 DEF ApproveMove, RejectMove, MoveDecision, OfRulebook
    <2>2. QED
      BY <2>1 DEF Introducing
  <1>4. ASSUME work' = NoWork
        PROVE  ~Introducing(e)'
    BY <1>4 DEF Introducing, NoWork, OfRulebook
  <1>5. ASSUME UNCHANGED work
        PROVE  ~Introducing(e)'
    BY <1>5 DEF Introducing, OfRulebook
  <1>6. ASSUME RulebookWorkOK, NEW step \in Steps, work'.step = step,
               OfRulebook' => work'.edition = work.edition,
               step \in {"trust", "pin", "connect"} => work.step \in {"trust", "pin", "connect"}
        PROVE  ~Introducing(e)'
    <2>1. OfRulebook
      BY <1>6, WorkKinds DEF RulebookWorkOK
    <2>2. QED
      BY <1>6, <2>1 DEF Introducing
  <1>7. ASSUME \/ (\E d \in Editions : ApplyTrust(d)) \/ PinPartner
               \/ (\E m \in Messages : TakeHeld(m) \/ Resume(m) \/ RefuseHeld(m))
        PROVE  ~Introducing(e)'
    <2>1. RulebookWorkOK
      BY <1>7, WhichWork DEF DeskInv, ApplyTrust, PinPartner, TakeHeld, Resume, RefuseHeld, At
    <2>2. /\ work'.edition = work.edition
          /\ work'.step \in {"pin", "connect", "apply", "release", "resume", "remove"}
          /\ work'.step \in {"pin", "connect"} => work.step \in {"trust", "pin"}
      BY <1>7, <2>1 DEF ApplyTrust, PinPartner, TakeHeld, Resume, RefuseHeld, At, RulebookWorkOK,
                        RulebookWork
    <2>3. QED
      BY <1>6, <2>1, <2>2 DEF Steps
  <1>8. ASSUME \/ (\E d \in Editions : MarkApplied(d)) \/ MarkMoved \/ StoreConnections
               \/ (TellAccepted \/ TellDeclined) /\ OfRulebook
        PROVE  ~Introducing(e)'
    <2>1. work'.step \in {"apply", "tell", "release", "remove"}
      <3>1. \/ \E s \in {"apply", "tell", "release", "remove"} :
                  \/ work' = [work EXCEPT !.step = s]
                  \/ work' = [work EXCEPT !.step = s, !.release = work.record.heldMessages]
        BY <1>8 DEF MarkApplied, MarkMoved, StoreConnections, TellAccepted, TellDeclined
      <3>2. work \in RulebookWork \cup MoveWork
        BY <1>8 DEF DeskInv, TypeOK, MarkApplied, MarkMoved, StoreConnections, TellAccepted,
                    TellDeclined, At, NoWork
      <3>3. QED
        BY <3>1, <3>2 DEF RulebookWork, MoveWork
    <2>2. QED
      BY <2>1 DEF Introducing
  <1>9. ASSUME \/ Receive \/ (\E m \in Messages : DiesIngesting(m) \/ DiesReprocessing(m))
               \/ (\E i \in DOMAIN accepting : OverlapEnds(i)) \/ UNCHANGED vars
        PROVE  UNCHANGED work
    BY <1>9 DEF Receive, Ingest, ReprocessInbound, DiesIngesting, DiesReprocessing, OverlapEnds, vars
  <1>10. ASSUME \/ DoneDeciding \/ GiveUp \/ Crash \/ (\E m \in Messages : DiesResuming(m))
                \/ (\E d \in Editions : DiesMoving(d))
                \/ (\E c \in ConnectionSets : DiesMovingMove(c))
                \/ (TellAccepted \/ TellDeclined) /\ ~OfRulebook
         PROVE  work' = NoWork
    BY <1>10 DEF DoneDeciding, GiveUp, Crash, DiesResuming, DiesMoving, DiesMovingMove,
                 TellAccepted, TellDeclined
  <1>11. QED
    BY <1>1, <1>2, <1>3, <1>4, <1>5, <1>7, <1>8, <1>9, <1>10 DEF Next, Decide, CarryOut, Die

(* A move is proposed against an address in use.                           *)
LEMMA MoveFiled ==
    ASSUME DeskInv, [Next]_vars, connections = NoConnections
    PROVE  \A c \in ConnectionSets : moves'[c] # NoProposal => moves[c] # NoProposal
  <1>1. ASSUME NEW h, NEW b, NEW m \in Messages, Walks(h, b, m)
        PROVE  moves' = moves
    <2>1. \A files : NoticedMoves(m, files) = moves
      BY DEF NoticedMoves, ChangesConnections
    <2>2. QED
      BY <1>1, <2>1, PipelineEffect DEF MovesFiled
  <1>2. ASSUME NEW m \in Messages, Receives(m) \/ Resume(m) \/ DiesResuming(m)
        PROVE  moves' = moves
    <2>1. UNCHANGED desk \/ \E h, b : Walks(h, b, m)
      BY <1>2 DEF Receives, Ingest, DiesIngesting, ReprocessInbound, DiesReprocessing, Resume,
                  DiesResuming, Quarantine, Walks
    <2>2. QED
      BY <1>1, <2>1 DEF desk
  <1>3. ASSUME NEW d \in ConnectionSets, ApproveMove(d) \/ RejectMove(d)
        PROVE  \A c \in ConnectionSets : moves'[c] # NoProposal => moves[c] # NoProposal
    <2>1. moves[d] # NoProposal
      BY <1>3 DEF ApproveMove, RejectMove, Waits, NoProposal
    <2>2. \A c \in ConnectionSets \ {d} : moves'[c] = moves[c]
      BY <1>3 DEF ApproveMove, RejectMove, DeskInv, TypeOK
    <2>3. QED
      BY <2>1, <2>2
  <1>4. ASSUME MarkMoved
        PROVE  \A c \in ConnectionSets : moves'[c] # NoProposal => moves[c] # NoProposal
    <2>1. MoveWorkOK /\ work.step = "apply"
      BY <1>4, WhichWork DEF MarkMoved, At, Steps, DeskInv
    <2>2. moves[work.offered] # NoProposal
      BY <2>1 DEF MoveWorkOK, NoProposal
    <2>3. \A c \in ConnectionSets : c # work.offered => moves'[c] = moves[c]
      BY <1>4 DEF MarkMoved, DeskInv, TypeOK
    <2>4. QED
      BY <2>2, <2>3
  <1>5. ASSUME NEW d \in ConnectionSets, DiesMovingMove(d)
        PROVE  \A c \in ConnectionSets : moves'[c] # NoProposal => moves[c] # NoProposal
    <2>1. moves[d] # NoProposal
      BY <1>5, DiesMovingMoveWrites
    <2>2. \A c \in ConnectionSets \ {d} : moves'[c] = moves[c]
      BY <1>5 DEF DiesMovingMove, DeskInv, TypeOK
    <2>3. QED
      BY <2>1, <2>2
  <1>6. ASSUME \/ \E e \in Editions : \/ ApproveRulebook(e) \/ RejectRulebook(e)
                                      \/ MarkApplied(e) \/ DiesMoving(e)
               \/ UNCHANGED desk
        PROVE  moves' = moves
    BY <1>6 DEF ApproveRulebook, RejectRulebook, MarkApplied, DiesMoving, desk
  <1>7. QED
    BY <1>2, <1>3, <1>4, <1>5, <1>6, DeskRests DEF Decide

LEMMA OnlyStoringConnects ==
    ASSUME [Next]_vars, ~StoreConnections
    PROVE  connections' = connections
  <1>1. (\E e \in Editions : ApplyTrust(e)) => connections' = connections
    BY DEF ApplyTrust
  <1>2. QED
    BY <1>1, TrustedRests DEF trusted

(* What is stored is an address, and whose decision stores it is known.    *)
LEMMA WhatIsStored ==
    ASSUME DeskInv, StoreConnections
    PROVE  /\ connections' # NoConnections
           /\ \/ /\ work.edition \in Editions /\ Introduced(work.edition)
                 /\ Introducing(work.edition)
              \/ /\ connections' \in ConnectionSets /\ moves[connections'] # NoProposal
                 /\ moves' = moves
                 /\ Decided(moves[connections']) /\ moves[connections'].outOfBand
  <1>1. /\ work.step = "connect" /\ connections' = work.offered
        /\ work' = [work EXCEPT !.step = "apply"] /\ moves' = moves
    BY DEF StoreConnections, At, desk
  <1>2. CASE RulebookWorkOK
    <2>1. /\ work.edition \in Editions /\ Introduced(work.edition)
          /\ work.offered # NoConnections
      BY <1>1, <1>2 DEF RulebookWorkOK, RulebookWork, Introduced, Decided
    <2>2. OfRulebook
      BY <1>2, WorkKinds DEF RulebookWorkOK
    <2>3. Introducing(work.edition)
      BY <1>1, <2>2 DEF Introducing
    <2>4. QED
      BY <1>1, <2>1, <2>3
  <1>3. CASE MoveWorkOK
    <2>1. work.offered \in ConnectionSets
      BY <1>3 DEF MoveWorkOK, MoveWork
    <2>2. moves[work.offered].state = "approved" /\ moves[work.offered].outOfBand
      BY <1>1, <1>3 DEF MoveWorkOK
    <2>3. QED
      BY <1>1, <2>1, <2>2, ConnectionAssumption DEF Decided, NoProposal
  <1>4. QED
    BY <1>1, <1>2, <1>3 DEF DeskInv, WorkOK, NoWork

LEMMA AddressStep ==
    ASSUME AddressInv, [Next]_vars
    PROVE  AddressInv'
  <1> USE DEF AddressInv
  <1>1. DeskInv'
    BY DeskInvStep
  <1>2. MovesNeedAnAddress'
    <2>1. connections' = NoConnections => connections = NoConnections
      BY OnlyStoringConnects, WhatIsStored
    <2>2. QED
      BY <2>1, MoveFiled DEF MovesNeedAnAddress
  <1>3. ASSUME connections # NoConnections
        PROVE  \E e \in Editions : Introduced(e)' /\ ~Introducing(e)'
    <2>1. PICK e \in Editions : Introduced(e) /\ ~Introducing(e)
      BY <1>3 DEF AddressHasOrigin
    <2>2. Introduced(e)' /\ ~Introducing(e)'
      BY <2>1, IntroducedStays, IntroducedOnce
    <2>3. QED
      BY <2>2
  <1>4. ASSUME StoreConnections, connections = NoConnections
        PROVE  \E e \in Editions : Introduced(e)' /\ ~Introducing(e)'
    <2>1. work.edition \in Editions /\ Introduced(work.edition)
      BY <1>4, WhatIsStored DEF MovesNeedAnAddress
    <2>2. PICK e \in Editions : e = work.edition
      BY <2>1
    <2>3. Introduced(e)'
      BY <2>1, <2>2, IntroducedStays
    <2>4. ~Introducing(e)'
      <3>1. work'.step = "apply"
        BY <1>4 DEF StoreConnections, At, DeskInv, TypeOK, RulebookWork, MoveWork, NoWork
      <3>2. QED
        BY <3>1 DEF Introducing
    <2>5. QED
      BY <2>3, <2>4
  <1>5. AddressHasOrigin'
    BY <1>3, <1>4, OnlyStoringConnects DEF AddressHasOrigin
  <1>6. QED
    BY <1>1, <1>2, <1>5

(* An address changes only after confirmation "through a channel other     *)
(* than this message" (DiffConnections) as long as only one edition was    *)
(* approved as first contact (Node.Approve pins the partner and stores the *)
(* channels that came with it).  A second first contact, filed before the  *)
(* first was approved, brings its own address (run desk_address).          *)
THEOREM AddressOfOneFirstContact ==
    Spec /\ []OneFirstContact => AddressNeedsOtherChannel
  <1>1. Init => AddressInv
    <2>1. Init => AddressHasOrigin /\ MovesNeedAnAddress
      BY DEF Init, AddressHasOrigin, MovesNeedAnAddress
    <2>2. QED
      BY <2>1, DeskInvInit DEF AddressInv
  <1>2. AddressInv /\ [Next]_vars => AddressInv'
    BY AddressStep
  <1>3. AddressInv /\ OneFirstContact /\ [Next]_vars =>
          [(connections # NoConnections /\ connections' # connections) =>
             Decided(moves[connections']) /\ moves[connections'].outOfBand]_vars
    <2>1. SUFFICES ASSUME AddressInv, OneFirstContact, [Next]_vars,
                          connections # NoConnections, connections' # connections
                   PROVE  Decided(moves[connections']) /\ moves[connections'].outOfBand
      OBVIOUS
    <2>2. StoreConnections
      BY <2>1, OnlyStoringConnects
    <2>3. PICK e \in Editions : Introduced(e) /\ ~Introducing(e)
      BY <2>1 DEF AddressInv, AddressHasOrigin
    <2>4. ~(/\ work.edition \in Editions /\ Introduced(work.edition)
            /\ Introducing(work.edition))
      BY <2>1, <2>3 DEF OneFirstContact
    <2>5. QED
      BY <2>1, <2>2, <2>4, WhatIsStored DEF AddressInv
  <1>4. QED
    BY <1>1, <1>2, <1>3, PTL DEF Spec, AddressNeedsOtherChannel

-----------------------------------------------------------------------------
(* A decision once begun comes to its end: no step but a crash leaves it   *)
(* as far from there as it was.                                            *)

(* How far a step is from the end, and within the release, how much is     *)
(* left to do. *)
Distance == [none |-> 0, release |-> 1, resume |-> 1, remove |-> 1, tell |-> 2, refuse |-> 2,
             apply |-> 3, connect |-> 4, pin |-> 5, trust |-> 6]
Left(w) == CASE w.step \in {"release", "remove"} -> 2 * Cardinality(w.release)
             [] w.step = "resume" -> 2 * Cardinality(w.release) + 1
             [] OTHER -> 0

Nearer == \/ Distance[work'.step] < Distance[work.step]
          \/ /\ Distance[work'.step] = Distance[work.step]
             /\ Left(work') < Left(work)

DecisionsGetOn == [][(work # NoWork /\ work' # work) => Die \/ Nearer]_vars

(* Proposals name finitely many messages, whatever comes.                  *)
FilesFinite == \A e \in Editions : rulebooks[e] # NoProposal =>
                   IsFiniteSet(rulebooks[e].heldMessages)
HandsFinite == OfRulebook => IsFiniteSet(work.record.heldMessages) /\ IsFiniteSet(work.release)

FiniteInv == DeskInv /\ FilesFinite /\ HandsFinite

LEMMA NoticedIsFinite ==
    ASSUME DeskInv, FilesFinite, NEW m \in Messages
    PROVE  NoticedRulebook(m) # NoProposal => IsFiniteSet(NoticedRulebook(m).heldMessages)
  <1> DEFINE p == rulebooks[Cites[m]]
  <1>1. Cites[m] \in Editions /\ p \in RulebookProposal \cup {NoProposal}
    BY MessageAssumption DEF DeskInv, TypeOK
  <1>2. p # NoProposal => IsFiniteSet(p.heldMessages)
    BY <1>1 DEF FilesFinite
  <1>3. CASE Pending(p)
    <2>1. p \in RulebookProposal /\ p # NoProposal
      BY <1>1, <1>3 DEF Pending, NoProposal
    <2>2. NoticedRulebook(m).heldMessages = p.heldMessages \cup {m}
      BY <1>3, <2>1 DEF NoticedRulebook, RulebookProposal
    <2>3. QED
      BY <1>2, <2>1, <2>2, FS_AddElement
  <1>4. CASE ~Pending(p) /\ p.state = "rejected"
    BY <1>2, <1>4 DEF NoticedRulebook
  <1>5. CASE ~Pending(p) /\ p.state # "rejected"
    <2>1. NoticedRulebook(m).heldMessages = {m}
      BY <1>5 DEF NoticedRulebook, NewRulebookProposal
    <2>2. QED
      BY <2>1, FS_Singleton
  <1>6. QED
    BY <1>3, <1>4, <1>5

LEMMA FilesStayFinite ==
    ASSUME FiniteInv, [Next]_vars
    PROVE  FilesFinite'
  <1> USE DEF FiniteInv
  <1>1. ASSUME rulebooks' = rulebooks
        PROVE  FilesFinite'
    BY <1>1 DEF FilesFinite
  <1>2. ASSUME NEW e \in Editions, NEW r, rulebooks' = [rulebooks EXCEPT ![e] = r],
               r # NoProposal => IsFiniteSet(r.heldMessages)
        PROVE  FilesFinite'
    <2>1. \A d \in Editions : rulebooks'[d] = IF d = e THEN r ELSE rulebooks[d]
      BY <1>2 DEF DeskInv, TypeOK
    <2>2. QED
      BY <1>2, <2>1 DEF FilesFinite
  <1>3. ASSUME NEW h, NEW b, NEW m \in Messages, Walks(h, b, m)
        PROVE  FilesFinite'
    <2>1. Cites[m] \in Editions
      BY MessageAssumption
    <2>2. ASSUME NEW q \in Filed(m), rulebooks' = [rulebooks EXCEPT ![Cites[m]] = q]
          PROVE  FilesFinite'
      <3>1. /\ NoticedRulebook(m) \in RulebookProposal
            /\ q.heldMessages = NoticedRulebook(m).heldMessages
        BY FiledLikeNoticed, NoticedType DEF DeskInv
      <3>2. NoticedRulebook(m) # NoProposal
        BY <3>1, ProposalState DEF RulebookProposal, ProposalStates, NoProposal
      <3>3. QED
        BY <1>2, <2>1, <2>2, <3>1, <3>2, NoticedIsFinite
    <2>3. QED
      BY <1>1, <1>3, <2>2, PipelineEffect
  <1>4. ASSUME NEW m \in Messages, Receives(m) \/ Resume(m) \/ DiesResuming(m)
        PROVE  FilesFinite'
    <2>1. UNCHANGED desk \/ \E h, b : Walks(h, b, m)
      BY <1>4 DEF Receives, Ingest, DiesIngesting, ReprocessInbound, DiesReprocessing, Resume,
                  DiesResuming, Quarantine, Walks
    <2>2. QED
      BY <1>1, <1>3, <2>1 DEF desk
  <1>5. ASSUME NEW e \in Editions, ApproveRulebook(e) \/ RejectRulebook(e)
        PROVE  FilesFinite'
    <2>1. PICK state \in {"approved", "rejected"} :
            rulebooks' = [rulebooks EXCEPT ![e] = [rulebooks[e] EXCEPT !.state = state]]
      BY <1>5 DEF ApproveRulebook, RejectRulebook
    <2>2. rulebooks[e] \in RulebookProposal /\ rulebooks[e] # NoProposal
      BY <1>5, Waiting DEF ApproveRulebook, RejectRulebook, Waits, NoProposal
    <2> DEFINE r == [rulebooks[e] EXCEPT !.state = state]
    <2>3. r.heldMessages = rulebooks[e].heldMessages
      BY <2>2 DEF RulebookProposal
    <2>4. rulebooks' = [rulebooks EXCEPT ![e] = r]
      BY <2>1
    <2> HIDE DEF r
    <2>5. QED
      BY <1>2, <2>2, <2>3, <2>4 DEF FilesFinite
  <1>6. ASSUME NEW e \in Editions, MarkApplied(e)
        PROVE  FilesFinite'
    <2> DEFINE r == [work.record EXCEPT !.state = "applied"]
    <2>1. RulebookWorkOK /\ OfRulebook
      BY <1>6, WhichWork DEF MarkApplied, At, Steps, DeskInv
    <2>2. r.heldMessages = work.record.heldMessages
      BY <2>1 DEF RulebookWorkOK, RulebookWork, RulebookProposal
    <2>3. rulebooks' = [rulebooks EXCEPT ![e] = r]
      BY <1>6 DEF MarkApplied
    <2> HIDE DEF r
    <2>4. QED
      BY <1>2, <2>1, <2>2, <2>3 DEF HandsFinite
  <1>7. ASSUME NEW e \in Editions, DiesMoving(e)
        PROVE  FilesFinite'
    <2>1. PICK files \in SUBSET Files :
            /\ rulebooks[e] \in RulebookProposal /\ rulebooks[e] # NoProposal
            /\ rulebooks' = [rulebooks EXCEPT ![e] = [rulebooks[e] EXCEPT !.files = files]]
      BY <1>7, DiesMovingWrites
    <2> DEFINE r == [rulebooks[e] EXCEPT !.files = files]
    <2>2. r.heldMessages = rulebooks[e].heldMessages
      BY <2>1, FilesOnly
    <2>3. rulebooks' = [rulebooks EXCEPT ![e] = r]
      BY <2>1
    <2> HIDE DEF r
    <2>4. QED
      BY <1>2, <2>1, <2>2, <2>3 DEF FilesFinite
  <1>8. ASSUME \/ \E c \in ConnectionSets : ApproveMove(c) \/ RejectMove(c) \/ DiesMovingMove(c)
               \/ MarkMoved \/ UNCHANGED desk
        PROVE  rulebooks' = rulebooks
    BY <1>8 DEF ApproveMove, RejectMove, DiesMovingMove, MarkMoved, desk
  <1>9. QED
    BY <1>1, <1>4, <1>5, <1>6, <1>7, <1>8, DeskRests DEF Decide

(* Where a decision about a rulebook goes on to.                           *)
GoesOn ==
    /\ work' \in RulebookWork /\ work'.record = work.record
    /\ \/ /\ work'.release = work.release
          /\ \/ work.step = "trust" /\ work'.step \in {"pin", "apply"}
             \/ work.step = "pin" /\ work'.step \in {"connect", "apply"}
             \/ work.step = "connect" /\ work'.step = "apply"
             \/ work.step = "tell" /\ work'.step = "release"
             \/ work.step = "resume" /\ work'.step = "release"
       \/ /\ \/ work.step = "apply" /\ work'.step = "tell"
             \/ work.step = "refuse" /\ work'.step = "remove"
          /\ work'.release = work.record.heldMessages
       \/ /\ \/ work.step = "release" /\ work'.step \in {"release", "resume"}
             \/ work.step = "remove" /\ work'.step = "remove"
          /\ \E m \in work.release : work'.release = work.release \ {m}

LEMMA RulebookGoesOn ==
    ASSUME DeskInv, OfRulebook, CarryOut
    PROVE  work' = NoWork \/ GoesOn
  <1> USE DEF DeskInv
  <1>0. RulebookWorkOK
    <2>1. work.step \in Steps
      BY DEF TypeOK, RulebookWork, MoveWork, NoWork, OfRulebook
    <2>2. QED
      BY <2>1, WhichWork
  <1>1. work \in RulebookWork
    BY <1>0 DEF RulebookWorkOK
  <1>2. ASSUME NEW step \in Steps, work' = [work EXCEPT !.step = step]
        PROVE  /\ work' \in RulebookWork /\ work'.record = work.record
               /\ work'.release = work.release /\ work'.step = step
    BY <1>1, <1>2 DEF RulebookWork
  <1>3. ASSUME NEW e \in Editions, ApplyTrust(e)
        PROVE  GoesOn
    <2>1. PICK step \in {"pin", "apply"} : work' = [work EXCEPT !.step = step]
      BY <1>3 DEF ApplyTrust
    <2>2. work.step = "trust"
      BY <1>3 DEF ApplyTrust, At
    <2>3. QED
      BY <1>2, <2>1, <2>2 DEF GoesOn, Steps
  <1>4. ASSUME PinPartner
        PROVE  GoesOn
    <2>1. PICK step \in {"connect", "apply"} : work' = [work EXCEPT !.step = step]
      BY <1>4 DEF PinPartner
    <2>2. work.step = "pin"
      BY <1>4 DEF PinPartner, At
    <2>3. QED
      BY <1>2, <2>1, <2>2 DEF GoesOn, Steps
  <1>5. ASSUME StoreConnections
        PROVE  GoesOn
    <2>1. work' = [work EXCEPT !.step = "apply"] /\ work.step = "connect"
      BY <1>5 DEF StoreConnections, At
    <2>2. QED
      BY <1>2, <2>1 DEF GoesOn, Steps
  <1>6. ASSUME TellAccepted
        PROVE  GoesOn
    <2>1. work' = [work EXCEPT !.step = "release"] /\ work.step = "tell"
      BY <1>6 DEF TellAccepted, At
    <2>2. QED
      BY <1>2, <2>1 DEF GoesOn, Steps
  <1>7. ASSUME TellDeclined \/ \E e \in Editions : MarkApplied(e)
        PROVE  GoesOn
    <2>1. PICK s \in {"tell", "remove"} :
            /\ work' = [work EXCEPT !.step = s, !.release = work.record.heldMessages]
            /\ s = "tell" => work.step = "apply"
            /\ s = "remove" => work.step = "refuse"
      BY <1>7 DEF MarkApplied, TellDeclined, At
    <2>2. work.record.heldMessages \subseteq Messages
      BY <1>1 DEF RulebookWork, RulebookProposal
    <2>3. /\ work' \in RulebookWork /\ work'.record = work.record
          /\ work'.step = s /\ work'.release = work.record.heldMessages
      BY <1>1, <2>1, <2>2 DEF RulebookWork, Steps
    <2>4. QED
      BY <2>1, <2>3 DEF GoesOn
  <1>8. ASSUME NEW m \in Messages, TakeHeld(m)
        PROVE  GoesOn
    <2>1. /\ work.step = "release" /\ m \in work.release
          /\ work' \in RulebookWork /\ work'.record = work.record
          /\ work'.step \in {"release", "resume"} /\ work'.release = work.release \ {m}
      BY <1>1, <1>8 DEF TakeHeld, At, RulebookWork, Steps
    <2>2. QED
      BY <2>1 DEF GoesOn
  <1>9. ASSUME NEW m \in Messages, Resume(m)
        PROVE  GoesOn
    <2>1. /\ work.step = "resume" /\ work' \in RulebookWork /\ work'.record = work.record
          /\ work'.step = "release" /\ work'.release = work.release
      BY <1>1, <1>9 DEF Resume, At, RulebookWork, Steps
    <2>2. QED
      BY <2>1 DEF GoesOn
  <1>12. ASSUME NEW m \in Messages, RefuseHeld(m)
         PROVE  GoesOn
    <2>1. /\ work.step = "remove" /\ m \in work.release
          /\ work' \in RulebookWork /\ work'.record = work.record
          /\ work'.step = "remove" /\ work'.release = work.release \ {m}
      BY <1>1, <1>12 DEF RefuseHeld, At, RulebookWork, Steps
    <2>2. QED
      BY <2>1 DEF GoesOn
  <1>10. ~MarkMoved /\ (DoneDeciding \/ GiveUp => work' = NoWork)
    BY DEF MarkMoved, DoneDeciding, GiveUp
  <1>11. QED
    BY <1>3, <1>4, <1>5, <1>6, <1>7, <1>8, <1>9, <1>10, <1>12 DEF CarryOut

(* A decision about connections goes on being one, or ends.                *)
LEMMA ConnectionsStayConnections ==
    ASSUME DeskInv, ~OfRulebook, CarryOut
    PROVE  ~OfRulebook'
  <1>1. ~(\E e \in Editions : ApplyTrust(e) \/ MarkApplied(e)) /\ ~PinPartner
        /\ ~(\E m \in Messages : TakeHeld(m) \/ Resume(m) \/ RefuseHeld(m))
    BY WhichWork, WorkKinds
    DEF ApplyTrust, MarkApplied, PinPartner, TakeHeld, Resume, RefuseHeld, At, DeskInv,
        RulebookWorkOK
  <1>2. ASSUME StoreConnections \/ MarkMoved
        PROVE  ~OfRulebook'
    <2>1. MoveWorkOK
      BY <1>2, WhichWork DEF StoreConnections, MarkMoved, At, DeskInv, Steps
    <2>2. work' \in MoveWork
      BY <1>2, <2>1 DEF StoreConnections, MarkMoved, MoveWorkOK, MoveWork, Steps
    <2>3. QED
      BY <2>2 DEF MoveWork, OfRulebook
  <1>3. GiveUp \/ DoneDeciding \/ TellAccepted \/ TellDeclined => work' = NoWork
    BY DEF GiveUp, DoneDeciding, TellAccepted, TellDeclined
  <1>4. QED
    BY <1>1, <1>2, <1>3 DEF CarryOut, NoWork, OfRulebook

(* The other steps leave a decision alone, or end it.                      *)
LEMMA OtherWork ==
    ASSUME \/ Receive \/ Die \/ (\E c \in ConnectionSets : ApproveMove(c) \/ RejectMove(c))
           \/ (\E i \in DOMAIN accepting : OverlapEnds(i)) \/ UNCHANGED vars
    PROVE  work' = work \/ ~OfRulebook'
  <1>1. Receive => work' = work
    BY DEF Receive, Ingest, ReprocessInbound
  <1>2. Die => work' \in {work, NoWork}
    BY DEF Die, Crash, DiesMoving, DiesMovingMove, DiesIngesting, DiesReprocessing, DiesResuming
  <1>3. ASSUME NEW c \in ConnectionSets, ApproveMove(c) \/ RejectMove(c)
        PROVE  ~OfRulebook'
    BY <1>3 DEF ApproveMove, RejectMove, MoveDecision, OfRulebook
  <1>4. ASSUME NEW i \in DOMAIN accepting, OverlapEnds(i)
        PROVE  work' = work
    BY <1>4 DEF OverlapEnds
  <1>5. UNCHANGED vars => work' = work
    BY DEF vars
  <1>6. work' = NoWork => ~OfRulebook'
    BY DEF NoWork, OfRulebook
  <1>7. QED
    BY <1>1, <1>2, <1>3, <1>4, <1>5, <1>6

LEMMA HandsStayFinite ==
    ASSUME FiniteInv, [Next]_vars
    PROVE  HandsFinite'
  <1> USE DEF FiniteInv
  <1>1. ASSUME ~OfRulebook'
        PROVE  HandsFinite'
    BY <1>1 DEF HandsFinite
  <1>2. ASSUME work' = work
        PROVE  HandsFinite'
    BY <1>2 DEF HandsFinite, OfRulebook
  <1>3. ASSUME NEW e \in Editions, ApproveRulebook(e) \/ RejectRulebook(e)
        PROVE  HandsFinite'
    <2>1. DeskInv' /\ FilesFinite'
      BY <1>3, FilesStayFinite, DeskInvStep
    <2>2. work'.record = rulebooks'[e] /\ work'.release = {}
      BY <1>3 DEF ApproveRulebook, RejectRulebook, RulebookDecision
    <2>3. rulebooks[e] # NoProposal
      BY <1>3 DEF ApproveRulebook, RejectRulebook, Waits, NoProposal
    <2>4. rulebooks'[e] # NoProposal
      BY <2>3, DecisionsKept DEF RulebooksKept
    <2>5. QED
      BY <2>1, <2>2, <2>4, FS_EmptySet DEF FilesFinite, HandsFinite
  <1>4. ASSUME OfRulebook, CarryOut
        PROVE  HandsFinite'
    <2>1. CASE work' = NoWork
      BY <1>1, <2>1, WorkKinds DEF OfRulebook, NoWork
    <2>2. CASE GoesOn
      <3>1. IsFiniteSet(work.record.heldMessages) /\ IsFiniteSet(work.release)
        BY <1>4 DEF HandsFinite
      <3>2. work'.record = work.record
        BY <2>2 DEF GoesOn
      <3>3. \/ work'.release \subseteq work.release
            \/ work'.release = work.record.heldMessages
        BY <2>2 DEF GoesOn
      <3>4. QED
        BY <3>1, <3>2, <3>3, FS_Subset DEF HandsFinite
    <2>3. QED
      BY <1>4, <2>1, <2>2, RulebookGoesOn
  <1>5. (CarryOut /\ ~OfRulebook) => ~OfRulebook'
    BY ConnectionsStayConnections
  <1>6. \/ Receive \/ Die \/ (\E c \in ConnectionSets : ApproveMove(c) \/ RejectMove(c))
        \/ (\E i \in DOMAIN accepting : OverlapEnds(i)) \/ UNCHANGED vars
        => work' = work \/ ~OfRulebook'
    BY OtherWork
  <1>7. QED
    BY <1>1, <1>2, <1>3, <1>4, <1>5, <1>6 DEF Next, Decide

(* A decision once begun moves forward (Node.Approve, Node.Reject, each    *)
(* step a file written): nothing that arrives or is decided beside it      *)
(* touches it, and each of its steps brings it nearer to its end, of which *)
(* it is no further than its steps and two for each message it releases.   *)
(* Together with the fairness of CarryOut this is why every decision ends, *)
(* carried out or given up; WholeOrNotAtAll says in which state.           *)
THEOREM DecisionsComeToAnEnd == Spec => DecisionsGetOn
  <1>1. Init => FiniteInv
    <2>1. Init => FilesFinite /\ HandsFinite
      BY DEF Init, FilesFinite, HandsFinite, OfRulebook, NoWork
    <2>2. QED
      BY <2>1, DeskInvInit DEF FiniteInv
  <1>2. FiniteInv /\ [Next]_vars => FiniteInv'
    BY DeskInvStep, FilesStayFinite, HandsStayFinite DEF FiniteInv
  <1>3. ASSUME FiniteInv, Next, work # NoWork, work' # work, ~Die
        PROVE  Nearer
    <2>1. CarryOut
      BY <1>3 DEF Next, Receive, Ingest, ReprocessInbound, Decide, ApproveRulebook,
                  RejectRulebook, ApproveMove, RejectMove, OverlapEnds
    <2>2. work.step \in Steps
      BY <1>3 DEF FiniteInv, DeskInv, TypeOK, RulebookWork, MoveWork
    <2>3. CASE work' = NoWork
      BY <2>2, <2>3 DEF Nearer, Distance, NoWork, Steps
    <2>4. CASE OfRulebook /\ GoesOn
      <3>1. IsFiniteSet(work.release)
        BY <1>3, <2>4 DEF FiniteInv, HandsFinite
      <3>2. ASSUME work.step \notin {"release", "resume", "remove"}
            PROVE  Nearer
        BY <2>4, <3>2 DEF GoesOn, Nearer, Distance
      <3>3. ASSUME work.step = "resume"
            PROVE  Nearer
        <4>1. work'.step = "release" /\ work'.release = work.release
          BY <2>4, <3>3 DEF GoesOn
        <4>2. Left(work) = 2 * Cardinality(work.release) + 1
          BY <3>3 DEF Left
        <4>3. Left(work') = 2 * Cardinality(work.release)
          BY <4>1 DEF Left
        <4>4. Cardinality(work.release) \in Nat
          BY <3>1, FS_CardinalityType
        <4>5. Distance[work'.step] = Distance[work.step]
          BY <3>3, <4>1 DEF Distance
        <4>6. QED
          BY <4>2, <4>3, <4>4, <4>5 DEF Nearer
      <3>4. ASSUME work.step \in {"release", "remove"}
            PROVE  Nearer
        <4>1. PICK m \in work.release : work'.release = work.release \ {m}
          BY <2>4, <3>4 DEF GoesOn
        <4>2. work'.step \in {"release", "resume", "remove"}
          BY <2>4, <3>4 DEF GoesOn
        <4> DEFINE n == Cardinality(work.release)
        <4>3. n \in Nat /\ Cardinality(work'.release) = n - 1
          BY <3>1, <4>1, FS_CardinalityType, FS_RemoveElement
        <4>4. Left(work) = 2 * n
          BY <3>4 DEF Left
        <4> HIDE DEF n
        <4>5. Left(work') \in {2 * (n - 1), 2 * (n - 1) + 1}
          BY <4>2, <4>3 DEF Left
        <4>6. Distance[work'.step] = Distance[work.step]
          BY <3>4, <4>2 DEF Distance
        <4>7. QED
          BY <4>3, <4>4, <4>5, <4>6 DEF Nearer
      <3>5. QED
        BY <3>2, <3>3, <3>4
    <2>5. CASE ~OfRulebook /\ work' # NoWork
      <3>1. MoveWorkOK
        BY <1>3, <2>2, <2>5, WhichWork DEF FiniteInv, DeskInv
      <3>2. StoreConnections \/ MarkMoved
        BY <2>1, <2>5, <3>1
        DEF CarryOut, ApplyTrust, MarkApplied, TakeHeld, Resume, PinPartner, GiveUp,
            DoneDeciding, TellAccepted, TellDeclined, RefuseHeld, At, MoveWorkOK
      <3>3. \/ work.step = "connect" /\ work'.step = "apply"
            \/ work.step = "apply" /\ work'.step = "tell"
        BY <3>1, <3>2 DEF StoreConnections, MarkMoved, At, MoveWorkOK, MoveWork, Steps
      <3>4. QED
        BY <3>3 DEF Nearer, Distance
    <2>6. QED
      BY <1>3, <2>1, <2>3, <2>4, <2>5, RulebookGoesOn DEF FiniteInv
  <1>4. FiniteInv /\ [Next]_vars => [(work # NoWork /\ work' # work) => Die \/ Nearer]_vars
    BY <1>3
  <1>5. QED
    BY <1>1, <1>2, <1>4, PTL DEF Spec, DecisionsGetOn

-----------------------------------------------------------------------------
(* An approval is carried out whole or not at all.                         *)

(* An approved edition is accepted only while its decision is under way.   *)
HalfWay(e) == OfRulebook /\ work.edition = e /\ work.step \in {"pin", "connect", "apply"}
HalfWayOnly == \A e \in Editions :
    rulebooks[e].state = "approved" /\ Accepted(e) => HalfWay(e)

(* The messages of a proposal that waits, or is approved, are held.        *)
PendingAreHeld == \A e \in Editions :
    Pending(rulebooks[e]) => rulebooks[e].heldMessages \subseteq held

(* Those of an applied one are not, but for those still to be released.    *)
AppliedAreReleased == \A e \in Editions : rulebooks[e].state = "applied" =>
    \A m \in rulebooks[e].heldMessages \cap held :
        OfRulebook /\ work.edition = e /\ m \in work.release

(* Released is what was applied.                                           *)
ReleasesApplied ==
    OfRulebook /\ work.step \in {"tell", "release", "resume"} =>
        rulebooks[work.edition].state = "applied"

WholeInv == /\ DeskInv /\ HandsOK /\ HeldForItself /\ ReleasesApplied
            /\ crashes = 0 => HalfWayOnly /\ PendingAreHeld /\ AppliedAreReleased

LEMMA ReleasesAppliedStep ==
    ASSUME DeskInv, ReleasesApplied, [Next]_vars
    PROVE  ReleasesApplied'
  <1>1. RulebooksKept
    BY DecisionsKept
  <1>2. ASSUME work' = work \/ ~OfRulebook'
        PROVE  ReleasesApplied'
    <2>1. CASE ~OfRulebook'
      BY <2>1 DEF ReleasesApplied
    <2>2. CASE work' = work /\ OfRulebook
      <3>1. work.edition \in Editions
        BY <2>2, WorkKinds DEF DeskInv, TypeOK, RulebookWork
      <3>2. QED
        BY <1>1, <2>2, <3>1 DEF ReleasesApplied, RulebooksKept
    <2>3. QED
      BY <1>2, <2>1, <2>2 DEF OfRulebook
  <1>3. ASSUME work' = NoWork
        PROVE  ReleasesApplied'
    BY <1>3 DEF ReleasesApplied, OfRulebook, NoWork
  <1>4. ASSUME CarryOut, OfRulebook, work' # NoWork
        PROVE  ReleasesApplied'
    <2>1. GoesOn
      BY <1>4, RulebookGoesOn
    <2>2. work \in RulebookWork /\ work.edition \in Editions
      BY <1>4, WorkKinds DEF DeskInv, TypeOK, RulebookWork
    <2>3. work'.edition = work.edition
      BY <1>4, <2>2 DEF CarryOut, ApplyTrust, MarkApplied, TakeHeld, Resume, RefuseHeld, GiveUp,
         PinPartner, StoreConnections, MarkMoved, TellAccepted, TellDeclined, DoneDeciding,
         RulebookWork
    <2>4. CASE work.step \in {"tell", "release", "resume"}
      <3>1. rulebooks[work.edition].state = "applied"
        BY <1>4, <2>4 DEF ReleasesApplied
      <3>2. QED
        BY <1>1, <2>2, <2>3, <3>1 DEF ReleasesApplied, RulebooksKept
    <2>5. CASE work.step = "apply" /\ work'.step = "tell"
      <3>1. \E e \in Editions : MarkApplied(e)
        BY <1>4, <2>5 DEF CarryOut, ApplyTrust, TakeHeld, Resume, RefuseHeld, GiveUp, PinPartner,
           StoreConnections, MarkMoved, TellAccepted, TellDeclined, DoneDeciding, At
      <3>2. /\ work.record \in RulebookProposal
            /\ rulebooks' = [rulebooks EXCEPT ![work.edition] = [work.record EXCEPT !.state = "applied"]]
        BY <2>2, <3>1 DEF MarkApplied, RulebookWork
      <3>3. rulebooks'[work.edition].state = "applied"
        BY <2>2, <3>2 DEF RulebookProposal, DeskInv, TypeOK
      <3>4. QED
        BY <2>3, <3>3 DEF ReleasesApplied
    <2>6. CASE work'.step \notin {"tell", "release", "resume"}
      BY <2>6 DEF ReleasesApplied
    <2>7. QED
      BY <2>1, <2>4, <2>5, <2>6 DEF GoesOn
  <1>5. ASSUME NEW e \in Editions, ApproveRulebook(e) \/ RejectRulebook(e)
        PROVE  ReleasesApplied'
    <2>1. work'.step \in {"trust", "refuse"}
      BY <1>5 DEF ApproveRulebook, RejectRulebook, RulebookDecision
    <2>2. QED
      BY <2>1 DEF ReleasesApplied
  <1>6. (CarryOut /\ ~OfRulebook) => ~OfRulebook'
    BY ConnectionsStayConnections
  <1>7. \/ Receive \/ Die \/ (\E c \in ConnectionSets : ApproveMove(c) \/ RejectMove(c))
        \/ (\E i \in DOMAIN accepting : OverlapEnds(i)) \/ UNCHANGED vars
        => work' = work \/ ~OfRulebook'
    BY OtherWork
  <1>8. QED
    BY <1>2, <1>3, <1>4, <1>5, <1>6, <1>7 DEF Next, Decide

LEMMA SameEdition ==
    ASSUME DeskInv, OfRulebook, CarryOut, work' # NoWork
    PROVE  work'.edition = work.edition
  <1>1. work \in RulebookWork
    BY WorkKinds DEF DeskInv, TypeOK
  <1>2. QED
    BY <1>1 DEF CarryOut, ApplyTrust, MarkApplied, TakeHeld, Resume, RefuseHeld, GiveUp,
       PinPartner, StoreConnections, MarkMoved, TellAccepted, TellDeclined, DoneDeciding,
       RulebookWork

(* Only the decision about an edition makes it accepted.                   *)
LEMMA AcceptedBy ==
    ASSUME DeskInv, [Next]_vars, NEW e \in Editions, Accepted(e)'
    PROVE  Accepted(e) \/ ApplyTrust(e)
  <1>1. ASSUME NEW d \in Editions, ApplyTrust(d), d # e
        PROVE  Accepted(e)
    <2> DEFINE n == Len(accepting)
    <2>1. n \in Nat /\ DOMAIN accepting = 1..n
      BY AcceptingType DEF DeskInv
    <2>2. /\ DOMAIN accepting' = 1..(n + 1)
          /\ accepting'[n + 1].edition = d
          /\ \A j \in DOMAIN accepting : accepting'[j].edition = accepting[j].edition
      BY <1>1, SupersededType DEF ApplyTrust, DeskInv
    <2> HIDE DEF n
    <2>3. PICK i \in 1..(n + 1) : accepting'[i].edition = e
      BY <2>2 DEF Accepted
    <2>4. i \in 1..n
      BY <1>1, <2>1, <2>2, <2>3
    <2>5. QED
      BY <2>1, <2>2, <2>3, <2>4 DEF Accepted
  <1>2. ASSUME NEW i \in DOMAIN accepting, OverlapEnds(i)
        PROVE  Accepted(e)
    <2>1. /\ DOMAIN accepting' = DOMAIN accepting
          /\ \A j \in DOMAIN accepting : accepting'[j].edition = accepting[j].edition
      BY <1>2, AcceptingType DEF OverlapEnds, DeskInv, TrustedVersion
    <2>2. QED
      BY <2>1 DEF Accepted
  <1>3. CASE accepting' = accepting
    BY <1>3 DEF Accepted
  <1>4. QED
    BY <1>1, <1>2, <1>3, TrustedRests DEF trusted

LEMMA HalfWayStep ==
    ASSUME WholeInv, [Next]_vars, ~Die, HalfWayOnly
    PROVE  HalfWayOnly'
  <1>0. DeskInv /\ RulebooksKept /\ ReleasesApplied'
    BY DecisionsKept, ReleasesAppliedStep DEF WholeInv
  <1>1. SUFFICES ASSUME NEW e \in Editions, rulebooks'[e].state = "approved", Accepted(e)'
                 PROVE  HalfWay(e)'
    BY DEF HalfWayOnly
  <1>2. CASE ApplyTrust(e)
    <2>1. RulebookWorkOK /\ OfRulebook
      BY <1>0, <1>2, WhichWork, WorkKinds DEF ApplyTrust, At, DeskInv, RulebookWorkOK
    <2>2. PICK s \in {"pin", "apply"} : work' = [work EXCEPT !.step = s] /\ work.edition = e
      BY <1>2 DEF ApplyTrust
    <2>3. work'.step = s /\ work'.edition = e /\ OfRulebook'
      BY <2>1, <2>2 DEF RulebookWorkOK, RulebookWork, OfRulebook
    <2>4. QED
      BY <2>3 DEF HalfWay
  <1>3. CASE ~ApplyTrust(e)
    <2>1. Accepted(e)
      BY <1>0, <1>1, <1>3, AcceptedBy
    <2>2. Decided(rulebooks[e])
      BY <1>0, <2>1 DEF DeskInv, OnlyApprovedIsLive, Accepted
    <2>3. rulebooks[e].state = "approved"
      BY <1>0, <1>1, <2>2 DEF Decided, RulebooksKept
    <2>4. OfRulebook /\ work.edition = e /\ work.step \in {"pin", "connect", "apply"}
      BY <2>1, <2>3 DEF HalfWayOnly, HalfWay
    <2>5. CASE work' = work
      BY <2>4, <2>5 DEF HalfWay, OfRulebook
    <2>6. CASE CarryOut
      <3>1. work' # NoWork
        <4>1. work' = NoWork => GiveUp \/ DoneDeciding \/ TellAccepted \/ TellDeclined
          BY <1>0, <2>4, <2>6, WhichWork
          DEF CarryOut, ApplyTrust, MarkApplied, TakeHeld, Resume, RefuseHeld, PinPartner,
              StoreConnections, MarkMoved, NoWork, DeskInv, WorkOK, RulebookWorkOK, RulebookWork,
              Steps
        <4>2. QED
          BY <2>4, <4>1 DEF GiveUp, DoneDeciding, TellAccepted, TellDeclined, At
      <3>2. GoesOn /\ work'.edition = e
        BY <1>0, <2>4, <2>6, <3>1, RulebookGoesOn, SameEdition
      <3>3. OfRulebook'
        BY <3>2 DEF GoesOn, RulebookWork, OfRulebook
      <3>4. work'.step # "tell"
        BY <1>0, <1>1, <3>2, <3>3 DEF ReleasesApplied
      <3>5. work'.step \in {"connect", "apply"}
        BY <2>4, <3>2, <3>4 DEF GoesOn
      <3>6. QED
        BY <3>2, <3>3, <3>5 DEF HalfWay
    <2>7. ~Decide
      <3>1. Decide => work = NoWork
        BY DEF Decide, ApproveRulebook, RejectRulebook, ApproveMove, RejectMove
      <3>2. QED
        BY <2>4, <3>1, WorkKinds
    <2>8. Receive \/ (\E i \in DOMAIN accepting : OverlapEnds(i)) \/ UNCHANGED vars => work' = work
      BY DEF Receive, Ingest, ReprocessInbound, OverlapEnds, vars
    <2>9. QED
      BY <2>5, <2>6, <2>7, <2>8 DEF Next
  <1>4. QED
    BY <1>2, <1>3

(* Where the pipeline puts a message, and for which proposal.              *)
LEMMA PipelineHolds ==
    ASSUME DeskInv, HeldForItself, PendingAreHeld,
           NEW b \in [Messages -> {"none", "green", "red"}], NEW m \in Messages,
           Pipeline(held, b, m)
    PROVE  /\ PendingAreHeld'
           /\ held' = held \/ (held' = held \cup {m} /\ ~Accepted(Cites[m]))
           /\ \A e \in Editions : Accepted(e) => rulebooks'[e] = rulebooks[e]
  <1>1. Cites[m] \in Editions /\ rulebooks[Cites[m]] \in RulebookProposal \cup {NoProposal}
    BY MessageAssumption DEF DeskInv, TypeOK
  <1>2. \/ held' = held /\ rulebooks' = rulebooks
        \/ /\ held' = held \cup {m} /\ IsNew(Cites[m])
           /\ rulebooks' \in {rulebooks, [rulebooks EXCEPT ![Cites[m]] = NoticedRulebook(m)]}
    BY UpdateIsNews DEF Pipeline, Quarantine, RefuseRetired, AskForRulebook, HoldForReview,
       DeliverToInbox, desk
  <1>3. IsNew(Cites[m]) => ~Accepted(Cites[m])
    BY <1>1, AcceptedIsNoNews DEF DeskInv
  <1>4. \A e \in Editions : Accepted(e) => rulebooks'[e] = rulebooks[e]
    BY <1>2, <1>3 DEF DeskInv, TypeOK
  <1>5. CASE rulebooks' = rulebooks
    BY <1>2, <1>3, <1>4, <1>5 DEF PendingAreHeld
  <1>6. ASSUME held' = held \cup {m},
               rulebooks' = [rulebooks EXCEPT ![Cites[m]] = NoticedRulebook(m)]
        PROVE  PendingAreHeld'
    <2> DEFINE p == rulebooks[Cites[m]]
               r == NoticedRulebook(m)
    <2>1. Pending(r) => r.heldMessages \subseteq held \cup {m}
      <3>1. CASE Pending(p)
        <4>1. p \in RulebookProposal
          BY <1>1, <3>1 DEF Pending, NoProposal
        <4>2. r.heldMessages = p.heldMessages \cup {m}
          BY <3>1, <4>1 DEF NoticedRulebook, RulebookProposal
        <4>3. QED
          BY <1>1, <3>1, <4>2 DEF PendingAreHeld
      <3>2. CASE ~Pending(p) /\ p.state = "rejected"
        BY <3>2 DEF NoticedRulebook, Pending
      <3>3. CASE ~Pending(p) /\ p.state # "rejected"
        BY <3>3 DEF NoticedRulebook, NewRulebookProposal
      <3>4. QED
        BY <3>1, <3>2, <3>3
    <2> HIDE DEF r
    <2>2. \A e \in Editions : rulebooks'[e] = IF e = Cites[m] THEN r ELSE rulebooks[e]
      BY <1>6 DEF DeskInv, TypeOK, r
    <2>3. QED
      BY <1>6, <2>1, <2>2 DEF PendingAreHeld
  <1>7. QED
    BY <1>2, <1>3, <1>4, <1>5, <1>6

(* Releasing takes out what its decision is about.                         *)
LEMMA ReleasedIsDecided ==
    ASSUME DeskInv, HandsOK, ReleasesApplied, NEW m \in Messages, TakeHeld(m) \/ RefuseHeld(m)
    PROVE  /\ OfRulebook /\ Cites[m] = work.edition /\ work.edition \in Editions
           /\ ~Pending(rulebooks[work.edition])
           /\ rulebooks' = rulebooks /\ held' = held \ {m}
           /\ OfRulebook' /\ work'.edition = work.edition /\ work'.release = work.release \ {m}
  <1>1. RulebookWorkOK /\ OfRulebook
    BY WhichWork, WorkKinds DEF TakeHeld, RefuseHeld, At, DeskInv, RulebookWorkOK
  <1>2. work.edition \in Editions
    BY <1>1 DEF RulebookWorkOK, RulebookWork
  <1>3. m \in work.release /\ work.step \in {"release", "remove"}
    BY DEF TakeHeld, RefuseHeld, At
  <1>4. Cites[m] = work.edition
    BY <1>1, <1>3 DEF HandsOK
  <1>5. ~Pending(rulebooks[work.edition])
    BY <1>1, <1>3 DEF HandsOK, ReleasesApplied, Pending
  <1>6. /\ rulebooks' = rulebooks /\ held' = held \ {m}
        /\ OfRulebook' /\ work'.edition = work.edition /\ work'.release = work.release \ {m}
    BY <1>1 DEF TakeHeld, RefuseHeld, desk, RulebookWorkOK, RulebookWork, OfRulebook
  <1>7. QED
    BY <1>1, <1>2, <1>4, <1>5, <1>6

LEMMA WaitingStaysHeld ==
    ASSUME WholeInv, [Next]_vars, ~Die, PendingAreHeld
    PROVE  PendingAreHeld'
  <1>0. DeskInv /\ HandsOK /\ HeldForItself /\ ReleasesApplied
    BY DEF WholeInv
  <1>1. inbox \in [Messages -> {"none", "green", "red"}]
    BY <1>0 DEF DeskInv, TypeOK
  <1>2. ASSUME NEW m \in Messages, Ingest(m) \/ ReprocessInbound(m) \/ Resume(m)
        PROVE  PendingAreHeld'
    <2>1. \/ held' = held /\ rulebooks' = rulebooks
          \/ \E b \in [Messages -> {"none", "green", "red"}] : Pipeline(held, b, m)
      BY <1>1, <1>2 DEF Ingest, ReprocessInbound, Resume, Quarantine, desk
    <2>2. QED
      BY <1>0, <2>1, PipelineHolds DEF PendingAreHeld
  <1>3. ASSUME NEW e \in Editions, ApproveRulebook(e) \/ RejectRulebook(e)
        PROVE  PendingAreHeld'
    <2>1. PICK state \in {"approved", "rejected"} :
            rulebooks' = [rulebooks EXCEPT ![e] = [rulebooks[e] EXCEPT !.state = state]]
      BY <1>3 DEF ApproveRulebook, RejectRulebook
    <2>2. /\ rulebooks[e] \in RulebookProposal /\ Pending(rulebooks[e]) /\ held' = held
      BY <1>0, <1>3, Waiting DEF ApproveRulebook, RejectRulebook, Waits, Pending, intake
    <2> DEFINE r == [rulebooks[e] EXCEPT !.state = state]
    <2>3. r.heldMessages = rulebooks[e].heldMessages
      BY <2>2 DEF RulebookProposal
    <2>4. rulebooks' = [rulebooks EXCEPT ![e] = r]
      BY <2>1
    <2> HIDE DEF r
    <2>5. \A d \in Editions : rulebooks'[d] = IF d = e THEN r ELSE rulebooks[d]
      BY <1>0, <2>4 DEF DeskInv, TypeOK
    <2>6. QED
      BY <2>2, <2>3, <2>5 DEF PendingAreHeld
  <1>4. ASSUME NEW e \in Editions, MarkApplied(e)
        PROVE  PendingAreHeld'
    <2> DEFINE r == [work.record EXCEPT !.state = "applied"]
    <2>1. RulebookWorkOK
      BY <1>0, <1>4, WhichWork DEF MarkApplied, At, Steps, DeskInv
    <2>2. r.state = "applied"
      BY <2>1 DEF RulebookWorkOK, RulebookWork, RulebookProposal
    <2>3. rulebooks' = [rulebooks EXCEPT ![e] = r] /\ held' = held
      BY <1>4 DEF MarkApplied, intake
    <2> HIDE DEF r
    <2>4. \A d \in Editions : rulebooks'[d] = IF d = e THEN r ELSE rulebooks[d]
      BY <1>0, <2>3 DEF DeskInv, TypeOK
    <2>5. QED
      BY <2>2, <2>3, <2>4 DEF PendingAreHeld, Pending
  <1>5. ASSUME NEW m \in Messages, TakeHeld(m) \/ RefuseHeld(m)
        PROVE  PendingAreHeld'
    <2>1. /\ Cites[m] \in Editions /\ ~Pending(rulebooks[Cites[m]])
          /\ rulebooks' = rulebooks /\ held' = held \ {m}
      BY <1>0, <1>5, ReleasedIsDecided
    <2>2. \A e \in Editions : Pending(rulebooks[e]) => m \notin rulebooks[e].heldMessages
      BY <1>0, <2>1 DEF HeldForItself, Pending, NoProposal
    <2>3. QED
      BY <2>1, <2>2 DEF PendingAreHeld
  <1>6. \/ \E c \in ConnectionSets : ApproveMove(c) \/ RejectMove(c)
        \/ \E e \in Editions : ApplyTrust(e)
        \/ PinPartner \/ StoreConnections \/ MarkMoved \/ GiveUp \/ DoneDeciding
        \/ TellAccepted \/ TellDeclined
        \/ \E i \in DOMAIN accepting : OverlapEnds(i)
        \/ UNCHANGED vars
        => held' = held /\ rulebooks' = rulebooks
    BY DEF ApproveMove, RejectMove, ApplyTrust, PinPartner, StoreConnections, MarkMoved, GiveUp,
           DoneDeciding, TellAccepted, TellDeclined, OverlapEnds, vars, intake, desk
  <1>7. (held' = held /\ rulebooks' = rulebooks) => PendingAreHeld'
    BY DEF PendingAreHeld
  <1>8. QED
    BY <1>2, <1>3, <1>4, <1>5, <1>6, <1>7 DEF Next, Receive, Decide, CarryOut

LEMMA AppliedStaysReleased ==
    ASSUME WholeInv, [Next]_vars, ~Die, PendingAreHeld, AppliedAreReleased
    PROVE  AppliedAreReleased'
  <1>0. DeskInv /\ HandsOK /\ HeldForItself /\ ReleasesApplied /\ RulebooksKept
    BY DecisionsKept DEF WholeInv
  <1>1. inbox \in [Messages -> {"none", "green", "red"}]
    BY <1>0 DEF DeskInv, TypeOK
  <1>2. \A e \in Editions : rulebooks[e].state = "applied" =>
          Accepted(e) /\ rulebooks[e] # NoProposal
    BY <1>0 DEF DeskInv, AppliedIsAccepted, NoProposal
  <1>3. ASSUME NEW m \in Messages, NEW b \in [Messages -> {"none", "green", "red"}],
               Pipeline(held, b, m), \A e \in Editions :
                 rulebooks'[e].state = "applied" => rulebooks[e].state = "applied",
               OfRulebook => /\ OfRulebook' /\ work'.edition = work.edition
                             /\ work'.release = work.release
        PROVE  AppliedAreReleased'
    <2>1. SUFFICES ASSUME NEW e \in Editions, rulebooks'[e].state = "applied",
                          NEW k \in rulebooks'[e].heldMessages \cap held'
                   PROVE  OfRulebook' /\ work'.edition = e /\ k \in work'.release
      BY DEF AppliedAreReleased
    <2>2. /\ rulebooks[e].state = "applied" /\ Accepted(e) /\ rulebooks'[e] = rulebooks[e]
          /\ rulebooks[e] # NoProposal
      BY <1>0, <1>2, <1>3, <2>1, PipelineHolds
    <2>3. Cites[k] = e
      BY <1>0, <2>1, <2>2 DEF HeldForItself
    <2>4. k \in held
      BY <1>0, <1>3, <2>1, <2>2, <2>3, PipelineHolds
    <2>5. QED
      BY <1>3, <2>1, <2>2, <2>4 DEF AppliedAreReleased
  <1>4. ASSUME NEW m \in Messages, Ingest(m) \/ ReprocessInbound(m)
        PROVE  AppliedAreReleased'
    <2>1. work' = work
      BY <1>4 DEF Ingest, ReprocessInbound
    <2>2. CASE Quarantine(held, inbox, m)
      <3>1. held' = held /\ rulebooks' = rulebooks
        BY <2>2 DEF Quarantine, desk
      <3>2. QED
        BY <2>1, <3>1 DEF AppliedAreReleased, OfRulebook
    <2>3. CASE ~Quarantine(held, inbox, m)
      <3>1. m \notin Unsigned
        BY <1>4, <2>3 DEF Ingest, ReprocessInbound
      <3>2. PICK b \in [Messages -> {"none", "green", "red"}] : Pipeline(held, b, m)
        BY <1>1, <1>4, <3>1 DEF Ingest, ReprocessInbound
      <3>3. HeldVerified
        BY <1>0 DEF DeskInv, OnlyApprovedIsLive, HeldVerified, Verified
      <3>4. SameDecisions
        BY <1>0, <3>1, <3>2, <3>3, PipelineEffect, ProcessedKeepsRulebooks
        DEF Walks, Processed, Verified, DeskInv
      <3>5. OfRulebook => /\ OfRulebook' /\ work'.edition = work.edition
                          /\ work'.release = work.release
        BY <2>1 DEF OfRulebook
      <3>6. QED
        BY <1>3, <3>2, <3>4, <3>5 DEF SameDecisions
    <2>4. QED
      BY <2>2, <2>3
  <1>5. ASSUME NEW m \in Messages, Resume(m)
        PROVE  AppliedAreReleased'
    <2>1. RulebookWorkOK /\ m \in Verified /\ Pipeline(held, inbox, m)
      BY <1>0, <1>5, InHand DEF Resume
    <2>2. OfRulebook' /\ work'.edition = work.edition /\ work'.release = work.release
      BY <1>5, <2>1 DEF Resume, RulebookWorkOK, RulebookWork, OfRulebook
    <2>3. HeldVerified
      BY <1>0 DEF DeskInv, OnlyApprovedIsLive, HeldVerified, Verified
    <2>4. SameDecisions
      BY <1>0, <2>1, <2>3, PipelineEffect, ProcessedKeepsRulebooks
      DEF Walks, Processed, Verified, DeskInv
    <2>5. QED
      BY <1>1, <1>3, <2>1, <2>2, <2>4 DEF SameDecisions
  <1>6. ASSUME NEW e \in Editions, ApproveRulebook(e) \/ RejectRulebook(e)
        PROVE  AppliedAreReleased'
    <2>1. ~OfRulebook /\ held' = held
      BY <1>6, WorkKinds DEF ApproveRulebook, RejectRulebook, intake
    <2>2. PICK state \in {"approved", "rejected"} :
            rulebooks' = [rulebooks EXCEPT ![e] = [rulebooks[e] EXCEPT !.state = state]]
      BY <1>6 DEF ApproveRulebook, RejectRulebook
    <2>3. rulebooks[e] \in RulebookProposal
      BY <1>0, <1>6, Waiting DEF ApproveRulebook, RejectRulebook
    <2> DEFINE r == [rulebooks[e] EXCEPT !.state = state]
    <2>4. r.state # "applied"
      BY <2>3 DEF RulebookProposal
    <2>5. rulebooks' = [rulebooks EXCEPT ![e] = r]
      BY <2>2
    <2> HIDE DEF r
    <2>6. \A d \in Editions : rulebooks'[d] = IF d = e THEN r ELSE rulebooks[d]
      BY <1>0, <2>5 DEF DeskInv, TypeOK
    <2>7. QED
      BY <2>1, <2>4, <2>6 DEF AppliedAreReleased
  <1>7. ASSUME NEW e \in Editions, MarkApplied(e)
        PROVE  AppliedAreReleased'
    <2> DEFINE r == [work.record EXCEPT !.state = "applied"]
    <2>1. RulebookWorkOK /\ work.edition = e /\ rulebooks[e].state = "approved"
      BY <1>0, <1>7, WhichWork DEF MarkApplied, At, Steps, DeskInv, RulebookWorkOK
    <2>2. r.heldMessages = work.record.heldMessages
      BY <2>1 DEF RulebookWorkOK, RulebookWork, RulebookProposal
    <2>3. rulebooks' = [rulebooks EXCEPT ![e] = r] /\ held' = held
      BY <1>7 DEF MarkApplied, intake
    <2>4. OfRulebook' /\ work'.edition = e /\ work'.release = work.record.heldMessages
      BY <1>7, <2>1 DEF MarkApplied, RulebookWorkOK, RulebookWork, OfRulebook
    <2> HIDE DEF r
    <2>5. \A d \in Editions : rulebooks'[d] = IF d = e THEN r ELSE rulebooks[d]
      BY <1>0, <2>3 DEF DeskInv, TypeOK
    <2>6. \A d \in Editions : rulebooks[d].state = "applied" =>
            d # e /\ rulebooks[d].heldMessages \cap held = {}
      BY <2>1 DEF AppliedAreReleased
    <2>7. QED
      BY <2>2, <2>3, <2>4, <2>5, <2>6 DEF AppliedAreReleased
  <1>8. ASSUME NEW m \in Messages, TakeHeld(m) \/ RefuseHeld(m)
        PROVE  AppliedAreReleased'
    <2>1. /\ rulebooks' = rulebooks /\ held' = held \ {m} /\ OfRulebook'
          /\ work'.edition = work.edition /\ work'.release = work.release \ {m}
      BY <1>0, <1>8, ReleasedIsDecided
    <2>2. QED
      BY <2>1 DEF AppliedAreReleased
  <1>9. ASSUME \/ \E e \in Editions : ApplyTrust(e)
               \/ PinPartner \/ StoreConnections \/ GiveUp \/ DoneDeciding
               \/ TellAccepted \/ TellDeclined \/ MarkMoved
        PROVE  AppliedAreReleased'
    <2>1. held' = held /\ rulebooks' = rulebooks
      BY <1>9 DEF ApplyTrust, PinPartner, StoreConnections, MarkMoved, GiveUp, DoneDeciding,
                  TellAccepted, TellDeclined, intake, desk
    <2>2. \A e \in Editions : rulebooks[e].state = "applied" =>
            \A k \in rulebooks[e].heldMessages \cap held :
              OfRulebook /\ work.edition = e /\ k \in work.release /\ work.release # {}
                /\ work.step \in Emptying
      BY <1>0 DEF AppliedAreReleased, HandsOK
    <2>3. CASE ~OfRulebook \/ work.release = {} \/ work.step \notin Emptying
      BY <2>1, <2>2, <2>3 DEF AppliedAreReleased
    <2>4. CASE OfRulebook /\ work.release # {} /\ work.step \in Emptying
      <3>1. TellAccepted
        BY <1>9, <2>4 DEF ApplyTrust, PinPartner, StoreConnections, MarkMoved, GiveUp,
                          DoneDeciding, TellDeclined, At, Emptying
      <3>2. work \in RulebookWork /\ work' = [work EXCEPT !.step = "release"]
        BY <1>0, <2>4, <3>1, WorkKinds DEF TellAccepted, DeskInv, TypeOK
      <3>3. OfRulebook' /\ work'.edition = work.edition /\ work'.release = work.release
        BY <3>2 DEF RulebookWork, OfRulebook
      <3>4. QED
        BY <2>1, <3>3 DEF AppliedAreReleased
    <2>5. QED
      BY <2>3, <2>4
  <1>10. ASSUME NEW c \in ConnectionSets, ApproveMove(c) \/ RejectMove(c)
         PROVE  AppliedAreReleased'
    <2>1. ~OfRulebook /\ held' = held /\ rulebooks' = rulebooks
      BY <1>10, WorkKinds DEF ApproveMove, RejectMove, intake
    <2>2. QED
      BY <2>1 DEF AppliedAreReleased
  <1>11. ASSUME (\E i \in DOMAIN accepting : OverlapEnds(i)) \/ UNCHANGED vars
         PROVE  AppliedAreReleased'
    <2>1. UNCHANGED <<held, rulebooks, work>>
      BY <1>11 DEF OverlapEnds, vars, intake, desk
    <2>2. QED
      BY <2>1 DEF AppliedAreReleased, OfRulebook
  <1>12. QED
    BY <1>4, <1>5, <1>6, <1>7, <1>8, <1>9, <1>10, <1>11 DEF Next, Receive, Decide, CarryOut

(* An approval is carried out whole or not at all, unless a process died   *)
(* (Node.Approve): once nothing is being decided, what is applied is       *)
(* accepted and none of its messages is left in held/, and what is still   *)
(* approved was given up (engine.go:432-439) without being accepted, with  *)
(* all its messages still held.  Messages and decisions beside it do not   *)
(* change that.                                                            *)
THEOREM WholeOrNotAtAll ==
    Spec => [](work = NoWork /\ crashes = 0 => \A e \in Editions :
                 /\ rulebooks[e].state = "applied" => CarriedOut(e) /\ Accepted(e)
                 /\ rulebooks[e].state = "approved" => GivenUp(e))
  <1>1. Init => WholeInv
    <2>1. Init => /\ HandsOK /\ HeldForItself /\ ReleasesApplied
                  /\ HalfWayOnly /\ PendingAreHeld /\ AppliedAreReleased
      BY DEF Init, HandsOK, HeldForItself, ReleasesApplied, HalfWayOnly, PendingAreHeld,
             AppliedAreReleased, OfRulebook, NoWork, NoProposal, Pending
    <2>2. QED
      BY <2>1, DeskInvInit DEF WholeInv
  <1>2. WholeInv /\ [Next]_vars => WholeInv'
    <2>1. SUFFICES ASSUME WholeInv, [Next]_vars
                   PROVE  WholeInv'
      OBVIOUS
    <2>2. DeskInv' /\ HandsOK' /\ HeldForItself' /\ ReleasesApplied'
      BY <2>1, DeskInvStep, HandsStep, ReleasesAppliedStep DEF WholeInv
    <2>3. ASSUME crashes' = 0
          PROVE  HalfWayOnly' /\ PendingAreHeld' /\ AppliedAreReleased'
      <3>1. ~Die
        BY <2>1, <2>3, DeadIsExcused DEF WholeInv, DeskInv
      <3>2. crashes = 0
        <4>1. crashes' = crashes
          BY <2>1, <3>1 DEF Next, Receive, Ingest, ReprocessInbound, Decide, ApproveRulebook,
             RejectRulebook, ApproveMove, RejectMove, CarryOut, ApplyTrust, MarkApplied, TakeHeld,
             Resume, RefuseHeld, GiveUp, PinPartner, StoreConnections, MarkMoved, TellAccepted,
             TellDeclined, DoneDeciding, OverlapEnds, vars
        <4>2. QED
          BY <2>3, <4>1
      <3>3. HalfWayOnly /\ PendingAreHeld /\ AppliedAreReleased
        BY <2>1, <3>2 DEF WholeInv
      <3>4. QED
        BY <2>1, <3>1, <3>3, HalfWayStep, WaitingStaysHeld, AppliedStaysReleased
    <2>4. QED
      BY <2>2, <2>3 DEF WholeInv
  <1>3. WholeInv => (work = NoWork /\ crashes = 0 => \A e \in Editions :
                       /\ rulebooks[e].state = "applied" => CarriedOut(e) /\ Accepted(e)
                       /\ rulebooks[e].state = "approved" => GivenUp(e))
    <2>1. SUFFICES ASSUME WholeInv, work = NoWork, crashes = 0, NEW e \in Editions
                   PROVE  /\ rulebooks[e].state = "applied" => CarriedOut(e) /\ Accepted(e)
                          /\ rulebooks[e].state = "approved" => GivenUp(e)
      OBVIOUS
    <2>2. ~OfRulebook /\ HalfWayOnly /\ PendingAreHeld /\ AppliedAreReleased
      BY <2>1, WorkKinds DEF WholeInv
    <2>3. rulebooks[e].state = "applied" => Accepted(e)
      BY <2>1 DEF WholeInv, DeskInv, AppliedIsAccepted
    <2>4. rulebooks[e].state = "applied" => CarriedOut(e)
      BY <2>2 DEF AppliedAreReleased, CarriedOut
    <2>5. rulebooks[e].state = "approved" => GivenUp(e)
      BY <2>1, <2>2 DEF HalfWayOnly, HalfWay, PendingAreHeld, Pending, GivenUp
    <2>6. QED
      BY <2>3, <2>4, <2>5
  <1>4. QED
    BY <1>1, <1>2, <1>3, PTL DEF Spec

=============================================================================
