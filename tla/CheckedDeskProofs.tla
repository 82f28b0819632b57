-------------------------- MODULE CheckedDeskProofs --------------------------
(***************************************************************************)
(* Proofs about CheckedDesk, for all rulebooks, contents and answer keys:  *)
(* a rulebook that is accepted behaves on the examples of a message that   *)
(* brought it as they promise, and a green message keeps every rule.       *)
(*                                                                         *)
(* The lists of ids that equalStringSets compares place by place are       *)
(* equal only if they hold the same ids; and a proposal that passes has    *)
(* among its held messages one whose answer key it passed, because held    *)
(* messages are only ever added to it.                                     *)
(***************************************************************************)
EXTENDS CheckedDesk, ChangesDeskProofs, FiniteSetTheorems

USE MessageAssumption, EditionAssumption, DeskAssumption,
    RulebookAssumption, AnswerKeyAssumption, ContentAssumption, CheckedAssumption

-----------------------------------------------------------------------------
(* The checker. *)

(* The broken rules are those at the places Check reports. *)
LEMMA BrokenAtPlaces ==
    ASSUME NEW rulebook \in Rulebooks, NEW content, NEW type, NEW id
    PROVE  id \in BrokenRules(content, rulebook, type) <=>
             \E i \in Violations(content, rulebook, type) : rulebook.rules[i].id = id
BY DEF BrokenRules, Violations

(* A content passes exactly if it breaks no rule. *)
LEMMA PassedIsUnbroken ==
    ASSUME NEW rulebook \in Rulebooks, NEW content, NEW type
    PROVE  Passed(content, rulebook, type) <=> BrokenRules(content, rulebook, type) = {}
BY BrokenAtPlaces DEF Passed

(* Places of a list are finitely many. *)
LEMMA FinitePlaces ==
    ASSUME NEW S, NEW list \in Seq(S), NEW places \in SUBSET (DOMAIN list)
    PROVE  IsFiniteSet(places)
<1>1. DOMAIN list = 1..Len(list) /\ Len(list) \in Nat
  OBVIOUS
<1>2. IsFiniteSet(DOMAIN list)
  BY <1>1, FS_Interval
<1> QED
  BY <1>2, FS_Subset

(* Two finite sets of one size are empty together. *)
LEMMA EmptyTogether ==
    ASSUME NEW S, NEW T, IsFiniteSet(S), IsFiniteSet(T), Cardinality(S) = Cardinality(T)
    PROVE  S = {} <=> T = {}
BY FS_EmptySet

(* A wrong example that passes breaks exactly the rules it promises. *)
LEMMA PromiseKept ==
    ASSUME NEW rulebook \in Rulebooks, NEW example \in Examples, InvalidPasses(example, rulebook)
    PROVE  BrokenRules(example.content, rulebook, BaseDocType(rulebook))
             = {example.expected[i] : i \in DOMAIN example.expected}
<1> DEFINE type == BaseDocType(rulebook)
           places(id) == {i \in Violations(example.content, rulebook, type) :
                            rulebook.rules[i].id = id}
           promised(id) == {i \in DOMAIN example.expected : example.expected[i] = id}
<1>1. rulebook.rules \in Seq(Rules) /\ example.expected \in Seq(RuleIDs)
  BY DEF Rulebooks, Examples
<1>2. ASSUME NEW id \in RuleIDs
      PROVE  places(id) = {} <=> promised(id) = {}
  <2>1. places(id) \in SUBSET (DOMAIN rulebook.rules)
    BY DEF Violations
  <2>2. IsFiniteSet(places(id)) /\ IsFiniteSet(promised(id))
    BY <1>1, <2>1, FinitePlaces
  <2>3. Cardinality(places(id)) = ViolatedIDs(example.content, rulebook, type)[id]
    BY DEF ViolatedIDs
  <2>4. Cardinality(promised(id)) = Sorted(example.expected)[id]
    BY DEF Sorted
  <2>5. Cardinality(places(id)) = Cardinality(promised(id))
    BY <2>3, <2>4 DEF InvalidPasses
  <2> HIDE DEF places, promised
  <2> QED
    BY <2>2, <2>5, EmptyTogether
<1>3. \A id : id \in BrokenRules(example.content, rulebook, type) <=> places(id) # {}
  BY BrokenAtPlaces
<1>4. \A id : id \in {example.expected[i] : i \in DOMAIN example.expected} <=> promised(id) # {}
  OBVIOUS
<1>5. \A id : places(id) # {} => id \in RuleIDs
  <2>1. \A i \in DOMAIN rulebook.rules : rulebook.rules[i] \in Rules
    BY <1>1
  <2> QED
    BY <2>1 DEF Violations, Rules
<1>6. \A id : promised(id) # {} => id \in RuleIDs
  <2>1. \A i \in DOMAIN example.expected : example.expected[i] \in RuleIDs
    BY <1>1
  <2> QED
    BY <2>1
<1> HIDE DEF places, promised, type
<1>7. \A id : id \in BrokenRules(example.content, rulebook, type)
                <=> id \in {example.expected[i] : i \in DOMAIN example.expected}
  BY <1>2, <1>3, <1>4, <1>5, <1>6
<1> QED
  BY <1>7 DEF type

(* A report without a failure proves the rulebook (answerkey.Run): the     *)
(* valid examples pass, the wrong ones break what they promise.            *)
THEOREM AllPassProves ==
    ASSUME NEW rulebook \in Rulebooks, NEW answerKey \in AnswerKeys \cup {NoKey},
           AllPass(answerKey, rulebook)
    PROVE  Proves(answerKey, rulebook)
<1>1. answerKey # NoKey /\ answerKey.valid \cup answerKey.invalid # {}
  BY DEF AllPass
<1>2. answerKey.valid \subseteq Examples /\ answerKey.invalid \subseteq Examples
  BY <1>1 DEF AnswerKeys
<1>3. \A example \in answerKey.valid :
         BrokenRules(example.content, rulebook, BaseDocType(rulebook)) = {}
  BY PassedIsUnbroken DEF AllPass, ValidPasses
<1>4. \A example \in answerKey.invalid :
         BrokenRules(example.content, rulebook, BaseDocType(rulebook))
           = {example.expected[i] : i \in DOMAIN example.expected}
  BY <1>2, PromiseKept DEF AllPass
<1> QED
  BY <1>1, <1>3, <1>4 DEF Proves

(* Without repetitions there is nothing else to it: when no two rules of a *)
(* rulebook share an id and no wrong example promises one twice, the       *)
(* report has no failure exactly if the examples prove the rulebook.  With *)
(* a repetition the lists that equalStringSets compares differ in length   *)
(* where the sets agree, and a rulebook that does what its examples say is *)
(* turned down.                                                            *)
WithoutRepeats(rulebook, answerKey) ==
    /\ \A i, j \in DOMAIN rulebook.rules :
         rulebook.rules[i].id = rulebook.rules[j].id => i = j
    /\ \A example \in answerKey.invalid : \A i, j \in DOMAIN example.expected :
         example.expected[i] = example.expected[j] => i = j

(* Two sets of at most one element have one size if they are empty         *)
(* together.                                                               *)
LEMMA AtMostOneEach ==
    ASSUME NEW S, NEW T, \A x, y \in S : x = y, \A x, y \in T : x = y, S = {} <=> T = {}
    PROVE  Cardinality(S) = Cardinality(T)
<1>1. CASE S = {}
  BY <1>1
<1>2. CASE S # {}
  <2>1. PICK x \in S : TRUE
    BY <1>2
  <2>2. PICK y \in T : TRUE
    BY <1>2
  <2>3. S = {x} /\ T = {y}
    BY <2>1, <2>2
  <2> QED
    BY <2>3, FS_Singleton
<1> QED
  BY <1>1, <1>2

LEMMA BrokenIsPlaced ==
    ASSUME NEW rulebook \in Rulebooks, NEW content, NEW type
    PROVE  \A id : id \in BrokenRules(content, rulebook, type) <=>
             {i \in Violations(content, rulebook, type) : rulebook.rules[i].id = id} # {}
<1>1. \A id : id \in BrokenRules(content, rulebook, type) <=>
        \E i \in Violations(content, rulebook, type) : rulebook.rules[i].id = id
  BY BrokenAtPlaces
<1> QED
  BY <1>1

LEMMA PromiseCounted ==
    ASSUME NEW rulebook \in Rulebooks, NEW answerKey \in AnswerKeys,
           WithoutRepeats(rulebook, answerKey), NEW example \in answerKey.invalid
    PROVE  (BrokenRules(example.content, rulebook, BaseDocType(rulebook))
             = {example.expected[i] : i \in DOMAIN example.expected})
             => InvalidPasses(example, rulebook)
<1> DEFINE type == BaseDocType(rulebook)
           places(id) == {i \in Violations(example.content, rulebook, type) :
                            rulebook.rules[i].id = id}
           promised(id) == {i \in DOMAIN example.expected : example.expected[i] = id}
<1>0. \A id : id \in BrokenRules(example.content, rulebook, type) <=> places(id) # {}
  BY BrokenIsPlaced
<1> HAVE BrokenRules(example.content, rulebook, BaseDocType(rulebook))
           = {example.expected[i] : i \in DOMAIN example.expected}
<1>1. ASSUME NEW id \in RuleIDs
      PROVE  Cardinality(places(id)) = Cardinality(promised(id))
  <2>1. \A i, j \in places(id) : i = j
    BY DEF WithoutRepeats, Violations
  <2>2. \A i, j \in promised(id) : i = j
    BY DEF WithoutRepeats
  <2>3. places(id) # {} <=> id \in BrokenRules(example.content, rulebook, type)
    BY <1>0
  <2>4. promised(id) # {} <=> id \in {example.expected[i] : i \in DOMAIN example.expected}
    OBVIOUS
  <2>5. places(id) = {} <=> promised(id) = {}
    BY <2>3, <2>4
  <2> HIDE DEF places, promised
  <2> QED
    BY <2>1, <2>2, <2>5, AtMostOneEach
<1>2. ViolatedIDs(example.content, rulebook, type) = [id \in RuleIDs |-> Cardinality(places(id))]
  BY DEF ViolatedIDs
<1>3. Sorted(example.expected) = [id \in RuleIDs |-> Cardinality(promised(id))]
  BY DEF Sorted
<1> HIDE DEF places, promised
<1>4. ViolatedIDs(example.content, rulebook, type) = Sorted(example.expected)
  BY <1>1, <1>2, <1>3
<1> QED
  BY <1>4 DEF InvalidPasses

(* The report of answerkey.Run has no failure exactly if the examples      *)
(* prove the rulebook, for rulebooks and keys without repetitions.         *)
THEOREM AllPassIsProof ==
    ASSUME NEW rulebook \in Rulebooks, NEW answerKey \in AnswerKeys,
           WithoutRepeats(rulebook, answerKey)
    PROVE  AllPass(answerKey, rulebook) <=> Proves(answerKey, rulebook)
<1>1. AllPass(answerKey, rulebook) => Proves(answerKey, rulebook)
  BY AllPassProves
<1>2. ASSUME Proves(answerKey, rulebook)
      PROVE  AllPass(answerKey, rulebook)
  <2>1. \A example \in answerKey.valid : ValidPasses(example, rulebook)
    BY <1>2, PassedIsUnbroken DEF Proves, ValidPasses
  <2>2. \A example \in answerKey.invalid : InvalidPasses(example, rulebook)
    BY <1>2, PromiseCounted DEF Proves
  <2> QED
    BY <1>2, <2>1, <2>2 DEF Proves, AllPass
<1> QED
  BY <1>1, <1>2

-----------------------------------------------------------------------------
(* The proposals. *)

(* A message held for a proposal brought its edition and passed.           *)
Witnessed(p, e) == p.passes => \E m \in p.heldMessages : Cites[m] = e /\ m \in Complete \ Failing

ProposalsWitnessed == \A e \in Editions : rulebooks[e] # NoProposal => Witnessed(rulebooks[e], e)
RecordWitnessed == OfRulebook => Witnessed(work.record, work.edition)

CheckedInv == DeskInv /\ ProposalsWitnessed /\ RecordWitnessed

(* A message that is noticed is a witness, or leaves the witness there is. *)
LEMMA NoticedIsWitnessed ==
    ASSUME DeskInv, ProposalsWitnessed, NEW m \in Complete
    PROVE  Witnessed(NoticedRulebook(m), Cites[m])
<1> DEFINE p == rulebooks[Cites[m]]
<1>1. Cites[m] \in Editions /\ p \in RulebookProposal \cup {NoProposal}
  BY DEF DeskInv, TypeOK
<1>2. p # NoProposal => Witnessed(p, Cites[m])
  BY <1>1 DEF ProposalsWitnessed
<1>3. p.state # "none" => p # NoProposal
  BY DEF NoProposal
<1>4. CASE Pending(p)
  <2> DEFINE q == [p EXCEPT !.heldMessages = @ \cup {m}]
  <2>1. p \in RulebookProposal
    BY <1>1, <1>3, <1>4 DEF Pending
  <2>2. q.passes = p.passes /\ q.heldMessages = p.heldMessages \cup {m}
    BY <2>1 DEF RulebookProposal
  <2>3. NoticedRulebook(m) = q
    BY <1>4 DEF NoticedRulebook
  <2> HIDE DEF q
  <2> QED
    BY <1>2, <1>3, <1>4, <2>2, <2>3 DEF Witnessed, Pending
<1>5. CASE ~Pending(p) /\ p.state = "rejected"
  BY <1>2, <1>3, <1>5 DEF NoticedRulebook
<1>6. CASE ~Pending(p) /\ p.state # "rejected"
  <2>1. NoticedRulebook(m) = NewRulebookProposal(m)
    BY <1>6 DEF NoticedRulebook
  <2>2. /\ NewRulebookProposal(m).heldMessages = {m}
        /\ NewRulebookProposal(m).passes => m \notin Failing
    BY DEF NewRulebookProposal
  <2> QED
    BY <2>1, <2>2 DEF Witnessed
<1> QED
  BY <1>4, <1>5, <1>6

(* The pipeline, walked to its end or not: a proposal that is filed        *)
(* without its files is witnessed like the whole one.                      *)
LEMMA PipelineWitnessed ==
    ASSUME DeskInv, ProposalsWitnessed, NEW h, NEW b, NEW m \in Messages, Walks(h, b, m)
    PROVE  ProposalsWitnessed'
<1>1. \/ rulebooks' = rulebooks
      \/ /\ m \in Complete
         /\ \E q \in Filed(m) : rulebooks' = [rulebooks EXCEPT ![Cites[m]] = q]
  BY PipelineEffect
<1>2. CASE rulebooks' = rulebooks
  BY <1>2 DEF ProposalsWitnessed, Witnessed
<1>3. ASSUME m \in Complete,
             NEW q \in Filed(m), rulebooks' = [rulebooks EXCEPT ![Cites[m]] = q]
      PROVE  ProposalsWitnessed'
  <2>1. rulebooks \in [Editions -> RulebookProposal \cup {NoProposal}]
    BY DEF DeskInv, TypeOK
  <2>2. \A e \in Editions : rulebooks'[e] = IF e = Cites[m] THEN q ELSE rulebooks[e]
    BY <1>3, <2>1
  <2>3. /\ q.passes = NoticedRulebook(m).passes
        /\ q.heldMessages = NoticedRulebook(m).heldMessages
    BY FiledLikeNoticed DEF DeskInv
  <2>4. Witnessed(NoticedRulebook(m), Cites[m])
    BY <1>3, NoticedIsWitnessed
  <2>5. Witnessed(q, Cites[m])
    BY <2>3, <2>4 DEF Witnessed
  <2> HIDE DEF Witnessed
  <2> QED
    BY <2>2, <2>5 DEF ProposalsWitnessed
<1> QED
  BY <1>1, <1>2, <1>3

(* A decision that keeps its record. *)
LEMMA RecordKept ==
    ASSUME RecordWitnessed,
           OfRulebook' => OfRulebook /\ work'.record = work.record /\ work'.edition = work.edition
    PROVE  RecordWitnessed'
BY DEF RecordWitnessed, Witnessed

(* A proposal gets another state, and a decision about it has it as it is  *)
(* on file.                                                                *)
LEMMA StateWitnessed ==
    ASSUME DeskInv, ProposalsWitnessed, NEW e \in Editions, NEW p \in RulebookProposal,
           NEW state, Witnessed(p, e),
           rulebooks' = [rulebooks EXCEPT ![e] = [p EXCEPT !.state = state]]
    PROVE  ProposalsWitnessed' /\ rulebooks'[e].passes = p.passes
           /\ Witnessed(rulebooks'[e], e)
<1> DEFINE q == [p EXCEPT !.state = state]
<1>1. q.passes = p.passes /\ q.heldMessages = p.heldMessages
  BY DEF RulebookProposal
<1>2. rulebooks \in [Editions -> RulebookProposal \cup {NoProposal}]
  BY DEF DeskInv, TypeOK
<1> HIDE DEF q
<1>3. \A d \in Editions : rulebooks'[d] = IF d = e THEN q ELSE rulebooks[d]
  BY <1>2 DEF q
<1>4. Witnessed(q, e)
  BY <1>1 DEF Witnessed
<1> QED
  BY <1>1, <1>3, <1>4 DEF ProposalsWitnessed

(* Approving and rejecting. *)
LEMMA DecideWitnessed ==
    ASSUME CheckedInv, NEW e \in Editions, ApproveRulebook(e) \/ RejectRulebook(e)
    PROVE  ProposalsWitnessed' /\ RecordWitnessed'
<1> DEFINE p == rulebooks[e]
<1>1. p \in RulebookProposal
  BY DEF CheckedInv, DeskInv, TypeOK, ApproveRulebook, RejectRulebook, Waits, NoProposal
<1>2. Witnessed(p, e)
  BY <1>1, ProposalState DEF CheckedInv, ProposalsWitnessed, ApproveRulebook, RejectRulebook, Waits
<1>3. PICK state \in {"approved", "rejected"} :
         rulebooks' = [rulebooks EXCEPT ![e] = [p EXCEPT !.state = state]]
  BY DEF ApproveRulebook, RejectRulebook
<1>4. ProposalsWitnessed' /\ Witnessed(rulebooks'[e], e)
  BY <1>1, <1>2, <1>3, StateWitnessed DEF CheckedInv
<1>5. PICK step \in {"trust", "refuse"} : work' = RulebookDecision(e, step, rulebooks'[e])
  BY DEF ApproveRulebook, RejectRulebook
<1>6. work'.record = rulebooks'[e] /\ work'.edition = e
  BY <1>5 DEF RulebookDecision
<1> QED
  BY <1>4, <1>6 DEF RecordWitnessed, Witnessed

(* Applying puts the record in memory on file. *)
LEMMA MarkWitnessed ==
    ASSUME CheckedInv, NEW e \in Editions, MarkApplied(e)
    PROVE  ProposalsWitnessed' /\ RecordWitnessed'
<1>1. /\ work.step = "apply" /\ OfRulebook /\ work.edition = e
      /\ rulebooks' = [rulebooks EXCEPT ![e] = [work.record EXCEPT !.state = "applied"]]
      /\ work' = [work EXCEPT !.step = "tell", !.release = work.record.heldMessages]
  BY DEF MarkApplied, At
<1>2. work \in RulebookWork
  BY <1>1, WhichWork DEF CheckedInv, DeskInv, RulebookWorkOK, Steps
<1>3. work.record \in RulebookProposal /\ Witnessed(work.record, e)
  BY <1>1, <1>2 DEF CheckedInv, RecordWitnessed, RulebookWork
<1>4. ProposalsWitnessed'
  BY <1>1, <1>3, StateWitnessed DEF CheckedInv
<1>5. work'.record = work.record /\ work'.edition = work.edition
  BY <1>1, <1>2 DEF RulebookWork
<1> QED
  BY <1>1, <1>4, <1>5, RecordKept DEF CheckedInv

(* A process that dies moving a proposal leaves it witnessed.              *)
LEMMA DiesMovingWitnessed ==
    ASSUME DeskInv, ProposalsWitnessed, NEW e \in Editions, DiesMoving(e)
    PROVE  ProposalsWitnessed'
<1> DEFINE p == rulebooks[e]
<1>1. /\ p \in RulebookProposal /\ p # NoProposal
      /\ \E files \in SUBSET Files : rulebooks' = [rulebooks EXCEPT ![e] = [p EXCEPT !.files = files]]
  BY DiesMovingWrites
<1>2. PICK files \in SUBSET Files : rulebooks' = [rulebooks EXCEPT ![e] = [p EXCEPT !.files = files]]
  BY <1>1
<1> DEFINE q == [p EXCEPT !.files = files]
<1>3. q.passes = p.passes /\ q.heldMessages = p.heldMessages
  BY <1>1, FilesOnly
<1>4. rulebooks \in [Editions -> RulebookProposal \cup {NoProposal}]
  BY DEF DeskInv, TypeOK
<1>5. rulebooks' = [rulebooks EXCEPT ![e] = q]
  BY <1>2
<1> HIDE DEF q
<1>6. \A d \in Editions : rulebooks'[d] = IF d = e THEN q ELSE rulebooks[d]
  BY <1>4, <1>5
<1>7. Witnessed(q, e)
  BY <1>1, <1>3 DEF Witnessed, ProposalsWitnessed
<1> QED
  BY <1>6, <1>7 DEF ProposalsWitnessed

(* The proposals. *)
LEMMA ProposalsStep == CheckedInv /\ [Next]_vars => ProposalsWitnessed'
<1> SUFFICES ASSUME CheckedInv, [Next]_vars PROVE ProposalsWitnessed'
  OBVIOUS
<1> USE DEF CheckedInv
<1>1. CASE rulebooks' = rulebooks
  BY <1>1 DEF ProposalsWitnessed, Witnessed
<1>2. ASSUME NEW m \in Messages, Receives(m) \/ Resume(m) \/ DiesResuming(m)
      PROVE  ProposalsWitnessed'
  <2>1. CASE Ingest(m) \/ DiesIngesting(m)
    <3>1. CASE m \in Unsigned
      BY <1>1, <2>1, <3>1 DEF Ingest, DiesIngesting, Quarantine, desk
    <3>2. CASE m \notin Unsigned
      BY <2>1, <3>2, PipelineWitnessed DEF Ingest, DiesIngesting, Walks
    <3> QED
      BY <3>1, <3>2
  <2>2. CASE ReprocessInbound(m) \/ DiesReprocessing(m)
    BY <2>2, PipelineWitnessed DEF ReprocessInbound, DiesReprocessing, Walks
  <2>3. CASE Resume(m) \/ DiesResuming(m)
    BY <2>3, PipelineWitnessed DEF Resume, DiesResuming, Walks
  <2> QED
    BY <1>2, <2>1, <2>2, <2>3 DEF Receives
<1>3. CASE Decide
  <2>1. \A c \in ConnectionSets : ApproveMove(c) \/ RejectMove(c) => rulebooks' = rulebooks
    BY DEF ApproveMove, RejectMove
  <2> QED
    BY <1>1, <1>3, <2>1, DecideWitnessed DEF Decide
<1>4. CASE \E e \in Editions : MarkApplied(e) \/ DiesMoving(e)
  BY <1>4, MarkWitnessed, DiesMovingWitnessed
<1>5. MarkMoved \/ (\E c \in ConnectionSets : DiesMovingMove(c)) \/ UNCHANGED desk
        => rulebooks' = rulebooks
  BY DEF MarkMoved, DiesMovingMove, desk
<1> QED
  BY <1>1, <1>2, <1>3, <1>4, <1>5, DeskRests

(* The record of the decision. *)
LEMMA RecordStep == CheckedInv /\ [Next]_vars => RecordWitnessed'
<1> SUFFICES ASSUME CheckedInv, [Next]_vars PROVE RecordWitnessed'
  OBVIOUS
<1> USE DEF CheckedInv
<1>1. CASE work' = work \/ ~OfRulebook'
  BY <1>1, RecordKept DEF OfRulebook
<1>2. ASSUME NEW e \in Editions, ApproveRulebook(e) \/ RejectRulebook(e)
      PROVE  RecordWitnessed'
  BY <1>2, DecideWitnessed
<1>3. CASE OfRulebook /\ CarryOut
  <2>1. CASE work' = NoWork
    BY <1>1, <2>1, WorkKinds DEF OfRulebook, NoWork
  <2>2. CASE work' # NoWork
    <3>1. work'.record = work.record
      BY <1>3, <2>2, RulebookGoesOn DEF GoesOn
    <3>2. work'.edition = work.edition
      BY <1>3, <2>2, SameEdition
    <3> QED
      BY <1>3, <3>1, <3>2, RecordKept
  <2> QED
    BY <2>1, <2>2
<1>4. CarryOut /\ ~OfRulebook => ~OfRulebook'
  BY ConnectionsStayConnections
<1>5. \/ Receive \/ Die \/ (\E c \in ConnectionSets : ApproveMove(c) \/ RejectMove(c))
      \/ (\E i \in DOMAIN accepting : OverlapEnds(i)) \/ UNCHANGED vars
      => work' = work \/ ~OfRulebook'
  BY OtherWork
<1> QED
  BY <1>1, <1>2, <1>3, <1>4, <1>5 DEF Next, Decide

(* Every step. *)
LEMMA CheckedStep == CheckedInv /\ [Next]_vars => CheckedInv'
BY DeskInvStep, ProposalsStep, RecordStep DEF CheckedInv

(* What the desk proposes is witnessed, always. *)
LEMMA CheckedInvariant == Spec => []CheckedInv
<1>1. Init => CheckedInv
  BY DeskInvInit DEF Init, CheckedInv, ProposalsWitnessed, RecordWitnessed, OfRulebook, NoWork
<1>2. CheckedInv /\ [Next]_vars => CheckedInv'
  BY CheckedStep
<1> QED
  BY <1>1, <1>2, PTL DEF Spec

(* answerkey.go: "A rulebook that fails its own answer key is never        *)
(* trusted."  Every accepted edition was brought by a message on whose     *)
(* examples it behaves as they promise.                                    *)
THEOREM AcceptedRulebooksAreProven == Spec => []AcceptedIsProven
<1>1. CheckedInv => AcceptedIsProven
  <2> SUFFICES ASSUME CheckedInv, NEW i \in DOMAIN accepting
               PROVE  \E m \in rulebooks[accepting[i].edition].heldMessages :
                         m \in Proven /\ Cites[m] = accepting[i].edition
    BY DEF AcceptedIsProven
  <2> DEFINE e == accepting[i].edition
             p == rulebooks[e]
  <2>1. e \in Editions
    BY AcceptingType DEF CheckedInv, DeskInv, TrustedVersion
  <2>2. Decided(p) /\ p.passes
    BY DEF CheckedInv, DeskInv, OnlyApprovedIsLive
  <2>3. p # NoProposal
    BY <2>2 DEF Decided, NoProposal
  <2>4. PICK m \in p.heldMessages : Cites[m] = e /\ m \in Complete \ Failing
    BY <2>1, <2>2, <2>3 DEF CheckedInv, ProposalsWitnessed, Witnessed
  <2>5. AllPass(AnswerKey[m], Rulebook[Cites[m]])
    BY <2>4 DEF FailsItsKey
  <2>6. Proves(AnswerKey[m], Rulebook[Cites[m]])
    BY <2>4, <2>5, AllPassProves
  <2> QED
    BY <2>4, <2>6 DEF Proven
<1> QED
  BY <1>1, CheckedInvariant, PTL

-----------------------------------------------------------------------------
(* The inbox. *)

(* A record has the colour of its content. *)
Coloured(b) == \A m \in Messages : b[m] # "none" => b[m] = IF m \in Broken THEN "red" ELSE "green"

(* The pipeline colours a message by its content. *)
LEMMA PipelineColours ==
    ASSUME NEW h, NEW b \in [Messages -> {"none", "green", "red"}], NEW m \in Messages,
           Walks(h, b, m), Coloured(b)
    PROVE  Coloured(inbox')
<1>1. inbox' = b \/ inbox' = [b EXCEPT ![m] = IF m \in Broken THEN "red" ELSE "green"]
  BY DEF Walks, Pipeline, Quarantine, RefuseRetired, AskForRulebook, HoldForReview,
         DeliverToInbox, DiesInPipeline
<1> QED
  BY <1>1 DEF Coloured

(* Every step. *)
LEMMA ColouredStep == DeskInv /\ Coloured(inbox) /\ [Next]_vars => Coloured(inbox)'
<1> SUFFICES ASSUME DeskInv, Coloured(inbox), [Next]_vars PROVE Coloured(inbox')
  BY DEF Coloured
<1>0. inbox \in [Messages -> {"none", "green", "red"}]
  BY DEF DeskInv, TypeOK
<1>1. ASSUME NEW m \in Messages, Ingest(m) \/ DiesIngesting(m)
      PROVE  Coloured(inbox')
  BY <1>0, <1>1, PipelineColours DEF Ingest, DiesIngesting, Quarantine, Walks
<1>2. ASSUME NEW m \in Messages, ReprocessInbound(m) \/ DiesReprocessing(m)
      PROVE  Coloured(inbox')
  <2> DEFINE b == [inbox EXCEPT ![m] = "none"]
  <2>1. b \in [Messages -> {"none", "green", "red"}] /\ Coloured(b)
    BY <1>0 DEF Coloured
  <2>2. Walks(held, b, m)
    BY <1>2 DEF ReprocessInbound, DiesReprocessing, Walks
  <2> HIDE DEF b
  <2> QED
    BY <2>1, <2>2, PipelineColours
<1>3. ASSUME NEW m \in Messages, Resume(m) \/ DiesResuming(m)
      PROVE  Coloured(inbox')
  BY <1>0, <1>3, PipelineColours DEF Resume, DiesResuming, Walks
<1>4. CASE inbox' = inbox
  BY <1>4
<1>5. \/ \E m \in Messages : \/ Ingest(m) \/ DiesIngesting(m)
                            \/ ReprocessInbound(m) \/ DiesReprocessing(m)
                            \/ Resume(m) \/ DiesResuming(m)
      \/ inbox' = inbox
  <2>1. Decide => inbox' = inbox
    BY DEF Decide, ApproveRulebook, RejectRulebook, ApproveMove, RejectMove, intake
  <2>2. CarryOut => inbox' = inbox \/ \E m \in Messages : Resume(m)
    BY DEF CarryOut, ApplyTrust, MarkApplied, TakeHeld, PinPartner, StoreConnections, MarkMoved,
           DoneDeciding, TellAccepted, TellDeclined, RefuseHeld, GiveUp, intake
  <2>3. \/ Crash \/ (\E e \in Editions : DiesMoving(e))
        \/ (\E c \in ConnectionSets : DiesMovingMove(c))
        \/ (\E i \in DOMAIN accepting : OverlapEnds(i)) \/ UNCHANGED vars
        => inbox' = inbox
    BY DEF Crash, DiesMoving, DiesMovingMove, OverlapEnds, vars, intake
  <2> QED
    BY <2>1, <2>2, <2>3 DEF Next, Receive, Die
<1> QED
  BY <1>1, <1>2, <1>3, <1>4, <1>5

(* An inbox record is green exactly if the content keeps every rule of the *)
(* trusted rulebook that applies to it (checker.Check, continuePipeline).  *)
THEOREM GreenIsRight == Spec => []GreenKeepsTheRules
<1>1. Init => Coloured(inbox)
  BY DEF Init, Coloured
<1>2. \A m \in Messages : m \in Broken <=> m \notin KeepsTheRules
  <2> SUFFICES ASSUME NEW m \in Messages PROVE m \in Broken <=> m \notin KeepsTheRules
    OBVIOUS
  <2>1. Rulebook[Cites[m]] \in Rulebooks
    OBVIOUS
  <2> QED
    BY <2>1, PassedIsUnbroken DEF BreaksItsRules, KeepsTheRules
<1>3. Coloured(inbox) => GreenKeepsTheRules
  BY <1>2 DEF Coloured, GreenKeepsTheRules
<1> QED
  BY <1>1, <1>3, ColouredStep, DeskInvariant, PTL DEF Spec
=============================================================================
