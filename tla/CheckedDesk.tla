----------------------------- MODULE CheckedDesk -----------------------------
(***************************************************************************)
(* The changes desk with the checker and the answer key it relies on.      *)
(* ChangesDesk takes for granted which messages break the rules and which  *)
(* carry a rulebook that fails its answer key; here both are what Checker  *)
(* makes of rulebooks, contents and answer keys: NoticeRulebook runs the   *)
(* answer key of the message against the rulebook it brings, and the end   *)
(* of the pipeline checks the content against the trusted rulebook.        *)
(***************************************************************************)
EXTENDS ChangesDesk, Checker

CONSTANTS Rulebook,      \* the rulebook of each edition
          AnswerKey,     \* the answer key of each complete message
          Content,       \* the content of each message
          DocType        \* its type

ASSUME RulebookAssumption == Rulebook \in [Editions -> Rulebooks]
ASSUME AnswerKeyAssumption == AnswerKey \in [Complete -> AnswerKeys \cup {NoKey}]
ASSUME ContentAssumption == /\ Content \in [Messages -> Contents]
                            /\ DocType \in [Messages -> DocTypes]

(* What NoticeRulebook and continuePipeline find. *)
FailsItsKey == {m \in Complete : ~AllPass(AnswerKey[m], Rulebook[Cites[m]])}
BreaksItsRules == {m \in Messages : ~Passed(Content[m], Rulebook[Cites[m]], DocType[m])}

ASSUME CheckedAssumption == Failing = FailsItsKey /\ Broken = BreaksItsRules

-----------------------------------------------------------------------------
(* What the repository says of rulebooks and contents. *)
Proven == {m \in Complete : Proves(AnswerKey[m], Rulebook[Cites[m]])}
KeepsTheRules == {m \in Messages : BrokenRules(Content[m], Rulebook[Cites[m]], DocType[m]) = {}}

(* answerkey.go: "A rulebook that fails its own answer key is never        *)
(* trusted."  Every accepted edition was brought by a message whose        *)
(* examples it behaves on as they promise.                                 *)
AcceptedIsProven ==
    \A i \in DOMAIN accepting :
        \E m \in rulebooks[accepting[i].edition].heldMessages :
            m \in Proven /\ Cites[m] = accepting[i].edition

(* An inbox record is green exactly if the content keeps every rule for    *)
(* its type, a rule that cannot be evaluated being broken.                 *)
GreenKeepsTheRules ==
    \A m \in Messages : inbox[m] # "none" => (inbox[m] = "green" <=> m \in KeepsTheRules)
=============================================================================
