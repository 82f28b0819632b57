------------------------------- MODULE Checker -------------------------------
(***************************************************************************)
(* The content checker and the answer key (packages checker, answerkey):   *)
(* which rules of a rulebook a content breaks, and whether a rulebook      *)
(* behaves on its own examples as they say.                                *)
(*                                                                         *)
(* A rule is its id, the document type it applies to, if it names one, and *)
(* what its machine check says of each content: "yes", "no", or "error"    *)
(* when it cannot be compiled or evaluated or is not a yes or no.  The     *)
(* wording of what is reported is left out.                                *)
(***************************************************************************)
EXTENDS Naturals, FiniteSets, Sequences

CONSTANTS RuleIDs, Contents, DocTypes, NoKey

ASSUME DocTypesAssumption == "order" \in DocTypes /\ "" \notin DocTypes

Rules == [id : RuleIDs, applies : DocTypes \cup {""}, says : [Contents -> {"yes", "no", "error"}]]
Rulebooks == [default : DocTypes \cup {""}, rules : Seq(Rules)]

(* An answer key: its correct and its wrong examples, each with a content  *)
(* and the rules it is expected to break.                                  *)
Examples == [content : Contents, expected : Seq(RuleIDs)]
AnswerKeys == [valid : SUBSET Examples, invalid : SUBSET Examples]

(* The document type of the rules that name none. *)
BaseDocType(rulebook) == IF rulebook.default = "" THEN "order" ELSE rulebook.default

AppliesTo(rule, rulebook) ==
    IF rule.applies = "" THEN BaseDocType(rulebook) ELSE rule.applies

-----------------------------------------------------------------------------
(* Mutant: a rule that cannot be evaluated is passed over. *)
SaysNo(content, rulebook, type) ==
    {i \in DOMAIN rulebook.rules : /\ AppliesTo(rulebook.rules[i], rulebook) = type
                                   /\ rulebook.rules[i].says[content] = "no"}

(* Check: the places of the broken rules.  A rule that cannot be evaluated *)
(* is broken; a rule for another type is skipped.                          *)
Violations(content, rulebook, type) ==
    {i \in DOMAIN rulebook.rules : /\ AppliesTo(rulebook.rules[i], rulebook) = type
                                   /\ rulebook.rules[i].says[content] # "yes"}

Passed(content, rulebook, type) == Violations(content, rulebook, type) = {}

(* A sorted list of ids: how often each is in it.  equalStringSets         *)
(* compares two of them place by place.                                    *)
ViolatedIDs(content, rulebook, type) ==
    [id \in RuleIDs |-> Cardinality({i \in Violations(content, rulebook, type) :
                                        rulebook.rules[i].id = id})]
Sorted(ids) == [id \in RuleIDs |-> Cardinality({i \in DOMAIN ids : ids[i] = id})]

(* Mutant: a wrong example may break any rule. *)
BreaksSome(example, rulebook) ==
    ~Passed(example.content, rulebook, BaseDocType(rulebook))

ValidPasses(example, rulebook) ==
    Passed(example.content, rulebook, BaseDocType(rulebook))

InvalidPasses(example, rulebook) ==
    ViolatedIDs(example.content, rulebook, BaseDocType(rulebook)) = Sorted(example.expected)

(* Run: AllPass of its report. *)
AllPass(answerKey, rulebook) ==
    /\ answerKey # NoKey
    /\ \A example \in answerKey.valid : ValidPasses(example, rulebook)
    /\ \A example \in answerKey.invalid : InvalidPasses(example, rulebook)
    /\ answerKey.valid \cup answerKey.invalid # {}

-----------------------------------------------------------------------------
(* What the packages say of themselves, without lists and places. *)

(* "A rule that cannot be evaluated cannot be shown to hold". *)
BrokenRules(content, rulebook, type) ==
    {rule.id : rule \in {r \in {rulebook.rules[i] : i \in DOMAIN rulebook.rules} :
                            AppliesTo(r, rulebook) = type /\ r.says[content] # "yes"}}

(* "Valid examples must pass; deliberately wrong examples must trigger     *)
(* exactly the rule IDs they promise."                                     *)
Proves(answerKey, rulebook) ==
    /\ answerKey # NoKey
    /\ answerKey.valid \cup answerKey.invalid # {}
    /\ \A example \in answerKey.valid :
         BrokenRules(example.content, rulebook, BaseDocType(rulebook)) = {}
    /\ \A example \in answerKey.invalid :
         BrokenRules(example.content, rulebook, BaseDocType(rulebook))
           = {example.expected[i] : i \in DOMAIN example.expected}
=============================================================================
