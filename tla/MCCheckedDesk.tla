---------------------------- MODULE MCCheckedDesk ----------------------------
(* A small instance of CheckedDesk for TLC: a rulebook of two rules, a     *)
(* right and a wrong answer key, and contents that keep the rules, break   *)
(* them or cannot be judged.                                               *)
EXTENDS CheckedDesk, MCChangesDesk

CONSTANTS good, wrong, odd,     \* contents
          quantity, batch       \* rules

(* A quantity has to be given: nobody can tell for an odd content.  The    *)
(* other rule is for another type of document.                             *)
MCRulebook == [e \in Editions |->
    [default |-> "",
     rules |-> << [id |-> quantity, applies |-> "",
                   says |-> [c \in Contents |-> CASE c = good -> "yes" [] c = wrong -> "no"
                                                   [] OTHER -> "error"]],
                  [id |-> batch, applies |-> "despatch_advice",
                   says |-> [c \in Contents |-> IF c = good THEN "yes" ELSE "no"]] >>]]

MCRightKey == [valid |-> {[content |-> good, expected |-> <<>>]},
               invalid |-> {[content |-> wrong, expected |-> <<quantity>>]}]
(* It promises that the rule for another type is broken too. *)
MCWrongKey == [MCRightKey EXCEPT !.invalid = {[content |-> wrong, expected |-> <<batch, quantity>>]}]

MCAnswerKey == [m \in Complete |-> CASE m = again -> MCWrongKey [] m = forged -> NoKey
                                      [] OTHER -> MCRightKey]
MCContent == [m \in Messages |-> IF m = cited THEN odd ELSE good]
MCDocType == [m \in Messages |-> IF m = change THEN "despatch_advice" ELSE "order"]
=============================================================================
