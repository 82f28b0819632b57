------------------------------ MODULE MCRespond ------------------------------
(* A small instance of Respond for TLC: an order that allows a response    *)
(* with a decision to take, and a quantity to give when the decision is    *)
(* "change", and a despatch advice that copies what the order lacks.  The  *)
(* response also copies the unit of a line that has none.                  *)
EXTENDS Respond

CONSTANTS number, million   \* JSON numbers: 88112, 1234567

MCSender == [m \in Orders |-> "buyer"]
MCAllows == [m \in Orders |-> {"order_response", "despatch_advice"}]
MCFields == {"order_reference", "unit", "decision", "quantity"}
MCLoose == [m \in Orders |-> {}]
MCEchoed == [t \in Types |-> IF t = "despatch_advice" THEN {"quantity"}
                             ELSE {"order_reference", "unit"}]
MCHoles == [t \in Types |-> IF t = "order_response" THEN {"decision", "quantity"} ELSE {}]
MCOriginal == [m \in Orders |-> [f \in Fields |->
                 IF f = "order_reference" THEN number ELSE Absent]]
(* The same order with a larger reference. *)
MCNumberedOriginal == [m \in Orders |-> [f \in Fields |->
                 IF f = "order_reference" THEN million ELSE Absent]]

MCPrints == {"88112", "1234567", "1.234567e+06", "accept", "change", "<nil>", "<<FILL"}
MCShown == [v \in Values \cup {Absent} |->
              CASE v = number -> "88112" [] v = million -> "1234567" [] v = Absent -> "<nil>"
                [] OTHER -> v]
MCReread == [v \in Values \cup {Fill, Absent} |->
              CASE v = million -> "1.234567e+06" [] v = Fill -> "<<FILL" [] OTHER -> MCShown[v]]

MCCodes == [f \in Fields |-> IF f = "decision" THEN {"accept", "change"} ELSE {}]
MCOnlyWhen == [f \in Fields |-> IF f = "quantity"
                                THEN [field |-> "decision", value |-> "change"] ELSE Always]

(* An order that is accepted may not be given another quantity. *)
MCForbidden == [t \in Types |->
    {[f \in Fields |-> CASE f = "order_reference" -> number
                         [] f = "unit" -> Absent
                         [] f = "decision" -> "accept"
                         [] f = "quantity" -> number]}]

MCTries == [f \in Fields |-> CASE f = "decision" -> {"accept", "change", number}
                               [] f = "quantity" -> {number}
                               [] f = "unit" -> {number}
                               [] f = "order_reference" -> {"accept"}]

(* No holes at all, and a decision that may be anything. *)
MCHoleLists == {{}, {[path |-> "decision", allowed |-> {}, when |-> Always]}}
=============================================================================
