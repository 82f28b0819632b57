------------------------------ MODULE MCExchange ------------------------------
(***************************************************************************)
(* Small instances of Exchange for TLC.                                    *)
(***************************************************************************)
EXTENDS Exchange

CONSTANTS a, b, c, order, answer

note(n, m, t) == [from |-> n, to |-> m, type |-> t]

(* Two companies push what they have to say at each other, or one does and *)
(* a server dies; or one drops it by SFTP into the other's folder, which   *)
(* answers in the same way, and a server dies.                             *)
Push == [channel |-> [n \in {a, b} |-> "https"], attended |-> {a, b},
         notes |-> {note(a, b, order), note(b, a, answer)}, fragile |-> {}]
PushAndDie == [Push EXCEPT !.notes = {note(a, b, order)}, !.fragile = {a, b}]
Drop == [channel |-> [n \in {a, b} |-> IF n = a THEN "local-folder" ELSE "sftp"],
         notes |-> {note(a, b, order), note(a, b, answer)}, attended |-> {b}, fragile |-> {}]
DropAndDie == [Drop EXCEPT !.notes = {note(a, b, order)}, !.attended = {a}, !.fragile = {a, b}]
TwoCompanies == {Push, PushAndDie, Drop, DropAndDie}

ThreeCompanies ==
    {[channel |-> [n \in {a, b, c} |-> "local-folder"], attended |-> {}, fragile |-> {},
      notes |-> {note(a, c, order), note(b, c, order), note(b, a, answer), note(c, b, answer)}]}
=============================================================================
