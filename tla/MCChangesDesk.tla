---------------------------- MODULE MCChangesDesk ----------------------------
(* Small instances of ChangesDesk for TLC.  Two editions of the rulebook;  *)
(* the partner lives at one address and moves to another.                  *)
EXTENDS ChangesDesk

CONSTANTS e1, e2,                                      \* editions
          order, again, cited, change, forged, stray   \* messages

MCVersion == [e \in Editions |-> IF e = e1 THEN 1 ELSE 2]

MCHome == [https |-> "old street"]
MCMoved == [https |-> "new street"]
MCConnectionSets == {MCHome, MCMoved}

(* The last messages bring the second edition, the others the first; the   *)
(* change comes from the new address, the others from the old one.         *)
MCCites == [m \in Messages |-> IF m \in {change, forged} THEN e2 ELSE e1]
MCOffers == [m \in Messages |-> CASE m = change -> MCMoved
                                  [] m = forged -> NoConnections
                                  [] OTHER -> MCHome]
=============================================================================
