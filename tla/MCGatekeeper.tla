---------------------------- MODULE MCGatekeeper ----------------------------
(* A small instance of Gatekeeper for TLC: one company sends a complete    *)
(* file and one that cites its rulebook, another one only initialises.     *)
EXTENDS Gatekeeper

CONSTANTS acme, bolt, full, cited

MCFrom == [m \in Messages |-> acme]
MCInits == [c \in Companies |-> IF c = acme THEN 2 ELSE 1]
=============================================================================
