------------------------------ MODULE MCDelivery ------------------------------
(***************************************************************************)
(* Small instances of Delivery for TLC: an order to a partner whose        *)
(* channel is reliable, and a note and a receipt to one whose channel may  *)
(* fail.                                                                   *)
(***************************************************************************)
EXTENDS Delivery, TLC

CONSTANTS order, note, rcpt, acme, bolt, serve

MCTo == [m \in Messages |-> IF m = order THEN acme ELSE bolt]
=============================================================================
