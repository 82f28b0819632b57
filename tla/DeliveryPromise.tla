--------------------------- MODULE DeliveryPromise ---------------------------
(***************************************************************************)
(* What the outbound queue promises to whoever reads the deliveries page:  *)
(* a message is claimed "delivered" only after the partner's node verified *)
(* it (or, for a receipt, which nobody receipts, after it was handed       *)
(* over), and only an operator re-opens a claim.  Retries, schedules,      *)
(* crashes, lost files and the order of receipts are all below this level. *)
(***************************************************************************)
CONSTANTS Messages,   \* outbound messages
          Receipts    \* the ones of type delivery_receipt

VARIABLES claim,      \* what the record of each message says
          verified    \* messages the partner's node verified

vars == <<claim, verified>>

Claims == {"none", "open", "delivered"}

TypeOK == /\ claim \in [Messages -> Claims]
          /\ verified \subseteq Messages

Init == /\ claim = [m \in Messages |-> "none"]
        /\ verified = {}

(* A record is filed for a new message. *)
Submit(m) == /\ claim[m] = "none"
             /\ claim' = [claim EXCEPT ![m] = "open"]
             /\ UNCHANGED verified

(* The partner's node verified the file of a message somebody submitted. *)
Verify(m) == /\ claim[m] # "none"
             /\ m \notin verified
             /\ verified' = verified \cup {m}
             /\ UNCHANGED claim

(* The record says "delivered": the partner has verified the file. *)
Confirm(m) == /\ claim[m] = "open"
              /\ m \in verified \cup Receipts
              /\ claim' = [claim EXCEPT ![m] = "delivered"]
              /\ UNCHANGED verified

(* An operator sends the file once more: the claim is open again. *)
Reopen(m) == /\ claim[m] = "delivered"
             /\ claim' = [claim EXCEPT ![m] = "open"]
             /\ UNCHANGED verified

Next == \E m \in Messages : Submit(m) \/ Verify(m) \/ Confirm(m) \/ Reopen(m)

Spec == Init /\ [][Next]_vars
=============================================================================
