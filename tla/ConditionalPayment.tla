--------------------------- MODULE ConditionalPayment ---------------------------
(***************************************************************************)
(* What a payment conditioned on an oracle's outcome promises, without its *)
(* commands, files and nodes: the payer's money is held for the receiver   *)
(* of a lock, it becomes the receiver's only once the outcome of that very *)
(* lock is attested, and what is not paid may go back at any time.  What   *)
(* is paid or returned stays so.  Lightning implements this specification. *)
(***************************************************************************)
CONSTANT Locks

VARIABLES
  attested,  \* the locks whose outcome the oracle attested
  payment    \* where the money of each lock is

vars == <<attested, payment>>

Init == attested = {} /\ payment = [l \in Locks |-> "none"]

Attest(l) ==
  /\ attested' = attested \cup {l}
  /\ UNCHANGED payment

Becomes(l, state) ==
  /\ payment' = [payment EXCEPT ![l] = state]
  /\ UNCHANGED attested

Hold(l) == payment[l] = "none" /\ Becomes(l, "held")

Pay(l) == payment[l] = "held" /\ l \in attested /\ Becomes(l, "paid")

Return(l) == payment[l] \in {"none", "held"} /\ Becomes(l, "returned")

Moves(l) == payment'[l] # payment[l] /\ (Hold(l) \/ Pay(l) \/ Return(l))

Next == \E l \in Locks : Attest(l) \/ Moves(l)

Spec == Init /\ [][Next]_vars

=================================================================================
