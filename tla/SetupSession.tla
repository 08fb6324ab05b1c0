----------------------------- MODULE SetupSession -----------------------------
(***************************************************************************)
(* What a bilateral setup session promises, without its messages: a session*)
(* is funded, then accepted by each participant, and only a session both   *)
(* accepted can be attested and then settled.  Until it is over it may be  *)
(* aborted, and from the moment it is funded it may fall back.             *)
(* BilateralReplay implements this specification.                          *)
(***************************************************************************)
CONSTANT Roles

VARIABLES
  phase,    \* where the session stands
  accepted  \* the participants that accepted the setup

vars == <<phase, accepted>>

Over == {"settled", "fallback", "aborted"}

Init == phase = "negotiating" /\ accepted = {}

Fund ==
  /\ phase = "negotiating"
  /\ phase' = "funded"
  /\ UNCHANGED accepted

Accept(r) ==
  /\ phase \in {"funded", "accepted"}
  /\ accepted' = accepted \cup {r}
  /\ phase' = IF accepted' = Roles THEN "accepted" ELSE phase

Attest ==
  /\ phase = "accepted"
  /\ phase' = "attested"
  /\ UNCHANGED accepted

Settle ==
  /\ phase = "attested"
  /\ phase' = "settled"
  /\ UNCHANGED accepted

FallBack ==
  /\ phase \in {"funded", "accepted", "attested"}
  /\ phase' = "fallback"
  /\ UNCHANGED accepted

Abort ==
  /\ phase \notin Over
  /\ phase' = "aborted"
  /\ UNCHANGED accepted

Next ==
  \/ Fund
  \/ \E r \in Roles : Accept(r)
  \/ Attest
  \/ Settle
  \/ FallBack
  \/ Abort

Spec == Init /\ [][Next]_vars

===============================================================================
