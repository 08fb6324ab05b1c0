-------------------------- MODULE MCBilateralReplay --------------------------
(***************************************************************************)
(* The messages TLC tries at every step of a replay.  The sender of an     *)
(* agreement message is fixed, since no guard and no assignment reads it,  *)
(* and a list is either one entry too short or just long enough.           *)
(***************************************************************************)
EXTENDS BilateralReplay

CONSTANT AckTargets  \* the positions an acknowledgement may name

MCRoleAnnouncements ==
  [kind : {"role_announcement"}, sender : Roles, sessionIdHex : SessionIds,
   sequence : 1 .. MaxSequence, role : Roles, material : Materials]

MCListMessages ==
  UNION {[kind : {kind}, sender : {"alice"}, sessionIdHex : SessionIds,
          sequence : 1 .. MaxSequence,
          entries : {MinEntries(kind) - 1, MinEntries(kind)}] : kind \in ListKinds}

\* The replay reads the owner and the value of an input, and nothing else of it.
MCInput(owner, valueSat) ==
  [owner |-> owner, outpoint |-> CHOOSE o \in Outpoints : TRUE, valueSat |-> valueSat,
   scriptPubKeyHex |-> CHOOSE k \in Materials : TRUE]

MCFundingInputs ==
  { {},
    {MCInput("alice", 1)},
    {MCInput("alice", 1), MCInput("bob", 0)},
    {MCInput("alice", 1), MCInput("bob", 1)} }

MCFundingMessages ==
  [kind : {"funding_inputs"}, sender : {"alice"}, sessionIdHex : SessionIds,
   sequence : 1 .. MaxSequence, fundingInputs : MCFundingInputs]

MCAcknowledgements ==
  [kind : {"ack"}, sender : Roles, sessionIdHex : SessionIds,
   sequence : 1 .. MaxSequence, acknowledges : AckTargets]

MCMessages ==
  MCRoleAnnouncements \cup MCListMessages \cup MCFundingMessages \cup MCAcknowledgements

==============================================================================
