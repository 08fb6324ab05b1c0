------------------------- MODULE BilateralSetupSchema -------------------------
(***************************************************************************)
(* The bilateral setup transcript of testnet/src/bilateral-setup-schema.ts *)
(* as data: the messages two participants exchange before a cascading DLC  *)
(* exists, and what validateBilateralSetupTranscript demands of a sequence *)
(* of them.                                                                *)
(*                                                                         *)
(* The payload of a message is reduced to what some check of the program   *)
(* reads: how many entries a list has; owner, outpoint, value and script   *)
(* of a funding input; which role an announcement names and the public     *)
(* material it binds, of which the role's funding script is a part.  A     *)
(* message's SHA-256 digest covers its sequence number, so within one      *)
(* transcript the digest of a message is the position of the message.      *)
(***************************************************************************)
EXTENDS Naturals, Sequences

CONSTANTS
  SessionIds,  \* session identifiers a message may carry
  Materials,   \* public role material a role announcement may bind
  Outpoints    \* transaction outputs a funding input may spend

Roles == {"alice", "bob"}

(***************************************************************************)
(* The message kinds, without their "niti.l3.setup." prefix.  A list kind  *)
(* carries a list of entries (outcomes, edges, templates or points).       *)
(***************************************************************************)
ListKinds == {"oracle_event_selection", "payout_graph", "cet_templates",
              "bridge_templates", "refund_templates", "adaptor_points"}

FundingInput ==
  [owner: Roles, outpoint: Outpoints, valueSat: Nat, scriptPubKeyHex: Materials]

RoleAnnouncementMessage ==
  [kind: {"role_announcement"}, sender: Roles, sessionIdHex: SessionIds,
   sequence: Nat, role: Roles, material: Materials]

ListMessage ==
  [kind: ListKinds, sender: Roles, sessionIdHex: SessionIds,
   sequence: Nat, entries: Nat]

FundingInputsMessage ==
  [kind: {"funding_inputs"}, sender: Roles, sessionIdHex: SessionIds,
   sequence: Nat, fundingInputs: SUBSET FundingInput]

AcknowledgementMessage ==
  [kind: {"ack"}, sender: Roles, sessionIdHex: SessionIds,
   sequence: Nat, acknowledges: Nat]

SetupMessage ==
  RoleAnnouncementMessage \cup ListMessage \cup FundingInputsMessage
    \cup AcknowledgementMessage

(***************************************************************************)
(* The digests the acknowledgements of a transcript have consumed.         *)
(***************************************************************************)
Acknowledged(messages) ==
  {messages[i].acknowledges : i \in {j \in 1 .. Len(messages) : messages[j].kind = "ack"}}

\* Broken variant: the acknowledged digest is not remembered.
ValidNextWithReuse(sessionIdHex, messages, m) ==
  /\ m.sessionIdHex = sessionIdHex
  /\ m.sequence = Len(messages) + 1
  /\ m.kind = "ack" => m.acknowledges \in 1 .. Len(messages)

(***************************************************************************)
(* One turn of the validator's loop: message m follows the messages        *)
(* already accepted.  An acknowledgement names the digest of an earlier    *)
(* message, and no two acknowledgements name the same one.                 *)
(***************************************************************************)
ValidNext(sessionIdHex, messages, m) ==
  /\ m.sessionIdHex = sessionIdHex
  /\ m.sequence = Len(messages) + 1
  /\ m.kind = "ack" => /\ m.acknowledges \in 1 .. Len(messages)
                       /\ m.acknowledges \notin Acknowledged(messages)

===============================================================================
