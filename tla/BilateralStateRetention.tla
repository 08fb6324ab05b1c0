----------------------- MODULE BilateralStateRetention -----------------------
(***************************************************************************)
(* What a participant retains after setup, and what it checks of it before *)
(* it settles: testnet/src/bilateral-state-retention.ts, with the role     *)
(* material of bilateral-roles.ts and the settlement attempt of            *)
(* bilateral-wrong-path-replay-test.ts.                                    *)
(*                                                                         *)
(* A digest is the term of what it was computed over.  Of the transcript   *)
(* the session, the funding inputs and the acknowledgements are kept; that *)
(* its message digests are right is the flag "sound".                      *)
(***************************************************************************)
EXTENDS BilateralTemplateAgreement

Roles == {"alice", "bob"}

(***************************************************************************)
(* Role material: five secrets and three derived nonces per role, and a    *)
(* storage namespace from the storage identity's public key.               *)
(***************************************************************************)
PrivateScopes == {"funding", "cet_signing", "refund", "adaptor_nonce_root", "storage_identity"}

PrivateScalar(role, scope) == [scalarOf |-> role, scope |-> scope]

RolePrivateScalars(role) ==
  {PrivateScalar(role, scope) : scope \in PrivateScopes \cup Purposes}

StorageNamespace(role) == [storageOf |-> role]

SecretHandles(role) ==
  [scope \in {"funding", "cet_signing", "refund"} |->
     [local |-> role, namespace |-> StorageNamespace(role)]]

-----------------------------------------------------------------------------
Transcript(sessionIdHex, acks) ==
  [sessionIdHex |-> sessionIdHex, fundingInputs |-> "agreed", acks |-> acks, sound |-> TRUE]

SetupAccepted(transcript) == {transcript.acks[i] : i \in DOMAIN transcript.acks} = Roles

FundingDigest(transcript) == [fundingOf |-> transcript.fundingInputs]

(***************************************************************************)
(* createPacket over the templates.                                        *)
(***************************************************************************)
RetainedPacket(t, purpose) ==
  Spread([purpose |-> purpose, templateId |-> t.spends[purpose].id,
          unsignedTxid |-> t.spends[purpose].txid, sighash |-> t.spends[purpose].sighash],
         SpendAdaptor(t.spends[purpose], purpose, purpose, t.spends[purpose].adaptorPoint))

Exchange(t) ==
  [sessionIdHex |-> t.sessionIdHex, templateDigest |-> DigestOf(t),
   packets |-> << RetainedPacket(t, "parent_cet"), RetainedPacket(t, "bridge"),
                  RetainedPacket(t, "child_cet") >>]

StateDigest(s) == [digestOf |-> [s EXCEPT !.digest = "not yet computed"]]

WithDigest(s) == [s EXCEPT !.digest = StateDigest(s)]

(***************************************************************************)
(* buildState.  It throws unless exactly one acknowledgement of each role  *)
(* is in the transcript, where the state machine accepts more.             *)
(***************************************************************************)
Retainable(transcript) ==
  SetupAccepted(transcript) /\ Len(transcript.acks) = 2

RetainedState(participant, transcript) ==
  LET t == CanonicalTemplate(transcript.sessionIdHex)
  IN  WithDigest(
        [participant |-> participant, sessionIdHex |-> transcript.sessionIdHex,
         storageNamespace |-> StorageNamespace(participant),
         localSecretHandles |-> SecretHandles(participant),
         setupTranscript |-> transcript,
         fundingDigest |-> FundingDigest(transcript),
         fundingValidation |-> FundingDigest(transcript),
         templateDigest |-> DigestOf(t),
         template |-> t,
         exchange |-> Exchange(t),
         oracleMetadata |-> [parentPoint |-> PlannedPoint["bridge"],
                             childPoint |-> PlannedPoint["child_cet"]],
         deadlines |-> Timelocks,
         digest |-> "not yet computed"])

-----------------------------------------------------------------------------
(***************************************************************************)
(* validateBilateralRetainedState.                                         *)
(***************************************************************************)
\* packetForPurpose finds the first packet of a purpose.
IsFirstPacket(s, purpose, i) ==
  /\ i \in DOMAIN s.exchange.packets
  /\ s.exchange.packets[i].purpose = purpose
  /\ \A j \in DOMAIN s.exchange.packets : j < i => s.exchange.packets[j].purpose # purpose

AdaptorExchangeRetained(s) ==
  /\ s.exchange.sessionIdHex = s.sessionIdHex
  /\ s.exchange.templateDigest = s.templateDigest
  /\ \A purpose \in Purposes :
       \E i \in DOMAIN s.exchange.packets : s.exchange.packets[i].purpose = purpose

PacketMatchesTemplate(packet, template) ==
  /\ packet.templateId = template.id
  /\ packet.unsignedTxid = template.txid
  /\ packet.sighash = template.sighash
  /\ packet.adaptorPoint = template.adaptorPoint

\* Broken variant: the packets are not compared with the templates.
NoPacketComparedWithTemplate(s) == TRUE

AdaptorPacketsMatchTemplate(s) ==
  \A purpose \in Purposes :
    \E i \in DOMAIN s.exchange.packets :
      /\ IsFirstPacket(s, purpose, i)
      /\ PacketMatchesTemplate(s.exchange.packets[i], s.template.spends[purpose])

AdaptorEquationsVerify(s) ==
  /\ Len(s.exchange.packets) = 3
  /\ \A i \in DOMAIN s.exchange.packets :
       /\ AdaptedNonceBindingVerifies(s.exchange.packets[i])
       /\ AdaptorEquationVerifies(s.exchange.packets[i])

OracleMetadataMatchesTemplate(s) ==
  /\ \A purpose \in {"parent_cet", "bridge"} :
       s.template.spends[purpose].adaptorPoint = s.oracleMetadata.parentPoint
  /\ s.template.spends["child_cet"].adaptorPoint = s.oracleMetadata.childPoint

DeadlinesMatchTemplate(s) ==
  \A deadline \in {"parentRefundHeight", "bridgeTimeoutHeight", "childRefundHeight"} :
    s.deadlines[deadline] = s.template.timelocks[deadline]

ContainsNoPrivateScalars(s) ==
  \A scope \in DOMAIN s.localSecretHandles :
    \A role \in Roles : s.localSecretHandles[scope] \notin RolePrivateScalars(role)

FundingDigestMatches(s) ==
  /\ s.fundingDigest = FundingDigest(s.setupTranscript)
  /\ s.fundingValidation = FundingDigest(s.setupTranscript)

StateValidates(s) ==
  /\ s.setupTranscript.sound
  /\ ValidTemplate(s.template)
  /\ s.digest = StateDigest(s)
  /\ s.setupTranscript.sessionIdHex = s.sessionIdHex
  /\ SetupAccepted(s.setupTranscript)
  /\ FundingDigestMatches(s)
  /\ DigestOf(s.template) = s.templateDigest
  /\ AdaptorExchangeRetained(s)
  /\ AdaptorPacketsMatchTemplate(s)
  /\ AdaptorEquationsVerify(s)
  /\ OracleMetadataMatchesTemplate(s)
  /\ DeadlinesMatchTemplate(s)
  /\ ContainsNoPrivateScalars(s)

-----------------------------------------------------------------------------
(***************************************************************************)
(* completeRetainedAdaptorSignature, with the first packet of the purpose. *)
(***************************************************************************)
\* Broken variant: the completed signature is not verified.
PacketIsThere(packet, secret) == packet.scalar.sighash = packet.sighash

PacketCompletes(packet, secret) ==
  SchnorrVerifies(CompletedSignature(packet, secret), packet.sighash, packet.signerPublic)

RetainedCompletes(s, purpose, secret) ==
  \E i \in DOMAIN s.exchange.packets :
    IsFirstPacket(s, purpose, i) /\ PacketCompletes(s.exchange.packets[i], secret)

\* Broken variant: the input is compared with the output of the bridge itself.
BridgeSpendsItself(t) ==
  /\ t.spends["bridge"].input.txid = t.spends["parent_cet"].txid
  /\ \A field \in {"vout", "valueSat", "scriptPubKey"} :
       t.spends["bridge"].input[field] = t.spends["bridge"].output[field]

BridgeSpendsParentEdge(t) ==
  /\ t.spends["bridge"].input.txid = t.spends["parent_cet"].txid
  /\ \A field \in {"vout", "valueSat", "scriptPubKey"} :
       t.spends["bridge"].input[field] = t.spends["parent_cet"].output[field]

BridgeCreatesChildFunding(t) ==
  \A field \in {"valueSat", "scriptPubKey"} :
    t.childFundingOutput[field] = t.spends["bridge"].output[field]

(***************************************************************************)
(* successfulSettlementAttempt.                                            *)
(***************************************************************************)
\* Broken variant: the child funding is not compared with the bridge.
SettlementAcceptedForAnyChild(s, secret) ==
  /\ StateValidates(s)
  /\ RetainedCompletes(s, "parent_cet", secret)
  /\ RetainedCompletes(s, "bridge", secret)
  /\ BridgeSpendsParentEdge(s.template)

SettlementAccepted(s, secret) ==
  /\ StateValidates(s)
  /\ RetainedCompletes(s, "parent_cet", secret)
  /\ RetainedCompletes(s, "bridge", secret)
  /\ BridgeSpendsParentEdge(s.template)
  /\ BridgeCreatesChildFunding(s.template)

===============================================================================
