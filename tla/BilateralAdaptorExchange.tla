----------------------- MODULE BilateralAdaptorExchange -----------------------
(***************************************************************************)
(* The adaptor-signature exchange of testnet/src/                          *)
(* bilateral-adaptor-exchange.ts: what a participant checks of the         *)
(* counterparty's signatures before it accepts a setup.                    *)
(*                                                                         *)
(* The curve is replaced by the free terms of AdaptorSignature; a          *)
(* pre-nonce is the pair of the adapted nonce and the adaptor point it was *)
(* formed with (R = R* - T).  Each template has its own sighash,           *)
(* transaction id and signer wallet, all named by the template's purpose;  *)
(* the digest of the template agreement is a function of the session       *)
(* alone, as it is in buildCanonicalBilateralTemplateAgreement.            *)
(* Left out are the parity of points and the search of the messages' text  *)
(* for private scalars: what the code accepts is accepted here.            *)
(***************************************************************************)
EXTENDS AdaptorSignature, Sequences, Naturals

Purposes == {"parent_cet", "bridge", "child_cet"}

(***************************************************************************)
(* expectedSigningPlans: the sender of each packet and its adaptor point.  *)
(* Parent CET and bridge wait for the same attestation.                    *)
(***************************************************************************)
PlannedSender ==
  [parent_cet |-> "alice", bridge |-> "bob", child_cet |-> "bob"]

PlannedPoint ==
  [parent_cet |-> "activating", bridge |-> "activating", child_cet |-> "child activating"]

TemplateDigest(sessionIdHex) == <<"template agreement", sessionIdHex>>

(***************************************************************************)
(* createPacket, with the nonce the purpose's deterministic search finds.  *)
(***************************************************************************)
Packet(purpose) ==
  [purpose |-> purpose, signerRole |-> PlannedSender[purpose], signerPublic |-> purpose,
   sighash |-> purpose, adaptorPoint |-> PlannedPoint[purpose], adaptedNonce |-> purpose,
   preNonce |-> <<purpose, PlannedPoint[purpose]>>,
   scalar |-> Scalar(purpose, PlannedPoint[purpose], purpose, purpose)]

ExchangeMessage(sessionIdHex, sender, signatures) ==
  [sessionIdHex |-> sessionIdHex, templateDigestHex |-> TemplateDigest(sessionIdHex),
   sender |-> sender, signatures |-> signatures]

CanonicalExchange(sessionIdHex) ==
  [sessionIdHex |-> sessionIdHex, templateDigestHex |-> TemplateDigest(sessionIdHex),
   messages |-> << ExchangeMessage(sessionIdHex, "alice", <<Packet("parent_cet")>>),
                   ExchangeMessage(sessionIdHex, "bob",
                                   <<Packet("bridge"), Packet("child_cet")>>) >>]

-----------------------------------------------------------------------------
(***************************************************************************)
(* verifyBilateralAdaptorExchange.                                         *)
(***************************************************************************)
SessionMatches(exchange, sessionIdHex) ==
  /\ exchange.sessionIdHex = sessionIdHex
  /\ \A i \in DOMAIN exchange.messages : exchange.messages[i].sessionIdHex = sessionIdHex

TemplateDigestMatches(exchange, sessionIdHex) ==
  /\ exchange.templateDigestHex = TemplateDigest(sessionIdHex)
  /\ \A i \in DOMAIN exchange.messages :
       exchange.messages[i].templateDigestHex = TemplateDigest(sessionIdHex)

\* The packets with their senders, each at its place in the exchange.
Entries(exchange) ==
  UNION {{[at |-> <<i, j>>, sender |-> exchange.messages[i].sender,
           packet |-> exchange.messages[i].signatures[j]] :
            j \in DOMAIN exchange.messages[i].signatures} : i \in DOMAIN exchange.messages}

OnePacketPerPurpose(entries) ==
  /\ \A e \in entries : e.packet.purpose \in Purposes
  /\ \A e, f \in entries : e.packet.purpose = f.packet.purpose => e = f
  /\ \A purpose \in Purposes : \E e \in entries : e.packet.purpose = purpose

TemplateBindingMatches(packet) ==
  /\ packet.signerRole = PlannedSender[packet.purpose]
  /\ packet.signerPublic = packet.purpose
  /\ packet.sighash = packet.purpose
  /\ packet.adaptorPoint = PlannedPoint[packet.purpose]

AdaptedNonceBindingVerifies(packet) ==
  packet.preNonce = <<packet.adaptedNonce, packet.adaptorPoint>>

AdaptorEquationVerifies(packet) ==
  packet.scalar
    = Scalar(packet.adaptedNonce, packet.adaptorPoint, packet.signerPublic, packet.sighash)

\* Broken variant: the adaptor equation is not checked.
EntryVerifiesWithoutEquation(entry) ==
  /\ entry.sender = PlannedSender[entry.packet.purpose]
  /\ TemplateBindingMatches(entry.packet)
  /\ AdaptedNonceBindingVerifies(entry.packet)

EntryVerifies(entry) ==
  /\ entry.sender = PlannedSender[entry.packet.purpose]
  /\ TemplateBindingMatches(entry.packet)
  /\ AdaptedNonceBindingVerifies(entry.packet)
  /\ AdaptorEquationVerifies(entry.packet)

ExchangeAccepted(exchange, sessionIdHex) ==
  /\ SessionMatches(exchange, sessionIdHex)
  /\ TemplateDigestMatches(exchange, sessionIdHex)
  /\ OnePacketPerPurpose(Entries(exchange))
  /\ \A e \in Entries(exchange) : EntryVerifies(e)

===============================================================================
