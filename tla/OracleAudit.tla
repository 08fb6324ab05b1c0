------------------------------ MODULE OracleAudit ------------------------------
(***************************************************************************)
(* Announcements and attestations of the oracle: how they are built and    *)
(* what their verification checks (oracle-audit.ts over secp.ts).          *)
(*                                                                         *)
(* Scalars, points and hashes are symbolic: a scalar is the record of what *)
(* it was computed from, its point wraps the scalar, a hash wraps what was *)
(* hashed. Two of them are equal exactly when they were made from the same *)
(* values.                                                                 *)
(***************************************************************************)
EXTENDS Sequences

CONSTANTS
  Timestamps \* the texts that Date.parse understands

\* The message of an outcome: the hash of the event, a colon and the outcome
\* in one text. A text is the sequence of its parts between colons, so an
\* event that ends in the parts another outcome starts with gives the same
\* message.
Message(event, outcome) == [text |-> event \o outcome]

\* BIP340 uses the one of a secret and its negation whose point is even.
EvenPoint(x) == [x |-> x, even |-> TRUE]

\* The tagged hash of the x-only nonce, the x-only key and the message.
Challenge(noncePoint, keyPoint, message) ==
  [nonce |-> noncePoint.x, key |-> keyPoint.x, message |-> message]

\* The scalar nonce + challenge * key.
Scalar(noncePoint, keyPoint, message) ==
  [nonce |-> noncePoint, key |-> keyPoint,
   challenge |-> Challenge(noncePoint, keyPoint, message)]

\* The point of a scalar.
PointOf(scalar) == [base |-> scalar]

\* R + e * P is the point of the scalar that the holder of both secrets knows.
AttestationPoint(keyPoint, noncePoint, message) ==
  PointOf(Scalar(noncePoint, keyPoint, message))

\* A BIP340 signature, and its verification under an x-only key.
Signature(nonce, key, message) ==
  [nonce |-> nonce, scalar |-> Scalar(EvenPoint(nonce), EvenPoint(key), message)]

SignatureVerifies(signature, message, key) ==
  signature.scalar = Scalar(EvenPoint(signature.nonce), EvenPoint(key), message)

-------------------------------------------------------------------------------
(***************************************************************************)
(* Announcements.                                                          *)
(***************************************************************************)

\* The digest covers the signing payload: everything but itself and the
\* signature.
Digest(a) ==
  [payload |-> <<a.event, a.key, a.keyPoint, a.nonce, a.noncePoint, a.outcomes, a.expiry>>]

PreparedOutcome(event, outcome, key, nonce) ==
  LET message == Message(event, outcome)
  IN  [outcome |-> outcome, message |-> message,
       point |-> AttestationPoint(EvenPoint(key), EvenPoint(nonce), message)]

\* A request to build an announcement; the builder throws for any other. It
\* does not look for an outcome that is listed twice.
Announceable(r) == r.outcomes # <<>> /\ r.signatureNonce # r.nonce

BuildOracleAnnouncement(r) ==
  LET payload == [event |-> r.event, key |-> r.key, keyPoint |-> EvenPoint(r.key),
                  nonce |-> r.nonce, noncePoint |-> EvenPoint(r.nonce),
                  outcomes |-> [i \in DOMAIN r.outcomes |->
                      PreparedOutcome(r.event, r.outcomes[i], r.key, r.nonce)],
                  expiry |-> r.expiry]
  IN  [kind |-> "announcement", event |-> payload.event, key |-> payload.key,
       keyPoint |-> payload.keyPoint, nonce |-> payload.nonce,
       noncePoint |-> payload.noncePoint, outcomes |-> payload.outcomes,
       expiry |-> payload.expiry, digest |-> Digest(payload),
       signature |-> Signature(r.signatureNonce, r.key, Digest(payload))]

\* A payload with exactly the fields of an announcement, each well formed.
ParsesAsAnnouncement(p) == p.kind = "announcement"

AnnouncementVerifies(a) ==
  /\ ParsesAsAnnouncement(a)
  /\ a.keyPoint = EvenPoint(a.key) /\ a.noncePoint = EvenPoint(a.nonce)
  /\ a.outcomes # <<>>
  /\ \A i, j \in DOMAIN a.outcomes : a.outcomes[i].outcome = a.outcomes[j].outcome => i = j
  /\ \A i \in DOMAIN a.outcomes :
       /\ a.outcomes[i].message = Message(a.event, a.outcomes[i].outcome)
       /\ a.outcomes[i].point
            = AttestationPoint(a.keyPoint, a.noncePoint, a.outcomes[i].message)
  /\ a.digest = Digest(a)
  /\ SignatureVerifies(a.signature, a.digest, a.key)
  /\ a.signature.nonce # a.nonce
  /\ a.expiry \in Timestamps

\* The first outcome bound to another message, as in the fixture.
MutatedAnnouncement(a) ==
  [a EXCEPT !.outcomes[1].message = Message(a.event, <<"MUTATED_OUTCOME">>)]

-------------------------------------------------------------------------------
(***************************************************************************)
(* Attestations.                                                           *)
(***************************************************************************)

\* The envelope of any outcome under any key and nonce: the builder compares
\* nothing with the announcement it names.
BuildOracleAttestationEnvelope(announcement, r) ==
  LET message == Message(announcement.event, r.outcome)
      scalar == Scalar(EvenPoint(r.nonce), EvenPoint(r.key), message)
  IN  [kind |-> "attestation", event |-> announcement.event, outcome |-> r.outcome,
       digest |-> announcement.digest, message |-> message, secret |-> scalar,
       point |-> AttestationPoint(EvenPoint(r.key), EvenPoint(r.nonce), message),
       signature |-> Signature(r.nonce, r.key, message)]

\* A payload with exactly the fields of an attestation, each well formed.
ParsesAsAttestation(p) == p.kind = "attestation"

AttestationVerifies(a, t) ==
  /\ AnnouncementVerifies(a)
  /\ ParsesAsAttestation(t)
  /\ t.digest = a.digest
  /\ t.event = a.event
  /\ \E i \in DOMAIN a.outcomes :
       /\ a.outcomes[i].outcome = t.outcome
       /\ a.outcomes[i].message = t.message
       /\ a.outcomes[i].point = t.point
  /\ t.signature.nonce = a.nonce
  /\ t.signature.scalar = t.secret
  /\ SignatureVerifies(t.signature, t.message, a.key)
  /\ PointOf(t.secret) = t.point

\* A signature with its last digit changed is of no message that is ever signed.
MalformedSignature(t) ==
  [t EXCEPT !.signature.scalar.challenge.message = [flipped |-> t.message]]

===============================================================================
