--------------------------- MODULE MCOracleHistory ---------------------------
(***************************************************************************)
(* The publications TLC tries: the announcements and attestations of the   *)
(* fixtures and some more, with the damage the fixtures do to them.  The   *)
(* second event extends the name of the first, as in the fixtures.         *)
(***************************************************************************)
EXTENDS OracleHistory

First == <<"event">>
Second == <<"event", "second">>
Activating == <<"activating">>
Wrong == <<"wrong">>

Request(event, outcomes, nonce, signatureNonce, expiry) ==
  [event |-> event, outcomes |-> outcomes, key |-> "oracle", nonce |-> nonce,
   signatureNonce |-> signatureNonce, expiry |-> expiry]

\* The announcement, the same event again with another expiry, another event
\* under the same nonce, and the same event under another nonce.
Canonical == BuildOracleAnnouncement(
               Request(First, <<Activating, Wrong>>, "nonce", "sign", "2026"))
Stale == BuildOracleAnnouncement(
               Request(First, <<Activating, Wrong>>, "nonce", "sign", "2025"))
SecondEvent == BuildOracleAnnouncement(
               Request(Second, <<Activating>>, "nonce", "sign", "2026"))
OtherNonce == BuildOracleAnnouncement(
               Request(First, <<Activating, Wrong>>, "sign", "nonce", "2026"))

Attest(announcement, outcome, nonce) ==
  BuildOracleAttestationEnvelope(announcement,
    [outcome |-> outcome, key |-> "oracle", nonce |-> nonce])

MCPayloads ==
  { Canonical, Stale, SecondEvent, OtherNonce, MutatedAnnouncement(Canonical),
    Attest(Canonical, Activating, "nonce"),
    Attest(Canonical, Wrong, "nonce"),
    Attest(Canonical, <<"unannounced">>, "nonce"),
    Attest(Canonical, Activating, "sign"),
    MalformedSignature(Attest(Canonical, Activating, "nonce")),
    Attest(Stale, Wrong, "nonce"),
    Attest(SecondEvent, Activating, "nonce"),
    Attest(OtherNonce, Wrong, "sign"),
    [kind |-> "malformed"] }

===============================================================================
