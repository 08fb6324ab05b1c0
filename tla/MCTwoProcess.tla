---------------------------- MODULE MCTwoProcess ----------------------------
(***************************************************************************)
(* The altered lines TLC tries: a line that does not parse, one of a kind  *)
(* the peer does not know, the content changes of the tests of malformed   *)
(* counterparties and adaptor exchanges, and changes no test makes.        *)
(***************************************************************************)
EXTENDS TwoProcess

Other == "other"

AlteredInputs(inputs) ==
  LET alice == CanonicalInput("alice")
      bob   == CanonicalInput("bob")
  IN  { {[alice EXCEPT !.outpoint = Other], bob},
        {[alice EXCEPT !.valueSat = ParticipantFundingSat - 1], bob},
        {[alice EXCEPT !.valueSat = 0], bob},
        {[alice EXCEPT !.outpoint = "bob"], bob},
        {bob} }

AlteredMessages(m) ==
  CASE m.kind = "role_announcement" ->
         {[m EXCEPT !.material = Other], [m EXCEPT !.sender = "bob"]} \ {m}
    [] m.kind = "funding_inputs" ->
         {[m EXCEPT !.fundingInputs = inputs] : inputs \in AlteredInputs(m.fundingInputs)}
    [] m.kind = "ack" ->
         {[m EXCEPT !.acknowledges = earlier] :
            earlier \in {CanonicalMessages[m.sessionIdHex][1],
                         CanonicalMessages[m.sessionIdHex][9]}}
           \ {m}
    [] OTHER -> {[m EXCEPT !.entries = @ - 1], [m EXCEPT !.entries = @ + 1]}

\* The first packet of the second message carries the bridge.
AlteredExchanges(x) ==
  LET bridge == x.messages[2].signatures[1]
      With(packet) == [x EXCEPT !.messages[2].signatures[1] = packet]
  IN  { With([bridge EXCEPT !.adaptedNonce = Other]),
        With([bridge EXCEPT !.adaptorPoint = "child activating"]),
        With([bridge EXCEPT !.scalar.adaptedNonce = Other]),
        With([bridge EXCEPT !.scalar.adaptorPoint = "child activating"]),
        With([bridge EXCEPT !.sighash = "child_cet"]),
        With([bridge EXCEPT !.signerPublic = "parent_cet"]),
        With([bridge EXCEPT !.purpose = "child_cet"]),
        [x EXCEPT !.templateDigestHex = TemplateDigest(Other)],
        [x EXCEPT !.messages[1].sender = "bob"],
        [x EXCEPT !.messages[2].signatures = <<bridge>>],
        [x EXCEPT !.messages[1].signatures = @ \o @] }

MCAlterations(line) ==
  { [kind |-> "malformed"], [kind |-> "unknown"] } \cup
    CASE line.kind = "setup_message" ->
           {MessageLine(m) : m \in AlteredMessages(line.message)}
      [] line.kind = "adaptor_exchange" ->
           {ExchangeLine(x) : x \in (AlteredExchanges(line.exchange)
                                       \cup {CanonicalExchange(s) : s \in Sessions})
                                      \ {line.exchange}}
      [] OTHER -> {}

ASSUME MCTransportAssumption == EnvelopesKept /\ AmountsSuffice

===============================================================================
