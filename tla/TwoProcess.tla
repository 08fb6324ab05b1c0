------------------------------ MODULE TwoProcess ------------------------------
(***************************************************************************)
(* The two peers of testnet/src/bilateral-process-peer.ts and the harness  *)
(* that runs them, testnet/src/bilateral-two-process-test.ts.              *)
(*                                                                         *)
(* Each peer is a process that reads JSON lines from its standard input:   *)
(* setup messages, an adaptor exchange and a command to finalize.  It      *)
(* collects them and judges what it has when it is told to finalize or     *)
(* when its input ends.  The peers never talk to each other, so that they  *)
(* agree has to follow from what each of them checks alone.                *)
(*                                                                         *)
(* The harness writes the same lines to both.  The transport in between    *)
(* is the environment: it may lose a line, repeat it, exchange it with the *)
(* next one, alter it, break it or end early, and a peer may be fed the    *)
(* lines of another session.                                               *)
(*                                                                         *)
(* On the wire an acknowledgement names its message by digest; the message *)
(* itself stands for its digest here.                                      *)
(***************************************************************************)
EXTENDS BilateralStateMachine, BilateralFundingValidation, BilateralAdaptorExchange, SequencesExt

CONSTANTS
  Sessions,           \* the sessions a stream of lines may belong to
  Alterations(_),     \* the altered forms a line may take
  MaxFaults           \* bound on the faults of the transport, both peers together

ASSUME SessionsAssumption == Sessions \subseteq SessionIds

ASSUME FaultsAssumption == MaxFaults \in Nat

VARIABLES
  session,  \* the session of the stream each peer is fed
  written,  \* how many lines of its stream were written to each peer
  faults,   \* the faults of the transport so far
  peer      \* what each peer holds, and how it ended

vars == <<session, written, faults, peer>>

-----------------------------------------------------------------------------
(***************************************************************************)
(* The canonical transcript, buildCanonicalBilateralSetupTranscript.  The  *)
(* lists stand at their least lengths; material and script of a role have  *)
(* the role's name.                                                        *)
(***************************************************************************)
CanonicalInput(role) ==
  [owner |-> role, outpoint |-> role, valueSat |-> ParticipantFundingSat, scriptPubKeyHex |-> role]

Announcement(s, sequence, role) ==
  [kind |-> "role_announcement", sender |-> role, sessionIdHex |-> s,
   sequence |-> sequence, role |-> role, material |-> role]

List(s, sequence, kind, sender) ==
  [kind |-> kind, sender |-> sender, sessionIdHex |-> s,
   sequence |-> sequence, entries |-> MinEntries(kind)]

Acknowledgement(s, sequence, sender, message) ==
  [kind |-> "ack", sender |-> sender, sessionIdHex |-> s,
   sequence |-> sequence, acknowledges |-> message]

CanonicalMessages ==
  [s \in Sessions |->
     LET points   == List(s, 9, "adaptor_points", "alice")
         aliceAck == Acknowledgement(s, 10, "alice", points)
     IN  << Announcement(s, 1, "alice"),
            Announcement(s, 2, "bob"),
            List(s, 3, "oracle_event_selection", "alice"),
            [kind |-> "funding_inputs", sender |-> "alice", sessionIdHex |-> s, sequence |-> 4,
             fundingInputs |-> {CanonicalInput("alice"), CanonicalInput("bob")}],
            List(s, 5, "payout_graph", "alice"),
            List(s, 6, "cet_templates", "alice"),
            List(s, 7, "bridge_templates", "bob"),
            List(s, 8, "refund_templates", "bob"),
            points,
            aliceAck,
            Acknowledgement(s, 11, "bob", aliceAck) >>]

(***************************************************************************)
(* The lines of the harness: the messages, the exchange, the command to    *)
(* finalize.  A line that does not parse has the kind "malformed".         *)
(***************************************************************************)
MessageLine(message) == [kind |-> "setup_message", message |-> message]

ExchangeLine(exchange) == [kind |-> "adaptor_exchange", exchange |-> exchange]

Lines ==
  [s \in Sessions |->
     [i \in DOMAIN CanonicalMessages[s] |-> MessageLine(CanonicalMessages[s][i])]
       \o << ExchangeLine(CanonicalExchange(s)), [kind |-> "finalize"] >>]

(***************************************************************************)
(* A line with the fields of its kind, whatever an acknowledgement names.  *)
(* A line without them is refused when the peer finalizes, like the one of *)
(* an unknown kind; no alteration makes one.                               *)
(***************************************************************************)
WireMessage(m) ==
  IF m.kind = "ack" THEN [m EXCEPT !.acknowledges = 0] \in AcknowledgementMessage
                    ELSE m \in SetupMessage

NoExchange == [messages |-> <<>>]

WireLine(line) ==
  /\ line.kind = "setup_message" => WireMessage(line.message)
  /\ line.kind = "adaptor_exchange" => /\ line.exchange # NoExchange
                                       /\ line.exchange.sessionIdHex \in SessionIds

ASSUME AlterationsAssumption ==
  \A s \in Sessions : \A i \in DOMAIN Lines[s] :
    \A line \in Alterations(Lines[s][i]) : WireLine(line)

ASSUME CanonicalAssumption ==
  Roles \subseteq Materials /\ Roles \subseteq Outpoints

(***************************************************************************)
(* Alterations that leave the envelope of a message alone: kind, session,  *)
(* place and author.  No check of a peer says which of the two roles sends *)
(* a list, so that only then an accepted setup has the canonical senders.  *)
(***************************************************************************)
Envelope(m) ==
  [kind |-> m.kind, sequence |-> m.sequence, sessionIdHex |-> m.sessionIdHex,
   by |-> IF m.kind = "role_announcement" THEN m.role ELSE m.sender]

EnvelopesKept ==
  \A s \in Sessions : \A i \in DOMAIN Lines[s] :
    \A line \in Alterations(Lines[s][i]) :
      line.kind = "setup_message"
        => /\ Lines[s][i].kind = "setup_message"
           /\ Envelope(line.message) = Envelope(Lines[s][i].message)

\* What canonicalAmounts satisfy: the funding of a participant is positive and
\* no dust, so that the canonical setup can be accepted.
AmountsSuffice == ParticipantFundingSat > 0 /\ ParticipantFundingSat >= DustFloorSat

-----------------------------------------------------------------------------
(***************************************************************************)
(* finalize: the transcript a peer builds of the messages it holds, in     *)
(* the form the setup schema reads, where a digest is a position and 0 is  *)
(* the digest of no earlier message.                                       *)
(***************************************************************************)
\* Broken variant: digests that leave the content out.
PositionBySequence(message, earlier) ==
  IF \E i \in DOMAIN earlier : earlier[i].sequence = message.sequence
    THEN CHOOSE i \in DOMAIN earlier : earlier[i].sequence = message.sequence
    ELSE 0

\* Broken variant: indexOf, which has a value for a message that is not there.
PositionByIndexOf(message, earlier) ==
  IF \E i \in DOMAIN earlier : earlier[i] = message
    THEN CHOOSE i \in DOMAIN earlier : earlier[i] = message
    ELSE 0 - 1

PositionAmong(message, earlier) ==
  IF \E i \in DOMAIN earlier : earlier[i] = message
    THEN CHOOSE i \in DOMAIN earlier : earlier[i] = message
    ELSE 0

BuildTranscript(messages) ==
  [i \in DOMAIN messages |->
     IF messages[i].kind # "ack" THEN messages[i]
     ELSE [messages[i] EXCEPT !.acknowledges = PositionAmong(@, SubSeq(messages, 1, i - 1))]]

ValidTranscript(messages) ==
  \A i \in DOMAIN messages :
    ValidNext(messages[1].sessionIdHex, SubSeq(messages, 1, i - 1), messages[i])

(***************************************************************************)
(* replayBilateralStateMachine: one message that does not apply and the    *)
(* replay throws, whatever follows: no machine is left.                    *)
(***************************************************************************)
ReplayMessage(machines, m) ==
  {AfterSetupMessage(machine, m) :
     machine \in {s \in machines : SetupMessageApplies(s, m)}}

Replay(messages) ==
  LET after[n \in 0 .. Len(messages)] ==
        IF n = 0 THEN {InitialState(messages[1].sessionIdHex)}
                 ELSE ReplayMessage(after[n - 1], messages[n])
  IN  after[Len(messages)]

ReplayReachesAcceptance(messages) ==
  \E machine \in Replay(messages) : machine.state = "setup_accepted"

Accepts(messages, exchange) ==
  /\ exchange # NoExchange
  /\ messages # <<>>
  /\ \E transcript \in {BuildTranscript(messages)} :
       /\ ValidTranscript(transcript)
       /\ ReplayReachesAcceptance(transcript)
       /\ FundingAccepted(transcript)
       /\ ExchangeAccepted(exchange, transcript[1].sessionIdHex)

Finalized(held) ==
  [held EXCEPT !.status = IF Accepts(held.setupMessages, held.adaptorExchange)
                            THEN "accepted" ELSE "rejected"]

(***************************************************************************)
(* The handler of a line.  A line that does not parse ends the process     *)
(* without a result; a line of any other kind finalizes.                   *)
(***************************************************************************)
AfterLine(held, line) ==
  CASE line.kind = "setup_message" ->
         [held EXCEPT !.setupMessages = Append(@, line.message)]
    [] line.kind = "adaptor_exchange" -> [held EXCEPT !.adaptorExchange = line.exchange]
    [] line.kind = "malformed" -> [held EXCEPT !.status = "crashed"]
    [] OTHER -> Finalized(held)

\* Broken variant: the process handles lines after it finalized.
ReceiveAfterExit(held, line) == AfterLine(held, line)

\* A line that arrives after the process exited reaches nobody.
Receive(held, line) ==
  IF held.status = "running" THEN AfterLine(held, line) ELSE held

-----------------------------------------------------------------------------
Init ==
  /\ session \in [Roles -> Sessions]
  /\ written = [p \in Roles |-> 0]
  /\ faults = 0
  /\ peer = [p \in Roles |-> [setupMessages |-> <<>>, adaptorExchange |-> NoExchange,
                              status |-> "running"]]

LineCount == Len(Lines[CHOOSE s \in Sessions : TRUE])

NextLine(p) == Lines[session[p]][written[p] + 1]

(***************************************************************************)
(* The transport consumes the next n lines of the stream and leaves the    *)
(* peer with what it made of those that were delivered.                    *)
(***************************************************************************)
Transport(p, n, held) ==
  /\ written[p] + n <= LineCount
  /\ written' = [written EXCEPT ![p] = @ + n]
  /\ peer' = [peer EXCEPT ![p] = held]
  /\ UNCHANGED session

Deliver(p) ==
  /\ written[p] < LineCount
  /\ Transport(p, 1, Receive(peer[p], NextLine(p)))
  /\ UNCHANGED faults

\* A fault counts only while there is a process it can reach.
Fault(p) ==
  /\ faults < MaxFaults
  /\ peer[p].status = "running"
  /\ faults' = faults + 1

Lose(p) == Fault(p) /\ Transport(p, 1, peer[p])

Repeat(p) ==
  /\ written[p] < LineCount
  /\ Fault(p)
  /\ Transport(p, 1, Receive(Receive(peer[p], NextLine(p)), NextLine(p)))

Exchange(p) ==
  /\ written[p] + 1 < LineCount
  /\ Fault(p)
  /\ LET later == Lines[session[p]][written[p] + 2]
     IN  Transport(p, 2, Receive(Receive(peer[p], later), NextLine(p)))

Alter(p) ==
  /\ written[p] < LineCount
  /\ Fault(p)
  /\ \E line \in Alterations(NextLine(p)) : Transport(p, 1, Receive(peer[p], line))

EndEarly(p) ==
  /\ written[p] < LineCount
  /\ Fault(p)
  /\ Transport(p, LineCount - written[p], peer[p])

(***************************************************************************)
(* The input is at its end and the peer still runs: the handler of the     *)
(* close event finalizes.                                                  *)
(***************************************************************************)
\* Broken variant: the end of the input is not handled.
UnhandledClose(p) == FALSE /\ UNCHANGED vars

Close(p) ==
  /\ written[p] = LineCount
  /\ peer[p].status = "running"
  /\ peer' = [peer EXCEPT ![p] = Finalized(@)]
  /\ UNCHANGED <<session, written, faults>>

Next ==
  \E p \in Roles :
    Deliver(p) \/ Lose(p) \/ Repeat(p) \/ Exchange(p) \/ Alter(p) \/ EndEarly(p) \/ Close(p)

(***************************************************************************)
(* The harness writes all lines and ends the input, and a peer handles     *)
(* what it reads.                                                          *)
(***************************************************************************)
Spec ==
  /\ Init
  /\ [][Next]_vars
  /\ \A p \in Roles : WF_vars(Deliver(p)) /\ WF_vars(Close(p))

-----------------------------------------------------------------------------
(***************************************************************************)
(* The verdict of the harness: both peers accepted, and they report the    *)
(* same template digest.                                                   *)
(***************************************************************************)
\* Broken variant: the digests of the two peers are not compared.
SetupAcceptedWithoutDigests == \A p \in Roles : peer[p].status = "accepted"

SetupAccepted ==
  /\ \A p \in Roles : peer[p].status = "accepted"
  /\ TemplateDigest(peer["alice"].setupMessages[1].sessionIdHex)
       = TemplateDigest(peer["bob"].setupMessages[1].sessionIdHex)

-----------------------------------------------------------------------------
(***************************************************************************)
(* Every variable has its type.                                            *)
(***************************************************************************)
TypeOK ==
  /\ session \in [Roles -> Sessions]
  /\ written \in [Roles -> 0 .. LineCount]
  /\ faults \in 0 .. MaxFaults
  /\ \A p \in Roles :
       /\ peer[p].status \in {"running", "accepted", "rejected", "crashed"}
       /\ BuildTranscript(peer[p].setupMessages) \in Seq(SetupMessage)
       /\ peer[p].adaptorExchange # NoExchange
            => peer[p].adaptorExchange.sessionIdHex \in SessionIds

(***************************************************************************)
(* A peer that accepts holds the whole setup: no loss, repetition,         *)
(* reordering or early end of its input leaves it with an acceptance of    *)
(* fewer or other messages than the eleven of one session.                 *)
(***************************************************************************)
AcceptedHoldsWholeSetup ==
  \A p \in Roles :
    LET held      == peer[p].setupMessages
        canonical == CanonicalMessages[held[1].sessionIdHex]
    IN  peer[p].status = "accepted"
          => /\ Len(held) = Len(canonical)
             /\ \A i \in DOMAIN canonical :
                  /\ held[i].kind = canonical[i].kind
                  /\ held[i].sender = canonical[i].sender
                  /\ held[i].sessionIdHex = canonical[i].sessionIdHex

(***************************************************************************)
(* An acknowledgement binds the other peer as well: if both peers of an    *)
(* accepted setup hold the same acknowledgement, they hold the message it  *)
(* acknowledges alike, though neither sees what the other received.        *)
(***************************************************************************)
AcknowledgementsBind ==
  SetupAccepted
    => \A ack \in ToSet(peer["alice"].setupMessages) \cap ToSet(peer["bob"].setupMessages) :
         ack.kind = "ack"
           => \A p \in Roles : ack.acknowledges \in ToSet(peer[p].setupMessages)

(***************************************************************************)
(* What a peer accepts can be executed: for each purpose it holds one      *)
(* packet, and the oracle's attestation for that purpose completes it to a *)
(* signature of the right wallet on the right template.                    *)
(***************************************************************************)
CompletesFor(packet, purpose) ==
  packet.scalar = Scalar(packet.adaptedNonce, PlannedPoint[purpose], purpose, purpose)

AcceptedExchangeCompletes ==
  \A p \in Roles :
    peer[p].status = "accepted"
      => \A purpose \in Purposes :
           \E e \in Entries(peer[p].adaptorExchange) :
             /\ e.packet.purpose = purpose
             /\ CompletesFor(e.packet, purpose)
             /\ \A f \in Entries(peer[p].adaptorExchange) : f.packet.purpose = purpose => f = e

(***************************************************************************)
(* A setup the harness accepts is one session: messages and exchanges of   *)
(* both peers belong to it, whatever streams the peers were fed.           *)
(***************************************************************************)
AcceptedIsOneSession ==
  SetupAccepted
    => \E s \in SessionIds : \A p \in Roles :
         /\ \A i \in DOMAIN peer[p].setupMessages : peer[p].setupMessages[i].sessionIdHex = s
         /\ peer[p].adaptorExchange.sessionIdHex = s

(***************************************************************************)
(* A peer answers once: what it held when it finalized, or died, is what   *)
(* it ends with, though lines may still arrive and its input may still     *)
(* end.                                                                    *)
(***************************************************************************)
AnswersOnce ==
  [][\A p \in Roles : peer[p].status # "running" => peer'[p] = peer[p]]_vars

(***************************************************************************)
(* Both peers end, whatever the transport does to their lines: the harness *)
(* waits for the two processes.                                            *)
(***************************************************************************)
EveryPeerEnds == \A p \in Roles : <>(peer[p].status # "running")

-----------------------------------------------------------------------------
(***************************************************************************)
(* What the document on funding validation says: both participants'        *)
(* views observe the same funding digest before later steps rely on the    *)
(* funding data.                                                           *)
(***************************************************************************)
FundingDigest(p) ==
  FundingInputsOf(peer[p].setupMessages)

FundingDigestsAgree ==
  SetupAccepted => FundingDigest("alice") = FundingDigest("bob")

==============================================================================
