-------------------------- MODULE TwoProcess_proofs --------------------------
(***************************************************************************)
(* What TLAPS proves of the two peers, for every set of sessions, every    *)
(* alteration of lines and any number of faults.                           *)
(*                                                                         *)
(* A peer accepts in one step and may get lines long after it, so that an  *)
(* accepted peer passed every check is an invariant of its own: what was   *)
(* judged is what is still held.  Most properties then follow from single  *)
(* checks.  That an accepted peer holds whole setups needs the outcome of  *)
(* the replay, a recursive function of the position: its value is taken to *)
(* exist by a least gap (ReplayExists), and what it has passed through is  *)
(* followed from position to position (ShapeStep, ReplayHasShape).         *)
(*                                                                         *)
(* That the checks let the canonical setup pass is shown by replaying it   *)
(* (CanonicalReplayAccepts): a peer without faults holds what it was fed.  *)
(***************************************************************************)
EXTENDS TwoProcess, SequenceTheorems, WellFoundedInduction, TLAPS

\* The lines the transport may deliver, and what a peer can hold of them.
PossibleLines ==
  UNION {UNION {{Lines[s][i]} \cup Alterations(Lines[s][i]) : i \in DOMAIN Lines[s]} :
           s \in Sessions}

PossibleMessages ==
  {line.message : line \in {l \in PossibleLines : l.kind = "setup_message"}}

PossibleExchanges ==
  {line.exchange : line \in {l \in PossibleLines : l.kind = "adaptor_exchange"}}

Holdings ==
  [setupMessages: Seq(PossibleMessages), adaptorExchange: PossibleExchanges \cup {NoExchange},
   status: {"running", "accepted", "rejected", "crashed"}]

Judged(held) ==
  held.status = "accepted" => Accepts(held.setupMessages, held.adaptorExchange)

IInv ==
  /\ session \in [Roles -> Sessions]
  /\ written \in [Roles -> 0 .. LineCount]
  /\ faults \in 0 .. MaxFaults
  /\ peer \in [Roles -> Holdings]
  /\ \A p \in Roles : Judged(peer[p])

-----------------------------------------------------------------------------
(***************************************************************************)
(* The canonical messages are eleven, and the lines of a stream thirteen.  *)
(***************************************************************************)
LEMMA CanonicalMessagesAreWire ==
  ASSUME NEW s \in Sessions
  PROVE  /\ DOMAIN CanonicalMessages[s] = 1 .. 11
         /\ \A i \in 1 .. 11 : WireMessage(CanonicalMessages[s][i])
<1>0. s \in SessionIds
  BY SessionsAssumption
<1> DEFINE points == List(s, 9, "adaptor_points", "alice")
           aliceAck == Acknowledgement(s, 10, "alice", points)
           bobAck == Acknowledgement(s, 11, "bob", aliceAck)
           inputs == [kind |-> "funding_inputs", sender |-> "alice", sessionIdHex |-> s,
                      sequence |-> 4,
                      fundingInputs |-> {CanonicalInput("alice"), CanonicalInput("bob")}]
<1>1. CanonicalMessages[s] =
        << Announcement(s, 1, "alice"), Announcement(s, 2, "bob"),
           List(s, 3, "oracle_event_selection", "alice"), inputs,
           List(s, 5, "payout_graph", "alice"), List(s, 6, "cet_templates", "alice"),
           List(s, 7, "bridge_templates", "bob"), List(s, 8, "refund_templates", "bob"),
           points, aliceAck, bobAck >>
  BY DEF CanonicalMessages
<1>2. ASSUME NEW n \in Nat, NEW role \in Roles
      PROVE  WireMessage(Announcement(s, n, role))
  BY <1>0, CanonicalAssumption
     DEF WireMessage, Announcement, SetupMessage, RoleAnnouncementMessage
<1>3. ASSUME NEW n \in Nat, NEW kind \in ListKinds, NEW role \in Roles
      PROVE  WireMessage(List(s, n, kind, role))
  BY <1>0 DEF WireMessage, List, SetupMessage, ListMessage, ListKinds, MinEntries
<1>4. WireMessage(inputs)
  <2>1. \A role \in Roles : CanonicalInput(role) \in FundingInput
    BY CanonicalAssumption, AmountAssumption DEF CanonicalInput, FundingInput
  <2>2. {CanonicalInput("alice"), CanonicalInput("bob")} \in SUBSET FundingInput
    BY <2>1 DEF Roles
  <2>3. inputs \in FundingInputsMessage
    BY <1>0, <2>2 DEF FundingInputsMessage, Roles
  <2>4. QED
    BY <2>3 DEF WireMessage, SetupMessage
<1>5. ASSUME NEW n \in Nat, NEW role \in Roles, NEW earlier
      PROVE  WireMessage(Acknowledgement(s, n, role, earlier))
  BY <1>0 DEF WireMessage, Acknowledgement, AcknowledgementMessage
<1> HIDE DEF inputs
<1>6. /\ WireMessage(Announcement(s, 1, "alice")) /\ WireMessage(Announcement(s, 2, "bob"))
      /\ WireMessage(List(s, 3, "oracle_event_selection", "alice"))
      /\ WireMessage(List(s, 5, "payout_graph", "alice"))
      /\ WireMessage(List(s, 6, "cet_templates", "alice"))
      /\ WireMessage(List(s, 7, "bridge_templates", "bob"))
      /\ WireMessage(List(s, 8, "refund_templates", "bob"))
      /\ WireMessage(points) /\ WireMessage(aliceAck) /\ WireMessage(bobAck)
  BY <1>2, <1>3, <1>5 DEF ListKinds, Roles
<1> HIDE DEF points, aliceAck, bobAck
<1>7. QED
  BY <1>1, <1>4, <1>6

LEMMA FunctionIsSequence ==
  ASSUME NEW T, NEW n \in Nat, NEW f \in [1 .. n -> T]
  PROVE  f \in Seq(T) /\ Len(f) = n
OBVIOUS

LEMMA ElevenAndTwo ==
  ASSUME NEW T, NEW f \in Seq(T), Len(f) = 11, NEW a \in T, NEW b \in T
  PROVE  /\ f \o <<a, b>> \in Seq(T) /\ Len(f \o <<a, b>>) = 13
         /\ \A i \in 1 .. 11 : (f \o <<a, b>>)[i] = f[i]
         /\ (f \o <<a, b>>)[12] = a /\ (f \o <<a, b>>)[13] = b
<1>1. <<a, b>> \in Seq(T) /\ Len(<<a, b>>) = 2
  OBVIOUS
<1>2. <<a, b>>[1] = a /\ <<a, b>>[2] = b
  OBVIOUS
<1>3. PICK g \in Seq(T) : g = <<a, b>>
  BY <1>1
<1>4. Len(g) = 2 /\ g[1] = a /\ g[2] = b
  BY <1>1, <1>2, <1>3
<1>5. /\ f \o g \in Seq(T) /\ Len(f \o g) = Len(f) + Len(g)
      /\ \A i \in 1 .. Len(f) + Len(g) :
           (f \o g)[i] = IF i <= Len(f) THEN f[i] ELSE g[i - Len(f)]
  BY ConcatProperties, Zenon
<1>6. Len(f) + Len(g) = 13
  BY <1>4
<1>7. \A i \in 1 .. 13 : (f \o g)[i] = IF i <= 11 THEN f[i] ELSE g[i - 11]
  BY <1>5, <1>6
<1>8. /\ \A i \in 1 .. 11 : (f \o g)[i] = f[i]
      /\ (f \o g)[12] = g[1] /\ (f \o g)[13] = g[2]
  <2>1. PICK h : h = f \o g
    OBVIOUS
  <2>2. \A i \in 1 .. 13 : h[i] = IF i <= 11 THEN f[i] ELSE g[i - 11]
    BY <1>7, <2>1
  <2>3. \A i \in 1 .. 11 : h[i] = f[i]
    BY ONLY <2>2
  <2>4. h[12] = g[1] /\ h[13] = g[2]
    BY ONLY <2>2
  <2>5. QED
    BY <2>1, <2>3, <2>4
<1>9. QED
  BY <1>3, <1>4, <1>5, <1>6, <1>8

LEMMA StreamLines ==
  ASSUME NEW s \in Sessions
  PROVE  /\ DOMAIN Lines[s] = 1 .. 13 /\ Len(Lines[s]) = 13
         /\ \A i \in 1 .. 13 : WireLine(Lines[s][i])
         /\ \A i \in 1 .. 11 : Lines[s][i] = MessageLine(CanonicalMessages[s][i])
         /\ Lines[s][12] = ExchangeLine(CanonicalExchange(s))
         /\ Lines[s][13] = [kind |-> "finalize"]
<1>1. PICK messages :
        messages = [i \in DOMAIN CanonicalMessages[s] |-> MessageLine(CanonicalMessages[s][i])]
  OBVIOUS
<1>2. PICK exchange, finalize : /\ exchange = ExchangeLine(CanonicalExchange(s))
                               /\ finalize = [kind |-> "finalize"]
  OBVIOUS
<1>3. Lines[s] = messages \o <<exchange, finalize>>
  BY <1>1, <1>2 DEF Lines
<1>4. PICK S : S = {messages[i] : i \in 1 .. 11} \cup {exchange, finalize}
  OBVIOUS
<1>5. messages \in [1 .. 11 -> S]
  BY <1>1, <1>4, CanonicalMessagesAreWire
<1>6. messages \in Seq(S) /\ Len(messages) = 11
  BY <1>5, FunctionIsSequence
<1>6a. exchange \in S /\ finalize \in S
  BY <1>4
<1>7. /\ Lines[s] \in Seq(S) /\ Len(Lines[s]) = 13
      /\ \A i \in 1 .. 11 : Lines[s][i] = messages[i]
      /\ Lines[s][12] = exchange /\ Lines[s][13] = finalize
  BY <1>3, <1>6, <1>6a, ElevenAndTwo
<1>8. \A i \in 1 .. 11 : WireLine(messages[i])
  BY <1>1, CanonicalMessagesAreWire DEF WireLine, MessageLine
<1>9. WireLine(exchange)
  <2>1. CanonicalExchange(s) # NoExchange
    BY DEF CanonicalExchange, NoExchange
  <2>2. CanonicalExchange(s).sessionIdHex \in SessionIds
    BY SessionsAssumption DEF CanonicalExchange
  <2>3. QED
    BY <1>2, <2>1, <2>2 DEF WireLine, ExchangeLine
<1>10. WireLine(finalize)
  BY <1>2 DEF WireLine
<1>11. DOMAIN Lines[s] = 1 .. 13
  BY <1>7, LenProperties
<1>12. ASSUME NEW i \in 1 .. 13
       PROVE  WireLine(Lines[s][i])
  <2>1. i \in 1 .. 11 \/ i = 12 \/ i = 13
    OBVIOUS
  <2>2. QED
    BY <2>1, <1>7, <1>8, <1>9, <1>10
<1>13. \A i \in 1 .. 11 : messages[i] = MessageLine(CanonicalMessages[s][i])
  BY <1>1, CanonicalMessagesAreWire
<1>14. QED
  BY <1>2, <1>7, <1>11, <1>12, <1>13

LEMMA LineCountIs ==
  ASSUME Sessions # {}
  PROVE  LineCount = 13
BY StreamLines DEF LineCount

LEMMA PossibleAreWire ==
  /\ \A line \in PossibleLines : WireLine(line)
  /\ \A m \in PossibleMessages : WireMessage(m)
  /\ \A x \in PossibleExchanges : x # NoExchange /\ x.sessionIdHex \in SessionIds
<1>1. ASSUME NEW line \in PossibleLines PROVE WireLine(line)
  BY StreamLines, AlterationsAssumption DEF PossibleLines
<1>2. QED
  BY <1>1 DEF PossibleMessages, PossibleExchanges, WireLine

(***************************************************************************)
(* What an acknowledgement keeps when its digest becomes a position.       *)
(***************************************************************************)
LEMMA WireFields ==
  ASSUME NEW m, WireMessage(m), NEW n \in Nat
  PROVE  /\ m.sessionIdHex \in SessionIds
         /\ m.kind # "ack" => m \in SetupMessage
         /\ m.kind = "ack" =>
              /\ [m EXCEPT !.acknowledges = n] \in AcknowledgementMessage
              /\ [m EXCEPT !.acknowledges = n].kind = "ack"
              /\ [m EXCEPT !.acknowledges = n].sender = m.sender
              /\ [m EXCEPT !.acknowledges = n].sequence = m.sequence
              /\ [m EXCEPT !.acknowledges = n].acknowledges = n
              /\ [m EXCEPT !.acknowledges = n].sessionIdHex = m.sessionIdHex
<1>1. CASE m.kind = "ack"
  <2> DEFINE typed == [m EXCEPT !.acknowledges = 0]
             placed == [m EXCEPT !.acknowledges = n]
  <2>1. typed \in AcknowledgementMessage
    BY <1>1 DEF WireMessage
  <2>2. DOMAIN m = {"kind", "sender", "sessionIdHex", "sequence", "acknowledges"}
    <3>1. DOMAIN typed = DOMAIN m
      OBVIOUS
    <3> HIDE DEF typed
    <3>2. QED
      BY <2>1, <3>1 DEF AcknowledgementMessage
  <2>3. /\ m.kind = typed.kind /\ m.sender = typed.sender
        /\ m.sessionIdHex = typed.sessionIdHex /\ m.sequence = typed.sequence
    BY <2>2
  <2>4. /\ typed.kind = "ack" /\ typed.sender \in Roles
        /\ typed.sessionIdHex \in SessionIds /\ typed.sequence \in Nat
    BY <2>1 DEF AcknowledgementMessage
  <2>5. /\ placed.kind = m.kind /\ placed.sender = m.sender
        /\ placed.sessionIdHex = m.sessionIdHex /\ placed.sequence = m.sequence
        /\ placed.acknowledges = n
    BY <2>2
  <2>6. placed = [kind |-> m.kind, sender |-> m.sender, sessionIdHex |-> m.sessionIdHex,
                  sequence |-> m.sequence, acknowledges |-> n]
    BY <2>2
  <2>7. placed \in AcknowledgementMessage
    BY <2>3, <2>4, <2>6 DEF AcknowledgementMessage
  <2>8. QED
    BY <1>1, <2>3, <2>4, <2>5, <2>7
<1>2. CASE m.kind # "ack"
  BY <1>2 DEF WireMessage, SetupMessage, RoleAnnouncementMessage, ListMessage,
              FundingInputsMessage, AcknowledgementMessage
<1>3. QED
  BY <1>1, <1>2

-----------------------------------------------------------------------------
(***************************************************************************)
(* A peer that reads a line, or the end of its input, holds what it may    *)
(* hold, judged what it says it judged, and stays as it is once it ended.  *)
(***************************************************************************)
LEMMA FinalizedJudges ==
  ASSUME NEW held \in Holdings
  PROVE  Finalized(held) \in Holdings /\ Judged(Finalized(held))
BY DEF Finalized, Holdings, Judged

LEMMA ReceiveJudges ==
  ASSUME NEW held \in Holdings, Judged(held), NEW line \in PossibleLines
  PROVE  /\ Receive(held, line) \in Holdings
         /\ Judged(Receive(held, line))
         /\ held.status # "running" => Receive(held, line) = held
<1>1. CASE held.status # "running"
  BY <1>1 DEF Receive
<1>2. CASE held.status = "running"
  <2>1. Receive(held, line) = AfterLine(held, line)
    BY <1>2 DEF Receive
  <2>2. CASE line.kind = "setup_message"
    <3>1. PICK message \in PossibleMessages : message = line.message
      BY <2>2 DEF PossibleMessages
    <3>2. AfterLine(held, line) = [held EXCEPT !.setupMessages = Append(held.setupMessages, message)]
      BY <2>2, <3>1 DEF AfterLine
    <3>3. Append(held.setupMessages, message) \in Seq(PossibleMessages)
      BY DEF Holdings
    <3>4. QED
      BY <1>2, <2>1, <3>2, <3>3 DEF Holdings, Judged
  <2>3. CASE line.kind = "adaptor_exchange"
    <3>1. line.exchange \in PossibleExchanges
      BY <2>3 DEF PossibleExchanges
    <3>2. AfterLine(held, line) = [held EXCEPT !.adaptorExchange = line.exchange]
      BY <2>3 DEF AfterLine
    <3>3. QED
      BY <1>2, <2>1, <3>1, <3>2 DEF Holdings, Judged
  <2>4. CASE line.kind = "malformed"
    <3>1. AfterLine(held, line) = [held EXCEPT !.status = "crashed"]
      BY <2>4 DEF AfterLine
    <3>2. QED
      BY <1>2, <2>1, <3>1 DEF Holdings, Judged
  <2>5. CASE line.kind \notin {"setup_message", "adaptor_exchange", "malformed"}
    <3>1. AfterLine(held, line) = Finalized(held)
      BY <2>5 DEF AfterLine
    <3>2. QED
      BY <1>2, <2>1, <3>1, FinalizedJudges
  <2>6. QED
    BY <2>2, <2>3, <2>4, <2>5
<1>3. QED
  BY <1>1, <1>2

(***************************************************************************)
(* What a step of a peer, or of its transport, does to that peer.          *)
(***************************************************************************)
May(p, held) ==
  /\ held \in Holdings
  /\ Judged(held)
  /\ peer[p].status # "running" => held = peer[p]

LEMMA TransportInvariant ==
  ASSUME IInv, NEW p \in Roles, NEW n \in Nat, NEW held, May(p, held), Transport(p, n, held),
         faults' = faults \/ Fault(p)
  PROVE  IInv' /\ \A q \in Roles : peer[q].status # "running" => peer'[q] = peer[q]
<1>1. /\ session' \in [Roles -> Sessions] /\ Sessions # {}
  BY DEF IInv, Transport, Roles
<1>2. LineCount = 13
  BY <1>1, LineCountIs
<1>3. written' \in [Roles -> 0 .. LineCount]
  BY <1>2 DEF IInv, Transport
<1>4. faults' \in 0 .. MaxFaults
  BY FaultsAssumption DEF IInv, Fault
<1>5. peer' \in [Roles -> Holdings] /\ \A q \in Roles : peer'[q] = IF q = p THEN held ELSE peer[q]
  BY DEF IInv, Transport, May
<1>6. \A q \in Roles : Judged(peer'[q])
  BY <1>5 DEF IInv, May
<1>7. \A q \in Roles : peer[q].status # "running" => peer'[q] = peer[q]
  BY <1>5 DEF May
<1>8. LineCount' = LineCount
  BY DEF LineCount
<1>9. QED
  BY <1>1, <1>3, <1>4, <1>5, <1>6, <1>7, <1>8 DEF IInv

LEMMA StreamIsPossible ==
  ASSUME IInv, NEW p \in Roles, NEW n \in 1 .. LineCount
  PROVE  /\ Lines[session[p]][n] \in PossibleLines
         /\ Alterations(Lines[session[p]][n]) \subseteq PossibleLines
<1>1. session[p] \in Sessions
  BY DEF IInv
<1>2. n \in DOMAIN Lines[session[p]]
  BY <1>1, StreamLines, LineCountIs
<1>3. QED
  BY <1>1, <1>2 DEF PossibleLines

LEMMA StepInvariant ==
  ASSUME IInv, [Next]_vars
  PROVE  IInv' /\ \A q \in Roles : peer[q].status # "running" => peer'[q] = peer[q]
<1>1. CASE UNCHANGED vars
  <2>1. LineCount' = LineCount
    BY DEF LineCount
  <2>2. QED
    BY <1>1, <2>1 DEF vars, IInv
<1>2. ASSUME NEW p \in Roles,
             Deliver(p) \/ Lose(p) \/ Repeat(p) \/ Exchange(p) \/ Alter(p) \/ EndEarly(p) \/ Close(p)
      PROVE  IInv' /\ \A q \in Roles : peer[q].status # "running" => peer'[q] = peer[q]
  <2>1. LineCount = 13 /\ written[p] \in 0 .. LineCount
    BY LineCountIs DEF IInv
  <2>2. May(p, peer[p])
    BY DEF IInv, May
  <2>3. ASSUME written[p] < LineCount
        PROVE  NextLine(p) \in PossibleLines /\ Alterations(NextLine(p)) \subseteq PossibleLines
    BY <2>1, <2>3, StreamIsPossible DEF NextLine
  <2>4. ASSUME NEW held, May(p, held), NEW line \in PossibleLines
        PROVE  May(p, Receive(held, line))
    BY <2>4, ReceiveJudges DEF May
  <2>5. CASE Deliver(p)
    BY <2>5, <2>2, <2>3, <2>4, TransportInvariant DEF Deliver
  <2>6. CASE Lose(p)
    BY <2>6, <2>2, TransportInvariant DEF Lose
  <2>7. CASE Repeat(p)
    <3>1. May(p, Receive(Receive(peer[p], NextLine(p)), NextLine(p)))
      BY <2>7, <2>2, <2>3, <2>4 DEF Repeat
    <3>2. QED
      BY <2>7, <3>1, TransportInvariant DEF Repeat
  <2>8. CASE Exchange(p)
    <3>1. written[p] + 1 < LineCount
      BY <2>8 DEF Exchange
    <3>2. Lines[session[p]][written[p] + 2] \in PossibleLines /\ NextLine(p) \in PossibleLines
      BY <2>1, <2>3, <3>1, StreamIsPossible
    <3>3. May(p, Receive(Receive(peer[p], Lines[session[p]][written[p] + 2]), NextLine(p)))
      BY <2>2, <2>4, <3>2
    <3>4. QED
      BY <2>8, <3>3, TransportInvariant DEF Exchange
  <2>9. CASE Alter(p)
    <3>1. PICK line \in Alterations(NextLine(p)) : Transport(p, 1, Receive(peer[p], line))
      BY <2>9 DEF Alter
    <3>2. May(p, Receive(peer[p], line))
      BY <2>9, <2>2, <2>3, <2>4 DEF Alter
    <3>3. QED
      BY <2>9, <3>1, <3>2, TransportInvariant DEF Alter
  <2>10. CASE EndEarly(p)
    <3>1. LineCount - written[p] \in Nat
      BY <2>1
    <3>2. QED
      BY <2>10, <2>2, <3>1, TransportInvariant DEF EndEarly
  <2>11. CASE Close(p)
    <3>1. Finalized(peer[p]) \in Holdings /\ Judged(Finalized(peer[p]))
      BY FinalizedJudges DEF IInv
    <3>2. peer' \in [Roles -> Holdings]
          /\ \A q \in Roles : peer'[q] = IF q = p THEN Finalized(peer[p]) ELSE peer[q]
      BY <2>11, <3>1 DEF Close, IInv
    <3>3. \A q \in Roles : Judged(peer'[q])
      BY <3>1, <3>2 DEF IInv
    <3>4. LineCount' = LineCount
      BY DEF LineCount
    <3>5. \A q \in Roles : peer[q].status # "running" => peer'[q] = peer[q]
      BY <2>11, <3>2 DEF Close
    <3>6. QED
      BY <2>11, <3>2, <3>3, <3>4, <3>5 DEF Close, IInv
  <2>12. QED
    BY <1>2, <2>5, <2>6, <2>7, <2>8, <2>9, <2>10, <2>11
<1>3. QED
  BY <1>1, <1>2 DEF Next

(***************************************************************************)
(* Peers hold lines that were possible, and an accepted one passed every   *)
(* check with what it still holds.                                         *)
(***************************************************************************)
THEOREM Invariant == Spec => []IInv
<1>1. Init => IInv
  <2> SUFFICES ASSUME Init PROVE IInv
    OBVIOUS
  <2>1. Sessions # {}
    BY DEF Init, Roles
  <2>2. LineCount = 13
    BY <2>1, LineCountIs
  <2>3. peer \in [Roles -> Holdings] /\ \A p \in Roles : peer[p].status = "running"
    BY DEF Init, Holdings
  <2>4. QED
    BY <2>2, <2>3, FaultsAssumption DEF Init, IInv, Judged
<1>2. IInv /\ [Next]_vars => IInv'
  BY StepInvariant
<1>3. QED
  BY <1>1, <1>2, PTL DEF Spec

(***************************************************************************)
(* A peer that ended stays as it ended, whatever lines still arrive.       *)
(***************************************************************************)
THEOREM PeersAnswerOnce == Spec => AnswersOnce
<1>1. IInv /\ [Next]_vars
        => [\A p \in Roles : peer[p].status # "running" => peer'[p] = peer[p]]_vars
  BY StepInvariant
<1>2. QED
  BY <1>1, Invariant, PTL DEF Spec, AnswersOnce

-----------------------------------------------------------------------------
(***************************************************************************)
(* The transcript a peer builds has its messages, and every                *)
(* acknowledgement with a position instead of a digest.                    *)
(***************************************************************************)
LEMMA PositionIsNatural ==
  ASSUME NEW message, NEW earlier, DOMAIN earlier \subseteq Nat
  PROVE  /\ PositionAmong(message, earlier) \in Nat
         /\ PositionAmong(message, earlier) # 0
              => \E i \in DOMAIN earlier : earlier[i] = message
<1>1. CASE \E i \in DOMAIN earlier : earlier[i] = message
  <2>1. PositionAmong(message, earlier) = CHOOSE i \in DOMAIN earlier : earlier[i] = message
    BY <1>1 DEF PositionAmong
  <2>2. QED
    BY <1>1, <2>1
<1>2. CASE ~ \E i \in DOMAIN earlier : earlier[i] = message
  BY <1>2 DEF PositionAmong
<1>3. QED
  BY <1>1, <1>2

LEMMA Earlier ==
  ASSUME NEW messages \in Seq(PossibleMessages), NEW i \in 1 .. Len(messages)
  PROVE  /\ DOMAIN SubSeq(messages, 1, i - 1) = 1 .. i - 1
         /\ \A j \in 1 .. i - 1 : SubSeq(messages, 1, i - 1)[j] = messages[j]
<1>1. Len(messages) \in Nat /\ i - 1 \in Nat /\ i - 1 <= Len(messages)
  BY LenProperties
<1>2. QED
  BY <1>1

LEMMA BuiltTranscript ==
  ASSUME NEW messages \in Seq(PossibleMessages)
  PROVE  /\ BuildTranscript(messages) \in Seq(SetupMessage)
         /\ DOMAIN BuildTranscript(messages) = 1 .. Len(messages)
         /\ DOMAIN messages = 1 .. Len(messages)
         /\ \A i \in 1 .. Len(messages) :
              /\ BuildTranscript(messages)[i].sessionIdHex = messages[i].sessionIdHex
              /\ messages[i].sessionIdHex \in SessionIds
              /\ BuildTranscript(messages)[i].kind = messages[i].kind
              /\ BuildTranscript(messages)[i].sender = messages[i].sender
              /\ BuildTranscript(messages)[i].sequence = messages[i].sequence
              /\ messages[i].kind # "ack" => BuildTranscript(messages)[i] = messages[i]
              /\ messages[i].kind = "ack" =>
                   /\ BuildTranscript(messages)[i].kind = "ack"
                   /\ BuildTranscript(messages)[i].acknowledges
                        = PositionAmong(messages[i].acknowledges, SubSeq(messages, 1, i - 1))
<1> DEFINE built == BuildTranscript(messages)
<1>1. DOMAIN messages = 1 .. Len(messages) /\ Len(messages) \in Nat
  BY LenProperties
<1>2. DOMAIN built = 1 .. Len(messages)
  BY <1>1 DEF BuildTranscript
<1>3. ASSUME NEW i \in 1 .. Len(messages)
      PROVE  /\ built[i] \in SetupMessage
             /\ built[i].sessionIdHex = messages[i].sessionIdHex
             /\ messages[i].sessionIdHex \in SessionIds
             /\ built[i].kind = messages[i].kind
             /\ built[i].sender = messages[i].sender
             /\ built[i].sequence = messages[i].sequence
             /\ messages[i].kind # "ack" => built[i] = messages[i]
             /\ messages[i].kind = "ack" =>
                  /\ built[i].kind = "ack"
                  /\ built[i].acknowledges
                       = PositionAmong(messages[i].acknowledges, SubSeq(messages, 1, i - 1))
  <2>1. PICK m : m = messages[i] /\ WireMessage(m)
    BY PossibleAreWire
  <2>2. PICK n : n = PositionAmong(m.acknowledges, SubSeq(messages, 1, i - 1))
    OBVIOUS
  <2>3. n \in Nat
    BY <2>2, Earlier, PositionIsNatural
  <2>4. built[i] = IF m.kind # "ack" THEN m ELSE [m EXCEPT !.acknowledges = n]
    BY <1>1, <2>1, <2>2 DEF BuildTranscript
  <2>5. /\ m.sessionIdHex \in SessionIds
        /\ m.kind # "ack" => m \in SetupMessage
        /\ m.kind = "ack" =>
             /\ [m EXCEPT !.acknowledges = n] \in AcknowledgementMessage
             /\ [m EXCEPT !.acknowledges = n].kind = "ack"
             /\ [m EXCEPT !.acknowledges = n].sender = m.sender
             /\ [m EXCEPT !.acknowledges = n].sequence = m.sequence
             /\ [m EXCEPT !.acknowledges = n].acknowledges = n
             /\ [m EXCEPT !.acknowledges = n].sessionIdHex = m.sessionIdHex
    BY <2>1, <2>3, WireFields
  <2>6. CASE m.kind # "ack"
    BY <2>1, <2>4, <2>5, <2>6
  <2>7. CASE m.kind = "ack"
    BY <2>1, <2>2, <2>4, <2>5, <2>7 DEF SetupMessage
  <2>8. QED
    BY <2>6, <2>7
<1>4. built = [i \in 1 .. Len(messages) |-> built[i]]
  BY <1>1 DEF BuildTranscript
<1> HIDE DEF built
<1>5. built \in [1 .. Len(messages) -> SetupMessage]
  BY <1>3, <1>4
<1>6. built \in Seq(SetupMessage)
  BY <1>1, <1>5, FunctionIsSequence
<1>7. QED
  BY <1>1, <1>2, <1>3, <1>6 DEF built

(***************************************************************************)
(* Type correctness: what a peer holds is a transcript, whatever was       *)
(* altered on the way.                                                     *)
(***************************************************************************)
THEOREM TypeCorrect == Spec => []TypeOK
<1>1. IInv => TypeOK
  <2> SUFFICES ASSUME IInv PROVE TypeOK
    OBVIOUS
  <2>1. \A p \in Roles : /\ peer[p].setupMessages \in Seq(PossibleMessages)
                         /\ peer[p].adaptorExchange \in PossibleExchanges \cup {NoExchange}
                         /\ peer[p].status \in {"running", "accepted", "rejected", "crashed"}
    BY DEF IInv, Holdings
  <2>2. QED
    BY <2>1, BuiltTranscript, PossibleAreWire DEF IInv, TypeOK
<1>2. QED
  BY <1>1, Invariant, PTL

(***************************************************************************)
(* An acknowledgement both peers of an accepted setup hold names a message *)
(* that both hold.                                                         *)
(***************************************************************************)
THEOREM AcknowledgementsBindBoth == Spec => []AcknowledgementsBind
<1>1. IInv => AcknowledgementsBind
  <2> SUFFICES ASSUME IInv, SetupAccepted, NEW ack, NEW p \in Roles, ack.kind = "ack",
                      ack \in ToSet(peer[p].setupMessages)
               PROVE  ack.acknowledges \in ToSet(peer[p].setupMessages)
    BY DEF AcknowledgementsBind, Roles
  <2>1. PICK held : held = peer[p].setupMessages
    OBVIOUS
  <2>2. held \in Seq(PossibleMessages)
    BY <2>1 DEF IInv, Holdings
  <2>3. PICK i \in 1 .. Len(held) : held[i] = ack
    BY <2>1, <2>2, BuiltTranscript DEF ToSet
  <2>4. PICK built : built = BuildTranscript(held)
    OBVIOUS
  <2>5. ValidTranscript(built)
    BY <2>1, <2>4 DEF IInv, Judged, SetupAccepted, Accepts
  <2>6. built[i].acknowledges # 0
    <3>1. built[i].kind = "ack" /\ i \in DOMAIN built
      BY <2>2, <2>3, <2>4, BuiltTranscript
    <3>2. built[i].acknowledges \in 1 .. Len(SubSeq(built, 1, i - 1))
      BY <2>5, <3>1 DEF ValidTranscript, ValidNext
    <3>3. QED
      BY <3>2
  <2>7. PositionAmong(ack.acknowledges, SubSeq(held, 1, i - 1)) # 0
    BY <2>2, <2>3, <2>4, <2>6, BuiltTranscript
  <2>8. PICK j \in 1 .. i - 1 : held[j] = ack.acknowledges
    <3>1. PICK earlier : earlier = SubSeq(held, 1, i - 1)
      OBVIOUS
    <3>2. DOMAIN earlier = 1 .. i - 1 /\ \A j \in 1 .. i - 1 : earlier[j] = held[j]
      BY <2>2, <3>1, Earlier
    <3>3. PICK j \in DOMAIN earlier : earlier[j] = ack.acknowledges
      <4>1. DOMAIN earlier \subseteq Nat /\ PositionAmong(ack.acknowledges, earlier) # 0
        BY <2>7, <3>1, <3>2
      <4>2. QED
        BY ONLY <4>1, PositionIsNatural, Zenon
    <3>4. QED
      BY <3>2, <3>3
  <2>9. j \in DOMAIN held
    BY <2>2, BuiltTranscript
  <2>10. QED
    BY <2>1, <2>8, <2>9 DEF ToSet
<1>2. QED
  BY <1>1, Invariant, PTL

(***************************************************************************)
(* For each purpose an accepted exchange has one packet, which the         *)
(* oracle's attestation for that purpose completes.                        *)
(***************************************************************************)
THEOREM AcceptedExchangesComplete == Spec => []AcceptedExchangeCompletes
<1>1. IInv => AcceptedExchangeCompletes
  <2> SUFFICES ASSUME IInv, NEW p \in Roles, peer[p].status = "accepted", NEW purpose \in Purposes
               PROVE  \E e \in Entries(peer[p].adaptorExchange) :
                        /\ e.packet.purpose = purpose
                        /\ CompletesFor(e.packet, purpose)
                        /\ \A f \in Entries(peer[p].adaptorExchange) :
                             f.packet.purpose = purpose => f = e
    BY DEF AcceptedExchangeCompletes
  <2>1. PICK entries : entries = Entries(peer[p].adaptorExchange)
    OBVIOUS
  <2>2. OnePacketPerPurpose(entries) /\ \A e \in entries : EntryVerifies(e)
    BY <2>1 DEF IInv, Judged, Accepts, ExchangeAccepted
  <2>3. PICK e \in entries : e.packet.purpose = purpose
    BY <2>2 DEF OnePacketPerPurpose
  <2>4. CompletesFor(e.packet, purpose)
    BY <2>2, <2>3 DEF EntryVerifies, TemplateBindingMatches, AdaptorEquationVerifies, CompletesFor
  <2>5. \A f \in entries : f.packet.purpose = purpose => f = e
    BY <2>2, <2>3 DEF OnePacketPerPurpose
  <2>6. QED
    BY <2>1, <2>3, <2>4, <2>5
<1>2. QED
  BY <1>1, Invariant, PTL

(***************************************************************************)
(* The messages and exchanges of an accepted setup are of one session.     *)
(***************************************************************************)
THEOREM AcceptedSetupsAreOneSession == Spec => []AcceptedIsOneSession
<1>1. IInv => AcceptedIsOneSession
  <2> SUFFICES ASSUME IInv, SetupAccepted
               PROVE  \E s \in SessionIds : \A p \in Roles :
                        /\ \A i \in DOMAIN peer[p].setupMessages :
                             peer[p].setupMessages[i].sessionIdHex = s
                        /\ peer[p].adaptorExchange.sessionIdHex = s
    BY DEF AcceptedIsOneSession
  <2>1. ASSUME NEW p \in Roles
        PROVE  /\ peer[p].setupMessages[1].sessionIdHex \in SessionIds
               /\ \A i \in DOMAIN peer[p].setupMessages :
                    peer[p].setupMessages[i].sessionIdHex = peer[p].setupMessages[1].sessionIdHex
               /\ peer[p].adaptorExchange.sessionIdHex = peer[p].setupMessages[1].sessionIdHex
    <3>1. PICK held : held = peer[p].setupMessages
      OBVIOUS
    <3>2. held \in Seq(PossibleMessages)
      BY <3>1 DEF IInv, Holdings
    <3>3. PICK built : built = BuildTranscript(held)
      OBVIOUS
    <3>4. /\ held # <<>> /\ ValidTranscript(built)
          /\ peer[p].adaptorExchange.sessionIdHex = built[1].sessionIdHex
      BY <3>1, <3>3 DEF IInv, Judged, SetupAccepted, Accepts, ExchangeAccepted, SessionMatches
    <3>5. 1 \in 1 .. Len(held)
      BY <3>2, <3>4
    <3>6. \A i \in 1 .. Len(held) : built[i].sessionIdHex = built[1].sessionIdHex
      BY <3>2, <3>3, <3>4, BuiltTranscript DEF ValidTranscript, ValidNext
    <3>7. /\ DOMAIN held = 1 .. Len(held)
          /\ \A i \in 1 .. Len(held) : /\ built[i].sessionIdHex = held[i].sessionIdHex
                                       /\ held[i].sessionIdHex \in SessionIds
      BY <3>2, <3>3, BuiltTranscript
    <3>8. QED
      BY ONLY <3>1, <3>4, <3>5, <3>6, <3>7
  <2>2. peer["alice"].setupMessages[1].sessionIdHex = peer["bob"].setupMessages[1].sessionIdHex
    BY DEF SetupAccepted, TemplateDigest
  <2>3. QED
    BY <2>1, <2>2 DEF Roles
<1>2. QED
  BY <1>1, Invariant, PTL

-----------------------------------------------------------------------------
(***************************************************************************)
(* Induction over the positions of a sequence, by the least position at    *)
(* which a set has a gap.                                                  *)
(***************************************************************************)
LEMMA PositionInduction ==
  ASSUME NEW n \in Nat, NEW T, 0 \in T, \A k \in 1 .. n : k - 1 \in T => k \in T
  PROVE  \A k \in 0 .. n : k \in T
<1>1. ASSUME (0 .. n) \ T # {}
      PROVE  FALSE
  <2>1. PICK W : W = (0 .. n) \ T
    OBVIOUS
  <2>2. W \subseteq Nat /\ W # {}
    BY <1>1, <2>1
  <2>3. IsWellFoundedOn(OpToRel(<, Nat), Nat)
    BY NatLessThanWellFounded
  <2>4. PICK k \in W : \A y \in W : <<y, k>> \notin OpToRel(<, Nat)
    BY <2>2, <2>3, WFMin
  <2>5. \A y \in W : ~ (y < k)
    BY <2>2, <2>4 DEF OpToRel
  <2>6. k \in 1 .. n /\ k \notin T
    BY <2>1
  <2>7. k - 1 \in 0 .. n /\ k - 1 \notin W
    BY <2>5, <2>6
  <2>8. QED
    BY <2>1, <2>6, <2>7
<1>2. QED
  BY <1>1

(***************************************************************************)
(* The replay of a transcript is the last of a sequence of machines, one   *)
(* for each message and one before all of them: the recursive function of  *)
(* Replay has the value its equation says.                                 *)
(***************************************************************************)
IsReplay(after, messages, n) ==
  after = [k \in 0 .. n |->
             IF k = 0 THEN {InitialState(messages[1].sessionIdHex)}
                      ELSE ReplayMessage(after[k - 1], messages[k])]

LEMMA ReplayExists ==
  ASSUME NEW messages, NEW n \in Nat
  PROVE  \E after : IsReplay(after, messages, n)
<1> DEFINE T == {k \in Nat : \E after : IsReplay(after, messages, k)}
<1>1. 0 \in T
  <2>1. IsReplay([k \in 0 .. 0 |-> {InitialState(messages[1].sessionIdHex)}], messages, 0)
    BY DEF IsReplay
  <2>2. QED
    BY <2>1
<1>2. ASSUME NEW k \in 1 .. n, k - 1 \in T
      PROVE  k \in T
  <2>1. PICK before : IsReplay(before, messages, k - 1)
    BY <1>2
  <2>2. PICK after : after = [j \in 0 .. k |-> IF j = k THEN ReplayMessage(before[k - 1], messages[k])
                                                       ELSE before[j]]
    OBVIOUS
  <2>3. \A j \in 0 .. k - 1 : after[j] = before[j]
    BY <2>2
  <2>4. ASSUME NEW j \in 0 .. k
        PROVE  after[j] = IF j = 0 THEN {InitialState(messages[1].sessionIdHex)}
                                   ELSE ReplayMessage(after[j - 1], messages[j])
    <3>1. CASE j = k
      BY <2>2, <2>3, <3>1
    <3>2. CASE j # k
      <4>1. j \in 0 .. k - 1 /\ (j # 0 => j - 1 \in 0 .. k - 1)
        BY <3>2
      <4>2. before[j] = IF j = 0 THEN {InitialState(messages[1].sessionIdHex)}
                                 ELSE ReplayMessage(before[j - 1], messages[j])
        BY <2>1, <4>1 DEF IsReplay
      <4>3. QED
        BY <2>3, <4>1, <4>2
    <3>3. QED
      BY <3>1, <3>2
  <2>5. IsReplay(after, messages, k)
    BY <2>2, <2>4 DEF IsReplay
  <2>6. QED
    BY <2>5
<1> HIDE DEF T
<1>3. \A k \in 0 .. n : k \in T
  BY <1>1, <1>2, PositionInduction
<1>4. QED
  BY <1>3 DEF T

LEMMA ReplayIs ==
  ASSUME NEW messages, Len(messages) \in Nat
  PROVE  \E after : /\ IsReplay(after, messages, Len(messages))
                    /\ Replay(messages) = after[Len(messages)]
<1> DEFINE after[n \in 0 .. Len(messages)] ==
             IF n = 0 THEN {InitialState(messages[1].sessionIdHex)}
                      ELSE ReplayMessage(after[n - 1], messages[n])
           Solves(f) == f = [n \in 0 .. Len(messages) |->
                               IF n = 0 THEN {InitialState(messages[1].sessionIdHex)}
                                        ELSE ReplayMessage(f[n - 1], messages[n])]
<1>1. after = CHOOSE f : Solves(f)
  OBVIOUS
<1>2. Replay(messages) = after[Len(messages)]
  BY DEF Replay
<1>3. \A f : Solves(f) <=> IsReplay(f, messages, Len(messages))
  BY DEF IsReplay
<1> HIDE DEF after, Solves
<1>4. Solves(CHOOSE f : Solves(f))
  BY <1>3, ReplayExists, Zenon
<1>5. QED
  BY <1>1, <1>2, <1>3, <1>4

-----------------------------------------------------------------------------
(***************************************************************************)
(* The shape of a setup: which kind of message stands at a position, and   *)
(* the state the machine is in after so many messages, as long as the      *)
(* acknowledgements do not complete it.                                    *)
(***************************************************************************)
OrderedKinds ==
  <<"role_announcement", "role_announcement", "oracle_event_selection", "funding_inputs",
    "payout_graph", "cet_templates", "bridge_templates", "refund_templates", "adaptor_points">>

KindAt(i) == IF i <= 9 THEN OrderedKinds[i] ELSE "ack"

StateAfter(n) ==
  IF n < 2 THEN "initialized" ELSE IF n = 2 THEN "roles_announced" ELSE LeadsTo[KindAt(n)]

LEMMA KindAtIs ==
  /\ \A i \in 1 .. 2 : KindAt(i) = "role_announcement"
  /\ KindAt(3) = "oracle_event_selection" /\ KindAt(4) = "funding_inputs"
  /\ KindAt(5) = "payout_graph" /\ KindAt(6) = "cet_templates"
  /\ KindAt(7) = "bridge_templates" /\ KindAt(8) = "refund_templates"
  /\ KindAt(9) = "adaptor_points"
  /\ \A i \in Nat : i > 9 => KindAt(i) = "ack"
<1>1. /\ OrderedKinds[1] = "role_announcement" /\ OrderedKinds[2] = "role_announcement"
      /\ OrderedKinds[3] = "oracle_event_selection" /\ OrderedKinds[4] = "funding_inputs"
      /\ OrderedKinds[5] = "payout_graph" /\ OrderedKinds[6] = "cet_templates"
      /\ OrderedKinds[7] = "bridge_templates" /\ OrderedKinds[8] = "refund_templates"
      /\ OrderedKinds[9] = "adaptor_points"
  BY DEF OrderedKinds
<1>2. \A i \in 1 .. 2 : i = 1 \/ i = 2
  OBVIOUS
<1>3. QED
  BY <1>1, <1>2 DEF KindAt

LEMMA StateAfterIs ==
  /\ StateAfter(0) = "initialized" /\ StateAfter(1) = "initialized"
  /\ StateAfter(2) = "roles_announced" /\ StateAfter(3) = "oracle_selected"
  /\ StateAfter(4) = "funding_validated" /\ StateAfter(5) = "payout_graph_agreed"
  /\ StateAfter(6) = "cet_templates_agreed" /\ StateAfter(7) = "bridge_templates_agreed"
  /\ StateAfter(8) = "refund_templates_agreed" /\ StateAfter(9) = "adaptor_points_exchanged"
BY KindAtIs DEF StateAfter, LeadsTo

LEMMA UpToNine ==
  ASSUME NEW n \in 0 .. 9
  PROVE  n \in {0, 1, 2, 3, 4, 5, 6, 7, 8, 9}
OBVIOUS

\* Each agreement has one place.
LEMMA AgreementPlace ==
  ASSUME NEW kind \in AgreementKinds, NEW n \in 0 .. 9, StateAfter(n) = Requires[kind]
  PROVE  /\ n \in 2 .. 8 /\ KindAt(n + 1) = kind /\ StateAfter(n + 1) = LeadsTo[kind]
<1>1. kind \in {"oracle_event_selection", "funding_inputs", "payout_graph", "cet_templates",
                "bridge_templates", "refund_templates", "adaptor_points"}
  BY DEF AgreementKinds, ListKinds
<1>2. PICK required : required = Requires[kind]
  OBVIOUS
<1>3. \/ kind = "oracle_event_selection" /\ required = "roles_announced"
      \/ kind = "funding_inputs" /\ required = "oracle_selected"
      \/ kind = "payout_graph" /\ required = "funding_validated"
      \/ kind = "cet_templates" /\ required = "payout_graph_agreed"
      \/ kind = "bridge_templates" /\ required = "cet_templates_agreed"
      \/ kind = "refund_templates" /\ required = "bridge_templates_agreed"
      \/ kind = "adaptor_points" /\ required = "refund_templates_agreed"
  BY <1>1, <1>2 DEF Requires
<1>4. n \in 2 .. 8 /\ KindAt(n + 1) = kind
  BY <1>2, <1>3, StateAfterIs, KindAtIs, UpToNine
<1>5. StateAfter(n + 1) = LeadsTo[KindAt(n + 1)]
  BY <1>4 DEF StateAfter
<1>6. QED
  BY <1>4, <1>5

LEMMA StateAfterLow ==
  ASSUME NEW n \in 0 .. 8
  PROVE  ~ AtLeast(StateAfter(n), "adaptor_points_exchanged")
<1>1. n \in {0, 1, 2, 3, 4, 5, 6, 7, 8}
  OBVIOUS
<1>2. StateAfter(n) \in {"initialized", "roles_announced", "oracle_selected", "funding_validated",
                         "payout_graph_agreed", "cet_templates_agreed",
                         "bridge_templates_agreed", "refund_templates_agreed"}
  BY <1>1, StateAfterIs
<1>3. QED
  BY <1>2 DEF AtLeast, Rank

(***************************************************************************)
(* What a machine knows after n messages, and what the messages are.       *)
(***************************************************************************)
Prefix(messages, n) ==
  /\ \A i \in 1 .. n : /\ messages[i].kind = KindAt(i)
                       /\ messages[i].sequence = i
                       /\ messages[i].sessionIdHex = messages[1].sessionIdHex
                       /\ i <= 2 => messages[i].role = messages[i].sender
  /\ n >= 2 => messages[1].sender # messages[2].sender

Senders(messages, positions) == {messages[i].sender : i \in positions}

Shape(machine, messages, n) ==
  /\ machine \in [state: States, sessionIdHex: {messages[1].sessionIdHex}, nextSequence: {n + 1},
                  roleAnnouncements: {Senders(messages, 1 .. n \cap 1 .. 2)},
                  acceptedBy: {Senders(messages, 10 .. n)}, retained: SUBSET RetainedFlags]
  /\ machine.state = IF n <= 9 THEN StateAfter(n)
                     ELSE IF machine.acceptedBy = Roles THEN "setup_accepted"
                     ELSE "adaptor_points_exchanged"
  /\ Prefix(messages, n)

LEMMA ShapeAfter ==
  ASSUME NEW messages, NEW n \in Nat, NEW before, Shape(before, messages, n),
         NEW state \in States, NEW retained \in SUBSET RetainedFlags,
         NEW after,
         after = [state |-> state, sessionIdHex |-> before.sessionIdHex,
                  nextSequence |-> before.nextSequence + 1,
                  roleAnnouncements |-> Senders(messages, 1 .. n + 1 \cap 1 .. 2),
                  acceptedBy |-> Senders(messages, 10 .. n + 1), retained |-> retained],
         state = IF n + 1 <= 9 THEN StateAfter(n + 1)
                 ELSE IF after.acceptedBy = Roles THEN "setup_accepted"
                 ELSE "adaptor_points_exchanged",
         Prefix(messages, n + 1)
  PROVE  Shape(after, messages, n + 1)
BY DEF Shape

\* A machine has the fields of a machine and no others.
LEMMA ShapeFields ==
  ASSUME NEW messages, NEW n, NEW machine, Shape(machine, messages, n)
  PROVE  /\ machine = [state |-> machine.state, sessionIdHex |-> machine.sessionIdHex,
                       nextSequence |-> machine.nextSequence,
                       roleAnnouncements |-> machine.roleAnnouncements,
                       acceptedBy |-> machine.acceptedBy, retained |-> machine.retained]
         /\ machine.roleAnnouncements = Senders(messages, 1 .. n \cap 1 .. 2)
         /\ machine.acceptedBy = Senders(messages, 10 .. n)
         /\ machine.retained \in SUBSET RetainedFlags /\ machine.state \in States
BY DEF Shape

LEMMA ShapeStep ==
  ASSUME NEW messages \in Seq(SetupMessage), NEW n \in Nat, n < Len(messages),
         NEW before, Shape(before, messages, n),
         NEW after \in ReplayMessage({before}, messages[n + 1])
  PROVE  Shape(after, messages, n + 1)
<1>0. /\ before = [state |-> before.state, sessionIdHex |-> before.sessionIdHex,
                   nextSequence |-> before.nextSequence,
                   roleAnnouncements |-> before.roleAnnouncements,
                   acceptedBy |-> before.acceptedBy, retained |-> before.retained]
      /\ before.roleAnnouncements = Senders(messages, 1 .. n \cap 1 .. 2)
      /\ before.acceptedBy = Senders(messages, 10 .. n)
      /\ before.retained \in SUBSET RetainedFlags /\ before.state \in States
  BY ShapeFields
<1>1. PICK m \in SetupMessage : m = messages[n + 1]
  OBVIOUS
<1>2. SetupMessageApplies(before, m) /\ after = AfterSetupMessage(before, m)
  BY <1>1 DEF ReplayMessage
<1>3. /\ m.sessionIdHex = messages[1].sessionIdHex /\ m.sequence = n + 1
      /\ m.sender \in Roles
  BY <1>2 DEF Shape, SetupMessageApplies, SetupMessage, RoleAnnouncementMessage, ListMessage,
              FundingInputsMessage, AcknowledgementMessage
<1>4. n >= 2 => Senders(messages, 1 .. n \cap 1 .. 2) = Roles
  <2>1. n >= 2 => 1 .. n \cap 1 .. 2 = {1, 2}
    OBVIOUS
  <2>2. \A i \in 1 .. Len(messages) : messages[i] \in SetupMessage
    OBVIOUS
  <2>3. n >= 2 => messages[1].sender \in Roles /\ messages[2].sender \in Roles
    BY <2>2 DEF SetupMessage, RoleAnnouncementMessage, ListMessage,
                FundingInputsMessage, AcknowledgementMessage
  <2>4. QED
    BY <2>1, <2>3 DEF Senders, Roles, Shape, Prefix
<1>5. ASSUME m.kind = KindAt(n + 1),
             n + 1 <= 2 => m.role = m.sender,
             n + 1 = 2 => messages[1].sender # m.sender
      PROVE  Prefix(messages, n + 1)
  <2>1. ASSUME NEW i \in 1 .. n + 1
        PROVE  /\ messages[i].kind = KindAt(i)
               /\ messages[i].sequence = i
               /\ messages[i].sessionIdHex = messages[1].sessionIdHex
               /\ i <= 2 => messages[i].role = messages[i].sender
    <3>1. CASE i \in 1 .. n
      BY <3>1 DEF Shape, Prefix
    <3>2. CASE i = n + 1
      BY <3>2, <1>1, <1>3, <1>5
    <3>3. QED
      BY <3>1, <3>2
  <2>2. n + 1 >= 2 => messages[1].sender # messages[2].sender
    BY <1>1, <1>5 DEF Shape, Prefix
  <2>3. QED
    BY <2>1, <2>2 DEF Prefix
<1>6. CASE RoleAnnouncementApplies(before, m)
  <2>1. n \in 0 .. 1
    BY <1>3, <1>4, <1>6 DEF RoleAnnouncementApplies, Shape
  <2>2. n = 1 => messages[1].sender # m.sender
    BY <1>6 DEF RoleAnnouncementApplies, Shape, Senders
  <2>3. Prefix(messages, n + 1)
    BY <1>5, <1>6, <2>1, <2>2, KindAtIs DEF RoleAnnouncementApplies
  <2>4. PICK announced : announced = Senders(messages, 1 .. n + 1 \cap 1 .. 2)
    OBVIOUS
  <2>5. announced = before.roleAnnouncements \cup {m.sender}
    BY <1>1, <2>1, <2>4 DEF Shape, Senders
  <2>6. after = [before EXCEPT !.roleAnnouncements = announced,
                               !.retained = before.retained \cup {RoleFlag(m.sender)},
                               !.state = IF announced = Roles THEN "roles_announced" ELSE before.state,
                               !.nextSequence = before.nextSequence + 1]
    BY <1>2, <1>6, <2>5 DEF AfterSetupMessage, AfterRoleAnnouncement, RoleAnnouncementApplies, Shape
  <2>7. announced = Roles <=> n = 1
    <3>1. n = 0 => announced = {m.sender}
      BY <1>1, <2>4 DEF Senders
    <3>2. n = 1 => announced = {messages[1].sender, m.sender} /\ messages[1].sender \in Roles
      <4>1. n = 1 => messages[1] \in SetupMessage
        OBVIOUS
      <4>2. QED
        BY <1>1, <2>4, <4>1 DEF Senders, SetupMessage, RoleAnnouncementMessage, ListMessage,
                FundingInputsMessage, AcknowledgementMessage
    <3>3. CASE n = 0
      BY <3>1, <3>3 DEF Roles
    <3>4. CASE n = 1
      <4>1. /\ announced = {messages[1].sender, m.sender} /\ messages[1].sender # m.sender
            /\ messages[1].sender \in {"alice", "bob"} /\ m.sender \in {"alice", "bob"}
        BY <1>3, <2>2, <3>2, <3>4 DEF Roles
      <4>2. announced = {"alice", "bob"}
        BY ONLY <4>1
      <4>3. QED
        BY <3>4, <4>2 DEF Roles
    <3>5. QED
      BY <2>1, <3>3, <3>4
  <2>8. after.state = StateAfter(n + 1) /\ before.state = "initialized"
    BY <2>1, <2>6, <2>7, StateAfterIs DEF Shape
  <2>9. Senders(messages, 10 .. n + 1) = Senders(messages, 10 .. n)
    <3>1. 10 .. n + 1 = 10 .. n
      BY <2>1
    <3>2. QED
      BY <3>1
  <2>10. {RoleFlag(m.sender)} \subseteq RetainedFlags /\ after.state \in States
    BY <2>1, <2>8, StateAfterIs DEF RoleFlag, RetainedFlags, RoleFlags, States, Rank
  <2>11. PICK retained \in SUBSET RetainedFlags :
           retained = before.retained \cup {RoleFlag(m.sender)}
    BY <2>10, <1>0
  <2>12. after = [state |-> after.state, sessionIdHex |-> before.sessionIdHex,
                  nextSequence |-> before.nextSequence + 1, roleAnnouncements |-> announced,
                  acceptedBy |-> before.acceptedBy, retained |-> retained]
    BY <2>6, <2>11, <1>0
  <2>13. before.acceptedBy = Senders(messages, 10 .. n + 1)
    BY <2>9, <1>0
  <2>14. n + 1 <= 9
    BY <2>1
  <2>15. QED
    BY <2>3, <2>4, <2>8, <2>10, <2>12, <2>13, <2>14, ShapeAfter
<1>7. CASE AgreementApplies(before, m)
  <2>1. n \in 0 .. 9
    <3>1. ASSUME n > 9
          PROVE  FALSE
      <4>1. before.state \in {"setup_accepted", "adaptor_points_exchanged"}
        BY <3>1 DEF Shape
      <4>2. m.kind \in DOMAIN Requires /\ before.state = Requires[m.kind]
        BY <1>7 DEF AgreementApplies, AgreementKinds, ListKinds, Requires
      <4>3. \A kind \in DOMAIN Requires :
              Requires[kind] \notin {"setup_accepted", "adaptor_points_exchanged"}
        BY DEF Requires
      <4>4. QED
        BY <4>1, <4>2, <4>3
    <3>2. QED
      BY <3>1
  <2>2. /\ m.kind \in AgreementKinds
        /\ n \in 2 .. 8 /\ KindAt(n + 1) = m.kind /\ StateAfter(n + 1) = LeadsTo[m.kind]
    BY <1>7, <2>1, AgreementPlace DEF AgreementApplies, Shape
  <2>3. Prefix(messages, n + 1)
    BY <1>5, <2>2
  <2>4. m.kind # "role_announcement" /\ m.kind # "ack"
    BY <2>2 DEF AgreementKinds, ListKinds
  <2>5. after = [before EXCEPT !.retained = before.retained \cup {m.kind},
                               !.state = LeadsTo[m.kind],
                               !.nextSequence = before.nextSequence + 1]
    BY <1>2, <2>4 DEF AfterSetupMessage, AfterAgreement
  <2>6. 10 .. n + 1 = 10 .. n /\ (1 .. n + 1) \cap (1 .. 2) = (1 .. n) \cap (1 .. 2)
    BY <2>2
  <2>7. StateAfter(n + 1) \in States
    <3>1. n + 1 \in {3, 4, 5, 6, 7, 8, 9}
      BY <2>2
    <3>2. QED
      BY <3>1, StateAfterIs DEF States, Rank
  <2>8. {m.kind} \subseteq RetainedFlags
    BY <2>2 DEF RetainedFlags
  <2>9. PICK retained \in SUBSET RetainedFlags : retained = before.retained \cup {m.kind}
    BY <2>8, <1>0
  <2>10. after = [state |-> StateAfter(n + 1), sessionIdHex |-> before.sessionIdHex,
                  nextSequence |-> before.nextSequence + 1,
                  roleAnnouncements |-> before.roleAnnouncements,
                  acceptedBy |-> before.acceptedBy, retained |-> retained]
    BY <2>2, <2>5, <2>9, <1>0
  <2>11. /\ before.acceptedBy = Senders(messages, 10 .. n + 1)
         /\ before.roleAnnouncements = Senders(messages, 1 .. n + 1 \cap 1 .. 2)
    BY <2>6, <1>0
  <2>12. n + 1 <= 9
    BY <2>2
  <2>13. QED
    BY <2>3, <2>7, <2>10, <2>11, <2>12, ShapeAfter
<1>8. CASE AcknowledgementApplies(before, m)
  <2>1. n >= 9
    <3>1. n \in 0 .. 8 => before.state = StateAfter(n)
      BY DEF Shape
    <3>2. QED
      BY <1>8, <3>1, StateAfterLow DEF AcknowledgementApplies
  <2>2. before.state \in {"adaptor_points_exchanged", "setup_accepted"}
        /\ (before.acceptedBy = Roles <=> before.state = "setup_accepted")
    <3>1. CASE n = 9
      <4>1. 10 .. n = {}
        BY <3>1
      <4>2. before.acceptedBy = {}
        BY <4>1 DEF Shape, Senders
      <4>3. QED
        BY <3>1, <4>2, StateAfterIs DEF Shape, Roles
    <3>2. CASE n > 9
      BY <3>2 DEF Shape
    <3>3. QED
      BY <2>1, <3>1, <3>2
  <2>3. Prefix(messages, n + 1)
    BY <1>5, <1>8, <2>1, KindAtIs DEF AcknowledgementApplies
  <2>4. PICK accepted : accepted = Senders(messages, 10 .. n + 1)
    OBVIOUS
  <2>5. accepted = before.acceptedBy \cup {m.sender}
    <3>1. 10 .. n + 1 = (10 .. n) \cup {n + 1}
      BY <2>1
    <3>2. accepted = Senders(messages, 10 .. n) \cup {m.sender}
      BY <1>1, <2>4, <3>1 DEF Senders
    <3>3. QED
      BY <3>2 DEF Shape
  <2>6. after = [before EXCEPT !.acceptedBy = accepted,
                               !.state = IF accepted = Roles THEN "setup_accepted" ELSE before.state,
                               !.nextSequence = before.nextSequence + 1]
    BY <1>2, <1>8, <2>5 DEF AfterSetupMessage, AfterAcknowledgement, AcknowledgementApplies
  <2>7. before.acceptedBy = Roles => accepted = Roles
    BY <1>3, <2>5
  <2>8. (1 .. n + 1) \cap (1 .. 2) = (1 .. n) \cap (1 .. 2)
    BY <2>1
  <2>9. after.state = IF accepted = Roles THEN "setup_accepted" ELSE "adaptor_points_exchanged"
    BY <2>2, <2>6, <2>7 DEF Shape
  <2>10. after = [state |-> after.state, sessionIdHex |-> before.sessionIdHex,
                  nextSequence |-> before.nextSequence + 1,
                  roleAnnouncements |-> before.roleAnnouncements,
                  acceptedBy |-> accepted, retained |-> before.retained]
    BY <2>6, <1>0
  <2>11. before.roleAnnouncements = Senders(messages, 1 .. n + 1 \cap 1 .. 2)
    BY <2>8, <1>0
  <2>12. after.state \in States /\ after.acceptedBy = accepted /\ ~ (n + 1 <= 9)
    BY <2>1, <2>6, <2>9, <1>0 DEF States, Rank
  <2>13. QED
    BY <2>3, <2>4, <2>9, <2>10, <2>11, <2>12, ShapeAfter, <1>0
<1>9. QED
  BY <1>2, <1>6, <1>7, <1>8 DEF SetupMessageApplies

LEMMA InitialShape ==
  ASSUME NEW messages
  PROVE  Shape(InitialState(messages[1].sessionIdHex), messages, 0)
<1>1. Senders(messages, 1 .. 0 \cap 1 .. 2) = {} /\ Senders(messages, 10 .. 0) = {}
  BY DEF Senders
<1>2. Prefix(messages, 0)
  BY DEF Prefix
<1>3. QED
  BY <1>1, <1>2, StateAfterIs DEF Shape, InitialState, States, Rank

LEMMA ReplayHasShape ==
  ASSUME NEW messages \in Seq(SetupMessage), NEW machine \in Replay(messages)
  PROVE  Shape(machine, messages, Len(messages))
<1>1. PICK n \in Nat : n = Len(messages)
  BY LenProperties
<1>2. PICK after : IsReplay(after, messages, n) /\ Replay(messages) = after[n]
  BY <1>1, ReplayIs
<1> DEFINE T == {k \in 0 .. n : \A m \in after[k] : Shape(m, messages, k)}
<1>3. 0 \in T
  <2>1. after[0] = {InitialState(messages[1].sessionIdHex)}
    BY <1>2 DEF IsReplay
  <2>2. QED
    BY <2>1, InitialShape
<1>4. ASSUME NEW k \in 1 .. n, k - 1 \in T
      PROVE  k \in T
  <2>1. after[k] = ReplayMessage(after[k - 1], messages[k])
    <3>1. k \in 0 .. n /\ k # 0
      OBVIOUS
    <3>2. after = [j \in 0 .. n |-> IF j = 0 THEN {InitialState(messages[1].sessionIdHex)}
                                            ELSE ReplayMessage(after[j - 1], messages[j])]
      BY <1>2 DEF IsReplay
    <3>3. QED
      BY ONLY <3>1, <3>2
  <2>2. ASSUME NEW m \in after[k]
        PROVE  Shape(m, messages, k)
    <3>1. PICK before \in after[k - 1] : m \in ReplayMessage({before}, messages[k])
      BY <2>1 DEF ReplayMessage
    <3>2. Shape(before, messages, k - 1) /\ k - 1 \in Nat /\ k - 1 < Len(messages) /\ (k - 1) + 1 = k
      BY <1>1, <1>4
    <3>3. QED
      BY <3>1, <3>2, ShapeStep
  <2>3. QED
    BY <2>2
<1>5. n \in 0 .. n
  OBVIOUS
<1>6. n \in T
  <2> HIDE DEF T
  <2> QED
    BY <1>3, <1>4, <1>5, PositionInduction
<1>7. QED
  BY <1>1, <1>2, <1>6

(***************************************************************************)
(* A whole setup: the two announcements, the seven agreements in their     *)
(* order, then acknowledgements of both roles.                             *)
(***************************************************************************)
WholeSetup(messages) ==
  /\ Len(messages) >= 11
  /\ \A i \in 1 .. Len(messages) : /\ messages[i].kind = KindAt(i)
                                   /\ messages[i].sequence = i
                                   /\ messages[i].sessionIdHex = messages[1].sessionIdHex
                                   /\ i <= 2 => messages[i].role = messages[i].sender
  /\ Senders(messages, {1, 2}) = Roles
  /\ Senders(messages, 10 .. Len(messages)) = Roles

LEMMA AcceptedReplayIsWhole ==
  ASSUME NEW messages \in Seq(SetupMessage), ReplayReachesAcceptance(messages)
  PROVE  WholeSetup(messages)
<1>1. PICK n \in Nat : n = Len(messages)
  BY LenProperties
<1>2. PICK machine : Shape(machine, messages, n) /\ machine.state = "setup_accepted"
  BY <1>1, ReplayHasShape DEF ReplayReachesAcceptance
<1>3. n > 9
  <2>1. n \in 0 .. 9 => machine.state = StateAfter(n)
    BY <1>2 DEF Shape
  <2>2. n \in 0 .. 9 => machine.state # "setup_accepted"
    BY <2>1, StateAfterIs, UpToNine
  <2>3. QED
    BY <1>2, <2>2
<1>4. Senders(messages, 10 .. n) = Roles
  BY <1>2, <1>3 DEF Shape
<1>5. n >= 11
  <2>1. n = 10 => 10 .. n = {10}
    OBVIOUS
  <2>2. n = 10 => Senders(messages, 10 .. n) = {messages[10].sender}
    BY <2>1 DEF Senders
  <2>3. n # 10
    BY <1>4, <2>2 DEF Roles
  <2>4. QED
    BY <1>3, <2>3
<1>6. Senders(messages, {1, 2}) = Roles
  <2>1. Senders(messages, {1, 2}) = {messages[1].sender, messages[2].sender}
    BY DEF Senders
  <2>2. messages[1] \in SetupMessage /\ messages[2] \in SetupMessage
    BY <1>1, <1>5
  <2>3. messages[1].sender \in {"alice", "bob"} /\ messages[2].sender \in {"alice", "bob"}
    BY <2>2 DEF SetupMessage, RoleAnnouncementMessage, ListMessage, FundingInputsMessage,
                AcknowledgementMessage, Roles
  <2>4. messages[1].sender # messages[2].sender
    BY <1>2, <1>5 DEF Shape, Prefix
  <2>5. QED
    BY <2>1, <2>3, <2>4 DEF Roles
<1>7. Prefix(messages, n)
  BY <1>2 DEF Shape
<1>8. QED
  BY <1>1, <1>4, <1>5, <1>6, <1>7 DEF WholeSetup, Prefix

\* What the peer holds is the transcript it built, but for the digests.
LEMMA WholeSetupIsHeld ==
  ASSUME NEW held \in Seq(PossibleMessages), WholeSetup(BuildTranscript(held))
  PROVE  WholeSetup(held)
<1> DEFINE built == BuildTranscript(held)
<1>1. /\ DOMAIN built = 1 .. Len(held) /\ built \in Seq(SetupMessage)
      /\ \A i \in 1 .. Len(held) :
           /\ built[i].kind = held[i].kind
           /\ built[i].sender = held[i].sender
           /\ built[i].sequence = held[i].sequence
           /\ built[i].sessionIdHex = held[i].sessionIdHex
           /\ held[i].kind # "ack" => built[i] = held[i]
  BY BuiltTranscript
<1>2. Len(built) = Len(held) /\ Len(held) \in Nat
  BY <1>1, LenProperties
<1> HIDE DEF built
<1>3. PICK n \in Nat : n = Len(held)
  BY <1>2
<1>4. /\ n >= 11
      /\ \A i \in 1 .. n : /\ built[i].kind = KindAt(i)
                           /\ built[i].sequence = i
                           /\ built[i].sessionIdHex = built[1].sessionIdHex
                           /\ i <= 2 => built[i].role = built[i].sender
      /\ Senders(built, {1, 2}) = Roles
      /\ Senders(built, 10 .. n) = Roles
  BY <1>2, <1>3 DEF WholeSetup, built
<1>5. ASSUME NEW S \in SUBSET (1 .. n)
      PROVE  Senders(held, S) = Senders(built, S)
  BY <1>1, <1>3 DEF Senders
<1>6. {1, 2} \subseteq 1 .. n /\ 10 .. n \subseteq 1 .. n
  BY <1>4
<1>7. Senders(held, {1, 2}) = Roles /\ Senders(held, 10 .. n) = Roles
  BY <1>4, <1>5, <1>6
<1>8. ASSUME NEW i \in 1 .. n
      PROVE  /\ held[i].kind = KindAt(i)
             /\ held[i].sequence = i
             /\ held[i].sessionIdHex = held[1].sessionIdHex
             /\ i <= 2 => held[i].role = held[i].sender
  <2>1. held[i].kind = KindAt(i) /\ held[i].sequence = i
        /\ held[i].sessionIdHex = held[1].sessionIdHex
    BY <1>1, <1>3, <1>4
  <2>2. i <= 2 => built[i] = held[i]
    BY <1>1, <1>3, <2>1, KindAtIs
  <2>3. QED
    BY <1>4, <2>1, <2>2
<1>9. QED
  BY <1>3, <1>4, <1>7, <1>8 DEF WholeSetup

(***************************************************************************)
(* An accepted peer holds a whole setup, however its lines were lost,      *)
(* repeated, reordered or altered: announcements of both roles, the seven  *)
(* agreements in their order, acknowledgements of both roles, numbered     *)
(* without a gap, of one session, and nothing else.                        *)
(***************************************************************************)
THEOREM AcceptedPeersHoldWholeSetups ==
  Spec => [](\A p \in Roles : peer[p].status = "accepted" => WholeSetup(peer[p].setupMessages))
<1>1. IInv => \A p \in Roles : peer[p].status = "accepted" => WholeSetup(peer[p].setupMessages)
  <2> SUFFICES ASSUME IInv, NEW p \in Roles, peer[p].status = "accepted"
               PROVE  WholeSetup(peer[p].setupMessages)
    OBVIOUS
  <2>1. PICK held : held = peer[p].setupMessages
    OBVIOUS
  <2>2. held \in Seq(PossibleMessages)
    BY <2>1 DEF IInv, Holdings
  <2>3. ReplayReachesAcceptance(BuildTranscript(held))
    BY <2>1 DEF IInv, Judged, Accepts
  <2>4. QED
    BY <2>1, <2>2, <2>3, BuiltTranscript, AcceptedReplayIsWhole, WholeSetupIsHeld
<1>2. QED
  BY <1>1, Invariant, PTL

(***************************************************************************)
(* The envelopes of the canonical messages, which are the same for every   *)
(* session but for its name.                                               *)
(***************************************************************************)
CanonicalAuthor ==
  <<"alice", "bob", "alice", "alice", "alice", "alice", "bob", "bob", "alice", "alice", "bob">>

LEMMA CanonicalEnvelopes ==
  ASSUME NEW s \in Sessions, NEW i \in 1 .. 11
  PROVE  /\ CanonicalMessages[s][i].kind = KindAt(i)
         /\ CanonicalMessages[s][i].sequence = i
         /\ CanonicalMessages[s][i].sessionIdHex = s
         /\ CanonicalMessages[s][i].sender = CanonicalAuthor[i]
         /\ Envelope(CanonicalMessages[s][i])
              = [kind |-> KindAt(i), sequence |-> i, sessionIdHex |-> s, by |-> CanonicalAuthor[i]]
<1> DEFINE points == List(s, 9, "adaptor_points", "alice")
           aliceAck == Acknowledgement(s, 10, "alice", points)
           bobAck == Acknowledgement(s, 11, "bob", aliceAck)
           inputs == [kind |-> "funding_inputs", sender |-> "alice", sessionIdHex |-> s,
                      sequence |-> 4,
                      fundingInputs |-> {CanonicalInput("alice"), CanonicalInput("bob")}]
           Has(m, n, kind, by) ==
             /\ m.kind = kind /\ m.sequence = n /\ m.sessionIdHex = s /\ m.sender = by
             /\ Envelope(m) = [kind |-> kind, sequence |-> n, sessionIdHex |-> s, by |-> by]
<1>1. CanonicalMessages[s] =
        << Announcement(s, 1, "alice"), Announcement(s, 2, "bob"),
           List(s, 3, "oracle_event_selection", "alice"), inputs,
           List(s, 5, "payout_graph", "alice"), List(s, 6, "cet_templates", "alice"),
           List(s, 7, "bridge_templates", "bob"), List(s, 8, "refund_templates", "bob"),
           points, aliceAck, bobAck >>
  BY DEF CanonicalMessages
<1>2. ASSUME NEW n, NEW by
      PROVE  Has(Announcement(s, n, by), n, "role_announcement", by)
  BY DEF Announcement, Envelope
<1>3. ASSUME NEW n, NEW by, NEW kind \in ListKinds
      PROVE  Has(List(s, n, kind, by), n, kind, by)
  BY DEF List, Envelope, ListKinds
<1>4. ASSUME NEW n, NEW by, NEW m
      PROVE  Has(Acknowledgement(s, n, by, m), n, "ack", by)
  BY DEF Acknowledgement, Envelope
<1>5. Has(inputs, 4, "funding_inputs", "alice")
  BY DEF Envelope
<1>6. /\ Has(points, 9, "adaptor_points", "alice")
      /\ Has(aliceAck, 10, "ack", "alice") /\ Has(bobAck, 11, "ack", "bob")
      /\ Has(List(s, 3, "oracle_event_selection", "alice"), 3, "oracle_event_selection", "alice")
      /\ Has(List(s, 5, "payout_graph", "alice"), 5, "payout_graph", "alice")
      /\ Has(List(s, 6, "cet_templates", "alice"), 6, "cet_templates", "alice")
      /\ Has(List(s, 7, "bridge_templates", "bob"), 7, "bridge_templates", "bob")
      /\ Has(List(s, 8, "refund_templates", "bob"), 8, "refund_templates", "bob")
      /\ Has(Announcement(s, 1, "alice"), 1, "role_announcement", "alice")
      /\ Has(Announcement(s, 2, "bob"), 2, "role_announcement", "bob")
  BY <1>2, <1>3, <1>4 DEF ListKinds
<1>7. i \in {1, 2, 3, 4, 5, 6, 7, 8, 9, 10, 11}
  OBVIOUS
<1>8. /\ KindAt(1) = "role_announcement" /\ KindAt(2) = "role_announcement"
      /\ KindAt(10) = "ack" /\ KindAt(11) = "ack"
  BY KindAtIs
<1> HIDE DEF points, aliceAck, bobAck, inputs, Has
<1>9. Has(CanonicalMessages[s][i], i, KindAt(i), CanonicalAuthor[i])
  BY <1>1, <1>5, <1>6, <1>7, <1>8, KindAtIs DEF CanonicalAuthor
<1>10. QED
  BY <1>9 DEF Has

\* Where alterations keep the envelope, what a peer can hold has the
\* envelope of a canonical message.
LEMMA PossibleEnvelopes ==
  ASSUME EnvelopesKept, NEW m \in PossibleMessages
  PROVE  \E s \in Sessions : \E i \in 1 .. 11 :
           Envelope(m) = [kind |-> KindAt(i), sequence |-> i, sessionIdHex |-> s,
                          by |-> CanonicalAuthor[i]]
<1>1. PICK line \in PossibleLines : line.kind = "setup_message" /\ m = line.message
  BY DEF PossibleMessages
<1>2. PICK s \in Sessions : \E i \in DOMAIN Lines[s] :
        line \in {Lines[s][i]} \cup Alterations(Lines[s][i])
  BY DEF PossibleLines
<1>3. PICK i \in 1 .. 13 : line \in {Lines[s][i]} \cup Alterations(Lines[s][i])
  BY <1>2, StreamLines
<1>4. /\ Lines[s][i].kind = "setup_message"
      /\ Envelope(m) = Envelope(Lines[s][i].message)
  <2>1. i \in DOMAIN Lines[s]
    BY StreamLines
  <2>2. QED
    BY <1>1, <1>3, <2>1 DEF EnvelopesKept
<1>5. i \in 1 .. 11
  <2>1. Lines[s][12].kind # "setup_message" /\ Lines[s][13].kind # "setup_message"
    <3>1. /\ Lines[s][12] = ExchangeLine(CanonicalExchange(s))
          /\ Lines[s][13] = [kind |-> "finalize"]
      BY StreamLines
    <3>2. ExchangeLine(CanonicalExchange(s)).kind = "adaptor_exchange"
      BY DEF ExchangeLine
    <3>3. [kind |-> "finalize"].kind = "finalize"
      OBVIOUS
    <3>4. QED
      BY ONLY <3>1, <3>2, <3>3
  <2>2. i \in 1 .. 11 \/ i = 12 \/ i = 13
    OBVIOUS
  <2>3. QED
    BY <1>4, <2>1, <2>2
<1>6. Lines[s][i].message = CanonicalMessages[s][i]
  <2>1. Lines[s][i] = MessageLine(CanonicalMessages[s][i])
    BY <1>5, StreamLines
  <2>2. MessageLine(CanonicalMessages[s][i]).message = CanonicalMessages[s][i]
    BY DEF MessageLine
  <2>3. QED
    BY ONLY <2>1, <2>2
<1>7. Envelope(CanonicalMessages[s][i])
        = [kind |-> KindAt(i), sequence |-> i, sessionIdHex |-> s, by |-> CanonicalAuthor[i]]
  BY <1>5, CanonicalEnvelopes
<1>8. QED
  BY ONLY <1>4, <1>5, <1>6, <1>7

(***************************************************************************)
(* Where alterations keep kind, session, place and author of a message, an *)
(* accepted peer holds exactly eleven messages, with the kinds and senders *)
(* of the canonical setup of one of the sessions: acknowledgements could   *)
(* otherwise go on, and a list could come from the other role.             *)
(***************************************************************************)
THEOREM AcceptedSetupsAreCanonical ==
  ASSUME EnvelopesKept
  PROVE  Spec => []AcceptedHoldsWholeSetup
<1>1. ASSUME NEW held \in Seq(PossibleMessages), WholeSetup(held)
      PROVE  \E s \in Sessions :
               /\ held[1].sessionIdHex = s /\ Len(held) = 11
               /\ \A i \in 1 .. 11 : /\ held[i].kind = KindAt(i)
                                     /\ held[i].sender = CanonicalAuthor[i]
                                     /\ held[i].sessionIdHex = s
  <2>1. PICK n \in Nat : n = Len(held)
    BY LenProperties
  <2>2. /\ n >= 11
        /\ \A i \in 1 .. n : /\ held[i].kind = KindAt(i)
                             /\ held[i].sequence = i
                             /\ held[i].sessionIdHex = held[1].sessionIdHex
                             /\ i <= 2 => held[i].role = held[i].sender
    BY <1>1, <2>1 DEF WholeSetup
  <2>3. ASSUME NEW k \in 1 .. n
        PROVE  k \in 1 .. 11 /\ held[k].sessionIdHex \in Sessions
               /\ held[k].sender = CanonicalAuthor[k]
    <3>1. held[k] \in PossibleMessages
      BY <2>1
    <3>2. PICK s \in Sessions, i \in 1 .. 11 :
            Envelope(held[k]) = [kind |-> KindAt(i), sequence |-> i, sessionIdHex |-> s,
                                 by |-> CanonicalAuthor[i]]
      BY <3>1, PossibleEnvelopes
    <3>3. /\ held[k].sequence = i /\ held[k].sessionIdHex = s
          /\ (IF held[k].kind = "role_announcement" THEN held[k].role ELSE held[k].sender)
               = CanonicalAuthor[i]
      BY <3>2 DEF Envelope
    <3>4. k = i
      BY <2>2, <3>3
    <3>5. held[k].kind = "role_announcement" => k <= 2
      <4>1. k > 2 => k \in 3 .. 9 \/ k > 9
        OBVIOUS
      <4>2. k > 2 => KindAt(k) # "role_announcement"
        <5>1. k \in 3 .. 9 => k \in {3, 4, 5, 6, 7, 8, 9}
          OBVIOUS
        <5>2. QED
          BY <4>1, <5>1, KindAtIs
      <4>3. QED
        BY <2>2, <4>2
    <3>6. QED
      BY <2>2, <3>3, <3>4, <3>5
  <2>4. n = 11
    BY <2>2, <2>3
  <2>5. QED
    BY <2>1, <2>2, <2>3, <2>4
<1>2. (\A p \in Roles : peer[p].status = "accepted" => WholeSetup(peer[p].setupMessages)) /\ IInv
        => AcceptedHoldsWholeSetup
  <2> SUFFICES ASSUME IInv, NEW p \in Roles, WholeSetup(peer[p].setupMessages)
               PROVE  LET held      == peer[p].setupMessages
                          canonical == CanonicalMessages[held[1].sessionIdHex]
                      IN  /\ Len(held) = Len(canonical)
                          /\ \A i \in DOMAIN canonical :
                               /\ held[i].kind = canonical[i].kind
                               /\ held[i].sender = canonical[i].sender
                               /\ held[i].sessionIdHex = canonical[i].sessionIdHex
    BY DEF AcceptedHoldsWholeSetup
  <2>1. PICK held : held = peer[p].setupMessages
    OBVIOUS
  <2>2. held \in Seq(PossibleMessages) /\ WholeSetup(held)
    BY <2>1 DEF IInv, Holdings
  <2>3. PICK s \in Sessions :
          /\ held[1].sessionIdHex = s /\ Len(held) = 11
          /\ \A i \in 1 .. 11 : /\ held[i].kind = KindAt(i)
                                /\ held[i].sender = CanonicalAuthor[i]
                                /\ held[i].sessionIdHex = s
    BY <1>1, <2>2
  <2>4. PICK canonical : canonical = CanonicalMessages[s]
    OBVIOUS
  <2>5. DOMAIN canonical = 1 .. 11 /\ Len(canonical) = 11
    BY <2>4, CanonicalMessagesAreWire
  <2>6. \A i \in 1 .. 11 : /\ canonical[i].kind = KindAt(i)
                           /\ canonical[i].sender = CanonicalAuthor[i]
                           /\ canonical[i].sessionIdHex = s
    BY <2>4, CanonicalEnvelopes
  <2>7. QED
    BY <2>1, <2>3, <2>4, <2>5, <2>6
<1>3. QED
  BY <1>2, AcceptedPeersHoldWholeSetups, Invariant, PTL

-----------------------------------------------------------------------------
(***************************************************************************)
(* The canonical setup is accepted: the checks are not so strict that no   *)
(* setup passes, whatever the amounts, as long as a participant's funding  *)
(* is positive and no dust.                                                *)
(***************************************************************************)
\* What the checks read of the canonical messages, apart from the envelopes.
LEMMA CanonicalContents ==
  ASSUME NEW s \in Sessions
  PROVE  LET messages == CanonicalMessages[s]
         IN  /\ messages \in Seq(PossibleMessages) /\ Len(messages) = 11
             /\ messages[1].role = "alice" /\ messages[1].material = "alice"
             /\ messages[2].role = "bob" /\ messages[2].material = "bob"
             /\ messages[4].fundingInputs = {CanonicalInput("alice"), CanonicalInput("bob")}
             /\ \A i \in {3, 5, 6, 7, 8, 9} : messages[i].entries = MinEntries(KindAt(i))
             /\ messages[10].acknowledges = messages[9]
             /\ messages[11].acknowledges = messages[10]
<1> DEFINE points == List(s, 9, "adaptor_points", "alice")
           aliceAck == Acknowledgement(s, 10, "alice", points)
           bobAck == Acknowledgement(s, 11, "bob", aliceAck)
           inputs == [kind |-> "funding_inputs", sender |-> "alice", sessionIdHex |-> s,
                      sequence |-> 4,
                      fundingInputs |-> {CanonicalInput("alice"), CanonicalInput("bob")}]
<1>0. PICK messages : messages = CanonicalMessages[s]
  OBVIOUS
<1>1. messages =
        << Announcement(s, 1, "alice"), Announcement(s, 2, "bob"),
           List(s, 3, "oracle_event_selection", "alice"), inputs,
           List(s, 5, "payout_graph", "alice"), List(s, 6, "cet_templates", "alice"),
           List(s, 7, "bridge_templates", "bob"), List(s, 8, "refund_templates", "bob"),
           points, aliceAck, bobAck >>
  BY <1>0 DEF CanonicalMessages
<1>2. /\ \A n, role : Announcement(s, n, role).role = role /\ Announcement(s, n, role).material = role
      /\ \A n, kind, role : List(s, n, kind, role).entries = MinEntries(kind)
      /\ \A n, role, m : Acknowledgement(s, n, role, m).acknowledges = m
      /\ inputs.fundingInputs = {CanonicalInput("alice"), CanonicalInput("bob")}
  BY DEF Announcement, List, Acknowledgement
<1>3. messages = [i \in 1 .. 11 |-> messages[i]]
  <2> HIDE DEF points, aliceAck, bobAck, inputs
  <2> QED
    BY <1>1
<1>4. /\ messages[1] = Announcement(s, 1, "alice") /\ messages[2] = Announcement(s, 2, "bob")
      /\ messages[3] = List(s, 3, "oracle_event_selection", "alice") /\ messages[4] = inputs
      /\ messages[5] = List(s, 5, "payout_graph", "alice")
      /\ messages[6] = List(s, 6, "cet_templates", "alice")
      /\ messages[7] = List(s, 7, "bridge_templates", "bob")
      /\ messages[8] = List(s, 8, "refund_templates", "bob")
      /\ messages[9] = points /\ messages[10] = aliceAck /\ messages[11] = bobAck
  <2> HIDE DEF points, aliceAck, bobAck, inputs
  <2> QED
    BY <1>1
<1>5. ASSUME NEW i \in 1 .. 11
      PROVE  messages[i] \in PossibleMessages
  <2>1. Lines[s][i] = MessageLine(messages[i]) /\ i \in DOMAIN Lines[s]
    BY <1>0, StreamLines
  <2>2. Lines[s][i] \in PossibleLines
    BY <2>1 DEF PossibleLines
  <2>3. QED
    BY <2>1, <2>2 DEF PossibleMessages, MessageLine
<1>6. messages \in Seq(PossibleMessages) /\ Len(messages) = 11
  BY <1>3, <1>5, FunctionIsSequence
<1>7. \A i \in {3, 5, 6, 7, 8, 9} : messages[i].entries = MinEntries(KindAt(i))
  BY <1>2, <1>4, KindAtIs
<1>8. messages[10].acknowledges = messages[9] /\ messages[11].acknowledges = messages[10]
  BY <1>2, <1>4
<1>9. QED
  BY <1>0, <1>2, <1>4, <1>6, <1>7, <1>8

\* An acknowledgement of a canonical message finds the position of it.
LEMMA CanonicalPosition ==
  ASSUME NEW s \in Sessions, NEW i \in 1 .. 11, NEW k \in 1 .. i - 1
  PROVE  PositionAmong(CanonicalMessages[s][k], SubSeq(CanonicalMessages[s], 1, i - 1)) = k
<1>1. PICK messages \in Seq(PossibleMessages) : messages = CanonicalMessages[s] /\ Len(messages) = 11
  BY CanonicalContents
<1>2. PICK earlier : earlier = SubSeq(messages, 1, i - 1)
  OBVIOUS
<1>3. DOMAIN earlier = 1 .. i - 1 /\ \A j \in 1 .. i - 1 : earlier[j] = messages[j]
  BY <1>1, <1>2, Earlier
<1>4. \A j \in 1 .. i - 1 : messages[j].sequence = j
  <2>1. \A j \in 1 .. 11 : CanonicalMessages[s][j].sequence = j
    BY CanonicalEnvelopes
  <2>2. \A j \in 1 .. i - 1 : j \in 1 .. 11
    OBVIOUS
  <2>3. QED
    BY <1>1, <2>1, <2>2
<1>5. \A j \in DOMAIN earlier : earlier[j] = messages[k] <=> j = k
  BY <1>3, <1>4
<1>6. (CHOOSE j \in DOMAIN earlier : earlier[j] = messages[k]) = k
  BY <1>3, <1>5
<1>7. \E j \in DOMAIN earlier : earlier[j] = messages[k]
  BY <1>3, <1>5
<1>8. QED
  BY <1>1, <1>2, <1>6, <1>7 DEF PositionAmong

(***************************************************************************)
(* The transcript that a peer builds of the canonical messages.            *)
(***************************************************************************)
IsCanonicalTranscript(t, s) ==
  /\ t \in Seq(SetupMessage) /\ Len(t) = 11 /\ DOMAIN t = 1 .. 11
  /\ \A i \in 1 .. 11 : /\ t[i].kind = KindAt(i) /\ t[i].sequence = i
                        /\ t[i].sessionIdHex = s /\ t[i].sender = CanonicalAuthor[i]
  /\ t[1].role = "alice" /\ t[1].material = "alice"
  /\ t[2].role = "bob" /\ t[2].material = "bob"
  /\ t[4].fundingInputs = {CanonicalInput("alice"), CanonicalInput("bob")}
  /\ \A i \in {3, 5, 6, 7, 8, 9} : t[i].entries = MinEntries(KindAt(i))
  /\ t[10].acknowledges = 9 /\ t[11].acknowledges = 10

LEMMA CanonicalTranscript ==
  ASSUME NEW s \in Sessions
  PROVE  IsCanonicalTranscript(BuildTranscript(CanonicalMessages[s]), s)
<1>1. PICK messages \in Seq(PossibleMessages) : messages = CanonicalMessages[s] /\ Len(messages) = 11
  BY CanonicalContents
<1>2. PICK t : t = BuildTranscript(messages)
  OBVIOUS
<1>3. /\ t \in Seq(SetupMessage) /\ DOMAIN t = 1 .. 11
      /\ \A i \in 1 .. 11 :
           /\ t[i].sessionIdHex = messages[i].sessionIdHex /\ t[i].kind = messages[i].kind
           /\ t[i].sender = messages[i].sender /\ t[i].sequence = messages[i].sequence
           /\ messages[i].kind # "ack" => t[i] = messages[i]
           /\ messages[i].kind = "ack" =>
                t[i].acknowledges
                  = PositionAmong(messages[i].acknowledges, SubSeq(messages, 1, i - 1))
  BY <1>1, <1>2, BuiltTranscript
<1>4. Len(t) = 11
  BY <1>3, LenProperties
<1>5. \A i \in 1 .. 11 :
        /\ messages[i].kind = KindAt(i) /\ messages[i].sequence = i
        /\ messages[i].sessionIdHex = s /\ messages[i].sender = CanonicalAuthor[i]
  BY <1>1, CanonicalEnvelopes
<1>6. \A i \in 1 .. 9 : KindAt(i) # "ack"
  <2>1. \A i \in 1 .. 9 : i \in {1, 2, 3, 4, 5, 6, 7, 8, 9}
    OBVIOUS
  <2>2. QED
    BY <2>1, KindAtIs
<1>7. \A i \in 1 .. 9 : t[i] = messages[i]
  <2> SUFFICES ASSUME NEW i \in 1 .. 9 PROVE t[i] = messages[i]
    OBVIOUS
  <2>1. i \in 1 .. 11
    OBVIOUS
  <2>2. messages[i].kind # "ack"
    BY <1>5, <1>6, <2>1
  <2>3. QED
    BY <1>3, <2>1, <2>2
<1>8. messages[10].kind = "ack" /\ messages[11].kind = "ack"
  BY <1>5, KindAtIs
<1>9. messages[10].acknowledges = messages[9] /\ messages[11].acknowledges = messages[10]
  BY <1>1, CanonicalContents
<1>10. t[10].acknowledges = 9
  <2>1. PositionAmong(messages[9], SubSeq(messages, 1, 10 - 1)) = 9
    BY <1>1, CanonicalPosition
  <2>2. QED
    BY <1>3, <1>8, <1>9, <2>1
<1>11. t[11].acknowledges = 10
  <2>1. PositionAmong(messages[10], SubSeq(messages, 1, 11 - 1)) = 10
    BY <1>1, CanonicalPosition
  <2>2. QED
    BY <1>3, <1>8, <1>9, <2>1
<1>12. /\ messages[1].role = "alice" /\ messages[1].material = "alice"
       /\ messages[2].role = "bob" /\ messages[2].material = "bob"
       /\ messages[4].fundingInputs = {CanonicalInput("alice"), CanonicalInput("bob")}
       /\ \A i \in {3, 5, 6, 7, 8, 9} : messages[i].entries = MinEntries(KindAt(i))
  BY <1>1, CanonicalContents
<1>13. /\ t[1].role = "alice" /\ t[1].material = "alice"
       /\ t[2].role = "bob" /\ t[2].material = "bob"
       /\ t[4].fundingInputs = {CanonicalInput("alice"), CanonicalInput("bob")}
       /\ \A i \in {3, 5, 6, 7, 8, 9} : t[i].entries = MinEntries(KindAt(i))
  BY <1>7, <1>12
<1>14. IsCanonicalTranscript(t, s)
  BY <1>3, <1>4, <1>5, <1>10, <1>11, <1>13 DEF IsCanonicalTranscript
<1>15. QED
  BY <1>1, <1>2, <1>14

LEMMA CanonicalIsValid ==
  ASSUME NEW s, NEW t, IsCanonicalTranscript(t, s)
  PROVE  ValidTranscript(t)
<1> SUFFICES ASSUME NEW i \in 1 .. 11
             PROVE  ValidNext(t[1].sessionIdHex, SubSeq(t, 1, i - 1), t[i])
  BY DEF ValidTranscript, IsCanonicalTranscript
<1>1. PICK earlier : earlier = SubSeq(t, 1, i - 1)
  OBVIOUS
<1>2. Len(earlier) = i - 1 /\ \A j \in 1 .. i - 1 : earlier[j] = t[j]
  <2>1. t \in Seq(SetupMessage) /\ i - 1 \in 0 .. Len(t) /\ Len(t) = 11
    BY DEF IsCanonicalTranscript
  <2>2. QED
    BY <1>1, <2>1
<1>3. /\ t[i].sessionIdHex = t[1].sessionIdHex /\ t[i].sequence = i
      /\ t[i].kind = KindAt(i)
      /\ \A j \in 1 .. i - 1 : t[j].kind = KindAt(j)
  BY DEF IsCanonicalTranscript
<1>4. ASSUME t[i].kind = "ack"
      PROVE  t[i].acknowledges \in 1 .. i - 1 /\ t[i].acknowledges \notin Acknowledged(earlier)
  <2>1. \A j \in 1 .. 9 : KindAt(j) # "ack"
    <3>1. \A j \in 1 .. 9 : j \in {1, 2, 3, 4, 5, 6, 7, 8, 9}
      OBVIOUS
    <3>2. QED
      BY <3>1, KindAtIs
  <2>2. i \in {10, 11}
    <3>1. KindAt(i) = "ack"
      BY <1>3, <1>4
    <3>2. i \notin 1 .. 9
      BY <2>1, <3>1
    <3>3. QED
      BY <3>2
  <2>3. \A n \in Acknowledged(earlier) : \E j \in 1 .. i - 1 : KindAt(j) = "ack" /\ n = t[j].acknowledges
    BY <1>2, <1>3 DEF Acknowledged
  <2>4. t[10].acknowledges = 9 /\ t[11].acknowledges = 10
    BY DEF IsCanonicalTranscript
  <2>5. CASE i = 10
    <3>1. \A j \in 1 .. i - 1 : KindAt(j) # "ack"
      BY <2>1, <2>5
    <3>2. QED
      BY <2>3, <2>4, <2>5, <3>1
  <2>6. CASE i = 11
    <3>1. \A j \in 1 .. i - 1 : KindAt(j) = "ack" => j = 10
      BY <2>1, <2>6
    <3>2. \A n \in Acknowledged(earlier) : n = 9
      BY <2>3, <2>4, <3>1
    <3>3. QED
      BY <2>4, <2>6, <3>2
  <2>7. QED
    BY <2>2, <2>5, <2>6
<1>5. QED
  BY <1>1, <1>2, <1>3, <1>4 DEF ValidNext

(***************************************************************************)
(* The replay reads the canonical transcript to its end: the next message  *)
(* always applies, as the machine's shape tells its state and what it      *)
(* retains the agreements made.                                            *)
(***************************************************************************)
Retains(machine, n) == \A j \in 3 .. n : j <= 9 => KindAt(j) \in machine.retained

LEMMA CanonicalPlaces ==
  ASSUME NEW n \in 3 .. 9
  PROVE  /\ KindAt(n) \in AgreementKinds
         /\ StateAfter(n - 1) = Requires[KindAt(n)]
         /\ KindAt(n) # "role_announcement" /\ KindAt(n) # "ack"
         /\ KindAt(n) = "funding_inputs" <=> n = 4
         /\ KindAt(n) = "adaptor_points" => n = 9
<1>1. n \in {3, 4, 5, 6, 7, 8, 9}
  OBVIOUS
<1>2. /\ Requires["oracle_event_selection"] = "roles_announced"
      /\ Requires["funding_inputs"] = "oracle_selected"
      /\ Requires["payout_graph"] = "funding_validated"
      /\ Requires["cet_templates"] = "payout_graph_agreed"
      /\ Requires["bridge_templates"] = "cet_templates_agreed"
      /\ Requires["refund_templates"] = "bridge_templates_agreed"
      /\ Requires["adaptor_points"] = "refund_templates_agreed"
  BY DEF Requires
<1>3. QED
  BY <1>1, <1>2, KindAtIs, StateAfterIs DEF AgreementKinds, ListKinds

LEMMA CanonicalMessageApplies ==
  ASSUME AmountsSuffice, NEW s, NEW t, IsCanonicalTranscript(t, s), NEW n \in 0 .. 10,
         NEW machine, Shape(machine, t, n), Retains(machine, n)
  PROVE  SetupMessageApplies(machine, t[n + 1])
<1>1. PICK m : m = t[n + 1]
  OBVIOUS
<1>2. n + 1 \in 1 .. 11 /\ 1 \in 1 .. 11
  OBVIOUS
<1>3. /\ m.sessionIdHex = s /\ t[1].sessionIdHex = s
      /\ m.sequence = n + 1 /\ m.kind = KindAt(n + 1) /\ m.sender = CanonicalAuthor[n + 1]
  BY <1>1, <1>2 DEF IsCanonicalTranscript
<1>4. machine.sessionIdHex = s /\ machine.nextSequence = n + 1
  BY <1>3 DEF Shape
<1>5. machine.state \notin TerminalStates
  <2>1. n <= 9 => machine.state = StateAfter(n)
    BY DEF Shape
  <2>2. n = 10 => machine.state \in {"setup_accepted", "adaptor_points_exchanged"}
    BY DEF Shape
  <2>3. n <= 9 => n \in 0 .. 9
    OBVIOUS
  <2>4. QED
    BY <2>1, <2>2, <2>3, UpToNine, StateAfterIs DEF TerminalStates
<1>6. CASE n < 2
  <2>1. n \in {0, 1}
    BY <1>6
  <2>2. machine.roleAnnouncements = Senders(t, 1 .. n \cap 1 .. 2)
    BY ShapeFields
  <2>3. m.role = m.sender /\ m.sender = IF n = 0 THEN "alice" ELSE "bob"
    BY <1>1, <1>3, <2>1 DEF IsCanonicalTranscript, CanonicalAuthor
  <2>4. m.sender \notin Senders(t, 1 .. n \cap 1 .. 2)
    <3>1. t[1].sender = "alice"
      BY DEF IsCanonicalTranscript, CanonicalAuthor
    <3>2. \A i \in 1 .. n \cap 1 .. 2 : n = 1 /\ i = 1
      BY <2>1
    <3>3. QED
      BY <2>3, <3>1, <3>2 DEF Senders
  <2>5. m.kind = "role_announcement"
    BY <1>3, <2>1, KindAtIs
  <2>6. RoleAnnouncementApplies(machine, m)
    BY <2>2, <2>3, <2>4, <2>5 DEF RoleAnnouncementApplies
  <2>7. QED
    BY <1>1, <1>3, <1>4, <1>5, <2>6 DEF SetupMessageApplies
<1>7. CASE n \in 2 .. 8
  <2>1. /\ m.kind \in AgreementKinds /\ StateAfter(n) = Requires[m.kind]
        /\ m.kind = "funding_inputs" <=> n = 3
        /\ m.kind = "adaptor_points" => n = 8
    <3>1. n + 1 \in 3 .. 9 /\ (n + 1) - 1 = n /\ (n + 1 = 4 <=> n = 3) /\ (n + 1 = 9 <=> n = 8)
      BY <1>7
    <3>2. QED
      BY <1>3, <3>1, CanonicalPlaces
  <2>2. machine.state = Requires[m.kind]
    BY <1>7, <2>1 DEF Shape
  <2>3. m.kind = "adaptor_points" => TemplateAgreementComplete(machine.retained)
    <3>1. n = 8 => \A j \in 4 .. 8 : KindAt(j) \in machine.retained
      BY DEF Retains
    <3>2. n = 8 => /\ KindAt(4) \in machine.retained /\ KindAt(5) \in machine.retained
                   /\ KindAt(6) \in machine.retained /\ KindAt(7) \in machine.retained
                   /\ KindAt(8) \in machine.retained
      BY <3>1
    <3>3. QED
      BY <2>1, <3>2, KindAtIs DEF TemplateAgreementComplete
  <2>4. n = 3 => ValidFundingInputs(m.fundingInputs)
    <3>1. n = 3 => m.fundingInputs = {CanonicalInput("alice"), CanonicalInput("bob")}
      BY <1>1 DEF IsCanonicalTranscript
    <3>2. \A role : CanonicalInput(role).valueSat > 0 /\ CanonicalInput(role).owner = role
      BY DEF CanonicalInput, AmountsSuffice
    <3>3. QED
      BY <3>1, <3>2 DEF ValidFundingInputs, Roles
  <2>5. n # 3 => m.entries >= MinEntries(m.kind)
    <3>1. n # 3 => n + 1 \in {3, 5, 6, 7, 8, 9}
      BY <1>7
    <3>2. n # 3 => m.entries = MinEntries(m.kind)
      BY <1>1, <1>3, <3>1 DEF IsCanonicalTranscript
    <3>3. MinEntries(m.kind) \in Nat
      BY DEF MinEntries
    <3>4. QED
      BY <3>2, <3>3
  <2>6. AgreementApplies(machine, m)
    BY <2>1, <2>2, <2>3, <2>4, <2>5 DEF AgreementApplies
  <2>7. QED
    BY <1>1, <1>3, <1>4, <1>5, <2>6 DEF SetupMessageApplies
<1>8. CASE n > 8
  <2>1. m.kind = "ack"
    BY <1>3, <1>8, KindAtIs
  <2>2. machine.state \in {"setup_accepted", "adaptor_points_exchanged"}
    BY <1>8, StateAfterIs DEF Shape
  <2>3. AcknowledgementApplies(machine, m)
    BY <2>1, <2>2 DEF AcknowledgementApplies, AtLeast, Rank
  <2>4. QED
    BY <1>1, <1>3, <1>4, <1>5, <2>3 DEF SetupMessageApplies
<1>9. QED
  BY <1>6, <1>7, <1>8

LEMMA CanonicalStep ==
  ASSUME AmountsSuffice, NEW s, NEW t, IsCanonicalTranscript(t, s), NEW n \in 0 .. 10,
         NEW machine, Shape(machine, t, n), Retains(machine, n)
  PROVE  \E after \in ReplayMessage({machine}, t[n + 1]) :
           Shape(after, t, n + 1) /\ Retains(after, n + 1)
<1>1. PICK after : after = AfterSetupMessage(machine, t[n + 1])
  OBVIOUS
<1>2. after \in ReplayMessage({machine}, t[n + 1])
  BY <1>1, CanonicalMessageApplies DEF ReplayMessage
<1>3. Shape(after, t, n + 1)
  <2>1. t \in Seq(SetupMessage) /\ n \in Nat /\ n < Len(t)
    BY DEF IsCanonicalTranscript
  <2>2. QED
    BY <1>2, <2>1, ShapeStep
<1>4. Retains(after, n + 1)
  <2>1. PICK m : m = t[n + 1]
    OBVIOUS
  <2>2. m.kind = KindAt(n + 1)
    BY <2>1 DEF IsCanonicalTranscript
  <2>3. machine = [state |-> machine.state, sessionIdHex |-> machine.sessionIdHex,
                   nextSequence |-> machine.nextSequence,
                   roleAnnouncements |-> machine.roleAnnouncements,
                   acceptedBy |-> machine.acceptedBy, retained |-> machine.retained]
    BY ShapeFields
  <2>4. machine.retained \subseteq after.retained
    BY <1>1, <2>1, <2>3 DEF AfterSetupMessage, AfterRoleAnnouncement, AfterAcknowledgement,
       AfterAgreement
  <2>5. n + 1 \in 3 .. 9 => m.kind \in after.retained
    <3>1. n + 1 \in 3 .. 9 => m.kind # "role_announcement" /\ m.kind # "ack"
      BY <2>2, CanonicalPlaces
    <3>2. n + 1 \in 3 .. 9 => after = AfterAgreement(machine, m)
      BY <1>1, <2>1, <3>1 DEF AfterSetupMessage
    <3>3. QED
      BY <2>3, <3>2 DEF AfterAgreement
  <2>6. ASSUME NEW j \in 3 .. n + 1, j <= 9
        PROVE  KindAt(j) \in after.retained
    <3>1. CASE j = n + 1
      BY <2>2, <2>5, <2>6, <3>1
    <3>2. CASE j # n + 1
      <4>1. j \in 3 .. n
        BY <3>2
      <4>2. QED
        BY <2>4, <2>6, <4>1 DEF Retains
    <3>3. QED
      BY <3>1, <3>2
  <2>7. QED
    BY <2>6 DEF Retains
<1>5. QED
  BY <1>2, <1>3, <1>4

LEMMA CanonicalReplayAccepts ==
  ASSUME AmountsSuffice, NEW s, NEW t, IsCanonicalTranscript(t, s)
  PROVE  ReplayReachesAcceptance(t)
<1>1. Len(t) = 11
  BY DEF IsCanonicalTranscript
<1>2. PICK after : IsReplay(after, t, 11) /\ Replay(t) = after[11]
  <2>1. Len(t) \in Nat
    BY <1>1
  <2>2. \E after : IsReplay(after, t, Len(t)) /\ Replay(t) = after[Len(t)]
    BY <2>1, ReplayIs
  <2>3. QED
    BY <1>1, <2>2
<1> DEFINE T == {k \in 0 .. 11 : \E m \in after[k] : Shape(m, t, k) /\ Retains(m, k)}
<1>3. 0 \in T
  <2>1. after[0] = {InitialState(t[1].sessionIdHex)}
    BY <1>2 DEF IsReplay
  <2>2. Retains(InitialState(t[1].sessionIdHex), 0)
    BY DEF Retains
  <2>3. QED
    BY <2>1, <2>2, InitialShape
<1>4. ASSUME NEW k \in 1 .. 11, k - 1 \in T
      PROVE  k \in T
  <2>1. after[k] = ReplayMessage(after[k - 1], t[k])
    <3>1. k \in 0 .. 11 /\ k # 0
      OBVIOUS
    <3>2. after = [j \in 0 .. 11 |-> IF j = 0 THEN {InitialState(t[1].sessionIdHex)}
                                             ELSE ReplayMessage(after[j - 1], t[j])]
      BY <1>2 DEF IsReplay
    <3>3. QED
      BY ONLY <3>1, <3>2
  <2>2. PICK n \in 0 .. 10 : n = k - 1 /\ n + 1 = k
    OBVIOUS
  <2>3. PICK machine \in after[n] : Shape(machine, t, n) /\ Retains(machine, n)
    BY <1>4, <2>2
  <2>4. PICK later \in ReplayMessage({machine}, t[n + 1]) :
          Shape(later, t, n + 1) /\ Retains(later, n + 1)
    BY <2>3, CanonicalStep
  <2>5. later \in after[k]
    BY <2>1, <2>2, <2>3, <2>4 DEF ReplayMessage
  <2>6. QED
    BY <2>2, <2>4, <2>5
<1>5. 11 \in T
  <2>1. 11 \in Nat /\ 11 \in 0 .. 11
    OBVIOUS
  <2> HIDE DEF T
  <2> QED
    BY <1>3, <1>4, <2>1, PositionInduction
<1>6. PICK machine \in Replay(t) : Shape(machine, t, 11)
  BY <1>2, <1>5
<1>7. Senders(t, 10 .. 11) = Roles
  <2>1. t[10].sender = "alice" /\ t[11].sender = "bob"
    BY DEF IsCanonicalTranscript, CanonicalAuthor
  <2>2. 10 .. 11 = {10, 11}
    OBVIOUS
  <2>3. Senders(t, {10, 11}) = {t[10].sender, t[11].sender}
    BY DEF Senders
  <2>4. QED
    BY <2>1, <2>2, <2>3 DEF Roles
<1>8. machine.acceptedBy = Roles
  BY <1>6, <1>7, ShapeFields
<1>9. machine.state = "setup_accepted"
  BY <1>6, <1>8 DEF Shape
<1>10. QED
  BY <1>6, <1>9 DEF ReplayReachesAcceptance

LEMMA CanonicalFundingAccepted ==
  ASSUME AmountsSuffice, NEW s, NEW t, IsCanonicalTranscript(t, s)
  PROVE  FundingAccepted(t)
<1> DEFINE alice == CanonicalInput("alice")
           bob == CanonicalInput("bob")
<1>1. Len(t) = 11 /\ \A i \in 1 .. 11 : t[i].kind = KindAt(i) /\ t[i].sender = CanonicalAuthor[i]
  BY DEF IsCanonicalTranscript
<1>2. \A i \in 1 .. 11 : i \in {1, 2, 3, 4, 5, 6, 7, 8, 9, 10, 11}
  OBVIOUS
<1>3. KindAt(10) = "ack" /\ KindAt(11) = "ack" /\ KindAt(1) = "role_announcement"
      /\ KindAt(2) = "role_announcement"
  BY KindAtIs
<1>4. /\ MessagesOfKind(t, "funding_inputs") = {4}
      /\ MessagesOfKind(t, "adaptor_points") = {9}
      /\ MessagesOfKind(t, "role_announcement") = {1, 2}
  <2>1. \A i \in 1 .. 11 : /\ KindAt(i) = "funding_inputs" <=> i = 4
                           /\ KindAt(i) = "adaptor_points" <=> i = 9
                           /\ KindAt(i) = "role_announcement" <=> i \in {1, 2}
    BY <1>2, <1>3, KindAtIs
  <2>2. QED
    BY <1>1, <2>1 DEF MessagesOfKind
<1>5. FirstOfKind(t, "funding_inputs") = 4 /\ FirstOfKind(t, "adaptor_points") = 9
  BY <1>4 DEF FirstOfKind
<1>6. FundingInputsOf(t) = {alice, bob}
  BY <1>5 DEF FundingInputsOf, IsCanonicalTranscript
<1>7. /\ alice.owner = "alice" /\ alice.outpoint = "alice" /\ alice.scriptPubKeyHex = "alice"
      /\ bob.owner = "bob" /\ bob.outpoint = "bob" /\ bob.scriptPubKeyHex = "bob"
      /\ alice.valueSat = ParticipantFundingSat /\ bob.valueSat = ParticipantFundingSat
  BY DEF CanonicalInput
<1>8. t[1].sender = "alice" /\ t[2].sender = "bob"
  BY <1>1 DEF CanonicalAuthor
<1>9. AnnouncementsOf(t, "alice") = {1} /\ AnnouncementsOf(t, "bob") = {2}
  BY <1>4, <1>8 DEF AnnouncementsOf
<1>10. AnnouncedScript(t, "alice") = "alice" /\ AnnouncedScript(t, "bob") = "bob"
  <2>1. \A S : S = {1} => (CHOOSE i \in S : \A j \in S : j <= i) = 1
    OBVIOUS
  <2>2. \A S : S = {2} => (CHOOSE i \in S : \A j \in S : j <= i) = 2
    OBVIOUS
  <2>3. t[1].material = "alice" /\ t[2].material = "bob"
    BY DEF IsCanonicalTranscript
  <2>4. QED
    BY <1>9, <2>1, <2>2, <2>3 DEF AnnouncedScript
<1> HIDE DEF alice, bob
<1>11. ScriptsMatchRoleAnnouncements(t)
  BY <1>6, <1>7, <1>9, <1>10 DEF ScriptsMatchRoleAnnouncements
<1>12. OutpointsUnique(FundingInputsOf(t))
  BY <1>6, <1>7 DEF OutpointsUnique
<1>13. \A input \in FundingInputsOf(t) :
         input.valueSat >= DustFloorSat /\ input.valueSat >= ParticipantFundingSat
  BY <1>6, <1>7, AmountAssumption DEF AmountsSuffice
<1>14. FundingBeforeAdaptorExchange(t)
  BY <1>5 DEF FundingBeforeAdaptorExchange
<1>15. \A r \in Roles : /\ AnnouncementsOf(t, r) # {}
                        /\ \E input \in FundingInputsOf(t) : input.owner = r
  BY <1>6, <1>7, <1>9 DEF Roles
<1>16. QED
  BY <1>4, <1>11, <1>12, <1>13, <1>14, <1>15 DEF FundingAccepted

LEMMA CanonicalExchangeAccepted ==
  ASSUME NEW s
  PROVE  ExchangeAccepted(CanonicalExchange(s), s)
<1>1. PICK x : x = CanonicalExchange(s)
  OBVIOUS
<1>2. PICK a, b : /\ a = ExchangeMessage(s, "alice", <<Packet("parent_cet")>>)
                  /\ b = ExchangeMessage(s, "bob", <<Packet("bridge"), Packet("child_cet")>>)
  OBVIOUS
<1>3. /\ x.sessionIdHex = s /\ x.templateDigestHex = TemplateDigest(s)
      /\ x.messages = <<a, b>>
  BY <1>1, <1>2 DEF CanonicalExchange
<1>4. DOMAIN x.messages = {1, 2} /\ x.messages[1] = a /\ x.messages[2] = b
  BY <1>3
<1>5. /\ a.sessionIdHex = s /\ a.templateDigestHex = TemplateDigest(s) /\ a.sender = "alice"
      /\ a.signatures = <<Packet("parent_cet")>>
      /\ b.sessionIdHex = s /\ b.templateDigestHex = TemplateDigest(s) /\ b.sender = "bob"
      /\ b.signatures = <<Packet("bridge"), Packet("child_cet")>>
  BY <1>2 DEF ExchangeMessage
<1>6. /\ DOMAIN a.signatures = {1} /\ a.signatures[1] = Packet("parent_cet")
      /\ DOMAIN b.signatures = {1, 2} /\ b.signatures[1] = Packet("bridge")
      /\ b.signatures[2] = Packet("child_cet")
  BY <1>5
<1>7. SessionMatches(x, s) /\ TemplateDigestMatches(x, s)
  BY <1>3, <1>4, <1>5 DEF SessionMatches, TemplateDigestMatches
<1>8. ASSUME NEW e \in Entries(x)
      PROVE  \/ e = [at |-> <<1, 1>>, sender |-> "alice", packet |-> Packet("parent_cet")]
             \/ e = [at |-> <<2, 1>>, sender |-> "bob", packet |-> Packet("bridge")]
             \/ e = [at |-> <<2, 2>>, sender |-> "bob", packet |-> Packet("child_cet")]
  <2>1. PICK i \in DOMAIN x.messages : \E j \in DOMAIN x.messages[i].signatures :
          e = [at |-> <<i, j>>, sender |-> x.messages[i].sender,
               packet |-> x.messages[i].signatures[j]]
    BY DEF Entries
  <2>2. CASE i = 1
    BY <1>4, <1>5, <1>6, <2>1, <2>2
  <2>3. CASE i = 2
    BY <1>4, <1>5, <1>6, <2>1, <2>3
  <2>4. QED
    BY <1>4, <2>2, <2>3
<1>9. /\ [at |-> <<1, 1>>, sender |-> "alice", packet |-> Packet("parent_cet")] \in Entries(x)
      /\ [at |-> <<2, 1>>, sender |-> "bob", packet |-> Packet("bridge")] \in Entries(x)
      /\ [at |-> <<2, 2>>, sender |-> "bob", packet |-> Packet("child_cet")] \in Entries(x)
  <2>1. \A i \in DOMAIN x.messages : \A j \in DOMAIN x.messages[i].signatures :
          [at |-> <<i, j>>, sender |-> x.messages[i].sender,
           packet |-> x.messages[i].signatures[j]] \in Entries(x)
    BY DEF Entries
  <2>2. /\ 1 \in DOMAIN x.messages /\ 1 \in DOMAIN x.messages[1].signatures
        /\ 2 \in DOMAIN x.messages /\ 1 \in DOMAIN x.messages[2].signatures
        /\ 2 \in DOMAIN x.messages[2].signatures
    BY <1>4, <1>5, <1>6
  <2>3. /\ [at |-> <<1, 1>>, sender |-> x.messages[1].sender,
            packet |-> x.messages[1].signatures[1]] \in Entries(x)
        /\ [at |-> <<2, 1>>, sender |-> x.messages[2].sender,
            packet |-> x.messages[2].signatures[1]] \in Entries(x)
        /\ [at |-> <<2, 2>>, sender |-> x.messages[2].sender,
            packet |-> x.messages[2].signatures[2]] \in Entries(x)
    BY <2>1, <2>2
  <2>4. QED
    BY <1>4, <1>5, <1>6, <2>3
<1>10. \A purpose \in Purposes :
         /\ Packet(purpose).purpose = purpose
         /\ TemplateBindingMatches(Packet(purpose))
         /\ AdaptedNonceBindingVerifies(Packet(purpose))
         /\ AdaptorEquationVerifies(Packet(purpose))
  BY DEF Packet, TemplateBindingMatches, AdaptedNonceBindingVerifies, AdaptorEquationVerifies
<1>11. /\ PlannedSender["parent_cet"] = "alice" /\ PlannedSender["bridge"] = "bob"
       /\ PlannedSender["child_cet"] = "bob"
  BY DEF PlannedSender
<1>12. \A e \in Entries(x) :
         /\ e.packet \in {Packet(purpose) : purpose \in Purposes}
         /\ e.packet.purpose \in Purposes /\ e.packet = Packet(e.packet.purpose)
         /\ e.sender = PlannedSender[e.packet.purpose]
         /\ e.packet.purpose = "parent_cet" => e.at = <<1, 1>>
         /\ e.packet.purpose = "bridge" => e.at = <<2, 1>>
         /\ e.packet.purpose = "child_cet" => e.at = <<2, 2>>
  BY <1>8, <1>10, <1>11 DEF Purposes
<1>13. \A e \in Entries(x) : EntryVerifies(e)
  BY <1>10, <1>12 DEF EntryVerifies
<1>14. OnePacketPerPurpose(Entries(x))
  <2>1. ASSUME NEW e \in Entries(x), NEW f \in Entries(x), e.packet.purpose = f.packet.purpose
        PROVE  e = f
    BY <1>8, <1>10, <2>1 DEF Purposes
  <2>2. \A purpose \in Purposes : \E e \in Entries(x) : e.packet.purpose = purpose
    BY <1>9, <1>10 DEF Purposes
  <2>3. QED
    BY <1>12, <2>1, <2>2 DEF OnePacketPerPurpose
<1>15. QED
  BY <1>1, <1>7, <1>13, <1>14 DEF ExchangeAccepted

LEMMA CanonicalSetupAccepted ==
  ASSUME AmountsSuffice, NEW s \in Sessions
  PROVE  Accepts(CanonicalMessages[s], CanonicalExchange(s))
<1>1. PICK t : t = BuildTranscript(CanonicalMessages[s])
  OBVIOUS
<1>2. IsCanonicalTranscript(t, s)
  BY <1>1, CanonicalTranscript
<1>3. t[1].sessionIdHex = s
  BY <1>2 DEF IsCanonicalTranscript
<1>4. ValidTranscript(t) /\ ReplayReachesAcceptance(t) /\ FundingAccepted(t)
  BY <1>2, CanonicalIsValid, CanonicalReplayAccepts, CanonicalFundingAccepted
<1>5. ExchangeAccepted(CanonicalExchange(s), t[1].sessionIdHex)
  BY <1>3, CanonicalExchangeAccepted
<1>6. CanonicalExchange(s) # NoExchange
  BY DEF CanonicalExchange, NoExchange
<1>7. CanonicalMessages[s] # <<>>
  <2>1. DOMAIN CanonicalMessages[s] = 1 .. 11
    BY CanonicalMessagesAreWire
  <2>2. DOMAIN <<>> = {} /\ 1 \in 1 .. 11
    OBVIOUS
  <2>3. QED
    BY <2>1, <2>2
<1>8. QED
  BY <1>1, <1>4, <1>5, <1>6, <1>7 DEF Accepts

(***************************************************************************)
(* Without faults a peer holds what its stream carried so far.             *)
(***************************************************************************)
Carried(s, n) ==
  IF n < 11 THEN SubSeq(CanonicalMessages[s], 1, n) ELSE CanonicalMessages[s]

Fed(s, n) ==
  [setupMessages |-> Carried(s, n),
   adaptorExchange |-> IF n >= 12 THEN CanonicalExchange(s) ELSE NoExchange,
   status |-> IF n = 13 THEN "accepted" ELSE "running"]

AllFed == faults = 0 => \A p \in Roles : peer[p] = Fed(session[p], written[p])

LEMMA CarriedIs ==
  ASSUME NEW s \in Sessions
  PROVE  /\ Carried(s, 0) = <<>>
         /\ \A n \in 0 .. 10 :
              Carried(s, n + 1) = Append(Carried(s, n), CanonicalMessages[s][n + 1])
         /\ Carried(s, 11) = CanonicalMessages[s]
         /\ Carried(s, 12) = CanonicalMessages[s]
         /\ Carried(s, 13) = CanonicalMessages[s]
<1>1. PICK messages \in Seq(PossibleMessages) : messages = CanonicalMessages[s] /\ Len(messages) = 11
  BY CanonicalContents
<1>2. SubSeq(messages, 1, 0) = <<>> /\ SubSeq(messages, 1, 11) = messages
  BY <1>1
<1>3. ASSUME NEW n \in 0 .. 10
      PROVE  SubSeq(messages, 1, n + 1) = Append(SubSeq(messages, 1, n), messages[n + 1])
  <2>1. n \in 0 .. Len(messages) - 1
    BY <1>1
  <2>2. QED
    BY <2>1
<1>4. \A n \in 0 .. 11 : Carried(s, n) = SubSeq(messages, 1, n)
  <2> SUFFICES ASSUME NEW n \in 0 .. 11 PROVE Carried(s, n) = SubSeq(messages, 1, n)
    OBVIOUS
  <2>1. CASE n < 11
    BY <1>1, <2>1, Zenon DEF Carried
  <2>2. CASE n = 11
    <3>1. ~ (n < 11)
      BY <2>2
    <3>2. Carried(s, n) = messages
      BY <1>1, <3>1, Zenon DEF Carried
    <3>3. QED
      BY <1>2, <2>2, <3>2
  <2>3. QED
    BY <2>1, <2>2
<1>5. Carried(s, 11) = messages /\ Carried(s, 12) = messages /\ Carried(s, 13) = messages
  <2>1. ~ (11 < 11) /\ ~ (12 < 11) /\ ~ (13 < 11)
    OBVIOUS
  <2>2. QED
    BY <1>1, <2>1, Zenon DEF Carried
<1>6. ASSUME NEW n \in 0 .. 10
      PROVE  Carried(s, n + 1) = Append(Carried(s, n), messages[n + 1])
  <2>1. n \in 0 .. 11 /\ n + 1 \in 0 .. 11
    OBVIOUS
  <2>2. QED
    BY <1>3, <1>4, <2>1
<1>7. Carried(s, 0) = <<>>
  <2>1. 0 \in 0 .. 11
    OBVIOUS
  <2>2. QED
    BY <1>2, <1>4, <2>1
<1>8. QED
  BY <1>1, <1>5, <1>6, <1>7

LEMMA NextLineFeeds ==
  ASSUME AmountsSuffice, NEW s \in Sessions, NEW n \in 0 .. 12
  PROVE  Receive(Fed(s, n), Lines[s][n + 1]) = Fed(s, n + 1)
<1>1. PICK messages \in Seq(PossibleMessages) : messages = CanonicalMessages[s] /\ Len(messages) = 11
  BY CanonicalContents
<1>2. PICK held : held = Fed(s, n)
  OBVIOUS
<1>3. held.status = "running"
  BY <1>2 DEF Fed
<1>4. CASE n \in 0 .. 10
  <2>1. n + 1 \in 1 .. 11
    BY <1>4
  <2>2. Lines[s][n + 1] = MessageLine(messages[n + 1])
    BY <1>1, <2>1, StreamLines
  <2>3. Receive(held, Lines[s][n + 1])
          = [held EXCEPT !.setupMessages = Append(held.setupMessages, messages[n + 1])]
    BY <1>3, <2>2 DEF Receive, AfterLine, MessageLine
  <2>4. held = [setupMessages |-> Carried(s, n), adaptorExchange |-> NoExchange,
                status |-> "running"]
    BY <1>2, <1>4 DEF Fed
  <2>5. Carried(s, n + 1) = Append(Carried(s, n), messages[n + 1])
    BY <1>1, <1>4, CarriedIs
  <2>6. Fed(s, n + 1) = [setupMessages |-> Carried(s, n + 1), adaptorExchange |-> NoExchange,
                         status |-> "running"]
    BY <1>4 DEF Fed
  <2>7. Receive(held, Lines[s][n + 1])
          = [setupMessages |-> Append(Carried(s, n), messages[n + 1]),
             adaptorExchange |-> NoExchange, status |-> "running"]
    BY <2>3, <2>4
  <2>8. QED
    BY <1>2, <2>5, <2>6, <2>7
<1>5. CASE n = 11
  <2>1. Lines[s][12] = ExchangeLine(CanonicalExchange(s))
    BY StreamLines
  <2>2. Receive(held, Lines[s][12]) = [held EXCEPT !.adaptorExchange = CanonicalExchange(s)]
    BY <1>3, <2>1 DEF Receive, AfterLine, ExchangeLine
  <2>3. Carried(s, 11) = messages /\ Carried(s, 12) = messages
    BY <1>1, CarriedIs
  <2>4. held = [setupMessages |-> messages, adaptorExchange |-> NoExchange, status |-> "running"]
    BY <1>2, <1>5, <2>3 DEF Fed
  <2>5. Fed(s, 12) = [setupMessages |-> messages, adaptorExchange |-> CanonicalExchange(s),
                      status |-> "running"]
    BY <2>3 DEF Fed
  <2>6. QED
    BY <1>2, <1>5, <2>2, <2>4, <2>5
<1>6. CASE n = 12
  <2>1. Lines[s][13] = [kind |-> "finalize"]
    BY StreamLines
  <2>2. Receive(held, Lines[s][13]) = Finalized(held)
    BY <1>3, <2>1 DEF Receive, AfterLine
  <2>3. held = [setupMessages |-> messages, adaptorExchange |-> CanonicalExchange(s),
                status |-> "running"]
    <3>1. Carried(s, 12) = messages
      BY <1>1, CarriedIs
    <3>2. QED
      BY <1>2, <1>6, <3>1 DEF Fed
  <2>4. Accepts(messages, CanonicalExchange(s))
    BY <1>1, CanonicalSetupAccepted
  <2>5. Finalized(held) = [setupMessages |-> messages, adaptorExchange |-> CanonicalExchange(s),
                           status |-> "accepted"]
    BY <2>3, <2>4 DEF Finalized
  <2>6. Fed(s, 13) = [setupMessages |-> messages, adaptorExchange |-> CanonicalExchange(s),
                      status |-> "accepted"]
    <3>1. Carried(s, 13) = messages
      BY <1>1, CarriedIs
    <3>2. QED
      BY <3>1 DEF Fed
  <2>7. QED
    BY <1>2, <1>6, <2>2, <2>5, <2>6
<1>7. QED
  BY <1>4, <1>5, <1>6

LEMMA FedStatus ==
  ASSUME NEW s, NEW n
  PROVE  /\ Fed(s, n).setupMessages = Carried(s, n)
         /\ Fed(s, n).status = IF n = 13 THEN "accepted" ELSE "running"
BY DEF Fed

LEMMA InitFeeds == Init => AllFed
<1> SUFFICES ASSUME Init, NEW p \in Roles PROVE peer[p] = Fed(session[p], written[p])
  BY DEF AllFed
<1>1. session[p] \in Sessions /\ written[p] = 0
  BY DEF Init
<1>2. Carried(session[p], 0) = <<>>
  BY <1>1, CarriedIs
<1>3. QED
  BY <1>1, <1>2 DEF Init, Fed

LEMMA StepFeeds ==
  ASSUME AmountsSuffice, IInv, AllFed, [Next]_vars
  PROVE  AllFed'
<1> SUFFICES ASSUME faults' = 0, NEW q \in Roles
             PROVE  peer'[q] = Fed(session'[q], written'[q])
  BY DEF AllFed, Fed, Carried, NoExchange, CanonicalMessages, CanonicalExchange
<1>1. /\ session \in [Roles -> Sessions] /\ written \in [Roles -> 0 .. 13]
      /\ peer \in [Roles -> Holdings] /\ faults \in Nat
  <2>1. Sessions # {}
    BY DEF IInv, Roles
  <2>2. QED
    BY <2>1, LineCountIs, FaultsAssumption DEF IInv
<1>2. LineCount = 13
  <2>1. Sessions # {}
    BY <1>1 DEF Roles
  <2>2. QED
    BY <2>1, LineCountIs
<1>3. CASE UNCHANGED vars
  BY <1>3 DEF vars, AllFed
<1>4. ASSUME NEW p \in Roles, Fault(p)
      PROVE  FALSE
  BY <1>1, <1>4 DEF Fault
<1>5. ASSUME NEW p \in Roles, Deliver(p)
      PROVE  peer'[q] = Fed(session'[q], written'[q])
  <2>1. /\ written[p] < 13 /\ faults' = faults /\ session' = session
        /\ written' = [written EXCEPT ![p] = written[p] + 1]
        /\ peer' = [peer EXCEPT ![p] = Receive(peer[p], Lines[session[p]][written[p] + 1])]
    BY <1>1, <1>2, <1>5 DEF Deliver, Transport, NextLine
  <2>2. \A r \in Roles : peer[r] = Fed(session[r], written[r])
    BY <2>1 DEF AllFed
  <2>3. session[p] \in Sessions /\ written[p] \in 0 .. 12
    BY <1>1, <2>1
  <2>4. peer'[p] = Fed(session[p], written[p] + 1)
    BY <1>1, <2>1, <2>2, <2>3, NextLineFeeds
  <2>5. CASE q = p
    BY <1>1, <2>1, <2>4, <2>5
  <2>6. CASE q # p
    BY <1>1, <2>1, <2>2, <2>6
  <2>7. QED
    BY <2>5, <2>6
<1>6. ASSUME NEW p \in Roles, Close(p)
      PROVE  FALSE
  <2>1. written[p] = 13 /\ peer[p].status = "running" /\ faults = 0
    BY <1>2, <1>6 DEF Close
  <2>2. peer[p].status = "accepted"
    <3>1. peer[p] = Fed(session[p], 13)
      BY <2>1 DEF AllFed
    <3>2. QED
      BY <3>1, FedStatus
  <2>3. QED
    BY <2>1, <2>2
<1>7. CASE Next
  <2>1. PICK p \in Roles : Deliver(p) \/ Fault(p) \/ Close(p)
    BY <1>7 DEF Next, Lose, Repeat, Exchange, Alter, EndEarly
  <2>2. QED
    BY <2>1, <1>4, <1>5, <1>6
<1>8. QED
  BY <1>3, <1>7

(***************************************************************************)
(* What a setup without faults comes to: no peer that ended did anything   *)
(* but accept, and if both were fed one session, so does the harness.      *)
(***************************************************************************)
UnfaultedSetupIsAccepted ==
  faults = 0 =>
    /\ \A p \in Roles : peer[p].status # "running" => peer[p].status = "accepted"
    /\ /\ \A p \in Roles : peer[p].status # "running"
       /\ session["alice"] = session["bob"]
       => SetupAccepted

\* The checks accept a canonical setup that nothing disturbs, in any order in
\* which the two peers get their lines, as long as a participant's funding is
\* positive and no dust.
THEOREM UnfaultedSetupsAreAccepted ==
  ASSUME AmountsSuffice
  PROVE  Spec => []UnfaultedSetupIsAccepted
<1>1. IInv /\ AllFed => UnfaultedSetupIsAccepted
  <2> SUFFICES ASSUME IInv, AllFed, faults = 0
               PROVE  /\ \A p \in Roles : peer[p].status # "running" => peer[p].status = "accepted"
                      /\ /\ \A p \in Roles : peer[p].status # "running"
                         /\ session["alice"] = session["bob"]
                         => SetupAccepted
    BY DEF UnfaultedSetupIsAccepted
  <2>1. \A p \in Roles : peer[p] = Fed(session[p], written[p])
    BY DEF AllFed
  <2>2. \A p \in Roles : peer[p].status # "running" => written[p] = 13 /\ peer[p].status = "accepted"
    BY <2>1, FedStatus
  <2>3. ASSUME NEW p \in Roles, peer[p].status # "running"
        PROVE  peer[p].setupMessages[1].sessionIdHex = session[p]
    <3>1. peer[p].setupMessages = CanonicalMessages[session[p]]
      <4>1. peer[p] = Fed(session[p], 13) /\ session[p] \in Sessions
        BY <2>1, <2>2, <2>3 DEF IInv
      <4>2. peer[p].setupMessages = Carried(session[p], 13)
        BY <4>1, FedStatus
      <4>3. Carried(session[p], 13) = CanonicalMessages[session[p]]
        BY <4>1, CarriedIs
      <4>4. QED
        BY <4>2, <4>3
    <3>2. session[p] \in Sessions /\ 1 \in 1 .. 11
      BY DEF IInv
    <3>3. CanonicalMessages[session[p]][1].sessionIdHex = session[p]
      BY <3>2, CanonicalEnvelopes
    <3>4. QED
      BY <3>1, <3>3
  <2>4. QED
    BY <2>2, <2>3 DEF SetupAccepted, Roles
<1>2. Init => AllFed
  BY InitFeeds
<1>3. IInv /\ AllFed /\ [Next]_vars => AllFed'
  BY StepFeeds
<1>4. QED
  BY <1>1, <1>2, <1>3, Invariant, PTL DEF Spec

==============================================================================
