-------------------------- MODULE Settlement_proofs --------------------------
(***************************************************************************)
(* What TLAPS proves of the settlement, for any setup, any holders and any *)
(* number of faults, and of the amounts of the graph.                      *)
(*                                                                         *)
(* Damage leaves a state and its digests leave it recognisable: it is of   *)
(* its role, its scalars are agreed ones or damaged (Inv, Made), and one   *)
(* fault is in its template or in the rest.  An accepted settlement is     *)
(* then followed check by check: each damaged field of the graph is        *)
(* compared with one that is not, and a scalar that verifies was made for  *)
(* the packet it is in.                                                    *)
(***************************************************************************)
EXTENDS Settlement, TLAPS

(***************************************************************************)
(* MinimumValueSat is the least value that builds the graph.               *)
(***************************************************************************)
LEMMA MaximumIsIt ==
  ASSUME NEW S, NEW m \in S, \A v \in S : v <= m, \A v \in S : v \in Nat
  PROVE  MaxOf(S) = m
<1>1. \A n \in S : (\A v \in S : v <= n) => n = m
  OBVIOUS
<1>2. QED
  BY <1>1 DEF MaxOf

LEMMA MinimumIs2330 == MinimumValueSat = 2330
<1> DEFINE S == {1330, 1830, 2330}
<1>1. MinimumValueSat = MaxOf(S)
  <2>1. {ParentCetFeeSat + DustFloorSat,
         ParentCetFeeSat + BridgeFeeSat + DustFloorSat,
         ParentCetFeeSat + BridgeFeeSat + ChildCetFeeSat + DustFloorSat,
         ParentCetFeeSat + BridgeFeeSat + ChildRefundFeeSat + DustFloorSat} = S
    BY DEF ParentCetFeeSat, BridgeFeeSat, ChildCetFeeSat, ChildRefundFeeSat, DustFloorSat
  <2>2. QED
    BY <2>1 DEF MinimumValueSat
<1>2. 2330 \in S /\ (\A v \in S : v <= 2330) /\ (\A v \in S : v \in Nat)
  OBVIOUS
<1>3. MaxOf(S) = 2330
  <2> HIDE DEF S
  <2> QED
    BY <1>2, MaximumIsIt
<1>4. QED
  BY <1>1, <1>3

\* canonicalPublicActivationMinimumValueSat is the least parent funding from
\* which every spend of the graph builds, refunds and child included: a
\* funding below it strands the edge, one at or above it does not.
THEOREM MinimumFundsTheGraph ==
  \A valueSat \in Nat : GraphBuilds(valueSat) <=> valueSat >= MinimumValueSat
BY MinimumIs2330 DEF GraphBuilds, AdaptorSpendBuilds, KeySpendBuilds, ParentCetFeeSat,
   BridgeFeeSat, BridgeRefundFeeSat, ChildCetFeeSat, ChildRefundFeeSat, DustFloorSat

-------------------------------------------------------------------------------
(***************************************************************************)
(* What no damage and no digest computed again changes: a retained state   *)
(* is of its role and holds a sequence of packets, and no scalar that is   *)
(* kept was made under the point of the wrong outcome.                     *)
(***************************************************************************)
NotForged(scalar) ==
  \A nonce, signer, sighash : scalar # Scalar(nonce, "wrong", signer, sighash)

PacketsKnown(packets) ==
  /\ packets \in Seq({packets[i] : i \in DOMAIN packets})
  /\ \A i \in DOMAIN packets : "scalar" \in DOMAIN packets[i]

PacketsNotForged(packets) ==
  \A i \in DOMAIN packets : NotForged(packets[i].scalar)

\* What damage leaves of the scalars.
ScalarsOf(later, packets) ==
  \A i \in DOMAIN later :
    \/ later[i].scalar = Damaged
    \/ \E j \in DOMAIN packets : later[i].scalar = packets[j].scalar

StateKnown(s) ==
  /\ {"participant", "exchange", "template"} \subseteq DOMAIN s
  /\ "packets" \in DOMAIN s.exchange
  /\ PacketsKnown(s.exchange.packets)

PackageKnown(p) ==
  "adaptor" \in DOMAIN p /\ "scalar" \in DOMAIN p.adaptor

RetainedKnown ==
  /\ retained = [p \in Roles |-> retained[p]]
  /\ \A p \in Roles : retained[p] # Nothing => StateKnown(retained[p]) /\ retained[p].participant = p

PackagesKnown ==
  /\ package = [h \in Holders |-> package[h]]
  /\ \A h \in Holders : package[h] # Nothing => PackageKnown(package[h])

LEMMA TripleKnown ==
  ASSUME NEW a, NEW b, NEW c, "scalar" \in DOMAIN a, "scalar" \in DOMAIN b, "scalar" \in DOMAIN c
  PROVE  PacketsKnown(<<a, b, c>>)
<1> DEFINE t == <<a, b, c>>
<1>1. DOMAIN t = 1 .. 3 /\ t[1] = a /\ t[2] = b /\ t[3] = c
  OBVIOUS
<1>2. t \in Seq({a, b, c})
  OBVIOUS
<1>3. {t[i] : i \in DOMAIN t} = {a, b, c}
  BY <1>1
<1>4. QED
  BY <1>1, <1>2, <1>3 DEF PacketsKnown

LEMMA DamageKeepsPackets ==
  ASSUME NEW packets, PacketsKnown(packets), Len(packets) = 3,
         NEW damaged \in DamagedPackets(packets)
  PROVE  /\ PacketsKnown(damaged)
         /\ ScalarsOf(damaged, packets)
<1>1. DOMAIN packets = 1 .. 3 /\ packets = <<packets[1], packets[2], packets[3]>>
  BY DEF PacketsKnown
<1>2. CASE \E field \in {"purpose", "sighash", "signerPublic", "adaptorPoint", "adaptedNonce",
                         "preNonce", "scalar"} : damaged = [packets EXCEPT ![2][field] = Damaged]
  <2>1. PICK field : damaged = [packets EXCEPT ![2][field] = Damaged]
    BY <1>2
  <2> DEFINE second == [packets[2] EXCEPT ![field] = Damaged]
  <2>2. damaged = <<packets[1], second, packets[3]>>
    BY <1>1, <2>1
  <2>3. "scalar" \in DOMAIN second
    BY <1>1 DEF PacketsKnown
  <2>4. second.scalar = packets[2].scalar \/ second.scalar = Damaged
    BY <1>1 DEF PacketsKnown
  <2> HIDE DEF second
  <2>5. PacketsKnown(damaged)
    BY <1>1, <2>2, <2>3, TripleKnown DEF PacketsKnown
  <2>6. DOMAIN damaged = 1 .. 3 /\ damaged[1] = packets[1] /\ damaged[2] = second /\ damaged[3] = packets[3]
    BY <2>2
  <2>7. QED
    BY <1>1, <2>4, <2>5, <2>6 DEF ScalarsOf
<1>3. CASE damaged = [packets EXCEPT ![2].adaptorPoint = "wrong"]
  <2> DEFINE second == [packets[2] EXCEPT !.adaptorPoint = "wrong"]
  <2>1. damaged = <<packets[1], second, packets[3]>>
    BY <1>1, <1>3
  <2>2. "scalar" \in DOMAIN second /\ second.scalar = packets[2].scalar
    BY <1>1 DEF PacketsKnown
  <2> HIDE DEF second
  <2>3. PacketsKnown(damaged)
    BY <1>1, <2>1, <2>2, TripleKnown DEF PacketsKnown
  <2>4. DOMAIN damaged = 1 .. 3 /\ damaged[1] = packets[1] /\ damaged[2] = second /\ damaged[3] = packets[3]
    BY <2>1
  <2>5. QED
    BY <1>1, <2>2, <2>3, <2>4 DEF ScalarsOf
<1>4. CASE damaged = <<packets[2], packets[1], packets[3]>>
  <2>1. PacketsKnown(damaged)
    BY <1>1, <1>4, TripleKnown DEF PacketsKnown
  <2>2. DOMAIN damaged = 1 .. 3 /\ damaged[1] = packets[2] /\ damaged[2] = packets[1] /\ damaged[3] = packets[3]
    BY <1>4
  <2>3. QED
    BY <1>1, <2>1, <2>2 DEF ScalarsOf
<1>5. CASE damaged = <<packets[1], packets[3]>>
  <2>1. DOMAIN damaged = 1 .. 2 /\ damaged[1] = packets[1] /\ damaged[2] = packets[3]
    BY <1>5
  <2>2. damaged \in Seq({packets[1], packets[3]})
    BY <1>5
  <2>3. {damaged[i] : i \in DOMAIN damaged} = {packets[1], packets[3]}
    BY <2>1
  <2>4. PacketsKnown(damaged)
    BY <1>1, <2>1, <2>2, <2>3 DEF PacketsKnown
  <2>5. QED
    BY <1>1, <2>1, <2>4 DEF ScalarsOf
<1>6. CASE damaged = << >>
  <2>1. DOMAIN damaged = {} /\ damaged \in Seq({damaged[i] : i \in DOMAIN damaged})
    BY <1>6
  <2>2. QED
    BY <2>1 DEF PacketsKnown, ScalarsOf
<1>7. QED
  BY <1>2, <1>3, <1>4, <1>5, <1>6 DEF DamagedPackets

(***************************************************************************)
(* Damage to a whole state, and its digests computed again.                *)
(***************************************************************************)
SameRole(s, t) == StateKnown(t) /\ t.participant = s.participant

KeepsPackets(s, t) == SameRole(s, t) /\ t.exchange.packets = s.exchange.packets

\* The template is damaged or the rest is.
DamagedOnce(s, t) ==
  \/ t.template = s.template
  \/ t.template \in DamagedTemplates(s.template) /\ t.exchange.packets = s.exchange.packets

LEMMA OtherFieldsKeepPackets ==
  ASSUME NEW s, StateKnown(s), NEW value,
         NEW field \in {"template", "oracleMetadata", "setupTranscript", "deadlines",
                        "localSecretHandles", "sessionIdHex", "digest", "templateDigest"}
  PROVE  KeepsPackets(s, [s EXCEPT ![field] = value])
<1> DEFINE t == [s EXCEPT ![field] = value]
<1>1. DOMAIN t = DOMAIN s /\ t.exchange = s.exchange /\ t.participant = s.participant
  BY DEF StateKnown
<1> HIDE DEF t
<1>2. StateKnown(t)
  BY <1>1 DEF StateKnown
<1>3. KeepsPackets(s, t)
  BY <1>1, <1>2 DEF KeepsPackets, SameRole
<1>4. QED
  BY <1>3 DEF t

LEMMA OtherFieldsKeepTemplate ==
  ASSUME NEW s, StateKnown(s), NEW value, NEW field, field # "template"
  PROVE  [s EXCEPT ![field] = value].template = s.template
BY DEF StateKnown

LEMMA DamageKeepsStates ==
  ASSUME NEW s, StateKnown(s), NEW damaged \in DamagedStates(s)
  PROVE  /\ SameRole(s, damaged)
         /\ ScalarsOf(damaged.exchange.packets, s.exchange.packets)
         /\ DamagedOnce(s, damaged)
<1>1. CASE \E packets \in IF Len(s.exchange.packets) = 3 THEN DamagedPackets(s.exchange.packets) ELSE {} :
             damaged = [s EXCEPT !.exchange.packets = packets]
  <2>1. PICK packets \in DamagedPackets(s.exchange.packets) :
               Len(s.exchange.packets) = 3 /\ damaged = [s EXCEPT !.exchange.packets = packets]
    BY <1>1
  <2>2. DOMAIN damaged = DOMAIN s /\ damaged.participant = s.participant
        /\ DOMAIN damaged.exchange = DOMAIN s.exchange /\ damaged.exchange.packets = packets
        /\ damaged.template = s.template
    BY <2>1 DEF StateKnown
  <2>3. PacketsKnown(packets) /\ ScalarsOf(packets, s.exchange.packets)
    BY <2>1, DamageKeepsPackets DEF StateKnown
  <2>4. QED
    BY <2>2, <2>3 DEF StateKnown, SameRole, DamagedOnce
<1>2. CASE \E field \in {"oracleMetadata", "setupTranscript", "deadlines", "localSecretHandles",
                         "sessionIdHex"} :
             \E value : damaged = [s EXCEPT ![field] = value]
  <2>1. PICK field \in {"oracleMetadata", "setupTranscript", "deadlines", "localSecretHandles",
                        "sessionIdHex"} :
               \E value : damaged = [s EXCEPT ![field] = value]
    BY <1>2
  <2>2. PICK value : damaged = [s EXCEPT ![field] = value]
    BY <2>1
  <2>3. KeepsPackets(s, damaged) /\ damaged.template = s.template
    <3>1. KeepsPackets(s, [s EXCEPT ![field] = value])
      BY OtherFieldsKeepPackets
    <3>2. [s EXCEPT ![field] = value].template = s.template
      BY OtherFieldsKeepTemplate
    <3>3. QED
      BY <2>2, <3>1, <3>2
  <2>4. QED
    BY <2>3 DEF KeepsPackets, SameRole, ScalarsOf, DamagedOnce
<1>3. \/ \E t \in DamagedTemplates(s.template) : damaged = [s EXCEPT !.template = t]
      \/ \E packets \in IF Len(s.exchange.packets) = 3 THEN DamagedPackets(s.exchange.packets) ELSE {} :
           damaged = [s EXCEPT !.exchange.packets = packets]
      \/ damaged \in {[s EXCEPT !.oracleMetadata.parentPoint = "wrong"],
                      [s EXCEPT !.setupTranscript.sound = FALSE],
                      [s EXCEPT !.setupTranscript.acks = <<"alice", "alice">>],
                      [s EXCEPT !.setupTranscript.fundingInputs = Damaged],
                      [s EXCEPT !.deadlines.bridgeTimeoutHeight = 0],
                      [s EXCEPT !.localSecretHandles["refund"] = PrivateScalar("alice", "refund")],
                      [s EXCEPT !.sessionIdHex = Damaged]}
  BY DEF DamagedStates
<1>4. CASE \E t \in DamagedTemplates(s.template) : damaged = [s EXCEPT !.template = t]
  <2>1. PICK t \in DamagedTemplates(s.template) : damaged = [s EXCEPT !["template"] = t]
    BY <1>4
  <2>2. KeepsPackets(s, [s EXCEPT !["template"] = t]) /\ [s EXCEPT !["template"] = t].template = t
    BY OtherFieldsKeepPackets DEF StateKnown
  <2>3. QED
    BY <2>1, <2>2 DEF KeepsPackets, SameRole, ScalarsOf, DamagedOnce
<1>5. CASE damaged = [s EXCEPT !.oracleMetadata.parentPoint = "wrong"]
  <2> DEFINE value == [s.oracleMetadata EXCEPT !.parentPoint = "wrong"]
  <2>1. damaged = [s EXCEPT !["oracleMetadata"] = value]
    BY <1>5
  <2>2. QED
    BY <1>2, <2>1
<1>6. CASE damaged = [s EXCEPT !.setupTranscript.sound = FALSE]
  <2>1. damaged = [s EXCEPT !["setupTranscript"] = [s.setupTranscript EXCEPT !.sound = FALSE]]
    BY <1>6
  <2>2. QED
    BY <1>2, <2>1
<1>7. CASE damaged = [s EXCEPT !.setupTranscript.acks = <<"alice", "alice">>]
  <2>1. damaged = [s EXCEPT !["setupTranscript"] = [s.setupTranscript EXCEPT !.acks = <<"alice", "alice">>]]
    BY <1>7
  <2>2. QED
    BY <1>2, <2>1
<1>8. CASE damaged = [s EXCEPT !.setupTranscript.fundingInputs = Damaged]
  <2>1. damaged = [s EXCEPT !["setupTranscript"] = [s.setupTranscript EXCEPT !.fundingInputs = Damaged]]
    BY <1>8
  <2>2. QED
    BY <1>2, <2>1
<1>9. CASE damaged = [s EXCEPT !.deadlines.bridgeTimeoutHeight = 0]
  <2>1. damaged = [s EXCEPT !["deadlines"] = [s.deadlines EXCEPT !.bridgeTimeoutHeight = 0]]
    BY <1>9
  <2>2. QED
    BY <1>2, <2>1
<1>10. CASE damaged = [s EXCEPT !.localSecretHandles["refund"] = PrivateScalar("alice", "refund")]
  <2>1. damaged = [s EXCEPT !["localSecretHandles"] =
                     [s.localSecretHandles EXCEPT !["refund"] = PrivateScalar("alice", "refund")]]
    BY <1>10
  <2>2. QED
    BY <1>2, <2>1
<1>11. CASE damaged = [s EXCEPT !.sessionIdHex = Damaged]
  BY <1>2, <1>11
<1>12. QED
  BY <1>1, <1>2, <1>3, <1>4, <1>5, <1>6, <1>7, <1>8, <1>9, <1>10, <1>11

LEMMA DigestsKeepStates ==
  ASSUME NEW s, StateKnown(s)
  PROVE  LET first == WithDigest(s)
             second == WithDigest([s EXCEPT !.templateDigest = DigestOf(s.template),
                                            !.exchange.templateDigest = DigestOf(s.template)])
         IN  /\ KeepsPackets(s, first) /\ first.template = s.template
             /\ KeepsPackets(s, second) /\ second.template = s.template
<1>1. KeepsPackets(s, WithDigest(s)) /\ WithDigest(s).template = s.template
  BY OtherFieldsKeepPackets, OtherFieldsKeepTemplate DEF WithDigest
<1> DEFINE u == [s EXCEPT !.templateDigest = DigestOf(s.template),
                          !.exchange.templateDigest = DigestOf(s.template)]
<1>2. KeepsPackets(s, u) /\ u.template = s.template
  <2>1. DOMAIN u = DOMAIN s /\ u.participant = s.participant /\ u.template = s.template
        /\ DOMAIN u.exchange = DOMAIN s.exchange /\ u.exchange.packets = s.exchange.packets
    BY DEF StateKnown
  <2> HIDE DEF u
  <2>2. QED
    BY <2>1 DEF StateKnown, KeepsPackets, SameRole
<1>3. KeepsPackets(u, WithDigest(u)) /\ WithDigest(u).template = u.template
  <2> HIDE DEF u
  <2>1. StateKnown(u)
    BY <1>2 DEF KeepsPackets, SameRole
  <2>2. KeepsPackets(u, WithDigest(u))
    BY <2>1, OtherFieldsKeepPackets DEF WithDigest
  <2>3. WithDigest(u).template = u.template
    BY <2>1, OtherFieldsKeepTemplate DEF WithDigest
  <2>4. QED
    BY <2>2, <2>3
<1>4. QED
  <2> HIDE DEF u
  <2>1. KeepsPackets(s, WithDigest(u)) /\ WithDigest(u).template = s.template
    BY <1>2, <1>3 DEF KeepsPackets, SameRole
  <2>2. QED
    BY <1>1, <2>1 DEF u

(***************************************************************************)
(* What is kept at first.                                                  *)
(***************************************************************************)
LEMMA SpendHasNoPoint ==
  ASSUME NEW purpose \in Purposes
  PROVE  "adaptorPoint" \notin DOMAIN CanonicalSpends[purpose]
<1>1. ASSUME NEW name, NEW wallet, NEW utxo, NEW destination, NEW value
      PROVE  "adaptorPoint" \notin DOMAIN Spend(name, wallet, utxo, destination, value)
  BY DEF Spend
<1>2. CASE purpose = "parent_cet"
  BY <1>1, <1>2 DEF CanonicalSpends
<1>3. CASE purpose = "bridge"
  BY <1>1, <1>3 DEF CanonicalSpends
<1>4. CASE purpose = "child_cet"
  BY <1>1, <1>4 DEF CanonicalSpends
<1>5. QED
  BY <1>2, <1>3, <1>4 DEF Purposes

LEMMA FirstStateKnown ==
  ASSUME NEW participant, NEW t
  PROVE  /\ StateKnown(RetainedState(participant, t))
         /\ RetainedState(participant, t).participant = participant
         /\ PacketsNotForged(RetainedState(participant, t).exchange.packets)
<1> DEFINE template == CanonicalTemplate(t.sessionIdHex)
           s == RetainedState(participant, t)
           a == RetainedPacket(template, "parent_cet")
           b == RetainedPacket(template, "bridge")
           c == RetainedPacket(template, "child_cet")
<1>1. {"participant", "exchange", "template"} \subseteq DOMAIN s /\ s.participant = participant
      /\ s.exchange = Exchange(template)
  BY DEF RetainedState, WithDigest
<1>2. "packets" \in DOMAIN s.exchange /\ s.exchange.packets = <<a, b, c>>
  BY <1>1 DEF Exchange
<1>3. ASSUME NEW purpose \in Purposes
      PROVE  /\ "scalar" \in DOMAIN RetainedPacket(template, purpose)
             /\ NotForged(RetainedPacket(template, purpose).scalar)
  <2> DEFINE point == template.spends[purpose].adaptorPoint
  <2>1. point = PlannedPoint[purpose]
    <3>1. template.spends[purpose] = AdaptorTemplate(purpose)
      BY DEF CanonicalTemplate
    <3>2. "adaptorPoint" \in DOMAIN AdaptorTemplate(purpose)
          /\ AdaptorTemplate(purpose).adaptorPoint = PlannedPoint[purpose]
      BY SpendHasNoPoint DEF AdaptorTemplate, Spread
    <3>3. QED
      BY <3>1, <3>2
  <2>2. point # "wrong"
    <3>1. /\ PlannedPoint["parent_cet"] = "activating" /\ PlannedPoint["bridge"] = "activating"
          /\ PlannedPoint["child_cet"] = "child activating"
      BY DEF PlannedPoint
    <3> HIDE DEF point
    <3>2. QED
      BY <2>1, <3>1 DEF Purposes
  <2>3. "scalar" \in DOMAIN RetainedPacket(template, purpose)
        /\ RetainedPacket(template, purpose).scalar
             = Scalar(purpose, point, purpose, template.spends[purpose].sighash)
    BY DEF RetainedPacket, SpendAdaptor, AdaptorSignature, Spread
  <2> HIDE DEF point
  <2>4. QED
    BY <2>2, <2>3 DEF NotForged, Scalar
<1>4. "scalar" \in DOMAIN a /\ "scalar" \in DOMAIN b /\ "scalar" \in DOMAIN c
      /\ NotForged(a.scalar) /\ NotForged(b.scalar) /\ NotForged(c.scalar)
  BY <1>3 DEF Purposes
<1> HIDE DEF a, b, c, s
<1>5. PacketsKnown(s.exchange.packets)
  BY <1>2, <1>4, TripleKnown
<1>6. PacketsNotForged(s.exchange.packets)
  BY <1>2, <1>4 DEF PacketsNotForged
<1>7. QED
  BY <1>1, <1>2, <1>5, <1>6 DEF StateKnown, s

-------------------------------------------------------------------------------
(***************************************************************************)
(* The invariants of what is kept.                                         *)
(***************************************************************************)
SettlementsTyped ==
  /\ transcript \in {Transcript(SessionIdHex, acks) : acks \in Acks}
  /\ stateFaults \in [Roles -> Nat]
  /\ packageFaults \in [Holders -> Nat]
  /\ published \subseteq Outcomes
  /\ \A r \in settlements : r.by \in Roles /\ r.faults \in Nat
  /\ \A a \in activations : a.by \in Holders

Inv == SettlementsTyped /\ RetainedKnown /\ PackagesKnown

LEMMA FirstPackageKnown ==
  ASSUME NEW t
  PROVE  /\ PackageKnown(PreparedEdgePackage(t))
         /\ PreparedEdgePackage(t).adaptor.scalar
              = Scalar("bridge", t.spends["bridge"].adaptorPoint, "bridge", t.spends["bridge"].sighash)
BY DEF PackageKnown, PreparedEdgePackage, SpendAdaptor, AdaptorSignature

LEMMA InitInv == Init => Inv
<1> SUFFICES ASSUME Init PROVE Inv
  OBVIOUS
<1>1. SettlementsTyped
  BY DEF Init, SettlementsTyped
<1>2. RetainedKnown
  <2>1. retained = [p \in Roles |-> InitialState(p)]
    BY DEF Init
  <2>2. ASSUME NEW p \in Roles, retained[p] # Nothing
        PROVE  StateKnown(retained[p]) /\ retained[p].participant = p
    <3>1. retained[p] = RetainedState(p, transcript)
      <4>1. retained[p] = IF Retainable(transcript) THEN RetainedState(p, transcript) ELSE Nothing
        BY <2>1 DEF InitialState
      <4>2. QED
        BY <2>2, <4>1
    <3>2. QED
      BY <3>1, FirstStateKnown
  <2>3. QED
    BY <2>1, <2>2 DEF RetainedKnown
<1>3. PackagesKnown
  <2>1. package = [h \in Holders |-> PreparedEdgePackage(CanonicalTemplate(SessionIdHex))]
    BY DEF Init
  <2>2. QED
    BY <2>1, FirstPackageKnown DEF PackagesKnown
<1>4. QED
  BY <1>1, <1>2, <1>3 DEF Inv

LEMMA RetainedStep ==
  ASSUME RetainedKnown, NEW p \in Roles, NEW state,
         retained' = [retained EXCEPT ![p] = state],
         state # Nothing => StateKnown(state) /\ state.participant = p
  PROVE  RetainedKnown'
BY DEF RetainedKnown

LEMMA PackageStep ==
  ASSUME NEW p, PackageKnown(p), NEW damaged \in DamagedPackages(p)
  PROVE  PackageKnown(damaged)
         /\ (damaged.adaptor.scalar = p.adaptor.scalar \/ damaged.adaptor.scalar = Damaged)
<1>1. CASE \E field \in {"unsignedTx", "sighash"} : damaged = [p EXCEPT ![field] = Damaged]
  <2>1. PICK field \in {"unsignedTx", "sighash"} : damaged = [p EXCEPT ![field] = Damaged]
    BY <1>1
  <2>2. DOMAIN damaged = DOMAIN p /\ damaged.adaptor = p.adaptor
    BY <2>1 DEF PackageKnown
  <2>3. QED
    BY <2>2 DEF PackageKnown
<1>2. CASE \E field \in {"signerPublic", "adaptorPoint", "adaptedNonce", "scalar"} :
             damaged = [p EXCEPT !.adaptor[field] = Damaged]
  <2>1. PICK field \in {"signerPublic", "adaptorPoint", "adaptedNonce", "scalar"} :
               damaged = [p EXCEPT !.adaptor[field] = Damaged]
    BY <1>2
  <2> DEFINE adaptor == [p.adaptor EXCEPT ![field] = Damaged]
  <2>2. DOMAIN damaged = DOMAIN p /\ damaged.adaptor = adaptor
    BY <2>1 DEF PackageKnown
  <2>3. DOMAIN adaptor = DOMAIN p.adaptor
        /\ (adaptor.scalar = p.adaptor.scalar \/ adaptor.scalar = Damaged)
    BY DEF PackageKnown
  <2> HIDE DEF adaptor
  <2>4. QED
    BY <2>2, <2>3 DEF PackageKnown
<1>3. QED
  BY <1>1, <1>2 DEF DamagedPackages

LEMMA NextInv == Inv /\ [Next]_vars => Inv'
<1> SUFFICES ASSUME Inv, [Next]_vars PROVE Inv'
  OBVIOUS
<1> USE DEF Inv
<1>1. ASSUME NEW p \in Roles, DamageState(p) PROVE Inv'
  <2>1. PICK state : /\ retained' = [retained EXCEPT ![p] = state]
                     /\ state = Nothing \/ state \in DamagedStates(retained[p])
    BY <1>1 DEF DamageState
  <2>2. StateKnown(retained[p]) /\ retained[p].participant = p
    BY <1>1 DEF DamageState, RetainedKnown
  <2>3. state # Nothing => StateKnown(state) /\ state.participant = p
    BY <2>1, <2>2, DamageKeepsStates DEF SameRole
  <2>4. RetainedKnown'
    BY <2>1, <2>3, RetainedStep
  <2>5. SettlementsTyped' /\ PackagesKnown'
    BY <1>1 DEF DamageState, SettlementsTyped, PackagesKnown
  <2>6. QED
    BY <2>4, <2>5
<1>2. ASSUME NEW p \in Roles, RewriteStateDigest(p) PROVE Inv'
  <2>1. retained' = [retained EXCEPT ![p] = WithDigest(retained[p])]
    BY <1>2 DEF RewriteStateDigest
  <2>2. StateKnown(retained[p]) /\ retained[p].participant = p
    BY <1>2 DEF RewriteStateDigest, RetainedKnown
  <2>3. StateKnown(WithDigest(retained[p])) /\ WithDigest(retained[p]).participant = p
    BY <2>2, DigestsKeepStates DEF KeepsPackets, SameRole
  <2>4. RetainedKnown'
    BY <2>1, <2>3, RetainedStep
  <2>5. SettlementsTyped' /\ PackagesKnown'
    BY <1>2 DEF RewriteStateDigest, SettlementsTyped, PackagesKnown
  <2>6. QED
    BY <2>4, <2>5
<1>3. ASSUME NEW p \in Roles, RewriteTemplateDigest(p) PROVE Inv'
  <2> DEFINE state == WithDigest(
               [retained[p] EXCEPT !.templateDigest = DigestOf(retained[p].template),
                                   !.exchange.templateDigest = DigestOf(retained[p].template)])
  <2>1. retained' = [retained EXCEPT ![p] = state]
    BY <1>3 DEF RewriteTemplateDigest
  <2>2. StateKnown(retained[p]) /\ retained[p].participant = p
    BY <1>3 DEF RewriteTemplateDigest, RetainedKnown
  <2>3. StateKnown(state) /\ state.participant = p
    BY <2>2, DigestsKeepStates DEF KeepsPackets, SameRole
  <2> HIDE DEF state
  <2>4. RetainedKnown'
    BY <2>1, <2>3, RetainedStep
  <2>5. SettlementsTyped' /\ PackagesKnown'
    BY <1>3 DEF RewriteTemplateDigest, SettlementsTyped, PackagesKnown
  <2>6. QED
    BY <2>4, <2>5
<1>4. ASSUME NEW p \in Roles, NEW outcome \in Outcomes, Settle(p, outcome) PROVE Inv'
  BY <1>4 DEF Settle, SettlementsTyped, RetainedKnown, PackagesKnown
<1>5. ASSUME NEW h \in Holders, DamagePackage(h) PROVE Inv'
  <2>1. PICK pending : /\ package' = [package EXCEPT ![h] = pending]
                       /\ pending = Nothing \/ pending \in DamagedPackages(package[h])
    BY <1>5 DEF DamagePackage
  <2>2. PackageKnown(package[h])
    BY <1>5 DEF DamagePackage, PackagesKnown
  <2>3. pending # Nothing => PackageKnown(pending)
    BY <2>1, <2>2, PackageStep
  <2>4. PackagesKnown'
    BY <2>1, <2>3 DEF PackagesKnown
  <2>5. SettlementsTyped' /\ RetainedKnown'
    BY <1>5 DEF DamagePackage, SettlementsTyped, RetainedKnown
  <2>6. QED
    BY <2>4, <2>5
<1>6. ASSUME NEW h \in Holders, NEW outcome \in Outcomes, ActivatePreparedEdge(h, outcome) PROVE Inv'
  BY <1>6 DEF ActivatePreparedEdge, SettlementsTyped, RetainedKnown, PackagesKnown
<1>7. ASSUME NEW outcome \in Outcomes, Attest(outcome) PROVE Inv'
  BY <1>7 DEF Attest, SettlementsTyped, RetainedKnown, PackagesKnown
<1>8. CASE UNCHANGED vars
  BY <1>8 DEF vars, SettlementsTyped, RetainedKnown, PackagesKnown
<1>9. QED
  BY <1>1, <1>2, <1>3, <1>4, <1>5, <1>6, <1>7, <1>8 DEF Next

LEMMA AlwaysInv == Spec => []Inv
BY InitInv, NextInv, PTL DEF Spec

\* TypeOK, for any acknowledgements, holders and number of faults: no damage
\* and no digest computed again makes the state of one role that of another.
THEOREM TypeCorrect == Spec => []TypeOK
<1>1. Inv => TypeOK
  BY DEF Inv, SettlementsTyped, RetainedKnown, PackagesKnown, TypeOK
<1>2. QED
  BY <1>1, AlwaysInv, PTL

-------------------------------------------------------------------------------
(***************************************************************************)
(* SettlementIsBound.  The packet whose signature is completed is the one  *)
(* that is compared with the template, and its equation ties the point to  *)
(* the secret that completes it.                                           *)
(***************************************************************************)
LEMMA AcceptedReleases ==
  ASSUME NEW s, StateKnown(s), NEW secret, SettlementAccepted(s, secret),
         NEW purpose \in {"parent_cet", "bridge"}
  PROVE  Releases(s, purpose, secret)
<1> DEFINE packets == s.exchange.packets
<1>1. PICK i \in DOMAIN packets :
             IsFirstPacket(s, purpose, i) /\ PacketCompletes(packets[i], secret)
  BY DEF SettlementAccepted, RetainedCompletes
<1>2. PICK j \in DOMAIN packets :
             IsFirstPacket(s, purpose, j) /\ PacketMatchesTemplate(packets[j], s.template.spends[purpose])
  BY DEF SettlementAccepted, StateValidates, AdaptorPacketsMatchTemplate, Purposes
<1>3. i = j
  <2>1. DOMAIN packets = 1 .. Len(packets)
    BY DEF StateKnown, PacketsKnown
  <2>2. i < j \/ j < i \/ i = j
    BY <2>1
  <2>3. QED
    BY <1>1, <1>2, <2>2 DEF IsFirstPacket
<1>4. packets[i].scalar
        = Scalar(packets[i].adaptedNonce, packets[i].adaptorPoint, packets[i].signerPublic, packets[i].sighash)
  BY DEF SettlementAccepted, StateValidates, AdaptorEquationsVerify, AdaptorEquationVerifies
<1>5. packets[i].scalar
        = Scalar(packets[i].adaptedNonce, PointOf(secret), packets[i].signerPublic, packets[i].sighash)
  BY <1>1 DEF PacketCompletes, SchnorrVerifies, CompletedSignature
<1>6. packets[i].adaptorPoint = PointOf(secret)
  BY <1>4, <1>5 DEF Scalar
<1>7. /\ s.template.spends[purpose].adaptorPoint = PointOf(secret)
      /\ s.template.spends[purpose].sighash = packets[i].sighash
  BY <1>2, <1>3, <1>6 DEF PacketMatchesTemplate
<1>8. QED
  BY <1>1, <1>7 DEF Releases, PacketCompletes

\* SettlementIsBound, for any setup, any holders and any number of faults.
THEOREM SettlementsAreBound == Spec => []SettlementIsBound
<1>1. Init => SettlementIsBound
  BY DEF Init, SettlementIsBound
<1>2. Inv /\ SettlementIsBound /\ [Next]_vars => SettlementIsBound'
  <2> SUFFICES ASSUME Inv, SettlementIsBound, [Next]_vars, NEW r \in settlements'
               PROVE  /\ PointOf(r.secret) \in published'
                      /\ Releases(r.state, "parent_cet", r.secret)
                      /\ Releases(r.state, "bridge", r.secret)
                      /\ ValidTemplate(r.state.template)
                      /\ BridgeSpendsParentEdge(r.state.template)
                      /\ BridgeCreatesChildFunding(r.state.template)
                      /\ {r.state.setupTranscript.acks[i] : i \in DOMAIN r.state.setupTranscript.acks} = Roles
    BY DEF SettlementIsBound
  <2>1. published \subseteq published'
    BY DEF Next, vars, DamageState, RewriteStateDigest, RewriteTemplateDigest, Settle,
           DamagePackage, ActivatePreparedEdge, Attest
  <2>2. CASE r \in settlements
    BY <2>1, <2>2 DEF SettlementIsBound
  <2>3. CASE r \notin settlements
    <3>1. PICK p \in Roles, outcome \in Outcomes : Settle(p, outcome)
      BY <2>3 DEF Next, vars, DamageState, RewriteStateDigest, RewriteTemplateDigest, Settle,
                  DamagePackage, ActivatePreparedEdge, Attest
    <3>2. r = [by |-> p, secret |-> AttestationSecret(outcome), state |-> retained[p], faults |-> stateFaults[p]]
      BY <2>3, <3>1 DEF Settle
    <3>3. outcome \in published /\ SettlementAccepted(r.state, r.secret)
      BY <3>1, <3>2 DEF Settle
    <3>4. StateKnown(r.state)
      BY <3>1, <3>2 DEF Settle, Inv, RetainedKnown
    <3>5. PointOf(r.secret) \in published'
      BY <2>1, <3>2, <3>3 DEF PointOf, AttestationSecret
    <3>6. Releases(r.state, "parent_cet", r.secret) /\ Releases(r.state, "bridge", r.secret)
      BY <3>3, <3>4, AcceptedReleases
    <3>7. QED
      BY <3>3, <3>5, <3>6 DEF SettlementAccepted, StateValidates, SetupAccepted
  <2>4. QED
    BY <2>2, <2>3
<1>3. QED
  BY <1>1, <1>2, AlwaysInv, PTL DEF Spec

-------------------------------------------------------------------------------
(***************************************************************************)
(* OnlyActivatingOutcomeActivates, where damage forges no signature under  *)
(* the point of the wrong outcome: that is all it assumes of Damaged.      *)
(***************************************************************************)
NothingForged ==
  /\ \A p \in Roles : retained[p] # Nothing => PacketsNotForged(retained[p].exchange.packets)
  /\ \A h \in Holders : package[h] # Nothing => NotForged(package[h].adaptor.scalar)

LEMMA OnlyActivatingCompletes ==
  ASSUME NEW adaptor, NotForged(adaptor.scalar), NEW outcome \in Outcomes,
         NEW sighash, NEW signer,
         SchnorrVerifies(CompletedSignature(adaptor, AttestationSecret(outcome)), sighash, signer)
  PROVE  outcome = "activating"
<1>1. adaptor.scalar = Scalar(adaptor.adaptedNonce, outcome, signer, sighash)
  BY DEF SchnorrVerifies, CompletedSignature, PointOf, AttestationSecret
<1>2. QED
  BY <1>1 DEF NotForged, Outcomes

LEMMA NothingIsForged ==
  ASSUME NotForged(Damaged)
  PROVE  /\ Init => NothingForged
         /\ Inv /\ NothingForged /\ [Next]_vars => NothingForged'
<1>1. ASSUME Init PROVE NothingForged
  <2>1. ASSUME NEW p \in Roles, retained[p] # Nothing
        PROVE  PacketsNotForged(retained[p].exchange.packets)
    <3>1. retained[p] = RetainedState(p, transcript)
      BY <1>1, <2>1 DEF Init, InitialState
    <3>2. QED
      BY <3>1, FirstStateKnown
  <2>2. ASSUME NEW h \in Holders, package[h] # Nothing
        PROVE  NotForged(package[h].adaptor.scalar)
    <3> DEFINE t == CanonicalTemplate(SessionIdHex)
    <3>1. package[h] = PreparedEdgePackage(t)
      BY <1>1, <2>2 DEF Init
    <3>2. t.spends["bridge"].adaptorPoint = "activating"
      <4>1. t.spends["bridge"] = AdaptorTemplate("bridge")
        BY DEF CanonicalTemplate, Purposes
      <4>2. AdaptorTemplate("bridge").adaptorPoint = "activating"
        BY SpendHasNoPoint DEF AdaptorTemplate, Spread, Purposes, PlannedPoint
      <4>3. QED
        BY <4>1, <4>2
    <3> HIDE DEF t
    <3>3. package[h].adaptor.scalar = Scalar("bridge", "activating", "bridge", t.spends["bridge"].sighash)
      BY <3>1, <3>2, FirstPackageKnown
    <3>4. QED
      BY <3>3 DEF NotForged, Scalar
  <2>3. QED
    BY <2>1, <2>2 DEF NothingForged
<1>2. ASSUME Inv, NothingForged, [Next]_vars PROVE NothingForged'
  <2>1. ASSUME NEW p \in Roles, retained'[p] # Nothing
        PROVE  PacketsNotForged(retained'[p].exchange.packets)
    <3>1. CASE retained'[p] = retained[p]
      BY <1>2, <2>1, <3>1 DEF NothingForged
    <3>2. CASE retained'[p] # retained[p]
      <4>1. retained' # retained
        BY <3>2
      <4>2. PICK q \in Roles : DamageState(q) \/ RewriteStateDigest(q) \/ RewriteTemplateDigest(q)
        BY <1>2, <4>1 DEF Next, vars, Settle, DamagePackage, ActivatePreparedEdge, Attest
      <4>3. p = q
        BY <1>2, <3>2, <4>2 DEF Inv, RetainedKnown, DamageState, RewriteStateDigest, RewriteTemplateDigest
      <4>4. retained[p] # Nothing /\ StateKnown(retained[p]) /\ PacketsNotForged(retained[p].exchange.packets)
        BY <1>2, <4>2, <4>3 DEF Inv, RetainedKnown, NothingForged, DamageState, RewriteStateDigest,
                               RewriteTemplateDigest
      <4>5. CASE DamageState(p)
        <5>1. retained'[p] \in DamagedStates(retained[p])
          BY <1>2, <2>1, <4>5 DEF DamageState, Inv, RetainedKnown
        <5>2. ScalarsOf(retained'[p].exchange.packets, retained[p].exchange.packets)
          BY <4>4, <5>1, DamageKeepsStates
        <5>3. QED
          BY <4>4, <5>2 DEF ScalarsOf, PacketsNotForged
      <4>6. CASE RewriteStateDigest(p)
        <5>1. retained'[p] = WithDigest(retained[p])
          BY <1>2, <4>6 DEF RewriteStateDigest, Inv, RetainedKnown
        <5>2. QED
          BY <4>4, <5>1, DigestsKeepStates DEF KeepsPackets
      <4>7. CASE RewriteTemplateDigest(p)
        <5>1. retained'[p] = WithDigest(
                [retained[p] EXCEPT !.templateDigest = DigestOf(retained[p].template),
                                    !.exchange.templateDigest = DigestOf(retained[p].template)])
          BY <1>2, <4>7 DEF RewriteTemplateDigest, Inv, RetainedKnown
        <5>2. QED
          BY <4>4, <5>1, DigestsKeepStates DEF KeepsPackets
      <4>8. QED
        BY <4>2, <4>3, <4>5, <4>6, <4>7
    <3>3. QED
      BY <3>1, <3>2
  <2>2. ASSUME NEW h \in Holders, package'[h] # Nothing
        PROVE  NotForged(package'[h].adaptor.scalar)
    <3>1. CASE package'[h] = package[h]
      BY <1>2, <2>2, <3>1 DEF NothingForged
    <3>2. CASE package'[h] # package[h]
      <4>1. PICK g \in Holders : DamagePackage(g)
        BY <1>2, <3>2 DEF Next, vars, DamageState, RewriteStateDigest, RewriteTemplateDigest,
                          Settle, ActivatePreparedEdge, Attest
      <4>2. h = g /\ package[h] # Nothing /\ package'[h] \in DamagedPackages(package[h])
        BY <1>2, <2>2, <3>2, <4>1 DEF DamagePackage, Inv, PackagesKnown
      <4>3. PackageKnown(package[h]) /\ NotForged(package[h].adaptor.scalar)
        BY <1>2, <4>2 DEF Inv, PackagesKnown, NothingForged
      <4>4. QED
        BY <4>2, <4>3, PackageStep
    <3>3. QED
      BY <3>1, <3>2
  <2>3. QED
    BY <2>1, <2>2 DEF NothingForged
<1>3. QED
  BY <1>1, <1>2

\* OnlyActivatingOutcomeActivates, for any setup, any holders and any number
\* of faults, if a damaged scalar is no signature under the wrong point.
THEOREM WrongOutcomeActivatesNothing ==
  ASSUME NotForged(Damaged)
  PROVE  Spec => []OnlyActivatingOutcomeActivates
<1>1. Init => OnlyActivatingOutcomeActivates
  BY DEF Init, OnlyActivatingOutcomeActivates
<1>2. Inv /\ NothingForged /\ OnlyActivatingOutcomeActivates /\ [Next]_vars
        => OnlyActivatingOutcomeActivates'
  <2> SUFFICES ASSUME Inv, NothingForged, OnlyActivatingOutcomeActivates, [Next]_vars
               PROVE  OnlyActivatingOutcomeActivates'
    OBVIOUS
  <2>1. ASSUME NEW p \in Roles, NEW outcome \in Outcomes, Settle(p, outcome)
        PROVE  outcome = "activating"
    <3>1. PICK i \in DOMAIN retained[p].exchange.packets :
                 PacketCompletes(retained[p].exchange.packets[i], AttestationSecret(outcome))
      BY <2>1 DEF Settle, SettlementAccepted, RetainedCompletes
    <3>2. NotForged(retained[p].exchange.packets[i].scalar)
      BY <2>1 DEF Settle, NothingForged, PacketsNotForged
    <3>3. QED
      BY <3>1, <3>2, OnlyActivatingCompletes DEF PacketCompletes
  <2>2. ASSUME NEW h \in Holders, NEW outcome \in Outcomes, ActivatePreparedEdge(h, outcome)
        PROVE  outcome = "activating"
    <3>1. NotForged(package[h].adaptor.scalar)
      BY <2>2 DEF ActivatePreparedEdge, NothingForged
    <3>2. QED
      BY <2>2, <3>1, OnlyActivatingCompletes DEF ActivatePreparedEdge, CompletionVerifies
  <2>3. ASSUME NEW r \in settlements' PROVE r.secret = AttestationSecret("activating")
    <3>1. CASE r \in settlements
      BY <3>1 DEF OnlyActivatingOutcomeActivates
    <3>2. CASE r \notin settlements
      <4>1. PICK p \in Roles, outcome \in Outcomes : Settle(p, outcome)
        BY <2>3, <3>2 DEF Next, vars, DamageState, RewriteStateDigest, RewriteTemplateDigest,
                          DamagePackage, ActivatePreparedEdge, Attest
      <4>2. r.secret = AttestationSecret(outcome)
        BY <2>3, <3>2, <4>1 DEF Settle
      <4>3. QED
        BY <2>1, <4>1, <4>2
    <3>3. QED
      BY <3>1, <3>2
  <2>4. ASSUME NEW a \in activations' PROVE a.spend.extractedSecret = AttestationSecret("activating")
    <3>1. CASE a \in activations
      BY <3>1 DEF OnlyActivatingOutcomeActivates
    <3>2. CASE a \notin activations
      <4>1. PICK h \in Holders, outcome \in Outcomes : ActivatePreparedEdge(h, outcome)
        BY <2>4, <3>2 DEF Next, vars, DamageState, RewriteStateDigest, RewriteTemplateDigest,
                          DamagePackage, Settle, Attest
      <4>2. a.spend = CompletedSpend(package[h], AttestationSecret(outcome))
        BY <2>4, <3>2, <4>1 DEF ActivatePreparedEdge
      <4>3. a.spend.extractedSecret = AttestationSecret(outcome)
        BY <4>2 DEF CompletedSpend, ExtractedSecret, CompletedSignature
      <4>4. QED
        BY <2>2, <4>1, <4>3
    <3>3. QED
      BY <3>1, <3>2
  <2>5. QED
    BY <2>3, <2>4 DEF OnlyActivatingOutcomeActivates
<1>3. QED
  BY <1>1, <1>2, NothingIsForged, AlwaysInv, PTL DEF Spec

-------------------------------------------------------------------------------
(***************************************************************************)
(* The agreed template: where its fields are, and what the spends are      *)
(* named by.                                                               *)
(***************************************************************************)
AgreedTemplate == CanonicalTemplate(SessionIdHex)

AgreedPackets == Exchange(AgreedTemplate).packets

SpendFields == {"unsignedTx", "txid", "sighash", "input", "output", "dustCheckPasses", "id"}

InputFields == {"txid", "vout", "valueSat", "scriptPubKey"}

OutputFields == {"vout", "valueSat", "scriptPubKey"}

SpendShaped(spend) ==
  /\ SpendFields \subseteq DOMAIN spend
  /\ spend.input = [field \in InputFields |-> spend.input[field]]
  /\ spend.output = [field \in OutputFields |-> spend.output[field]]

TemplateShaped(t) ==
  /\ {"sessionIdHex", "parentFundingOutpoint", "spends", "childFundingOutput", "timelocks"}
       \subseteq DOMAIN t
  /\ t.spends = [name \in Purposes \cup Refunds |-> t.spends[name]]
  /\ \A name \in Purposes \cup Refunds : SpendShaped(t.spends[name])

LEMMA SpreadIs ==
  ASSUME NEW first, NEW second
  PROVE  /\ \A field \in DOMAIN first : field \in DOMAIN Spread(first, second)
                                        /\ Spread(first, second)[field] = first[field]
         /\ \A field \in DOMAIN second : field \in DOMAIN Spread(first, second)
                /\ (field \notin DOMAIN first => Spread(first, second)[field] = second[field])
BY DEF Spread

LEMMA SpendIs ==
  ASSUME NEW name, NEW wallet, NEW utxo, NEW destination, NEW value
  PROVE  LET spend == Spend(name, wallet, utxo, destination, value)
         IN  /\ DOMAIN spend = {"unsignedTx", "txid", "sighash", "input", "output", "feeSat"}
             /\ spend.unsignedTx = name /\ spend.txid = name /\ spend.sighash = name
             /\ spend.input = [field \in InputFields |-> spend.input[field]]
             /\ spend.output = [field \in OutputFields |-> spend.output[field]]
BY DEF Spend, InputFields, OutputFields

LEMMA CanonicalSpendIs ==
  ASSUME NEW name \in Purposes \cup Refunds
  PROVE  LET spend == CanonicalSpends[name]
         IN  /\ DOMAIN spend = {"unsignedTx", "txid", "sighash", "input", "output", "feeSat"}
             /\ spend.unsignedTx = name /\ spend.txid = name /\ spend.sighash = name
             /\ spend.input = [field \in InputFields |-> spend.input[field]]
             /\ spend.output = [field \in OutputFields |-> spend.output[field]]
<1>1. \E wallet, utxo, destination, value :
        CanonicalSpends[name] = Spend(name, wallet, utxo, destination, value)
  <2>1. CASE name = "parent_cet"
    BY <2>1 DEF CanonicalSpends
  <2>2. CASE name = "bridge"
    BY <2>2 DEF CanonicalSpends
  <2>3. CASE name = "child_cet"
    BY <2>3 DEF CanonicalSpends
  <2>4. CASE name = "edge_timeout_refund"
    BY <2>4 DEF CanonicalSpends
  <2>5. CASE name = "child_timeout_refund"
    BY <2>5 DEF CanonicalSpends
  <2>6. QED
    BY <2>1, <2>2, <2>3, <2>4, <2>5 DEF Purposes, Refunds
<1>2. PICK wallet, utxo, destination, value :
        CanonicalSpends[name] = Spend(name, wallet, utxo, destination, value)
  BY <1>1
<1>3. QED
  BY <1>2, SpendIs

LEMMA AgreedSpendIs ==
  ASSUME NEW name \in Purposes \cup Refunds
  PROVE  LET spend == AgreedTemplate.spends[name]
         IN  /\ SpendShaped(spend)
             /\ spend.unsignedTx = name /\ spend.txid = name /\ spend.sighash = name
             /\ spend.id = name
             /\ spend.input = CanonicalSpends[name].input
             /\ spend.output = CanonicalSpends[name].output
             /\ spend.dustCheckPasses = AboveDust(CanonicalSpends[name])
             /\ name \in Purposes => /\ "adaptorPoint" \in DOMAIN spend
                                     /\ spend.adaptorPoint = PlannedPoint[name]
<1> DEFINE canonical == CanonicalSpends[name]
           spend == AgreedTemplate.spends[name]
<1>1. /\ DOMAIN canonical = {"unsignedTx", "txid", "sighash", "input", "output", "feeSat"}
      /\ canonical.unsignedTx = name /\ canonical.txid = name /\ canonical.sighash = name
      /\ canonical.input = [field \in InputFields |-> canonical.input[field]]
      /\ canonical.output = [field \in OutputFields |-> canonical.output[field]]
  BY CanonicalSpendIs
<1>2. ASSUME NEW second, spend = Spread(canonical, second), {"id", "dustCheckPasses"} \subseteq DOMAIN second,
             second.id = name, second.dustCheckPasses = AboveDust(canonical)
      PROVE  /\ SpendShaped(spend)
             /\ spend.unsignedTx = name /\ spend.txid = name /\ spend.sighash = name
             /\ spend.id = name
             /\ spend.input = canonical.input
             /\ spend.output = canonical.output
             /\ spend.dustCheckPasses = AboveDust(canonical)
  <2> HIDE DEF canonical, spend
  <2>1. /\ \A field \in DOMAIN canonical : field \in DOMAIN spend /\ spend[field] = canonical[field]
        /\ \A field \in DOMAIN second : field \in DOMAIN spend
                /\ (field \notin DOMAIN canonical => spend[field] = second[field])
    BY <1>2, SpreadIs
  <2>2. /\ spend.unsignedTx = name /\ spend.txid = name /\ spend.sighash = name
        /\ spend.input = canonical.input /\ spend.output = canonical.output
        /\ {"unsignedTx", "txid", "sighash", "input", "output"} \subseteq DOMAIN spend
    BY <1>1, <2>1
  <2>3. /\ spend.id = name /\ spend.dustCheckPasses = AboveDust(canonical)
        /\ {"id", "dustCheckPasses"} \subseteq DOMAIN spend
    BY <1>1, <1>2, <2>1
  <2>4. SpendShaped(spend)
    BY <1>1, <2>2, <2>3 DEF SpendShaped, SpendFields
  <2>5. QED
    BY <2>2, <2>3, <2>4
<1>3. CASE name \in Purposes
  <2> DEFINE second == [id |-> name, signerRole |-> PlannedSender[name],
                        adaptorPoint |-> PlannedPoint[name],
                        dustCheckPasses |-> AboveDust(canonical)]
  <2>1. spend = Spread(canonical, second)
    BY <1>3 DEF AgreedTemplate, CanonicalTemplate, AdaptorTemplate
  <2>2. /\ DOMAIN second = {"id", "signerRole", "adaptorPoint", "dustCheckPasses"}
        /\ second.id = name /\ second.dustCheckPasses = AboveDust(canonical)
        /\ second.adaptorPoint = PlannedPoint[name]
    OBVIOUS
  <2> HIDE DEF second, canonical, spend
  <2>3. /\ SpendShaped(spend)
        /\ spend.unsignedTx = name /\ spend.txid = name /\ spend.sighash = name
        /\ spend.id = name
        /\ spend.input = canonical.input
        /\ spend.output = canonical.output
        /\ spend.dustCheckPasses = AboveDust(canonical)
    BY <1>2, <2>1, <2>2
  <2>4. "adaptorPoint" \in DOMAIN spend /\ spend.adaptorPoint = PlannedPoint[name]
    BY <1>1, <2>1, <2>2, SpreadIs
  <2>5. QED
    BY <2>3, <2>4 DEF canonical, spend
<1>4. CASE name \notin Purposes
  <2> DEFINE second == [id |-> name, signerRole |-> "bob",
          locktime |-> IF name = "edge_timeout_refund" THEN Timelocks.bridgeTimeoutHeight
                                                         ELSE Timelocks.childRefundHeight,
          dustCheckPasses |-> AboveDust(canonical)]
  <2>1. spend = Spread(canonical, second)
    BY <1>4 DEF AgreedTemplate, CanonicalTemplate, RefundTemplate
  <2>2. /\ DOMAIN second = {"id", "signerRole", "locktime", "dustCheckPasses"}
        /\ second.id = name /\ second.dustCheckPasses = AboveDust(canonical)
    OBVIOUS
  <2> HIDE DEF second, canonical, spend
  <2>3. /\ SpendShaped(spend)
        /\ spend.unsignedTx = name /\ spend.txid = name /\ spend.sighash = name
        /\ spend.id = name
        /\ spend.input = canonical.input
        /\ spend.output = canonical.output
        /\ spend.dustCheckPasses = AboveDust(canonical)
    BY <1>2, <2>1, <2>2
  <2>4. QED
    BY <1>4, <2>3 DEF canonical, spend
<1>5. QED
  BY <1>3, <1>4

LEMMA AgreedTemplateShaped == TemplateShaped(AgreedTemplate)
<1>1. {"sessionIdHex", "parentFundingOutpoint", "spends", "childFundingOutput", "timelocks"}
        \subseteq DOMAIN AgreedTemplate
  BY DEF AgreedTemplate, CanonicalTemplate
<1>2. AgreedTemplate.spends = [name \in Purposes \cup Refunds |-> AgreedTemplate.spends[name]]
  BY DEF AgreedTemplate, CanonicalTemplate
<1>3. \A name \in Purposes \cup Refunds : SpendShaped(AgreedTemplate.spends[name])
  BY AgreedSpendIs
<1>4. QED
  BY <1>1, <1>2, <1>3 DEF TemplateShaped

(***************************************************************************)
(* A damaged template that the settlement accepts moves the same coins:    *)
(* each damaged field of the graph is compared with one that is not, but   *)
(* for the index and the role name of the child's funding.                 *)
(***************************************************************************)
Graph(t) == GraphTransition([template |-> t])

LEMMA GraphIs ==
  ASSUME NEW s
  PROVE  GraphTransition(s) = Graph(s.template)
BY DEF GraphTransition, Graph

\* Two templates with one graph, but for the labels of the child's funding.
SameGraph(u, t) ==
  /\ u.spends["parent_cet"].txid = t.spends["parent_cet"].txid
  /\ u.spends["parent_cet"].output = t.spends["parent_cet"].output
  /\ u.spends["bridge"].input = t.spends["bridge"].input
  /\ u.spends["bridge"].txid = t.spends["bridge"].txid
  /\ \A field \in {"valueSat", "scriptPubKey"} :
       u.childFundingOutput[field] = t.childFundingOutput[field]

\* What the checks of a settlement say of a template, and that the agreed
\* template satisfies it.
GraphChecked(t) ==
  /\ \A name \in DOMAIN SpentBy : t.spends[name].input.txid = t.spends[SpentBy[name]].txid
  /\ t.childFundingOutput.valueSat = t.spends["bridge"].output.valueSat
  /\ BridgeSpendsParentEdge(t)
  /\ BridgeCreatesChildFunding(t)

LEMMA AgreedGraphChecked == GraphChecked(AgreedTemplate)
<1> DEFINE t == AgreedTemplate
<1>1. \A name \in Purposes \cup Refunds :
        t.spends[name].txid = name /\ t.spends[name].input = CanonicalSpends[name].input
        /\ t.spends[name].output = CanonicalSpends[name].output
  BY AgreedSpendIs
<1>2. \A field \in OutputFields :
        t.childFundingOutput[field] = CanonicalSpends["bridge"].output[field]
  <2> DEFINE output == CanonicalSpends["bridge"].output
             role == [role |-> "child_funding"]
  <2>1. t.childFundingOutput = Spread(output, role)
    BY DEF AgreedTemplate, CanonicalTemplate
  <2>2. output = [field \in OutputFields |-> output[field]]
    BY CanonicalSpendIs DEF Purposes
  <2> HIDE DEF output, role, t
  <2>3. DOMAIN output = OutputFields
    BY <2>2
  <2>4. \A field \in DOMAIN output : Spread(output, role)[field] = output[field]
    BY SpreadIs
  <2>5. QED
    BY <2>1, <2>3, <2>4 DEF output, t
<1>3. /\ CanonicalSpends["bridge"].input.txid = "parent_cet"
      /\ CanonicalSpends["edge_timeout_refund"].input.txid = "parent_cet"
      /\ CanonicalSpends["child_cet"].input.txid = "bridge"
      /\ CanonicalSpends["child_timeout_refund"].input.txid = "bridge"
  BY DEF CanonicalSpends, Spend, SpendableOutput
<1>4. \A field \in {"vout", "valueSat", "scriptPubKey"} :
        CanonicalSpends["bridge"].input[field] = CanonicalSpends["parent_cet"].output[field]
  <2>1. CanonicalSpends["bridge"].input
          = [txid |-> "parent_cet", vout |-> 0, valueSat |-> ParentFundingSat - ParentCetFeeSat,
             scriptPubKey |-> ScriptOf("bridge")]
    BY DEF CanonicalSpends, Spend, SpendableOutput
  <2>2. CanonicalSpends["parent_cet"].output
          = [vout |-> 0, valueSat |-> ParentFundingSat - ParentCetFeeSat,
             scriptPubKey |-> ScriptOf("bridge")]
    BY DEF CanonicalSpends, Spend
  <2>3. QED
    BY <2>1, <2>2
<1> HIDE DEF t
<1>5. \A name \in DOMAIN SpentBy : t.spends[name].input.txid = t.spends[SpentBy[name]].txid
  BY <1>1, <1>3 DEF SpentBy, Purposes, Refunds
<1>6. BridgeSpendsParentEdge(t)
  BY <1>1, <1>3, <1>4 DEF BridgeSpendsParentEdge, Purposes
<1>7. BridgeCreatesChildFunding(t) /\ t.childFundingOutput.valueSat = t.spends["bridge"].output.valueSat
  BY <1>1, <1>2 DEF BridgeCreatesChildFunding, Purposes, OutputFields
<1>8. QED
  BY <1>5, <1>6, <1>7 DEF GraphChecked, t

LEMMA DamagedGraphIsTheSame ==
  ASSUME NEW damaged \in DamagedTemplates(AgreedTemplate), GraphChecked(damaged)
  PROVE  SameGraph(damaged, AgreedTemplate)
<1> DEFINE t == AgreedTemplate
<1>1. TemplateShaped(t) /\ GraphChecked(t)
  BY AgreedTemplateShaped, AgreedGraphChecked
<1>2. \/ \E name \in {"parent_cet", "bridge"} :
           \E field \in {"id", "txid", "sighash", "adaptorPoint", "unsignedTx"} :
             damaged = [t EXCEPT !.spends[name][field] = Damaged]
      \/ \E name \in {"parent_cet", "bridge"} : \E field \in OutputFields :
           damaged = [t EXCEPT !.spends[name].output[field] = Damaged]
      \/ \E name \in {"bridge", "edge_timeout_refund"} :
           damaged = [t EXCEPT !.spends[name].input.txid = Damaged]
      \/ \E field \in {"vout", "valueSat", "scriptPubKey"} :
           damaged = [t EXCEPT !.spends["bridge"].input[field] = Damaged]
      \/ \E field \in {"vout", "valueSat", "scriptPubKey", "role"} :
           damaged = [t EXCEPT !.childFundingOutput[field] = Damaged]
      \/ damaged = [t EXCEPT !.parentFundingOutpoint.txid = Damaged]
      \/ damaged = [t EXCEPT !.timelocks.ordered = FALSE]
      \/ damaged = [t EXCEPT !.timelocks.bridgeTimeoutHeight = 0]
      \/ damaged = [t EXCEPT !.spends["child_cet"].dustCheckPasses = FALSE]
      \/ damaged = [t EXCEPT !.spends["bridge"].adaptorPoint = "wrong"]
  <2>1. ASSUME damaged \in DamagedSpends(t)
        PROVE  \E name \in {"parent_cet", "bridge"} :
                 \E field \in {"id", "txid", "sighash", "adaptorPoint", "unsignedTx"} :
                   damaged = [t EXCEPT !.spends[name][field] = Damaged]
    BY <2>1 DEF DamagedSpends
  <2>2. ASSUME damaged \in DamagedOutputs(t)
        PROVE  \E name \in {"parent_cet", "bridge"} : \E field \in OutputFields :
                 damaged = [t EXCEPT !.spends[name].output[field] = Damaged]
    BY <2>2 DEF DamagedOutputs, OutputFields
  <2>3. QED
    BY <2>1, <2>2, Zenon DEF DamagedTemplates
<1> HIDE DEF t
<1>3. CASE damaged = [t EXCEPT !.parentFundingOutpoint.txid = Damaged]
  <2>1. damaged.spends = t.spends /\ damaged.childFundingOutput = t.childFundingOutput
    BY <1>1, <1>3 DEF TemplateShaped
  <2>2. QED
    BY <2>1 DEF SameGraph, t
<1>4. CASE \/ damaged = [t EXCEPT !.timelocks.ordered = FALSE]
           \/ damaged = [t EXCEPT !.timelocks.bridgeTimeoutHeight = 0]
  <2>1. damaged.spends = t.spends /\ damaged.childFundingOutput = t.childFundingOutput
    BY <1>1, <1>4 DEF TemplateShaped
  <2>2. QED
    BY <2>1 DEF SameGraph, t
<1>5. ASSUME NEW field, damaged = [t EXCEPT !.childFundingOutput[field] = Damaged]
      PROVE  SameGraph(damaged, t)
  <2>1. damaged.spends = t.spends
    BY <1>1, <1>5 DEF TemplateShaped
  <2>2. \A f \in {"valueSat", "scriptPubKey"} : damaged.childFundingOutput[f] = t.childFundingOutput[f]
    BY <1>1, <2>1 DEF GraphChecked, BridgeCreatesChildFunding
  <2>3. QED
    BY <2>1, <2>2 DEF SameGraph
\* One spend is another in one field: the two that the graph is of, by name.
<1>6. ASSUME NEW name \in Purposes \cup Refunds, NEW spend,
             damaged = [t EXCEPT !.spends[name] = spend],
             name = "parent_cet" => spend.txid = t.spends["parent_cet"].txid
                                    /\ spend.output = t.spends["parent_cet"].output,
             name = "bridge" => spend.txid = t.spends["bridge"].txid
                                    /\ spend.input = t.spends["bridge"].input
      PROVE  SameGraph(damaged, t)
  <2>1. /\ damaged.spends[name] = spend
        /\ \A other \in (Purposes \cup Refunds) \ {name} : damaged.spends[other] = t.spends[other]
        /\ damaged.childFundingOutput = t.childFundingOutput
    BY <1>1, <1>6 DEF TemplateShaped
  <2>2. "parent_cet" \in Purposes \cup Refunds /\ "bridge" \in Purposes \cup Refunds
    BY DEF Purposes
  <2>3. /\ damaged.spends["parent_cet"].txid = t.spends["parent_cet"].txid
        /\ damaged.spends["parent_cet"].output = t.spends["parent_cet"].output
        /\ damaged.spends["bridge"].input = t.spends["bridge"].input
        /\ damaged.spends["bridge"].txid = t.spends["bridge"].txid
    BY <1>6, <2>1, <2>2
  <2>4. QED
    BY <2>1, <2>3 DEF SameGraph
<1>7. ASSUME NEW name \in Purposes \cup Refunds, NEW field \in SpendFields \cup {"adaptorPoint"}, NEW value,
             damaged = [t EXCEPT !.spends[name][field] = value]
      PROVE  LET spend == [t.spends[name] EXCEPT ![field] = value]
             IN  /\ damaged = [t EXCEPT !.spends[name] = spend]
                 /\ \A f \in SpendFields \ {field} : spend[f] = t.spends[name][f]
                 /\ field \in SpendFields => spend[field] = value
  BY <1>1, <1>7 DEF TemplateShaped, SpendShaped
<1>8. ASSUME NEW name \in {"parent_cet", "bridge"},
             NEW field \in {"id", "txid", "sighash", "adaptorPoint", "unsignedTx"},
             damaged = [t EXCEPT !.spends[name][field] = Damaged]
      PROVE  SameGraph(damaged, t)
  <2> DEFINE spend == [t.spends[name] EXCEPT ![field] = Damaged]
  <2>0. name \in Purposes \cup Refunds /\ field \in SpendFields \cup {"adaptorPoint"}
    BY DEF Purposes, SpendFields
  <2>1. /\ damaged = [t EXCEPT !.spends[name] = spend]
        /\ \A f \in SpendFields \ {field} : spend[f] = t.spends[name][f]
    BY <1>7, <1>8, <2>0
  <2> HIDE DEF spend
  <2>2. /\ damaged.spends[name] = spend
        /\ \A other \in (Purposes \cup Refunds) \ {name} : damaged.spends[other] = t.spends[other]
    BY <1>1, <2>0, <2>1 DEF TemplateShaped
  <2>3. /\ damaged.spends["bridge"].input.txid = damaged.spends["parent_cet"].txid
        /\ damaged.spends["child_cet"].input.txid = damaged.spends["bridge"].txid
        /\ t.spends["bridge"].input.txid = t.spends["parent_cet"].txid
        /\ t.spends["child_cet"].input.txid = t.spends["bridge"].txid
    BY <1>1 DEF GraphChecked, SpentBy
  <2>4. spend.input = t.spends[name].input /\ spend.output = t.spends[name].output
    BY <2>1 DEF SpendFields
  <2>5. spend.txid = t.spends[name].txid
    <3>1. CASE name = "parent_cet"
      <4>1. damaged.spends["bridge"] = t.spends["bridge"]
        BY <2>2, <3>1 DEF Purposes
      <4>2. QED
        BY <2>2, <2>3, <3>1, <4>1
    <3>2. CASE name = "bridge"
      <4>1. damaged.spends["child_cet"] = t.spends["child_cet"]
        BY <2>2, <3>2 DEF Purposes
      <4>2. QED
        BY <2>2, <2>3, <3>2, <4>1
    <3>3. QED
      BY <3>1, <3>2
  <2>6. QED
    BY <1>6, <2>0, <2>1, <2>4, <2>5
<1>9. ASSUME NEW name \in {"parent_cet", "bridge"}, NEW field \in OutputFields,
             damaged = [t EXCEPT !.spends[name].output[field] = Damaged]
      PROVE  SameGraph(damaged, t)
  <2> DEFINE output == [t.spends[name].output EXCEPT ![field] = Damaged]
             spend == [t.spends[name] EXCEPT !["output"] = output]
  <2>0. name \in Purposes \cup Refunds /\ "output" \in SpendFields \cup {"adaptorPoint"}
    BY DEF Purposes, SpendFields
  <2>1. damaged = [t EXCEPT !.spends[name]["output"] = output]
    BY <1>9
  <2>2. /\ damaged = [t EXCEPT !.spends[name] = spend]
        /\ \A f \in SpendFields \ {"output"} : spend[f] = t.spends[name][f]
        /\ spend["output"] = output
    <3> HIDE DEF output
    <3> QED
      BY <1>7, <2>0, <2>1 DEF SpendFields
  <2> HIDE DEF spend
  <2>3. /\ damaged.spends[name] = spend
        /\ \A other \in (Purposes \cup Refunds) \ {name} : damaged.spends[other] = t.spends[other]
    BY <1>1, <2>0, <2>2 DEF TemplateShaped
  <2>4. name = "parent_cet" => spend.output = t.spends["parent_cet"].output
    <3> SUFFICES ASSUME name = "parent_cet" PROVE spend.output = t.spends["parent_cet"].output
      OBVIOUS
    <3>1. t.spends[name].output = [f \in OutputFields |-> t.spends[name].output[f]]
      BY <1>1, <2>0 DEF TemplateShaped, SpendShaped
    <3>2. damaged.spends["bridge"] = t.spends["bridge"]
      BY <2>3 DEF Purposes
    <3>3. /\ damaged.spends["bridge"].input[field] = damaged.spends["parent_cet"].output[field]
          /\ t.spends["bridge"].input[field] = t.spends["parent_cet"].output[field]
      BY <1>1 DEF GraphChecked, BridgeSpendsParentEdge, OutputFields
    <3>4. output[field] = t.spends[name].output[field]
      BY <2>2, <2>3, <3>2, <3>3
    <3>5. output = t.spends[name].output
      BY <3>1, <3>4 DEF OutputFields
    <3>6. QED
      BY <2>2, <3>5
  <2>5. spend.txid = t.spends[name].txid /\ spend.input = t.spends[name].input
    BY <2>2 DEF SpendFields
  <2>6. QED
    BY <1>6, <2>0, <2>2, <2>4, <2>5
<1>10. ASSUME NEW name \in {"bridge", "edge_timeout_refund"}, NEW field \in InputFields,
              damaged = [t EXCEPT !.spends[name].input[field] = Damaged]
       PROVE  SameGraph(damaged, t)
  <2> DEFINE input == [t.spends[name].input EXCEPT ![field] = Damaged]
             spend == [t.spends[name] EXCEPT !["input"] = input]
  <2>0. name \in Purposes \cup Refunds /\ "input" \in SpendFields \cup {"adaptorPoint"}
    BY DEF Purposes, Refunds, SpendFields
  <2>1. damaged = [t EXCEPT !.spends[name]["input"] = input]
    BY <1>10
  <2>2. /\ damaged = [t EXCEPT !.spends[name] = spend]
        /\ \A f \in SpendFields \ {"input"} : spend[f] = t.spends[name][f]
        /\ spend["input"] = input
    <3> HIDE DEF input
    <3> QED
      BY <1>7, <2>0, <2>1 DEF SpendFields
  <2> HIDE DEF spend
  <2>3. /\ damaged.spends[name] = spend
        /\ \A other \in (Purposes \cup Refunds) \ {name} : damaged.spends[other] = t.spends[other]
    BY <1>1, <2>0, <2>2 DEF TemplateShaped
  <2>4. name = "bridge" => spend.input = t.spends["bridge"].input
    <3> SUFFICES ASSUME name = "bridge" PROVE spend.input = t.spends["bridge"].input
      OBVIOUS
    <3>1. t.spends[name].input = [f \in InputFields |-> t.spends[name].input[f]]
      BY <1>1, <2>0 DEF TemplateShaped, SpendShaped
    <3>2. damaged.spends["parent_cet"] = t.spends["parent_cet"]
      BY <2>3 DEF Purposes
    <3>3. damaged.spends["bridge"].input[field] = t.spends["bridge"].input[field]
      <4>1. CASE field = "txid"
        BY <1>1, <3>2, <4>1 DEF GraphChecked, BridgeSpendsParentEdge
      <4>2. CASE field # "txid"
        BY <1>1, <3>2, <4>2 DEF GraphChecked, BridgeSpendsParentEdge, InputFields
      <4>3. QED
        BY <4>1, <4>2
    <3>4. input[field] = t.spends[name].input[field]
      BY <2>2, <2>3, <3>3
    <3>5. input = t.spends[name].input
      BY <3>1, <3>4
    <3>6. QED
      BY <2>2, <3>5
  <2>5. spend.txid = t.spends[name].txid /\ spend.output = t.spends[name].output
    BY <2>2 DEF SpendFields
  <2>6. QED
    BY <1>6, <2>0, <2>2, <2>4, <2>5
<1>11. ASSUME NEW name \in Purposes, NEW field \in {"dustCheckPasses", "adaptorPoint"}, NEW value,
              damaged = [t EXCEPT !.spends[name][field] = value]
       PROVE  SameGraph(damaged, t)
  <2> DEFINE spend == [t.spends[name] EXCEPT ![field] = value]
  <2>0. name \in Purposes \cup Refunds /\ field \in SpendFields \cup {"adaptorPoint"}
    BY DEF SpendFields
  <2>1. /\ damaged = [t EXCEPT !.spends[name] = spend]
        /\ \A f \in SpendFields \ {field} : spend[f] = t.spends[name][f]
    BY <1>7, <1>11, <2>0
  <2> HIDE DEF spend
  <2>2. spend.txid = t.spends[name].txid /\ spend.input = t.spends[name].input
        /\ spend.output = t.spends[name].output
    BY <2>1 DEF SpendFields
  <2>3. QED
    BY <1>6, <2>0, <2>1, <2>2
<1>12. CASE \E name \in {"bridge", "edge_timeout_refund"} :
             damaged = [t EXCEPT !.spends[name].input.txid = Damaged]
  BY <1>10, <1>12 DEF InputFields, t
<1>13. CASE \E field \in {"vout", "valueSat", "scriptPubKey"} :
             damaged = [t EXCEPT !.spends["bridge"].input[field] = Damaged]
  <2>1. \A field \in {"vout", "valueSat", "scriptPubKey"} : field \in InputFields
    BY DEF InputFields
  <2>2. QED
    BY <1>10, <1>13, <2>1 DEF t
<1>14. CASE \/ damaged = [t EXCEPT !.spends["child_cet"].dustCheckPasses = FALSE]
            \/ damaged = [t EXCEPT !.spends["bridge"].adaptorPoint = "wrong"]
  BY <1>11, <1>14 DEF Purposes, t
<1>15. QED
  BY <1>2, <1>3, <1>4, <1>5, <1>8, <1>9, <1>12, <1>13, <1>14 DEF t

(***************************************************************************)
(* The agreed packets, and the signatures they complete to.                *)
(***************************************************************************)
NotAScalar(value) ==
  \A nonce, point, signer, sighash : value # Scalar(nonce, point, signer, sighash)

AgreedScalar(purpose) == Scalar(purpose, PlannedPoint[purpose], purpose, purpose)

AgreedSignature(purpose) ==
  [nonce |-> purpose,
   scalar |-> [adaptor |-> AgreedScalar(purpose), secret |-> AttestationSecret("activating")]]

PacketsMade(packets) ==
  \A i \in DOMAIN packets :
    \/ packets[i].scalar = Damaged
    \/ \E purpose \in Purposes : packets[i].scalar = AgreedScalar(purpose)

PacketFields ==
  {"purpose", "templateId", "unsignedTxid", "sighash", "signerPublic", "adaptorPoint",
   "adaptedNonce", "preNonce", "scalar"}

LEMMA AgreedPacketIs ==
  ASSUME NEW purpose \in Purposes
  PROVE  LET packet == RetainedPacket(AgreedTemplate, purpose)
         IN  /\ PacketFields \subseteq DOMAIN packet
             /\ packet.purpose = purpose /\ packet.templateId = purpose
             /\ packet.unsignedTxid = purpose /\ packet.sighash = purpose
             /\ packet.signerPublic = purpose /\ packet.adaptedNonce = purpose
             /\ packet.adaptorPoint = PlannedPoint[purpose]
             /\ packet.preNonce = <<purpose, PlannedPoint[purpose]>>
             /\ packet.scalar = AgreedScalar(purpose)
<1> DEFINE spend == AgreedTemplate.spends[purpose]
           first == [purpose |-> purpose, templateId |-> spend.id,
                     unsignedTxid |-> spend.txid, sighash |-> spend.sighash]
           second == SpendAdaptor(spend, purpose, purpose, spend.adaptorPoint)
           packet == RetainedPacket(AgreedTemplate, purpose)
<1>1. /\ spend.txid = purpose /\ spend.sighash = purpose /\ spend.id = purpose
      /\ spend.adaptorPoint = PlannedPoint[purpose]
  BY AgreedSpendIs
<1>2. packet = Spread(first, second)
  BY DEF RetainedPacket
<1> HIDE DEF spend
<1>3. /\ DOMAIN first = {"purpose", "templateId", "unsignedTxid", "sighash"}
      /\ first.purpose = purpose /\ first.templateId = purpose
      /\ first.unsignedTxid = purpose /\ first.sighash = purpose
  BY <1>1
<1>4. /\ DOMAIN second = {"signerPublic", "adaptorPoint", "adaptedNonce", "preNonce", "scalar"}
      /\ second.signerPublic = purpose /\ second.adaptedNonce = purpose
      /\ second.adaptorPoint = PlannedPoint[purpose]
      /\ second.preNonce = <<purpose, PlannedPoint[purpose]>>
      /\ second.scalar = AgreedScalar(purpose)
  BY <1>1 DEF SpendAdaptor, AdaptorSignature, AgreedScalar
<1> HIDE DEF first, second, packet
<1>5. /\ \A field \in DOMAIN first : field \in DOMAIN packet /\ packet[field] = first[field]
      /\ \A field \in DOMAIN second : field \in DOMAIN packet
                /\ (field \notin DOMAIN first => packet[field] = second[field])
  BY <1>2, SpreadIs
<1>6. /\ {"purpose", "templateId", "unsignedTxid", "sighash"} \subseteq DOMAIN packet
      /\ packet.purpose = purpose /\ packet.templateId = purpose
      /\ packet.unsignedTxid = purpose /\ packet.sighash = purpose
  BY <1>3, <1>5
<1>7. /\ {"signerPublic", "adaptorPoint", "adaptedNonce", "preNonce", "scalar"} \subseteq DOMAIN packet
      /\ packet.signerPublic = purpose /\ packet.adaptedNonce = purpose
      /\ packet.adaptorPoint = PlannedPoint[purpose]
      /\ packet.preNonce = <<purpose, PlannedPoint[purpose]>>
      /\ packet.scalar = AgreedScalar(purpose)
  BY <1>3, <1>4, <1>5
<1>8. QED
  BY <1>6, <1>7 DEF packet, PacketFields

PurposeAt == <<"parent_cet", "bridge", "child_cet">>

LEMMA PurposesInOrder ==
  /\ \A i \in 1 .. 3 : PurposeAt[i] \in Purposes
  /\ \A purpose \in Purposes : \E i \in 1 .. 3 : purpose = PurposeAt[i]
  /\ \A i, j \in 1 .. 3 : PurposeAt[i] = PurposeAt[j] => i = j
BY DEF PurposeAt, Purposes

LEMMA AgreedPacketsAre ==
  /\ DOMAIN AgreedPackets = 1 .. 3 /\ Len(AgreedPackets) = 3
  /\ \A i \in 1 .. 3 : AgreedPackets[i] = RetainedPacket(AgreedTemplate, PurposeAt[i])
<1> DEFINE a == RetainedPacket(AgreedTemplate, "parent_cet")
           b == RetainedPacket(AgreedTemplate, "bridge")
           c == RetainedPacket(AgreedTemplate, "child_cet")
<1>1. AgreedPackets = <<a, b, c>>
  BY DEF AgreedPackets, Exchange
<1> HIDE DEF a, b, c
<1>2. DOMAIN AgreedPackets = 1 .. 3 /\ Len(AgreedPackets) = 3
      /\ AgreedPackets[1] = a /\ AgreedPackets[2] = b /\ AgreedPackets[3] = c
  BY <1>1
<1>3. QED
  BY <1>2 DEF a, b, c, PurposeAt

LEMMA AgreedIs ==
  ASSUME NEW participant, NEW setup, setup.sessionIdHex = SessionIdHex
  PROVE  LET s == RetainedState(participant, setup)
         IN  s.template = AgreedTemplate /\ s.exchange = Exchange(AgreedTemplate)
             /\ s.exchange.packets = AgreedPackets
BY DEF RetainedState, WithDigest, AgreedTemplate, AgreedPackets

LEMMA AgreedStateIs == Agreed.template = AgreedTemplate /\ Agreed.exchange.packets = AgreedPackets
<1>1. Transcript(SessionIdHex, <<"alice", "bob">>).sessionIdHex = SessionIdHex
  BY DEF Transcript
<1>2. QED
  BY <1>1, AgreedIs DEF Agreed

LEMMA AgreedSignaturesAre == Signatures(Agreed) = {AgreedSignature(purpose) : purpose \in Purposes}
<1>1. ASSUME NEW i \in 1 .. 3
      PROVE  CompletedSignature(AgreedPackets[i], AttestationSecret("activating"))
               = AgreedSignature(PurposeAt[i])
  <2>1. AgreedPackets[i].adaptedNonce = PurposeAt[i] /\ AgreedPackets[i].scalar = AgreedScalar(PurposeAt[i])
    BY AgreedPacketsAre, AgreedPacketIs, PurposesInOrder
  <2>2. QED
    BY <2>1 DEF CompletedSignature, AgreedSignature
<1>2. Signatures(Agreed)
        = {CompletedSignature(AgreedPackets[i], AttestationSecret("activating")) : i \in 1 .. 3}
  BY AgreedStateIs, AgreedPacketsAre DEF Signatures
<1>3. QED
  BY <1>1, <1>2, PurposesInOrder

(***************************************************************************)
(* A settlement of the agreed template is under the agreed signatures: its *)
(* three packets are one of each purpose, and a scalar that verifies is    *)
(* one that was made for it.                                               *)
(***************************************************************************)
LEMMA OnePacketEach ==
  ASSUME NEW s, StateKnown(s), StateValidates(s)
  PROVE  /\ \A i \in DOMAIN s.exchange.packets :
              \E purpose \in Purposes : IsFirstPacket(s, purpose, i)
         /\ \A purpose \in Purposes : \E i \in DOMAIN s.exchange.packets : IsFirstPacket(s, purpose, i)
<1> DEFINE packets == s.exchange.packets
<1>1. DOMAIN packets = 1 .. 3
  BY DEF StateValidates, AdaptorEquationsVerify, StateKnown, PacketsKnown
<1>2. \A purpose \in Purposes : \E i \in DOMAIN packets : IsFirstPacket(s, purpose, i)
  BY DEF StateValidates, AdaptorPacketsMatchTemplate
<1>3. PICK i \in 1 .. 3, j \in 1 .. 3, k \in 1 .. 3 :
             /\ IsFirstPacket(s, "parent_cet", i)
             /\ IsFirstPacket(s, "bridge", j)
             /\ IsFirstPacket(s, "child_cet", k)
  BY <1>1, <1>2 DEF Purposes
<1>4. i # j /\ i # k /\ j # k
  <2>1. packets[i].purpose = "parent_cet" /\ packets[j].purpose = "bridge"
        /\ packets[k].purpose = "child_cet"
    BY <1>3 DEF IsFirstPacket
  <2>2. QED
    BY <2>1
<1>5. \A n \in 1 .. 3 : n = i \/ n = j \/ n = k
  BY <1>4
<1>6. QED
  BY <1>1, <1>2, <1>3, <1>5 DEF Purposes

LEMMA AgreedTemplateSettlesAsAgreed ==
  ASSUME NotAScalar(Damaged),
         NEW s, StateKnown(s), StateValidates(s), PacketsMade(s.exchange.packets),
         s.template = AgreedTemplate
  PROVE  AsAgreed(s)
<1> DEFINE packets == s.exchange.packets
<1>1. ASSUME NEW purpose \in Purposes, NEW i \in DOMAIN packets, IsFirstPacket(s, purpose, i)
      PROVE  CompletedSignature(packets[i], AttestationSecret("activating")) = AgreedSignature(purpose)
  <2>1. PICK j \in DOMAIN packets :
               IsFirstPacket(s, purpose, j) /\ PacketMatchesTemplate(packets[j], s.template.spends[purpose])
    BY DEF StateValidates, AdaptorPacketsMatchTemplate
  <2>2. i = j
    <3>1. DOMAIN packets = 1 .. Len(packets)
      BY DEF StateKnown, PacketsKnown
    <3>2. i < j \/ j < i \/ i = j
      BY <3>1
    <3>3. QED
      BY <1>1, <2>1, <3>2 DEF IsFirstPacket
  <2>3. packets[i].sighash = purpose
    BY <2>1, <2>2, AgreedSpendIs DEF PacketMatchesTemplate
  <2>4. packets[i].scalar
          = Scalar(packets[i].adaptedNonce, packets[i].adaptorPoint, packets[i].signerPublic, purpose)
    BY <2>3 DEF StateValidates, AdaptorEquationsVerify, AdaptorEquationVerifies
  <2>5. PICK made \in Purposes : packets[i].scalar = AgreedScalar(made)
    BY <2>4 DEF PacketsMade, NotAScalar
  <2>6. made = purpose /\ packets[i].adaptedNonce = purpose
    BY <2>4, <2>5 DEF AgreedScalar, Scalar
  <2>7. QED
    BY <2>5, <2>6 DEF CompletedSignature, AgreedSignature
<1>2. Signatures(s) = {AgreedSignature(purpose) : purpose \in Purposes}
  <2>1. /\ \A i \in DOMAIN packets : \E purpose \in Purposes : IsFirstPacket(s, purpose, i)
        /\ \A purpose \in Purposes : \E i \in DOMAIN packets : IsFirstPacket(s, purpose, i)
    BY OnePacketEach
  <2>2. \A i \in DOMAIN packets : \E purpose \in Purposes :
          CompletedSignature(packets[i], AttestationSecret("activating")) = AgreedSignature(purpose)
    BY <1>1, <2>1
  <2>3. \A purpose \in Purposes : \E i \in DOMAIN packets :
          CompletedSignature(packets[i], AttestationSecret("activating")) = AgreedSignature(purpose)
    BY <1>1, <2>1
  <2>4. QED
    BY <2>2, <2>3 DEF Signatures
<1>3. GraphTransition(s) = GraphTransition(Agreed)
  BY GraphIs, AgreedStateIs
<1>4. QED
  BY <1>2, <1>3, AgreedSignaturesAre DEF AsAgreed

\* A damaged template with the packets as they were.
LEMMA DamagedTemplateSettlesAsAgreed ==
  ASSUME NEW s, NEW secret, SettlementAccepted(s, secret),
         s.template \in DamagedTemplates(AgreedTemplate), s.exchange.packets = AgreedPackets
  PROVE  AsAgreedButForLabels(s)
<1>1. GraphChecked(s.template)
  BY DEF GraphChecked, SettlementAccepted, StateValidates, ValidTemplate
<1>2. SameGraph(s.template, Agreed.template)
  BY <1>1, DamagedGraphIsTheSame, AgreedStateIs
<1>3. Signatures(s) = Signatures(Agreed)
  BY AgreedStateIs DEF Signatures
<1>4. QED
  BY <1>2, <1>3 DEF AsAgreedButForLabels, SameGraph, GraphTransition

-------------------------------------------------------------------------------
(***************************************************************************)
(* What is left of the agreed states and packages after so many faults.    *)
(***************************************************************************)
Untouched ==
  /\ \A p \in Roles : stateFaults[p] = 0 => retained[p] = InitialState(p)
  /\ \A h \in Holders : packageFaults[h] = 0 => package[h] = PreparedEdgePackage(AgreedTemplate)

StateMade(s, faultCount) ==
  /\ PacketsMade(s.exchange.packets)
  /\ faultCount <= 1 =>
       \/ s.template = AgreedTemplate
       \/ s.template \in DamagedTemplates(AgreedTemplate) /\ s.exchange.packets = AgreedPackets

PackageMade(p) == p.adaptor.scalar \in {Damaged, AgreedScalar("bridge")}

Made ==
  /\ \A p \in Roles : retained[p] # Nothing => StateMade(retained[p], stateFaults[p])
  /\ \A h \in Holders : package[h] # Nothing => PackageMade(package[h])

LEMMA AgreedPacketsMade == PacketsMade(AgreedPackets)
BY AgreedPacketsAre, AgreedPacketIs, PurposesInOrder DEF PacketsMade

LEMMA ScalarsStayMade ==
  ASSUME NEW packets, PacketsMade(packets), NEW later, ScalarsOf(later, packets)
  PROVE  PacketsMade(later)
BY DEF PacketsMade, ScalarsOf

LEMMA SetupOfSession ==
  ASSUME SettlementsTyped
  PROVE  transcript.sessionIdHex = SessionIdHex
BY DEF SettlementsTyped, Transcript

\* The digests of a state that nothing touched are the ones it has.
LEMMA DigestsOfUntouched ==
  ASSUME NEW participant, NEW setup
  PROVE  LET s == RetainedState(participant, setup)
         IN  /\ WithDigest(s) = s
             /\ WithDigest([s EXCEPT !.templateDigest = DigestOf(s.template),
                                     !.exchange.templateDigest = DigestOf(s.template)]) = s
<1> DEFINE t == CanonicalTemplate(setup.sessionIdHex)
           blank == [participant |-> participant, sessionIdHex |-> setup.sessionIdHex,
                     storageNamespace |-> StorageNamespace(participant),
                     localSecretHandles |-> SecretHandles(participant),
                     setupTranscript |-> setup,
                     fundingDigest |-> FundingDigest(setup),
                     fundingValidation |-> FundingDigest(setup),
                     templateDigest |-> DigestOf(t),
                     template |-> t,
                     exchange |-> Exchange(t),
                     oracleMetadata |-> [parentPoint |-> PlannedPoint["bridge"],
                                         childPoint |-> PlannedPoint["child_cet"]],
                     deadlines |-> Timelocks,
                     digest |-> "not yet computed"]
           s == RetainedState(participant, setup)
<1>1. s = [blank EXCEPT !.digest = StateDigest(blank)]
  BY DEF RetainedState, WithDigest
<1>2. blank.digest = "not yet computed" /\ blank.template = t /\ blank.templateDigest = DigestOf(t)
      /\ blank.exchange = Exchange(t)
      /\ "digest" \in DOMAIN blank /\ "templateDigest" \in DOMAIN blank /\ "exchange" \in DOMAIN blank
      /\ "template" \in DOMAIN blank
      /\ blank = [field \in DOMAIN blank |-> blank[field]]
  OBVIOUS
<1> HIDE DEF blank, s
<1>3. [blank EXCEPT !.digest = "not yet computed"] = blank
  BY <1>2
<1>4. [s EXCEPT !.digest = "not yet computed"] = blank
  BY <1>1, <1>2
<1>5. StateDigest(s) = StateDigest(blank)
  BY <1>3, <1>4 DEF StateDigest
<1>6. WithDigest(s) = s
  BY <1>1, <1>2, <1>5 DEF WithDigest
<1>7. /\ s.template = t /\ s.templateDigest = DigestOf(t) /\ s.exchange = Exchange(t)
      /\ "templateDigest" \in DOMAIN s /\ "exchange" \in DOMAIN s
      /\ s = [field \in DOMAIN s |-> s[field]]
  BY <1>1, <1>2
<1>8. [Exchange(t) EXCEPT !.templateDigest = DigestOf(t)] = Exchange(t)
  BY DEF Exchange
<1>9. [s EXCEPT !.templateDigest = DigestOf(s.template),
                !.exchange.templateDigest = DigestOf(s.template)] = s
  <2>1. [s EXCEPT !.templateDigest = DigestOf(t)] = s
    BY <1>7
  <2>2. [s EXCEPT !.exchange = [s.exchange EXCEPT !.templateDigest = DigestOf(t)]] = s
    BY <1>7, <1>8
  <2>3. [s EXCEPT !.exchange.templateDigest = DigestOf(t)] = s
    BY <2>2
  <2>4. [s EXCEPT !.templateDigest = DigestOf(t), !.exchange.templateDigest = DigestOf(t)]
          = [[s EXCEPT !.templateDigest = DigestOf(t)] EXCEPT !.exchange.templateDigest = DigestOf(t)]
    BY <1>7
  <2>5. QED
    BY <1>7, <2>1, <2>3, <2>4
<1>10. QED
  BY <1>6, <1>9 DEF s

LEMMA UntouchedIsRetained ==
  ASSUME NEW p \in Roles, SettlementsTyped, InitialState(p) # Nothing
  PROVE  LET s == InitialState(p)
         IN  /\ Retainable(transcript) /\ s = RetainedState(p, transcript)
             /\ s.template = AgreedTemplate /\ s.exchange.packets = AgreedPackets
             /\ WithDigest(s) = s
             /\ WithDigest([s EXCEPT !.templateDigest = DigestOf(s.template),
                                     !.exchange.templateDigest = DigestOf(s.template)]) = s
<1>1. Retainable(transcript) /\ InitialState(p) = RetainedState(p, transcript)
  BY DEF InitialState
<1>2. transcript.sessionIdHex = SessionIdHex
  BY SetupOfSession
<1>3. /\ RetainedState(p, transcript).template = AgreedTemplate
      /\ RetainedState(p, transcript).exchange.packets = AgreedPackets
  BY <1>2, AgreedIs
<1>4. QED
  BY <1>1, <1>3, DigestsOfUntouched

LEMMA InitMade == Init => Untouched /\ Made
<1> SUFFICES ASSUME Init PROVE Untouched /\ Made
  OBVIOUS
<1>1. SettlementsTyped
  BY InitInv DEF Inv
<1>2. Untouched
  BY DEF Init, Untouched, AgreedTemplate
<1>3. ASSUME NEW p \in Roles, retained[p] # Nothing PROVE StateMade(retained[p], stateFaults[p])
  <2>1. retained[p] = InitialState(p)
    BY DEF Init
  <2>2. retained[p].template = AgreedTemplate /\ retained[p].exchange.packets = AgreedPackets
    BY <1>1, <1>3, <2>1, UntouchedIsRetained
  <2>3. QED
    BY <2>2, AgreedPacketsMade DEF StateMade
<1>4. ASSUME NEW h \in Holders PROVE PackageMade(package[h])
  <2>1. package[h] = PreparedEdgePackage(AgreedTemplate)
    BY DEF Init, AgreedTemplate
  <2>2. package[h].adaptor.scalar
          = Scalar("bridge", AgreedTemplate.spends["bridge"].adaptorPoint, "bridge",
                   AgreedTemplate.spends["bridge"].sighash)
    BY <2>1, FirstPackageKnown
  <2>3. AgreedTemplate.spends["bridge"].adaptorPoint = PlannedPoint["bridge"]
        /\ AgreedTemplate.spends["bridge"].sighash = "bridge"
    BY AgreedSpendIs DEF Purposes
  <2>4. QED
    BY <2>2, <2>3 DEF PackageMade, AgreedScalar
<1>5. QED
  BY <1>2, <1>3, <1>4 DEF Made

LEMMA NextMade == Inv /\ Untouched /\ Made /\ [Next]_vars => Untouched' /\ Made'
<1> SUFFICES ASSUME Inv, Untouched, Made, [Next]_vars PROVE Untouched' /\ Made'
  OBVIOUS
<1> DEFINE Role(p) ==
             /\ stateFaults[p] = 0 => retained[p] = InitialState(p)
             /\ retained[p] # Nothing => StateMade(retained[p], stateFaults[p])
           Holder(h) ==
             /\ packageFaults[h] = 0 => package[h] = PreparedEdgePackage(AgreedTemplate)
             /\ package[h] # Nothing => PackageMade(package[h])
<1>0. \A p \in Roles : InitialState(p)' = InitialState(p)
  <2>1. transcript' = transcript
    BY DEF Next, vars, DamageState, RewriteStateDigest, RewriteTemplateDigest, Settle,
           DamagePackage, ActivatePreparedEdge, Attest
  <2>2. QED
    BY <2>1 DEF InitialState
<1>1. ASSUME NEW p \in Roles, DamageState(p)
      PROVE  /\ stateFaults'[p] # 0
             /\ retained'[p] # Nothing => StateMade(retained'[p], stateFaults'[p])
  <2>1. stateFaults[p] \in Nat /\ stateFaults'[p] = stateFaults[p] + 1
    BY <1>1 DEF DamageState, Inv, SettlementsTyped
  <2>2. /\ retained[p] # Nothing
        /\ retained'[p] = Nothing \/ retained'[p] \in DamagedStates(retained[p])
    BY <1>1 DEF DamageState, Inv, RetainedKnown
  <2>3. ASSUME retained'[p] # Nothing PROVE StateMade(retained'[p], stateFaults'[p])
    <3>1. StateKnown(retained[p]) /\ StateMade(retained[p], stateFaults[p])
      BY <2>2 DEF Inv, RetainedKnown, Made
    <3>2. /\ ScalarsOf(retained'[p].exchange.packets, retained[p].exchange.packets)
          /\ DamagedOnce(retained[p], retained'[p])
      BY <2>2, <2>3, <3>1, DamageKeepsStates
    <3>3. PacketsMade(retained'[p].exchange.packets)
      BY <3>1, <3>2, ScalarsStayMade DEF StateMade
    <3>4. ASSUME stateFaults'[p] <= 1
          PROVE  \/ retained'[p].template = AgreedTemplate
                 \/ /\ retained'[p].template \in DamagedTemplates(AgreedTemplate)
                    /\ retained'[p].exchange.packets = AgreedPackets
      <4>1. stateFaults[p] = 0
        BY <2>1, <3>4
      <4>2. retained[p].template = AgreedTemplate /\ retained[p].exchange.packets = AgreedPackets
        BY <2>2, <4>1, UntouchedIsRetained DEF Inv, Untouched
      <4>3. QED
        BY <3>2, <4>2 DEF DamagedOnce
    <3>5. QED
      BY <3>3, <3>4 DEF StateMade
  <2>4. QED
    BY <2>1, <2>3
<1>2. ASSUME NEW p \in Roles, RewriteStateDigest(p) \/ RewriteTemplateDigest(p)
      PROVE  /\ stateFaults'[p] = 0 => retained'[p] = retained[p]
             /\ retained'[p] # Nothing => StateMade(retained'[p], stateFaults'[p])
  <2> DEFINE s == retained[p]
             first == WithDigest(s)
             second == WithDigest([s EXCEPT !.templateDigest = DigestOf(s.template),
                                            !.exchange.templateDigest = DigestOf(s.template)])
  <2>1. /\ s # Nothing /\ stateFaults'[p] = stateFaults[p]
        /\ retained'[p] = first \/ retained'[p] = second
    BY <1>2 DEF RewriteStateDigest, RewriteTemplateDigest, Inv, RetainedKnown
  <2>2. StateKnown(s) /\ StateMade(s, stateFaults[p])
    BY <2>1 DEF Inv, RetainedKnown, Made
  <2>3. /\ retained'[p].template = s.template
        /\ retained'[p].exchange.packets = s.exchange.packets
    BY <2>1, <2>2, DigestsKeepStates DEF KeepsPackets
  <2>4. ASSUME stateFaults'[p] = 0 PROVE retained'[p] = s
    <3>1. s = InitialState(p)
      BY <2>1, <2>4 DEF Untouched
    <3>2. first = s /\ second = s
      BY <2>1, <3>1, UntouchedIsRetained DEF Inv
    <3>3. QED
      BY <2>1, <3>2
  <2>5. StateMade(retained'[p], stateFaults'[p])
    BY <2>1, <2>2, <2>3 DEF StateMade
  <2>6. QED
    BY <2>4, <2>5
<1>3. ASSUME NEW h \in Holders, DamagePackage(h)
      PROVE  packageFaults'[h] # 0 /\ (package'[h] # Nothing => PackageMade(package'[h]))
  <2>1. packageFaults[h] \in Nat /\ packageFaults'[h] = packageFaults[h] + 1
    BY <1>3 DEF DamagePackage, Inv, SettlementsTyped
  <2>2. /\ package[h] # Nothing
        /\ package'[h] = Nothing \/ package'[h] \in DamagedPackages(package[h])
    BY <1>3 DEF DamagePackage, Inv, PackagesKnown
  <2>3. PackageKnown(package[h]) /\ PackageMade(package[h])
    BY <2>2 DEF Inv, PackagesKnown, Made
  <2>4. QED
    BY <2>1, <2>2, <2>3, PackageStep DEF PackageMade
<1>4. ASSUME NEW p \in Roles PROVE Role(p)'
  <2>1. Role(p)
    BY DEF Untouched, Made
  <2>2. CASE DamageState(p)
    BY <1>1, <2>2
  <2>3. CASE RewriteStateDigest(p) \/ RewriteTemplateDigest(p)
    <3>1. stateFaults'[p] = stateFaults[p]
      BY <2>3 DEF RewriteStateDigest, RewriteTemplateDigest
    <3>2. QED
      BY <1>0, <1>2, <2>1, <2>3, <3>1
  <2>4. CASE ~(DamageState(p) \/ RewriteStateDigest(p) \/ RewriteTemplateDigest(p))
    <3>1. retained'[p] = retained[p] /\ stateFaults'[p] = stateFaults[p]
      BY <2>4 DEF Next, vars, DamageState, RewriteStateDigest, RewriteTemplateDigest, Settle,
                  DamagePackage, ActivatePreparedEdge, Attest, Inv, RetainedKnown, SettlementsTyped
    <3>2. QED
      BY <1>0, <2>1, <3>1
  <2>5. QED
    BY <2>2, <2>3, <2>4
<1>5. ASSUME NEW h \in Holders PROVE Holder(h)'
  <2>1. Holder(h)
    BY DEF Untouched, Made
  <2>2. CASE DamagePackage(h)
    BY <1>3, <2>2
  <2>3. CASE ~DamagePackage(h)
    <3>1. package'[h] = package[h] /\ packageFaults'[h] = packageFaults[h]
      BY <2>3 DEF Next, vars, DamageState, RewriteStateDigest, RewriteTemplateDigest, Settle,
                  DamagePackage, ActivatePreparedEdge, Attest, Inv, PackagesKnown, SettlementsTyped
    <3>2. QED
      BY <2>1, <3>1
  <2>4. QED
    BY <2>2, <2>3
<1>6. QED
  BY <1>4, <1>5 DEF Untouched, Made

LEMMA AlwaysMade == Spec => [](Inv /\ Untouched /\ Made)
<1>1. Init => Inv /\ Untouched /\ Made
  BY InitInv, InitMade
<1>2. Inv /\ Untouched /\ Made /\ [Next]_vars => (Inv /\ Untouched /\ Made)'
  BY NextInv, NextMade
<1>3. QED
  BY <1>1, <1>2, PTL DEF Spec

-------------------------------------------------------------------------------
(***************************************************************************)
(* SettledAsAgreed.  A settlement is judged by the state it used, which is *)
(* kept with it: damaged once, it is of the agreed template or its packets *)
(* are the agreed ones, and then the checks leave nothing to differ but    *)
(* the labels; views that agree leave no other template.                   *)
(***************************************************************************)
LEMMA SettlesAsAgreed ==
  ASSUME NotAScalar(Damaged), NEW s, StateKnown(s), NEW faultCount \in Nat, StateMade(s, faultCount),
         NEW secret, SettlementAccepted(s, secret)
  PROVE  /\ faultCount <= 1 => AsAgreedButForLabels(s)
         /\ ViewsAgree(View("alice", s.template), View("bob", Agreed.template)) => AsAgreed(s)
<1>1. CASE s.template = AgreedTemplate
  <2>1. AsAgreed(s)
    BY <1>1, AgreedTemplateSettlesAsAgreed DEF SettlementAccepted, StateMade
  <2>2. AsAgreedButForLabels(s)
    BY <2>1 DEF AsAgreed, AsAgreedButForLabels
  <2>3. QED
    BY <2>1, <2>2
<1>2. CASE s.template # AgreedTemplate
  <2>1. ~ViewsAgree(View("alice", s.template), View("bob", Agreed.template))
    BY <1>2, AgreedStateIs DEF ViewsAgree, View, DigestOf
  <2>2. ASSUME faultCount <= 1 PROVE AsAgreedButForLabels(s)
    <3>1. s.template \in DamagedTemplates(AgreedTemplate) /\ s.exchange.packets = AgreedPackets
      BY <1>2, <2>2 DEF StateMade
    <3>2. QED
      BY <3>1, DamagedTemplateSettlesAsAgreed
  <2>3. QED
    BY <2>1, <2>2
<1>3. QED
  BY <1>1, <1>2

LEMMA ActivatesAsAgreed ==
  ASSUME NotAScalar(Damaged), NEW p, PackageMade(p), NEW secret,
         NetworkAccepts(CompletedSpend(p, secret))
  PROVE  CompletedSpend(p, secret).txid = Agreed.template.spends["bridge"].txid
<1> DEFINE spend == CompletedSpend(p, secret)
<1>1. /\ spend.tx = p.unsignedTx /\ spend.txid = p.unsignedTx
      /\ spend.signature = CompletedSignature(p.adaptor, secret)
  BY DEF CompletedSpend
<1>2. p.adaptor.scalar = Scalar(p.adaptor.adaptedNonce, PointOf(secret), "bridge", p.unsignedTx)
  BY <1>1 DEF NetworkAccepts, SchnorrVerifies, CompletedSignature
<1>3. p.adaptor.scalar = AgreedScalar("bridge")
  BY <1>2 DEF PackageMade, NotAScalar
<1>4. p.unsignedTx = "bridge"
  BY <1>2, <1>3 DEF AgreedScalar, Scalar
<1>5. Agreed.template.spends["bridge"].txid = "bridge"
  BY AgreedStateIs, AgreedSpendIs DEF Purposes
<1>6. QED
  BY <1>1, <1>4, <1>5

\* SettledAsAgreed, for any setup, any holders and any number of faults, if
\* a damaged scalar is the scalar of no signature: one damaged field settles
\* the agreed edge, bridge and child funding, but for the index and the role
\* name of the last, or nothing; any number of them under agreeing views, the
\* agreed ones entirely; and the network accepts no activation but of the
\* agreed bridge.
THEOREM SettlementsAreAsAgreed ==
  ASSUME NotAScalar(Damaged)
  PROVE  Spec => []SettledAsAgreed
<1>1. Init => SettledAsAgreed
  BY DEF Init, SettledAsAgreed
<1>2. Inv /\ Made /\ SettledAsAgreed /\ [Next]_vars => SettledAsAgreed'
  <2> SUFFICES ASSUME Inv, Made, SettledAsAgreed, [Next]_vars PROVE SettledAsAgreed'
    OBVIOUS
  <2> DEFINE Held(r) ==
               /\ r.faults <= 1 => AsAgreedButForLabels(r.state)
               /\ ViewsAgree(View("alice", r.state.template), View("bob", Agreed.template))
                    => AsAgreed(r.state)
  <2>1. ASSUME NEW r \in settlements' PROVE Held(r)
    <3>1. CASE r \in settlements
      BY <2>1, <3>1 DEF SettledAsAgreed
    <3>2. CASE r \notin settlements
      <4>1. PICK p \in Roles, outcome \in Outcomes : Settle(p, outcome)
        BY <2>1, <3>2 DEF Next, vars, DamageState, RewriteStateDigest, RewriteTemplateDigest,
                          DamagePackage, ActivatePreparedEdge, Attest
      <4>2. /\ r.state = retained[p] /\ r.faults = stateFaults[p]
            /\ retained[p] # Nothing
            /\ SettlementAccepted(retained[p], AttestationSecret(outcome))
        BY <2>1, <3>2, <4>1 DEF Settle
      <4>3. /\ StateKnown(retained[p]) /\ StateMade(retained[p], stateFaults[p])
            /\ stateFaults[p] \in Nat
        BY <4>2 DEF Inv, RetainedKnown, SettlementsTyped, Made
      <4>4. /\ stateFaults[p] <= 1 => AsAgreedButForLabels(retained[p])
            /\ ViewsAgree(View("alice", retained[p].template), View("bob", Agreed.template))
                 => AsAgreed(retained[p])
        BY <4>2, <4>3, SettlesAsAgreed
      <4>5. QED
        BY <4>2, <4>4
    <3>3. QED
      BY <3>1, <3>2
  <2>2. ASSUME NEW a \in activations', NetworkAccepts(a.spend)
        PROVE  a.spend.txid = Agreed.template.spends["bridge"].txid
    <3>1. CASE a \in activations
      BY <2>2, <3>1 DEF SettledAsAgreed
    <3>2. CASE a \notin activations
      <4>1. PICK h \in Holders, outcome \in Outcomes : ActivatePreparedEdge(h, outcome)
        BY <2>2, <3>2 DEF Next, vars, DamageState, RewriteStateDigest, RewriteTemplateDigest,
                          DamagePackage, Settle, Attest
      <4>2. a.spend = CompletedSpend(package[h], AttestationSecret(outcome)) /\ package[h] # Nothing
        BY <2>2, <3>2, <4>1 DEF ActivatePreparedEdge
      <4>3. PackageMade(package[h])
        BY <4>2 DEF Made
      <4>4. QED
        BY <2>2, <4>2, <4>3, ActivatesAsAgreed
    <3>3. QED
      BY <3>1, <3>2
  <2>3. QED
    BY <2>1, <2>2 DEF SettledAsAgreed
<1>3. QED
  BY <1>1, <1>2, AlwaysMade, PTL DEF Spec

-------------------------------------------------------------------------------
(***************************************************************************)
(* The other direction, the safety part of SomeHolderActivates: what no    *)
(* fault has touched still passes every check.                             *)
(***************************************************************************)
LEMMA AgreedTemplateIsValid == ValidTemplate(AgreedTemplate)
<1>1. \A name \in DOMAIN SpentBy :
        AgreedTemplate.spends[name].input.txid = AgreedTemplate.spends[SpentBy[name]].txid
  BY AgreedGraphChecked DEF GraphChecked
<1>2. AgreedTemplate.childFundingOutput.valueSat = AgreedTemplate.spends["bridge"].output.valueSat
  BY AgreedGraphChecked DEF GraphChecked
<1>3. AgreedTemplate.spends["parent_cet"].input.txid = AgreedTemplate.parentFundingOutpoint.txid
  <2>1. AgreedTemplate.spends["parent_cet"].input = CanonicalSpends["parent_cet"].input
    BY AgreedSpendIs DEF Purposes
  <2>2. CanonicalSpends["parent_cet"].input.txid = "parent_funding"
    BY DEF CanonicalSpends, Spend, ParentFundingOutpoint, SpendableOutput
  <2>3. AgreedTemplate.parentFundingOutpoint.txid = "parent_funding"
    BY DEF AgreedTemplate, CanonicalTemplate, ParentFundingOutpoint, SpendableOutput
  <2>4. QED
    BY <2>1, <2>2, <2>3
<1>4. ASSUME NEW name \in Purposes \cup Refunds PROVE AgreedTemplate.spends[name].dustCheckPasses
  <2>1. AgreedTemplate.spends[name].dustCheckPasses = AboveDust(CanonicalSpends[name])
    BY AgreedSpendIs
  <2>2. ParentFundingSat \in Nat /\ ParentFundingSat >= 2330
    BY ParentFundingAssumption, MinimumIs2330
  <2>3. /\ CanonicalSpends["parent_cet"].output.valueSat = ParentFundingSat - 1000
        /\ CanonicalSpends["bridge"].output.valueSat = ParentFundingSat - 1000 - 500
        /\ CanonicalSpends["child_cet"].output.valueSat = ParentFundingSat - 1000 - 500 - 500
        /\ CanonicalSpends["edge_timeout_refund"].output.valueSat = ParentFundingSat - 1000 - 500
        /\ CanonicalSpends["child_timeout_refund"].output.valueSat = ParentFundingSat - 1000 - 500 - 500
    <3> DEFINE edgeSat == ParentFundingSat - ParentCetFeeSat
               childSat == edgeSat - BridgeFeeSat
    <3>1. CanonicalSpends["parent_cet"].output.valueSat = edgeSat
      BY DEF CanonicalSpends, Spend
    <3>2. CanonicalSpends["bridge"].output.valueSat = childSat
      BY DEF CanonicalSpends, Spend, SpendableOutput
    <3>3. CanonicalSpends["child_cet"].output.valueSat = childSat - ChildCetFeeSat
      BY DEF CanonicalSpends, Spend, SpendableOutput
    <3>4. CanonicalSpends["edge_timeout_refund"].output.valueSat = edgeSat - BridgeRefundFeeSat
      BY DEF CanonicalSpends, Spend, SpendableOutput
    <3>5. CanonicalSpends["child_timeout_refund"].output.valueSat = childSat - ChildRefundFeeSat
      BY DEF CanonicalSpends, Spend, SpendableOutput
    <3>6. QED
      BY <3>1, <3>2, <3>3, <3>4, <3>5 DEF ParentCetFeeSat, BridgeFeeSat, ChildCetFeeSat,
         BridgeRefundFeeSat, ChildRefundFeeSat
  <2>4. CanonicalSpends[name].output.valueSat >= 330
    BY <2>2, <2>3 DEF Purposes, Refunds
  <2>5. QED
    BY <2>1, <2>4 DEF AboveDust, DustFloorSat
<1>5. AgreedTemplate.timelocks.ordered
  BY DEF AgreedTemplate, CanonicalTemplate, Timelocks
<1>6. QED
  BY <1>1, <1>2, <1>3, <1>4, <1>5 DEF ValidTemplate

LEMMA RetainedStateFields ==
  ASSUME NEW participant, NEW setup, setup.sessionIdHex = SessionIdHex
  PROVE  LET s == RetainedState(participant, setup)
         IN  /\ s.sessionIdHex = SessionIdHex /\ s.setupTranscript = setup
             /\ s.fundingDigest = FundingDigest(setup) /\ s.fundingValidation = FundingDigest(setup)
             /\ s.templateDigest = DigestOf(AgreedTemplate) /\ s.template = AgreedTemplate
             /\ s.exchange = Exchange(AgreedTemplate)
             /\ s.oracleMetadata.parentPoint = PlannedPoint["bridge"]
             /\ s.oracleMetadata.childPoint = PlannedPoint["child_cet"]
             /\ s.deadlines = Timelocks /\ s.localSecretHandles = SecretHandles(participant)
BY DEF RetainedState, WithDigest, AgreedTemplate

LEMMA RetainedStateValidates ==
  ASSUME NEW participant \in Roles, NEW setup, setup.sessionIdHex = SessionIdHex,
         Retainable(setup), setup.sound
  PROVE  LET s == RetainedState(participant, setup)
         IN  /\ StateValidates(s)
             /\ \A i \in 1 .. 3 : IsFirstPacket(s, PurposeAt[i], i)
<1> DEFINE s == RetainedState(participant, setup)
<1>1. /\ s.sessionIdHex = SessionIdHex /\ s.setupTranscript = setup
      /\ s.fundingDigest = FundingDigest(setup) /\ s.fundingValidation = FundingDigest(setup)
      /\ s.templateDigest = DigestOf(AgreedTemplate) /\ s.template = AgreedTemplate
      /\ s.exchange = Exchange(AgreedTemplate)
      /\ s.oracleMetadata.parentPoint = PlannedPoint["bridge"]
      /\ s.oracleMetadata.childPoint = PlannedPoint["child_cet"]
      /\ s.deadlines = Timelocks /\ s.localSecretHandles = SecretHandles(participant)
  BY RetainedStateFields
<1>2. WithDigest(s) = s
  BY DigestsOfUntouched
<1>3. "digest" \in DOMAIN s
  BY DEF RetainedState, WithDigest
<1> HIDE DEF s
<1>4. s.digest = StateDigest(s)
  <2>1. [s EXCEPT !.digest = StateDigest(s)] = s
    BY <1>2 DEF WithDigest
  <2>2. [s EXCEPT !.digest = StateDigest(s)].digest = StateDigest(s)
    BY <1>3
  <2>3. QED
    BY <2>1, <2>2
<1>5. s.exchange.packets = AgreedPackets /\ s.exchange.sessionIdHex = SessionIdHex
      /\ s.exchange.templateDigest = DigestOf(AgreedTemplate)
  <2>1. AgreedTemplate.sessionIdHex = SessionIdHex
    BY DEF AgreedTemplate, CanonicalTemplate
  <2>2. QED
    BY <1>1, <2>1 DEF Exchange, AgreedPackets
<1>6. /\ DOMAIN AgreedPackets = 1 .. 3 /\ Len(AgreedPackets) = 3
      /\ \A i \in 1 .. 3 : AgreedPackets[i] = RetainedPacket(AgreedTemplate, PurposeAt[i])
  BY AgreedPacketsAre
<1>7. ASSUME NEW i \in 1 .. 3
      PROVE  /\ IsFirstPacket(s, PurposeAt[i], i)
             /\ PacketMatchesTemplate(AgreedPackets[i], AgreedTemplate.spends[PurposeAt[i]])
             /\ AdaptedNonceBindingVerifies(AgreedPackets[i])
             /\ AdaptorEquationVerifies(AgreedPackets[i])
  <2> DEFINE packet == AgreedPackets[i]
             purpose == PurposeAt[i]
  <2>1. \A j \in 1 .. 3 : AgreedPackets[j].purpose = PurposeAt[j]
    BY <1>6, AgreedPacketIs, PurposesInOrder
  <2>2. IsFirstPacket(s, PurposeAt[i], i)
    BY <1>5, <1>6, <2>1, PurposesInOrder DEF IsFirstPacket
  <2>3. purpose \in Purposes
    BY PurposesInOrder
  <2>4. /\ packet.purpose = purpose /\ packet.templateId = purpose
        /\ packet.unsignedTxid = purpose /\ packet.sighash = purpose
        /\ packet.signerPublic = purpose /\ packet.adaptedNonce = purpose
        /\ packet.adaptorPoint = PlannedPoint[purpose]
        /\ packet.preNonce = <<purpose, PlannedPoint[purpose]>>
        /\ packet.scalar = AgreedScalar(purpose)
    BY <1>6, <2>3, AgreedPacketIs
  <2>5. LET spend == AgreedTemplate.spends[purpose]
        IN  spend.id = purpose /\ spend.txid = purpose /\ spend.sighash = purpose
            /\ spend.adaptorPoint = PlannedPoint[purpose]
    BY <2>3, AgreedSpendIs
  <2> HIDE DEF packet, purpose
  <2>6. PacketMatchesTemplate(packet, AgreedTemplate.spends[purpose])
    BY <2>4, <2>5 DEF PacketMatchesTemplate
  <2>7. AdaptedNonceBindingVerifies(packet) /\ AdaptorEquationVerifies(packet)
    BY <2>4 DEF AdaptedNonceBindingVerifies, AdaptorEquationVerifies, AgreedScalar
  <2>8. QED
    BY <2>2, <2>6, <2>7 DEF packet, purpose
<1>8. \A purpose \in Purposes : \E i \in 1 .. 3 :
        /\ IsFirstPacket(s, purpose, i)
        /\ PacketMatchesTemplate(AgreedPackets[i], AgreedTemplate.spends[purpose])
  BY <1>7, PurposesInOrder
<1>9. AdaptorExchangeRetained(s)
  BY <1>1, <1>5, <1>6, <1>8 DEF AdaptorExchangeRetained, IsFirstPacket
<1>10. AdaptorPacketsMatchTemplate(s)
  BY <1>1, <1>5, <1>6, <1>8 DEF AdaptorPacketsMatchTemplate
<1>11. AdaptorEquationsVerify(s)
  BY <1>5, <1>6, <1>7 DEF AdaptorEquationsVerify
<1>12. OracleMetadataMatchesTemplate(s)
  <2>1. \A purpose \in Purposes : AgreedTemplate.spends[purpose].adaptorPoint = PlannedPoint[purpose]
    BY AgreedSpendIs
  <2>2. PlannedPoint["parent_cet"] = PlannedPoint["bridge"]
    BY DEF PlannedPoint
  <2>3. QED
    BY <1>1, <2>1, <2>2 DEF OracleMetadataMatchesTemplate, Purposes
<1>13. DeadlinesMatchTemplate(s)
  <2>1. AgreedTemplate.timelocks = Timelocks
    BY DEF AgreedTemplate, CanonicalTemplate
  <2>2. QED
    BY <1>1, <2>1 DEF DeadlinesMatchTemplate
<1>14. ContainsNoPrivateScalars(s)
  <2>1. ASSUME NEW role, NEW scope
        PROVE  "local" \notin DOMAIN PrivateScalar(role, scope)
    BY DEF PrivateScalar
  <2>2. \A scope \in DOMAIN SecretHandles(participant) :
          "local" \in DOMAIN SecretHandles(participant)[scope]
    BY DEF SecretHandles
  <2>3. QED
    BY <1>1, <2>1, <2>2 DEF ContainsNoPrivateScalars, RolePrivateScalars
<1>15. FundingDigestMatches(s) /\ SetupAccepted(s.setupTranscript) /\ s.setupTranscript.sound
       /\ s.setupTranscript.sessionIdHex = s.sessionIdHex
  BY <1>1 DEF FundingDigestMatches, Retainable
<1>16. ValidTemplate(s.template) /\ DigestOf(s.template) = s.templateDigest
  BY <1>1, AgreedTemplateIsValid
<1>17. StateValidates(s)
  BY <1>4, <1>9, <1>10, <1>11, <1>12, <1>13, <1>14, <1>15, <1>16 DEF StateValidates
<1>18. QED
  BY <1>7, <1>17 DEF s

\* An untouched state settles as agreed with the attestation of the activating
\* outcome, and an untouched package is completed to a spend that the network
\* accepts: no fault of the other copies reaches them.
UntouchedActivates ==
  /\ \A p \in Roles : stateFaults[p] = 0 /\ Retainable(transcript) =>
       /\ SettlementAccepted(retained[p], AttestationSecret("activating"))
       /\ AsAgreed(retained[p])
  /\ \A h \in Holders : packageFaults[h] = 0 =>
       /\ CompletionVerifies(package[h], AttestationSecret("activating"))
       /\ NetworkAccepts(CompletedSpend(package[h], AttestationSecret("activating")))

\* The safety part of SomeHolderActivates, for any setup, any holders and any
\* number of faults: a copy without a fault is always enough.
THEOREM UntouchedCopiesActivate == Spec => []UntouchedActivates
<1>1. Inv /\ Untouched => UntouchedActivates
  <2> SUFFICES ASSUME Inv, Untouched PROVE UntouchedActivates
    OBVIOUS
  <2>1. ASSUME NEW p \in Roles, stateFaults[p] = 0, Retainable(transcript)
        PROVE  /\ SettlementAccepted(retained[p], AttestationSecret("activating"))
               /\ AsAgreed(retained[p])
    <3> DEFINE s == RetainedState(p, transcript)
    <3>1. retained[p] = s
      BY <2>1 DEF Untouched, InitialState
    <3>2. transcript.sessionIdHex = SessionIdHex /\ transcript.sound
      BY DEF Inv, SettlementsTyped, Transcript
    <3>3. /\ StateValidates(s)
          /\ \A i \in 1 .. 3 : IsFirstPacket(s, PurposeAt[i], i)
      BY <2>1, <3>2, RetainedStateValidates
    <3>4. s.template = AgreedTemplate /\ s.exchange.packets = AgreedPackets
      BY <3>2, AgreedIs
    <3> HIDE DEF s
    <3>5. ASSUME NEW i \in 1 .. 2
          PROVE  RetainedCompletes(s, PurposeAt[i], AttestationSecret("activating"))
      <4> DEFINE packet == AgreedPackets[i]
      <4>1. PurposeAt[i] \in Purposes /\ PlannedPoint[PurposeAt[i]] = "activating"
        <5>1. PurposeAt[i] = "parent_cet" \/ PurposeAt[i] = "bridge"
          BY DEF PurposeAt
        <5>2. PlannedPoint["parent_cet"] = "activating" /\ PlannedPoint["bridge"] = "activating"
          BY DEF PlannedPoint
        <5>3. QED
          BY <5>1, <5>2 DEF Purposes
      <4>2. /\ packet.sighash = PurposeAt[i] /\ packet.signerPublic = PurposeAt[i]
            /\ packet.adaptedNonce = PurposeAt[i] /\ packet.scalar = AgreedScalar(PurposeAt[i])
        BY <4>1, AgreedPacketsAre, AgreedPacketIs
      <4> HIDE DEF packet
      <4>3. PacketCompletes(packet, AttestationSecret("activating"))
        BY <4>1, <4>2 DEF PacketCompletes, SchnorrVerifies, CompletedSignature, PointOf,
                          AttestationSecret, AgreedScalar
      <4>4. i \in DOMAIN s.exchange.packets /\ IsFirstPacket(s, PurposeAt[i], i)
        BY <3>3, <3>4, AgreedPacketsAre
      <4>5. QED
        BY <3>4, <4>3, <4>4 DEF RetainedCompletes, packet
    <3>6. /\ RetainedCompletes(s, "parent_cet", AttestationSecret("activating"))
          /\ RetainedCompletes(s, "bridge", AttestationSecret("activating"))
      BY <3>5 DEF PurposeAt
    <3>7. SettlementAccepted(s, AttestationSecret("activating"))
      BY <3>3, <3>4, <3>6, AgreedGraphChecked DEF SettlementAccepted, GraphChecked
    <3>8. AsAgreed(s)
      BY <3>4, AgreedStateIs, GraphIs DEF AsAgreed, Signatures
    <3>9. QED
      BY <3>1, <3>7, <3>8
  <2>2. ASSUME NEW h \in Holders, packageFaults[h] = 0
        PROVE  /\ CompletionVerifies(package[h], AttestationSecret("activating"))
               /\ NetworkAccepts(CompletedSpend(package[h], AttestationSecret("activating")))
    <3> DEFINE bridge == AgreedTemplate.spends["bridge"]
    <3>1. package[h] = PreparedEdgePackage(AgreedTemplate)
      BY <2>2 DEF Untouched
    <3>2. /\ bridge.unsignedTx = "bridge" /\ bridge.sighash = "bridge"
          /\ bridge.adaptorPoint = "activating"
      BY AgreedSpendIs DEF Purposes, PlannedPoint
    <3> HIDE DEF bridge
    <3>3. /\ package[h].unsignedTx = "bridge" /\ package[h].sighash = "bridge"
          /\ package[h].adaptor.adaptedNonce = "bridge" /\ package[h].adaptor.signerPublic = "bridge"
          /\ package[h].adaptor.scalar = Scalar("bridge", "activating", "bridge", "bridge")
      BY <3>1, <3>2 DEF PreparedEdgePackage, SpendAdaptor, AdaptorSignature, bridge
    <3>4. QED
      BY <3>3 DEF CompletionVerifies, CompletedSpend, NetworkAccepts, SchnorrVerifies,
                  CompletedSignature, PointOf, AttestationSecret
  <2>3. QED
    BY <2>1, <2>2 DEF UntouchedActivates
<1>2. QED
  BY <1>1, AlwaysMade, PTL

===============================================================================
