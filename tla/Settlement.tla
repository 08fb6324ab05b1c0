------------------------------ MODULE Settlement ------------------------------
(***************************************************************************)
(* Settlement after the setup: testnet/src/                                *)
(* bilateral-settlement-execution-test.ts, bilateral-lazy-activation-      *)
(* test.ts and the retained-state cases of                                 *)
(* bilateral-wrong-path-replay-test.ts, on top of BilateralStateRetention. *)
(*                                                                         *)
(* Alice and Bob retain state; they and a watchtower hold copies of the    *)
(* prepared bridge.  What is kept may be damaged or lost, field by field,  *)
(* and its digests may be computed again over the damage, as the replay    *)
(* tests do.  Once the oracle has attested, each holder tries to settle or *)
(* to activate with what it has left.                                      *)
(***************************************************************************)
EXTENDS BilateralStateRetention, FiniteSets, Functions

CONSTANTS
  Acks,        \* the orders of acknowledgements of the setup that was accepted
  Nothing,     \* stands for a state or a package that was lost
  Damaged,     \* stands for any value that nothing was computed from
  Holders,     \* of prepared edge packages
  Damageable,  \* the roles and holders whose copy is damaged, where others lose it
  MaxFaults    \* bound on the faults of all copies together

ASSUME FaultsAssumption == MaxFaults \in Nat

Outcomes == {"activating", "wrong"}

SessionIdHex == "session"

VARIABLES
  transcript,   \* of the accepted setup
  retained,     \* the retained state of each role
  package,      \* the prepared edge package of each holder
  stateFaults,  \* of each role's state
  packageFaults, \* of each holder's package
  published,    \* the outcomes the oracle attested
  settlements,  \* the settlements that were accepted, with the state they used
  activations   \* the lazy activations that succeeded

vars == <<transcript, retained, package, stateFaults, packageFaults, published, settlements, activations>>

-----------------------------------------------------------------------------
(***************************************************************************)
(* The prepared edge package: the pending bridge.                          *)
(***************************************************************************)
PreparedEdgePackage(t) ==
  [unsignedTx |-> t.spends["bridge"].unsignedTx, sighash |-> t.spends["bridge"].sighash,
   adaptor |-> SpendAdaptor(t.spends["bridge"], "bridge", "bridge",
                            t.spends["bridge"].adaptorPoint)]

\* Broken variant: both roles retain the state of the first.
InitialStateOfAlice(participant) ==
  IF Retainable(transcript) THEN RetainedState("alice", transcript) ELSE Nothing

\* buildCanonicalBilateralRetainedStates, for both or for none.
InitialState(participant) ==
  IF Retainable(transcript) THEN RetainedState(participant, transcript) ELSE Nothing

Init ==
  /\ transcript \in {Transcript(SessionIdHex, acks) : acks \in Acks}
  /\ retained = [p \in Roles |-> InitialState(p)]
  /\ package = [h \in Holders |-> PreparedEdgePackage(CanonicalTemplate(SessionIdHex))]
  /\ stateFaults = [p \in Roles |-> 0]
  /\ packageFaults = [h \in Holders |-> 0]
  /\ published = {}
  /\ settlements = {}
  /\ activations = {}

-----------------------------------------------------------------------------
(***************************************************************************)
(* One field of a retained state, damaged.                                 *)
(***************************************************************************)
DamagedSpends(t) ==
  {[t EXCEPT !.spends[name][field] = Damaged] :
     name \in {"parent_cet", "bridge"},
     field \in {"id", "txid", "sighash", "adaptorPoint", "unsignedTx"}}

DamagedOutputs(t) ==
  {[t EXCEPT !.spends[name].output[field] = Damaged] :
     name \in {"parent_cet", "bridge"}, field \in {"vout", "valueSat", "scriptPubKey"}}

DamagedTemplates(t) ==
  DamagedSpends(t) \cup DamagedOutputs(t)
  \cup {[t EXCEPT !.spends[name].input.txid = Damaged] : name \in {"bridge", "edge_timeout_refund"}}
  \cup {[t EXCEPT !.spends["bridge"].input[field] = Damaged] :
          field \in {"vout", "valueSat", "scriptPubKey"}}
  \cup {[t EXCEPT !.childFundingOutput[field] = Damaged] :
          field \in {"vout", "valueSat", "scriptPubKey", "role"}}
  \cup {[t EXCEPT !.parentFundingOutpoint.txid = Damaged],
        [t EXCEPT !.timelocks.ordered = FALSE],
        [t EXCEPT !.timelocks.bridgeTimeoutHeight = 0],
        [t EXCEPT !.spends["child_cet"].dustCheckPasses = FALSE],
        [t EXCEPT !.spends["bridge"].adaptorPoint = "wrong"]}

\* A packet with a damaged field, a packet less, and two packets exchanged.
DamagedPackets(packets) ==
  {[packets EXCEPT ![2][field] = Damaged] :
     field \in {"purpose", "sighash", "signerPublic", "adaptorPoint", "adaptedNonce",
                "preNonce", "scalar"}}
  \cup {[packets EXCEPT ![2].adaptorPoint = "wrong"], <<packets[2], packets[1], packets[3]>>,
        <<packets[1], packets[3]>>, << >>}

DamagedStates(s) ==
  {[s EXCEPT !.template = t] : t \in DamagedTemplates(s.template)}
  \cup {[s EXCEPT !.exchange.packets = packets] :
          packets \in IF Len(s.exchange.packets) = 3 THEN DamagedPackets(s.exchange.packets)
                                                     ELSE {}}
  \cup {[s EXCEPT !.oracleMetadata.parentPoint = "wrong"],
        [s EXCEPT !.setupTranscript.sound = FALSE],
        [s EXCEPT !.setupTranscript.acks = <<"alice", "alice">>],
        [s EXCEPT !.setupTranscript.fundingInputs = Damaged],
        [s EXCEPT !.deadlines.bridgeTimeoutHeight = 0],
        [s EXCEPT !.localSecretHandles["refund"] = PrivateScalar("alice", "refund")],
        [s EXCEPT !.sessionIdHex = Damaged]}

DamagedPackages(p) ==
  {[p EXCEPT ![field] = Damaged] : field \in {"unsignedTx", "sighash"}}
  \cup {[p EXCEPT !.adaptor[field] = Damaged] :
          field \in {"signerPublic", "adaptorPoint", "adaptedNonce", "scalar"}}

\* A role that has settled is done: settled is terminal in the state machine.
HasSettled(p) == \E r \in settlements : r.by = p

AllFaults ==
  FoldFunction(+, 0, stateFaults) + FoldFunction(+, 0, packageFaults)

DamageState(p) ==
  /\ retained[p] # Nothing
  /\ ~HasSettled(p)
  /\ AllFaults < MaxFaults
  /\ stateFaults' = [stateFaults EXCEPT ![p] = @ + 1]
  /\ \E state \in {Nothing} \cup IF p \in Damageable THEN DamagedStates(retained[p]) ELSE {} :
       retained' = [retained EXCEPT ![p] = state]
  /\ UNCHANGED <<transcript, package, packageFaults, published, settlements, activations>>

DamagePackage(h) ==
  /\ package[h] # Nothing
  /\ AllFaults < MaxFaults
  /\ packageFaults' = [packageFaults EXCEPT ![h] = @ + 1]
  /\ \E pending \in {Nothing} \cup IF h \in Damageable THEN DamagedPackages(package[h]) ELSE {} :
       package' = [package EXCEPT ![h] = pending]
  /\ UNCHANGED <<transcript, retained, stateFaults, published, settlements, activations>>

(***************************************************************************)
(* The digest of the state computed again over whatever it holds, and      *)
(* rewriteRetainedTemplateDigest, which throws for an invalid template.    *)
(***************************************************************************)
RewriteStateDigest(p) ==
  /\ retained[p] # Nothing
  /\ ~HasSettled(p)
  /\ retained' = [retained EXCEPT ![p] = WithDigest(@)]
  /\ UNCHANGED <<transcript, package, stateFaults, packageFaults, published, settlements, activations>>

RewriteTemplateDigest(p) ==
  /\ retained[p] # Nothing
  /\ ~HasSettled(p)
  /\ ValidTemplate(retained[p].template)
  /\ retained' = [retained EXCEPT ![p] =
       WithDigest([@ EXCEPT !.templateDigest = DigestOf(retained[p].template),
                            !.exchange.templateDigest = DigestOf(retained[p].template)])]
  /\ UNCHANGED <<transcript, package, stateFaults, packageFaults, published, settlements, activations>>

-----------------------------------------------------------------------------
Attest(outcome) ==
  /\ outcome \notin published
  /\ published' = published \cup {outcome}
  /\ UNCHANGED <<transcript, retained, package, stateFaults, packageFaults, settlements, activations>>

(***************************************************************************)
(* A role attempts to settle with an attestation and the state it has; a   *)
(* refused attempt changes nothing.                                        *)
(***************************************************************************)
Settle(p, outcome) ==
  /\ outcome \in published
  /\ retained[p] # Nothing
  /\ ~HasSettled(p)
  /\ SettlementAccepted(retained[p], AttestationSecret(outcome))
  /\ settlements' = settlements \cup
       {[by |-> p, secret |-> AttestationSecret(outcome), state |-> retained[p],
         faults |-> stateFaults[p]]}
  /\ UNCHANGED <<transcript, retained, package, stateFaults, packageFaults, published, activations>>

(***************************************************************************)
(* activatePreparedEdge: it throws without a package and when the          *)
(* completed signature does not verify.                                    *)
(***************************************************************************)
ActivatePreparedEdge(h, outcome) ==
  /\ outcome \in published
  /\ package[h] # Nothing
  /\ CompletionVerifies(package[h], AttestationSecret(outcome))
  /\ activations' = activations \cup
       {[by |-> h, spend |-> CompletedSpend(package[h], AttestationSecret(outcome))]}
  /\ UNCHANGED <<transcript, retained, package, stateFaults, packageFaults, published, settlements>>

Next ==
  \/ \E p \in Roles :
       \/ DamageState(p)
       \/ RewriteStateDigest(p)
       \/ RewriteTemplateDigest(p)
       \/ \E outcome \in Outcomes : Settle(p, outcome)
  \/ \E h \in Holders :
       \/ DamagePackage(h)
       \/ \E outcome \in Outcomes : ActivatePreparedEdge(h, outcome)
  \/ \E outcome \in Outcomes : Attest(outcome)

(***************************************************************************)
(* Whoever can settle or activate does; nobody owes a fault, a digest or   *)
(* an attestation.                                                         *)
(***************************************************************************)
Fairness ==
  /\ \A p \in Roles : \A outcome \in Outcomes : WF_vars(Settle(p, outcome))
  /\ \A h \in Holders : \A outcome \in Outcomes : WF_vars(ActivatePreparedEdge(h, outcome))

Spec == Init /\ [][Next]_vars /\ Fairness

-----------------------------------------------------------------------------
(***************************************************************************)
(* Every variable has its type.                                            *)
(***************************************************************************)
TypeOK ==
  /\ transcript \in {Transcript(SessionIdHex, acks) : acks \in Acks}
  /\ DOMAIN retained = Roles
  /\ \A p \in Roles : retained[p] # Nothing => retained[p].participant = p
  /\ DOMAIN package = Holders
  /\ stateFaults \in [Roles -> Nat]
  /\ packageFaults \in [Holders -> Nat]
  /\ published \subseteq Outcomes
  /\ \A r \in settlements : r.by \in Roles /\ r.faults \in Nat
  /\ \A a \in activations : a.by \in Holders

(***************************************************************************)
(* Whatever was damaged and however the digests were computed again, an    *)
(* accepted settlement holds together: one published attestation releases  *)
(* signatures that verify for the parent CET and the bridge of the         *)
(* template, whose adaptor points are that attestation's, in which the     *)
(* bridge spends the whole output of the parent CET and creates the        *)
(* child's funding, and which both roles acknowledged.                     *)
(***************************************************************************)
Releases(s, purpose, secret) ==
  /\ s.template.spends[purpose].adaptorPoint = PointOf(secret)
  /\ \E i \in DOMAIN s.exchange.packets :
       /\ IsFirstPacket(s, purpose, i)
       /\ SchnorrVerifies(CompletedSignature(s.exchange.packets[i], secret),
                          s.template.spends[purpose].sighash, s.exchange.packets[i].signerPublic)

SettlementIsBound ==
  \A r \in settlements :
    /\ PointOf(r.secret) \in published
    /\ Releases(r.state, "parent_cet", r.secret)
    /\ Releases(r.state, "bridge", r.secret)
    /\ ValidTemplate(r.state.template)
    /\ BridgeSpendsParentEdge(r.state.template)
    /\ BridgeCreatesChildFunding(r.state.template)
    /\ {r.state.setupTranscript.acks[i] : i \in DOMAIN r.state.setupTranscript.acks} = Roles

(***************************************************************************)
(* The attestation of another outcome never settles and never activates,   *)
(* not even with points exchanged for its own in what a holder keeps: no   *)
(* signature was ever made under them.                                     *)
(***************************************************************************)
OnlyActivatingOutcomeActivates ==
  /\ \A r \in settlements : r.secret = AttestationSecret("activating")
  /\ \A a \in activations : a.spend.extractedSecret = AttestationSecret("activating")

(***************************************************************************)
(* What one damaged field can do to a settlement that is accepted: it is   *)
(* of the agreed edge and bridge under the agreed signatures, and the      *)
(* child's funding is the agreed transaction's with the agreed value and   *)
(* script.  Its index and its role name are read by no check of one copy,  *)
(* and may be any.  What guards them is the comparison of the views: when  *)
(* the holder's view of its template agrees with the view the other        *)
(* derives, any number of faults leaves the whole transition as agreed.    *)
(* And of all activations that the network accepts, because the signature  *)
(* is of the transaction it comes with, there is one transaction, the      *)
(* agreed bridge.                                                          *)
(***************************************************************************)
GraphTransition(s) ==
  [parentEdge |-> [txid |-> s.template.spends["parent_cet"].txid,
                   output |-> s.template.spends["parent_cet"].output],
   bridgeInput |-> s.template.spends["bridge"].input,
   childFunding |-> [txid |-> s.template.spends["bridge"].txid,
                     output |-> s.template.childFundingOutput]]

Signatures(s) ==
  {CompletedSignature(s.exchange.packets[i], AttestationSecret("activating")) :
     i \in DOMAIN s.exchange.packets}

Agreed == RetainedState("alice", Transcript(SessionIdHex, <<"alice", "bob">>))

AsAgreed(s) ==
  GraphTransition(s) = GraphTransition(Agreed) /\ Signatures(s) = Signatures(Agreed)

AsAgreedButForLabels(s) ==
  LET transition == GraphTransition(s)
      agreed     == GraphTransition(Agreed)
  IN  /\ transition.parentEdge = agreed.parentEdge
      /\ transition.bridgeInput = agreed.bridgeInput
      /\ transition.childFunding.txid = agreed.childFunding.txid
      /\ \A field \in {"valueSat", "scriptPubKey"} :
           transition.childFunding.output[field] = agreed.childFunding.output[field]
      /\ Signatures(s) = Signatures(Agreed)

NetworkAccepts(spend) == SchnorrVerifies(spend.signature, spend.tx, "bridge")

SettledAsAgreed ==
  /\ \A r \in settlements :
       /\ r.faults <= 1 => AsAgreedButForLabels(r.state)
       /\ ViewsAgree(View("alice", r.state.template), View("bob", Agreed.template))
            => AsAgreed(r.state)
  /\ \A a \in activations :
       NetworkAccepts(a.spend) => a.spend.txid = Agreed.template.spends["bridge"].txid

(***************************************************************************)
(* The edge needs one holder: while fewer copies are damaged than there    *)
(* are, the bridge is completed as agreed once the oracle attests the      *)
(* activating outcome, by a role or by a holder of a package.  A setup     *)
(* that cannot be retained leaves the packages alone.                      *)
(***************************************************************************)
CopyCount == Cardinality(Holders) + IF Retainable(transcript) THEN Cardinality(Roles) ELSE 0

SomeHolderActivates ==
  [](AllFaults < CopyCount)
    => ("activating" \in published
          ~> \/ \E r \in settlements : AsAgreed(r.state)
             \/ \E a \in activations : NetworkAccepts(a.spend))

===============================================================================
