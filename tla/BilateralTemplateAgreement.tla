---------------------- MODULE BilateralTemplateAgreement ----------------------
(***************************************************************************)
(* The transaction templates both participants agree on: testnet/src/      *)
(* bilateral-template-agreement.ts.                                        *)
(*                                                                         *)
(*   parent funding -> parent CET -> bridge -> child CET                   *)
(*                              \         \-> child timeout refund         *)
(*                               \-> edge timeout refund                   *)
(***************************************************************************)
EXTENDS BilateralAdaptorExchange, TaprootSpend

CONSTANT ParentFundingSat  \* canonicalAmounts.parentFundingValueSat

ASSUME ParentFundingAssumption ==
  ParentFundingSat \in Nat /\ ParentFundingSat >= MinimumValueSat

Refunds == {"edge_timeout_refund", "child_timeout_refund"}

Timelocks ==
  [parentRefundHeight |-> 3000000, bridgeTimeoutHeight |-> 3000100,
   childRefundHeight |-> 3000300, ordered |-> TRUE]

ParentFundingOutpoint ==
  SpendableOutput("parent_funding", 0, ParentFundingSat)

(***************************************************************************)
(* The five spends.  The wallets that sign are named by the adaptor spend  *)
(* they sign: the bridge's wallet takes the parent edge, the child CET's   *)
(* takes the child funding.                                                *)
(***************************************************************************)
CanonicalSpends ==
  LET parentCet == Spend("parent_cet", "parent_cet", ParentFundingOutpoint, "bridge",
                         ParentFundingSat - ParentCetFeeSat)
      edge      == SpendableOutput(parentCet.txid, 0, parentCet.output.valueSat)
      bridge    == Spend("bridge", "bridge", edge, "child_cet", edge.valueSat - BridgeFeeSat)
      child     == SpendableOutput(bridge.txid, 0, bridge.output.valueSat)
  IN  [parent_cet           |-> parentCet,
       bridge               |-> bridge,
       child_cet            |-> Spend("child_cet", "child_cet", child, "parent_cet",
                                      child.valueSat - ChildCetFeeSat),
       edge_timeout_refund  |-> Spend("edge_timeout_refund", "bridge", edge, "parent_cet",
                                      edge.valueSat - BridgeRefundFeeSat),
       child_timeout_refund |-> Spend("child_timeout_refund", "child_cet", child, "child_cet",
                                      child.valueSat - ChildRefundFeeSat)]

(***************************************************************************)
(* adaptorTemplate and refundTemplate.                                     *)
(***************************************************************************)
\* A spread: the fields of one record, and those of another that it lacks.
Spread(first, second) ==
  [field \in DOMAIN first \cup DOMAIN second |->
     IF field \in DOMAIN first THEN first[field] ELSE second[field]]

AboveDust(spend) == spend.output.valueSat >= DustFloorSat

AdaptorTemplate(purpose) ==
  Spread(CanonicalSpends[purpose],
         [id |-> purpose, signerRole |-> PlannedSender[purpose],
          adaptorPoint |-> PlannedPoint[purpose],
          dustCheckPasses |-> AboveDust(CanonicalSpends[purpose])])

RefundTemplate(refund) ==
  Spread(CanonicalSpends[refund],
         [id |-> refund, signerRole |-> "bob",
          locktime |-> IF refund = "edge_timeout_refund" THEN Timelocks.bridgeTimeoutHeight
                                                         ELSE Timelocks.childRefundHeight,
          dustCheckPasses |-> AboveDust(CanonicalSpends[refund])])

\* The output of the bridge is noted a second time as the child's funding.
\* Of the role names only this one is kept: what settles is compared with it.
CanonicalTemplate(sessionIdHex) ==
  [sessionIdHex |-> sessionIdHex,
   parentFundingOutpoint |-> ParentFundingOutpoint,
   spends |-> [name \in Purposes \cup Refunds |->
                 IF name \in Purposes THEN AdaptorTemplate(name) ELSE RefundTemplate(name)],
   childFundingOutput |-> Spread(CanonicalSpends["bridge"].output, [role |-> "child_funding"]),
   timelocks |-> Timelocks]

-----------------------------------------------------------------------------
(***************************************************************************)
(* validateTemplate: the transaction each template spends, by its id.      *)
(***************************************************************************)
SpentBy ==
  [bridge |-> "parent_cet", edge_timeout_refund |-> "parent_cet",
   child_cet |-> "bridge", child_timeout_refund |-> "bridge"]

ValidTemplate(t) ==
  /\ t.spends["parent_cet"].input.txid = t.parentFundingOutpoint.txid
  /\ \A name \in DOMAIN SpentBy :
       t.spends[name].input.txid = t.spends[SpentBy[name]].txid
  /\ t.childFundingOutput.valueSat = t.spends["bridge"].output.valueSat
  /\ \A name \in Purposes \cup Refunds : t.spends[name].dustCheckPasses
  /\ t.timelocks.ordered

(***************************************************************************)
(* The view a participant has of a template, which must be valid, and the  *)
(* comparison of the views of the two.                                     *)
(***************************************************************************)
DigestOf(t) == [digestOf |-> t]

View(participant, t) ==
  [participant |-> participant, sessionIdHex |-> t.sessionIdHex, digest |-> DigestOf(t)]

ViewsAgree(first, second) ==
  /\ {first.participant, second.participant} = {"alice", "bob"}
  /\ first.sessionIdHex = second.sessionIdHex
  /\ first.digest = second.digest

===============================================================================
