----------------------------- MODULE TaprootSpend -----------------------------
(***************************************************************************)
(* The Taproot spends of testnet/src/taproot.ts and the amounts that       *)
(* cdlc-scenario.ts gives them.  A wallet is named by what it signs; a     *)
(* transaction, its id and its sighash are named by its place in the       *)
(* graph, where each is built once from one output.                        *)
(***************************************************************************)
EXTENDS AdaptorSignature, Integers

DustFloorSat == 330

ScriptOf(wallet) == [p2tr |-> wallet]

SpendableOutput(txid, vout, valueSat) == [txid |-> txid, vout |-> vout, valueSat |-> valueSat]

(***************************************************************************)
(* What buildTaprootAdaptorSpend and buildTaprootKeySpend throw for.       *)
(***************************************************************************)
AdaptorSpendBuilds(valueSat, feeSat) ==
  feeSat < valueSat /\ valueSat - feeSat >= DustFloorSat

KeySpendBuilds(valueSat, outputValueSat) ==
  DustFloorSat <= outputValueSat /\ outputValueSat < valueSat

Spend(name, wallet, utxo, destination, outputValueSat) ==
  [unsignedTx |-> name, txid |-> name, sighash |-> name,
   input |-> [txid |-> utxo.txid, vout |-> utxo.vout, valueSat |-> utxo.valueSat,
              scriptPubKey |-> ScriptOf(wallet)],
   output |-> [vout |-> 0, valueSat |-> outputValueSat, scriptPubKey |-> ScriptOf(destination)],
   feeSat |-> utxo.valueSat - outputValueSat]

\* The adaptor signature that goes with a spend of the wallet of that name.
SpendAdaptor(spend, wallet, nonce, point) ==
  AdaptorSignature(nonce, point, wallet, spend.sighash)

(***************************************************************************)
(* completeTaprootAdaptorSpend: it throws when the signature does not      *)
(* verify against the sighash of the pending spend, which it takes as it   *)
(* is; the raw transaction is the pending one with the signature.          *)
(***************************************************************************)
CompletionVerifies(pending, secret) ==
  SchnorrVerifies(CompletedSignature(pending.adaptor, secret),
                  pending.sighash, pending.adaptor.signerPublic)

CompletedSpend(pending, secret) ==
  [tx |-> pending.unsignedTx, txid |-> pending.unsignedTx,
   signature |-> CompletedSignature(pending.adaptor, secret),
   extractedSecret |-> ExtractedSecret(CompletedSignature(pending.adaptor, secret))]

-----------------------------------------------------------------------------
(***************************************************************************)
(* canonicalAmounts and the least value of a parent funding output.        *)
(***************************************************************************)
ParentCetFeeSat == 1000
BridgeFeeSat == 500
BridgeRefundFeeSat == 500
ChildCetFeeSat == 500
ChildRefundFeeSat == 500

MaxOf(values) == CHOOSE m \in values : \A v \in values : v <= m

MinimumValueSat ==
  MaxOf({ParentCetFeeSat + DustFloorSat,
         ParentCetFeeSat + BridgeFeeSat + DustFloorSat,
         ParentCetFeeSat + BridgeFeeSat + ChildCetFeeSat + DustFloorSat,
         ParentCetFeeSat + BridgeFeeSat + ChildRefundFeeSat + DustFloorSat})

(***************************************************************************)
(* The spends of the graph that a parent funding output of this value      *)
(* builds: none of them throws.                                            *)
(***************************************************************************)
GraphBuilds(valueSat) ==
  LET edgeSat  == valueSat - ParentCetFeeSat
      childSat == edgeSat - BridgeFeeSat
  IN  /\ AdaptorSpendBuilds(valueSat, ParentCetFeeSat)
      /\ AdaptorSpendBuilds(edgeSat, BridgeFeeSat)
      /\ KeySpendBuilds(edgeSat, edgeSat - BridgeRefundFeeSat)
      /\ AdaptorSpendBuilds(childSat, ChildCetFeeSat)
      /\ KeySpendBuilds(childSat, childSat - ChildRefundFeeSat)

===============================================================================
