-------------------------- MODULE PublicActivation --------------------------
(***************************************************************************)
(* executeActivation of testnet/src/public-cdlc-evidence.ts: the script    *)
(* that activates a child contract on a public chain.  It reads a funding  *)
(* output, broadcasts the parent CET and waits for it, broadcasts the      *)
(* bridge and waits for it, and writes an evidence bundle.                 *)
(*                                                                         *)
(* A run may fail at any of its requests, or be killed, and be started     *)
(* again with the same command; between two requests the chain moves on:   *)
(* blocks, reorganizations of the tip, and other spends of the funding.    *)
(* The transactions are built with deterministic nonces, so every run of   *)
(* the same funding output builds the same parent CET and bridge.          *)
(***************************************************************************)
EXTENDS Naturals, FiniteSets

CONSTANTS
  Outpoints,         \* the outputs of the funding wallet's address
  NamedOutpoint,     \* the one --funding-txid names
  NoOutpoint,        \* the funding of no run
  MinConfirmations,  \* --min-confirmations
  RefundDelay,       \* blocks from the start of a run to the refund's locktime, 144
  MaxReorgs,         \* bound on the reorganizations
  MaxFailures        \* bound on the failed requests and killed runs

ASSUME PublicActivationAssumption ==
  /\ NamedOutpoint \in Outpoints
  /\ NoOutpoint \notin Outpoints
  /\ MinConfirmations \in Nat /\ RefundDelay \in Nat
  /\ MaxReorgs \in Nat /\ MaxFailures \in Nat

VARIABLES
  command,   \* the command line: backend, funding, and whether it broadcasts
  mempool,   \* transactions that wait for a block
  depth,     \* confirmations of each transaction, up to MaxDepth
  run,       \* the run in progress
  since,     \* blocks since it read the chain's height, up to RefundDelay
  bundles,   \* the evidence bundle, once it is written
  reorgs,
  failures

vars == <<command, mempool, depth, run, since, bundles, reorgs, failures>>

chain == <<mempool, depth, since, reorgs>>

-----------------------------------------------------------------------------
(***************************************************************************)
(* The chain.  A transaction has one input that matters, named by the      *)
(* transaction it spends; the funding transactions come from outside.      *)
(***************************************************************************)
Transactions == {"funding", "parent", "bridge", "elsewhere"} \X Outpoints

Input(t) ==
  CASE t[1] = "bridge" -> <<"parent", t[2]>>
    [] t[1] \in {"parent", "elsewhere"} -> <<"funding", t[2]>>
    [] t[1] = "funding" -> <<"outside", t[2]>>

MaxDepth == MinConfirmations + 1

\* A sum of confirmations, as far as it is counted.
Counted(n) == IF n > MaxDepth THEN MaxDepth ELSE n

Confirmed == {t \in Transactions : depth[t] > 0}

Known == mempool \cup Confirmed

SpentBy(t, spenders) == \E other \in spenders : Input(other) = t

\* What a node admits to its mempool.
Acceptable(t) == t \notin Known /\ Input(t) \in Known /\ ~SpentBy(Input(t), Known)

-----------------------------------------------------------------------------
(***************************************************************************)
(* The funding outputs a run can start from: the three ways to read them.  *)
(* An output named on a test network may be spent already, by this run's   *)
(* predecessor; one named on mainnet may not; and a scan takes the unspent *)
(* output with most confirmations.  The scan of a node looks at blocks     *)
(* only, every other look at the mempool too.                              *)
(***************************************************************************)
Unspent(u, spenders) == ~SpentBy(<<"funding", u>>, spenders)

Scanned ==
  LET seen == IF command.backend = "rpc" THEN Confirmed ELSE Known
  IN  {u \in Outpoints : <<"funding", u>> \in seen /\ Unspent(u, seen)}

\* Broken variant: an output named on a test network must be unspent, too.
ReadableWhenUnspent ==
  {u \in Outpoints :
     CASE command.funding = "historical" ->
            u = NamedOutpoint /\ <<"funding", u>> \in Known /\ Unspent(u, Known)
       [] command.funding = "explicit" ->
            u = NamedOutpoint /\ <<"funding", u>> \in Known /\ Unspent(u, Known)
       [] command.funding = "scan" ->
            /\ u \in Scanned
            /\ \A v \in Scanned : depth[<<"funding", v>>] <= depth[<<"funding", u>>]}

Readable ==
  {u \in Outpoints :
     CASE command.funding = "historical" ->
            u = NamedOutpoint /\ <<"funding", u>> \in Known
       [] command.funding = "explicit" ->
            u = NamedOutpoint /\ <<"funding", u>> \in Known /\ Unspent(u, Known)
       [] command.funding = "scan" ->
            /\ u \in Scanned
            /\ \A v \in Scanned : depth[<<"funding", v>>] <= depth[<<"funding", u>>]}

-----------------------------------------------------------------------------
(***************************************************************************)
(* The steps of a run, one for each request it waits for.  read is what    *)
(* the tip, asked now, makes of a status read before: the confirmations of *)
(* a transaction in the block it was in.  0 is no status.                  *)
(***************************************************************************)
Steps == {"look", "post", "look again", "test", "send", "poll", "finish"}

NoRun == [at |-> "idle", stage |-> "parent", funding |-> NoOutpoint, read |-> 0]

FirstStep == IF command.backend = "rpc" THEN "test" ELSE "look"

Init ==
  /\ command \in {c \in [backend : {"rpc", "esplora"}, broadcast : BOOLEAN,
                         funding : {"historical", "explicit", "scan"}] :
                    c.broadcast \/ c.funding = "explicit"}
  /\ mempool = {}
  /\ depth = [t \in Transactions |-> 0]
  /\ run = NoRun
  /\ since = 0
  /\ bundles = {}
  /\ reorgs = 0
  /\ failures = 0

Running == run.at \in Steps

Transaction == <<run.stage, run.funding>>

Goto(step) == run' = [run EXCEPT !.at = step, !.read = 0]

Fail == run' = NoRun

(***************************************************************************)
(* The run reads the chain's height and its funding and builds all its     *)
(* transactions.  A run on mainnet without the broadcast flag ends here:   *)
(* the mempool test of the parent CET is recorded and not asserted.        *)
(***************************************************************************)
Start(u) ==
  /\ run = NoRun
  /\ u \in Readable
  /\ depth[<<"funding", u>>] >= MinConfirmations
  /\ run' = [NoRun EXCEPT !.at = IF command.broadcast THEN FirstStep ELSE "done",
                          !.funding = u]
  /\ since' = 0
  /\ UNCHANGED <<command, mempool, depth, bundles, reorgs, failures>>

(***************************************************************************)
(* The stage is confirmed: after the parent CET comes the bridge, and      *)
(* after the bridge the end of the run.                                    *)
(***************************************************************************)
CompleteStage ==
  run' = IF run.stage = "parent"
           THEN [run EXCEPT !.at = FirstStep, !.stage = "bridge", !.read = 0]
           ELSE [run EXCEPT !.at = "finish", !.read = 0]

\* Broken variant: a status that is not there is not handled.
AfterNoConfirmationUnhandled == "undefined"

AfterNoConfirmation ==
  CASE run.at = "look" -> "post"
    [] run.at \in {"look again", "poll"} -> "poll"

\* Broken variant: any confirmation ends the stage.
AfterAnyConfirmations(confirmations) == CompleteStage

AfterConfirmations(confirmations) ==
  IF confirmations >= MinConfirmations THEN CompleteStage ELSE Goto("poll")

(***************************************************************************)
(* getConfirmationWithBackend over Esplora asks for the transaction, and   *)
(* if it is in a block, for the height of the tip.                         *)
(***************************************************************************)
ReadStatus ==
  /\ command.backend = "esplora"
  /\ run.at \in {"look", "look again", "poll"}
  /\ run.read = 0
  /\ \/ Transaction \notin Confirmed /\ Goto(AfterNoConfirmation)
     \/ Transaction \in Confirmed /\ run' = [run EXCEPT !.read = depth[Transaction]]
  /\ UNCHANGED <<command, chain, bundles, failures>>

ReadTip ==
  /\ run.read > 0
  /\ AfterConfirmations(run.read)
  /\ UNCHANGED <<command, chain, bundles, failures>>

Broadcast ==
  /\ Acceptable(Transaction)
  /\ mempool' = mempool \cup {Transaction}
  /\ UNCHANGED <<depth, since, reorgs>>

(***************************************************************************)
(* The broadcast over Esplora.  A transaction it knows already is answered *)
(* with the transaction's name, in the answer or in an error the script    *)
(* accepts; once it is in a block the error may leave the name out.        *)
(***************************************************************************)
Post ==
  /\ run.at = "post"
  /\ \/ Broadcast /\ Goto("look again")
     \/ Transaction \in Known /\ Goto("look again") /\ UNCHANGED chain
     \/ Transaction \notin mempool /\ ~Acceptable(Transaction) /\ Fail /\ UNCHANGED chain
  /\ UNCHANGED <<command, bundles, failures>>

(***************************************************************************)
(* The broadcast over RPC is tested first, and a transaction the node      *)
(* knows already fails the test.                                           *)
(***************************************************************************)
Test ==
  /\ run.at = "test"
  /\ \/ Acceptable(Transaction) /\ Goto("send")
     \/ ~Acceptable(Transaction) /\ Fail
  /\ UNCHANGED <<command, chain, bundles, failures>>

Send ==
  /\ run.at = "send"
  /\ \/ Broadcast /\ Goto("poll")
     \/ Transaction \in mempool /\ Goto("poll") /\ UNCHANGED chain
     \/ Transaction \notin mempool /\ ~Acceptable(Transaction) /\ Fail /\ UNCHANGED chain
  /\ UNCHANGED <<command, bundles, failures>>

(***************************************************************************)
(* A node counts the confirmations itself, and has an error for a          *)
(* transaction it does not know.                                           *)
(***************************************************************************)
Poll ==
  /\ command.backend = "rpc"
  /\ run.at = "poll"
  /\ \/ Transaction \notin Known /\ Fail
     \/ Transaction \in Confirmed /\ AfterConfirmations(depth[Transaction])
  /\ UNCHANGED <<command, chain, bundles, failures>>

\* Broken variant: the wait returns when its time is over.
TimeOutFallsThrough ==
  /\ run.at = "poll"
  /\ run.read = 0
  /\ CompleteStage
  /\ UNCHANGED <<command, chain, bundles, failures>>

TimeOut ==
  /\ run.at = "poll"
  /\ run.read = 0
  /\ Fail
  /\ UNCHANGED <<command, chain, bundles, failures>>

(***************************************************************************)
(* A node is asked whether it would accept the child refund now; Esplora   *)
(* cannot be asked, and the refund is recorded as not allowed.             *)
(***************************************************************************)
RefundIsFinal == since >= RefundDelay

RefundAllowed ==
  command.backend = "rpc" /\ RefundIsFinal /\ <<"bridge", run.funding>> \in Known

Finish ==
  /\ run.at = "finish"
  /\ \/ /\ RefundAllowed
        /\ Fail
        /\ UNCHANGED bundles
     \/ /\ ~RefundAllowed
        /\ bundles' = {[funding |-> run.funding, refundIsFinal |-> RefundIsFinal]}
        /\ run' = [run EXCEPT !.at = "done"]
  /\ UNCHANGED <<command, chain, failures>>

\* A request is not answered, or answered with an error, or the run is killed.
Interrupt ==
  /\ failures < MaxFailures
  /\ Running
  /\ Fail
  /\ failures' = failures + 1
  /\ UNCHANGED <<command, chain, bundles>>

-----------------------------------------------------------------------------
(***************************************************************************)
(* The world: coins are sent to the address, or on from it; blocks take    *)
(* the mempool or none of it; two blocks replace the tip.                  *)
(***************************************************************************)
Watched == IF command.funding = "scan" THEN Outpoints ELSE {NamedOutpoint}

Fund(u) ==
  /\ u \in Watched
  /\ <<"funding", u>> \notin Known
  /\ mempool' = mempool \cup {<<"funding", u>>}
  /\ UNCHANGED <<command, depth, run, since, bundles, reorgs, failures>>

SpendElsewhere(u) ==
  /\ <<"funding", u>> \in Known
  /\ <<"parent", u>> \notin Confirmed
  /\ <<"elsewhere", u>> \notin Known
  /\ mempool' = (mempool \ {<<"parent", u>>, <<"bridge", u>>}) \cup {<<"elsewhere", u>>}
  /\ UNCHANGED <<command, depth, run, since, bundles, reorgs, failures>>

\* The tip is one block higher, and with it what it makes of a status read before.
Grow ==
  /\ since' = IF since < RefundDelay THEN since + 1 ELSE since
  /\ run' = IF run.read > 0 THEN [run EXCEPT !.read = Counted(run.read + 1)] ELSE run

Mine(included) ==
  /\ depth' = [t \in Transactions |->
                 IF t \in Confirmed THEN Counted(depth[t] + 1)
                 ELSE IF t \in included THEN 1 ELSE 0]
  /\ mempool' = mempool \ included
  /\ Grow
  /\ UNCHANGED <<command, bundles, reorgs, failures>>

Reorganize ==
  /\ reorgs < MaxReorgs
  /\ reorgs' = reorgs + 1
  /\ mempool' = mempool \cup {t \in Transactions : depth[t] = 1}
  /\ depth' = [t \in Transactions |-> IF depth[t] > 1 THEN Counted(depth[t] + 1) ELSE 0]
  /\ Grow
  /\ UNCHANGED <<command, bundles, failures>>

Proceed ==
  ReadStatus \/ ReadTip \/ Post \/ Test \/ Send \/ Poll \/ Finish

Next ==
  \/ \E u \in Outpoints : Start(u) \/ Fund(u) \/ SpendElsewhere(u)
  \/ Proceed
  \/ TimeOut
  \/ Interrupt
  \/ Mine({})
  \/ Mine(mempool)
  \/ Reorganize

(***************************************************************************)
(* The operator starts the command again, a run goes on when its requests  *)
(* are answered, and blocks take what waits for them.                      *)
(***************************************************************************)
Fairness ==
  /\ WF_vars(\E u \in Outpoints : Start(u))
  /\ WF_vars(Proceed)
  /\ WF_vars(Mine(mempool))

Spec == Init /\ [][Next]_vars /\ Fairness

-----------------------------------------------------------------------------
(***************************************************************************)
(* Every variable has its type, and a run has a funding output.            *)
(***************************************************************************)
TypeOK ==
  /\ command \in [backend : {"rpc", "esplora"}, broadcast : BOOLEAN,
                  funding : {"historical", "explicit", "scan"}]
  /\ mempool \subseteq Transactions
  /\ depth \in [Transactions -> 0 .. MaxDepth]
  /\ run \in {NoRun} \cup [at : Steps \cup {"done"}, stage : {"parent", "bridge"},
                           funding : Outpoints, read : 0 .. MaxDepth]
  /\ since \in 0 .. RefundDelay
  /\ bundles \subseteq [funding : Outpoints, refundIsFinal : BOOLEAN]
  /\ reorgs \in 0 .. MaxReorgs
  /\ failures \in 0 .. MaxFailures

\* A node counts at once, Esplora in two requests that a reorganization may separate.
ReadsAreWhole == command.backend = "rpc" \/ reorgs = 0

(***************************************************************************)
(* An evidence bundle is evidence: parent CET and bridge are in the chain  *)
(* with the confirmations asked for, and stay there, after any number of   *)
(* failed runs, waits that timed out and other spends of the funding.  The *)
(* minimum is above the depth of a reorganization.                         *)
(***************************************************************************)
BundleIsConfirmed ==
  ReadsAreWhole
    => \A bundle \in bundles : \A stage \in {"parent", "bridge"} :
         depth[<<stage, bundle.funding>>] >= MinConfirmations

(***************************************************************************)
(* The bridge is shown to the network only over a parent CET with the      *)
(* confirmations asked for, whichever run broadcast the parent CET and     *)
(* whatever became of that run.                                            *)
(***************************************************************************)
BridgeFollowsConfirmedParent ==
  [][\A u \in Outpoints :
       ReadsAreWhole /\ <<"bridge", u>> \notin Known /\ <<"bridge", u>> \in mempool'
         => depth[<<"parent", u>>] >= MinConfirmations]_vars

(***************************************************************************)
(* A run over Esplora with a named funding output can be repeated until it *)
(* is through: whatever failed before, and wherever, the bundle is written *)
(* in the end, unless the funding is spent elsewhere.                      *)
(***************************************************************************)
ResumesActivation ==
  /\ command = [backend |-> "esplora", broadcast |-> TRUE, funding |-> "historical"]
  /\ [](<<"elsewhere", NamedOutpoint>> \notin Known)
  => (<<"funding", NamedOutpoint>> \in Known ~> bundles # {})

-----------------------------------------------------------------------------
(***************************************************************************)
(* What the bundle says of the child refund: complete but timelocked, and  *)
(* rejected when it was early.                                             *)
(***************************************************************************)
BundleRefundIsTimelocked == \A bundle \in bundles : ~bundle.refundIsFinal

==============================================================================
