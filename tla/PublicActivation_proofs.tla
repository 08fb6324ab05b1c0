------------------------ MODULE PublicActivation_proofs ------------------------
(***************************************************************************)
(* The safety of PublicActivation for any outputs, waits, failed runs and  *)
(* reorganizations.  The confirmations asked for must be two at least: a   *)
(* reorganization of the model replaces one block, and over one that       *)
(* replaces n blocks the argument needs n + 1 confirmations in its place.  *)
(* The last part is what the runs after a failed one can rely on.          *)
(***************************************************************************)
EXTENDS PublicActivation, TLAPS

Deep(stage, u) == depth[<<stage, u>>] >= MinConfirmations

(***************************************************************************)
(* What a run has seen is still so: a status it read is no more than the   *)
(* chain has, a run that works on the bridge left a confirmed parent       *)
(* behind, and one that is about to finish a confirmed bridge, too.        *)
(***************************************************************************)
StatusIsRead ==
  run.read > 0 => command.backend = "esplora" /\ run.at \in {"look", "look again", "poll"}

SeenIsSo ==
  ReadsAreWhole /\ run.at \in Steps =>
    /\ run.read > 0 => run.read <= depth[Transaction]
    /\ run.stage = "bridge" => Deep("parent", run.funding)
    /\ run.at = "finish" => run.stage = "bridge" /\ Deep("bridge", run.funding)

IInv == TypeOK /\ StatusIsRead /\ SeenIsSo /\ BundleIsConfirmed

-------------------------------------------------------------------------------
(***************************************************************************)
(* The records of a run.                                                   *)
(***************************************************************************)
Runs(places, outpoints) ==
  [at : places, stage : {"parent", "bridge"}, funding : outpoints, read : 0 .. MaxDepth]

\* The run that is under way, at any of its steps or through.
Begun == Runs(Steps \cup {"done"}, Outpoints)

AnyRun == Runs(Steps \cup {"idle", "done"}, Outpoints \cup {NoOutpoint})

Moved(r, place) == [r EXCEPT !.at = place, !.read = 0]

MovedToBridge(r, place) == [r EXCEPT !.at = place, !.stage = "bridge", !.read = 0]

\* What a record keeps when its place changes and its status is forgotten.
LEMMA MovedRun ==
  ASSUME NEW places, NEW outpoints, NEW r \in Runs(places, outpoints), NEW place \in places
  PROVE  /\ Moved(r, place) \in Runs(places, outpoints)
         /\ Moved(r, place).at = place /\ Moved(r, place).read = 0
         /\ Moved(r, place).stage = r.stage /\ Moved(r, place).funding = r.funding
<1>0. MaxDepth \in Nat
  BY PublicActivationAssumption DEF MaxDepth
<1>1. PICK s \in Runs(places, outpoints) : s = [r EXCEPT !.at = place]
  BY DEF Runs
<1>2. [s EXCEPT !.read = 0] \in Runs(places, outpoints)
  BY <1>0 DEF Runs
<1>3. Moved(r, place) = [s EXCEPT !.read = 0]
  BY <1>1 DEF Runs, Moved
<1>4. /\ [s EXCEPT !.read = 0].at = s.at /\ [s EXCEPT !.read = 0].stage = s.stage
      /\ [s EXCEPT !.read = 0].funding = s.funding /\ [s EXCEPT !.read = 0].read = 0
  BY DEF Runs
<1>5. s.at = place /\ s.stage = r.stage /\ s.funding = r.funding
  BY <1>1 DEF Runs
<1> QED
  BY <1>2, <1>3, <1>4, <1>5

\* The same where the stage becomes the bridge.
LEMMA RunMovedToBridge ==
  ASSUME NEW places, NEW outpoints, NEW r \in Runs(places, outpoints), NEW place \in places
  PROVE  /\ MovedToBridge(r, place) \in Runs(places, outpoints)
         /\ MovedToBridge(r, place).at = place /\ MovedToBridge(r, place).read = 0
         /\ MovedToBridge(r, place).stage = "bridge"
         /\ MovedToBridge(r, place).funding = r.funding
<1>1. PICK s \in Runs(places, outpoints) : s = [r EXCEPT !.stage = "bridge"]
  BY DEF Runs
<1>2. MovedToBridge(r, place) = Moved(s, place)
  BY <1>1 DEF Runs, Moved, MovedToBridge
<1>3. s.stage = "bridge" /\ s.funding = r.funding
  BY <1>1 DEF Runs
<1> QED
  BY <1>2, <1>3, MovedRun

\* There is no run before the start: its record is at no step.
LEMMA NoRunIsIdle ==
  /\ NoRun.at = "idle" /\ NoRun.read = 0 /\ NoRun.funding = NoOutpoint
  /\ NoRun \in AnyRun
  /\ "idle" \notin Steps /\ "done" \notin Steps
<1>1. NoRun.at = "idle" /\ NoRun.read = 0 /\ NoRun.funding = NoOutpoint
  BY DEF NoRun
<1>2. NoRun \in AnyRun
  BY PublicActivationAssumption DEF NoRun, Runs, AnyRun, MaxDepth
<1> QED
  BY <1>1, <1>2 DEF Steps

\* A run that is under way has a transaction.
LEMMA RunHasTransaction ==
  ASSUME TypeOK
  PROVE  /\ run \in AnyRun /\ MaxDepth \in Nat
         /\ run.at \in Steps => run \in Begun /\ Transaction \in Transactions
<1>1. run \in {NoRun} \cup Begun
  BY DEF TypeOK, Begun, Runs
<1>2. run \in AnyRun
  BY <1>1, NoRunIsIdle DEF Begun, AnyRun, Runs
<1>3. ASSUME run.at \in Steps
      PROVE  run \in Begun
  BY <1>1, <1>3, NoRunIsIdle
<1>4. ASSUME run \in Begun
      PROVE  Transaction \in Transactions
  BY <1>4 DEF Transaction, Transactions, Begun, Runs
<1> QED
  BY <1>2, <1>3, <1>4, PublicActivationAssumption DEF MaxDepth

(***************************************************************************)
(* A step that changes the run and not what is confirmed keeps the         *)
(* invariant if the record it comes to claims nothing that is not so.      *)
(***************************************************************************)
LEMMA RunStepKeepsInvariant ==
  ASSUME IInv, UNCHANGED <<command, depth, bundles, reorgs>>,
         NEW r \in AnyRun, run' = r, r.read = 0,
         ReadsAreWhole /\ r.at \in Steps =>
           /\ r.stage = "bridge" => Deep("parent", r.funding)
           /\ r.at = "finish" => r.stage = "bridge" /\ Deep("bridge", r.funding)
  PROVE  StatusIsRead' /\ SeenIsSo' /\ BundleIsConfirmed'
<1>1. run' \in AnyRun /\ run'.read = 0
  OBVIOUS
<1>2. StatusIsRead'
  <2>1. \A n : n = 0 => ~(n > 0)
    OBVIOUS
  <2>2. ~(run'.read > 0)
    BY <1>1, <2>1
  <2> QED
    BY ONLY <2>2 DEF StatusIsRead
<1>3. ReadsAreWhole' = ReadsAreWhole /\ \A stage, u : Deep(stage, u)' = Deep(stage, u)
  BY DEF ReadsAreWhole, Deep
<1>4. SeenIsSo'
  BY <1>1, <1>3 DEF SeenIsSo, AnyRun, Runs
<1>5. BundleIsConfirmed'
  BY DEF BundleIsConfirmed, ReadsAreWhole, IInv
<1> QED
  BY <1>2, <1>4, <1>5

\* Going to another step keeps the transaction and forgets the status.
LEMMA GotoKeepsInvariant ==
  ASSUME IInv, UNCHANGED <<command, depth, bundles, reorgs>>, run.at \in Steps,
         NEW step \in Steps, step # "finish", Goto(step)
  PROVE  run' \in Begun /\ StatusIsRead' /\ SeenIsSo' /\ BundleIsConfirmed'
<1>1. run \in Begun /\ MaxDepth \in Nat /\ step \in Steps \cup {"done"}
  BY RunHasTransaction DEF IInv
<1>2. PICK r : r = Moved(run, step)
  OBVIOUS
<1>3. /\ r \in Begun /\ r.at = step /\ r.stage = run.stage
      /\ r.funding = run.funding /\ r.read = 0
  BY <1>1, <1>2, MovedRun DEF Begun
<1>4. r \in AnyRun
  BY <1>3 DEF Begun, AnyRun, Runs
<1>5. ReadsAreWhole => (r.stage = "bridge" => Deep("parent", r.funding))
  BY <1>3 DEF IInv, SeenIsSo
<1>6. run' = r
  BY <1>2 DEF Goto, Moved
<1> QED
  BY <1>3, <1>4, <1>5, <1>6, RunStepKeepsInvariant

\* A run that ends leaves nothing to be said of it.
LEMMA FailKeepsInvariant ==
  ASSUME IInv, UNCHANGED <<command, depth, bundles, reorgs>>, Fail
  PROVE  run' = NoRun /\ StatusIsRead' /\ SeenIsSo' /\ BundleIsConfirmed'
<1>1. run' = NoRun
  BY DEF Fail
<1>2. NoRun \in AnyRun /\ NoRun.read = 0 /\ NoRun.at \notin Steps
  BY NoRunIsIdle
<1> QED
  BY <1>1, <1>2, RunStepKeepsInvariant

\* A stage that is complete is followed by the next one or by the end.
LEMMA CompleteStageKeepsInvariant ==
  ASSUME IInv, UNCHANGED <<command, depth, bundles, reorgs>>, run.at \in Steps,
         ReadsAreWhole => Deep(run.stage, run.funding), CompleteStage
  PROVE  run' \in Begun /\ StatusIsRead' /\ SeenIsSo' /\ BundleIsConfirmed'
<1>1. run \in Begun /\ 0 \in 0 .. MaxDepth
  BY RunHasTransaction DEF IInv
<1>2. FirstStep \in Steps /\ FirstStep # "finish" /\ "finish" \in Steps
  BY DEF FirstStep, Steps
<1>3. CASE run.stage = "parent"
  <2>1. PICK r : r = MovedToBridge(run, FirstStep)
    OBVIOUS
  <2>2. /\ r \in Begun /\ r.at = FirstStep /\ r.stage = "bridge"
        /\ r.funding = run.funding /\ r.read = 0
    BY <1>1, <1>2, <2>1, RunMovedToBridge DEF Begun
  <2>3. r \in AnyRun
    BY <2>2 DEF Begun, AnyRun, Runs
  <2>4. ReadsAreWhole => Deep("parent", r.funding)
    BY <1>3, <2>2
  <2>5. run' = r
    BY <1>3, <2>1 DEF CompleteStage, MovedToBridge
  <2> QED
    BY <1>2, <2>2, <2>3, <2>4, <2>5, RunStepKeepsInvariant
<1>4. CASE run.stage # "parent"
  <2>1. PICK r : r = Moved(run, "finish")
    OBVIOUS
  <2>2. /\ r \in Begun /\ r.at = "finish" /\ r.stage = run.stage
        /\ r.funding = run.funding /\ r.read = 0
    BY <1>1, <1>2, <2>1, MovedRun DEF Begun
  <2>3. r \in AnyRun
    BY <2>2 DEF Begun, AnyRun, Runs
  <2>4. run.stage = "bridge"
    BY <1>1, <1>4 DEF Begun, Runs
  <2>5. ReadsAreWhole => Deep("parent", r.funding) /\ Deep("bridge", r.funding)
    BY <2>2, <2>4 DEF IInv, SeenIsSo
  <2>6. run' = r
    BY <1>4, <2>1 DEF CompleteStage, Moved
  <2> QED
    BY <2>2, <2>3, <2>4, <2>5, <2>6, RunStepKeepsInvariant
<1> QED
  BY <1>3, <1>4

\* A stage ends over confirmations that the chain has.
LEMMA ConfirmationsKeepInvariant ==
  ASSUME IInv, UNCHANGED <<command, depth, bundles, reorgs>>, run.at \in Steps,
         NEW confirmations \in Nat, AfterConfirmations(confirmations),
         ReadsAreWhole => confirmations <= depth[Transaction]
  PROVE  run' \in Begun /\ StatusIsRead' /\ SeenIsSo' /\ BundleIsConfirmed'
<1>1. CASE confirmations >= MinConfirmations
  <2>1. Transaction \in Transactions /\ MaxDepth \in Nat
    BY RunHasTransaction DEF IInv
  <2>2. depth[Transaction] \in Nat /\ MinConfirmations \in Nat
    BY <2>1, PublicActivationAssumption DEF IInv, TypeOK
  <2>3. ReadsAreWhole => depth[Transaction] >= MinConfirmations
    BY <1>1, <2>2
  <2>4. ReadsAreWhole => Deep(run.stage, run.funding)
    BY <2>3 DEF Deep, Transaction
  <2>5. CompleteStage
    BY <1>1 DEF AfterConfirmations
  <2> QED
    BY <2>4, <2>5, CompleteStageKeepsInvariant
<1>2. CASE ~(confirmations >= MinConfirmations)
  <2>1. Goto("poll")
    BY <1>2 DEF AfterConfirmations
  <2>2. "poll" \in Steps /\ "poll" # "finish"
    BY DEF Steps
  <2> QED
    BY <2>1, <2>2, GotoKeepsInvariant
<1> QED
  BY <1>1, <1>2

-------------------------------------------------------------------------------
(***************************************************************************)
(* The chain.                                                              *)
(***************************************************************************)
\* No block and no replacement of one takes confirmations from what is deep,
\* and a status that was read grows no faster than the chain.
LEMMA DeepStaysDeep ==
  ASSUME TypeOK, MinConfirmations >= 2, Reorganize \/ \E included : Mine(included),
         NEW t \in Transactions
  PROVE  /\ depth'[t] \in 0 .. MaxDepth
         /\ depth[t] >= MinConfirmations => depth'[t] >= MinConfirmations
         /\ ~Reorganize /\ depth[t] > 0 => depth'[t] = Counted(depth[t] + 1)
<1>1. MinConfirmations \in Nat /\ MaxDepth = MinConfirmations + 1
  BY PublicActivationAssumption DEF MaxDepth
<1>2. depth[t] \in 0 .. MaxDepth
  BY DEF TypeOK
<1>3. Counted(depth[t] + 1) \in 1 .. MaxDepth
  BY <1>1, <1>2 DEF Counted
<1>4. depth[t] >= MinConfirmations => Counted(depth[t] + 1) >= MinConfirmations
  BY <1>1, <1>2 DEF Counted
<1>5. CASE Reorganize
  <2>1. depth'[t] = IF depth[t] > 1 THEN Counted(depth[t] + 1) ELSE 0
    BY <1>5 DEF Reorganize
  <2> QED
    BY <1>1, <1>2, <1>3, <1>4, <1>5, <2>1
<1>6. ASSUME NEW included, Mine(included)
      PROVE  /\ depth'[t] \in 0 .. MaxDepth
             /\ depth[t] >= MinConfirmations => depth'[t] >= MinConfirmations
             /\ ~Reorganize /\ depth[t] > 0 => depth'[t] = Counted(depth[t] + 1)
  <2>1. depth'[t] = IF t \in Confirmed THEN Counted(depth[t] + 1)
                    ELSE IF t \in included THEN 1 ELSE 0
    BY <1>6 DEF Mine
  <2>2. t \in Confirmed <=> depth[t] > 0
    BY DEF Confirmed
  <2> QED
    BY <1>1, <1>2, <1>3, <1>4, <2>1, <2>2
<1> QED
  BY <1>5, <1>6

LEMMA InitInvariant ==
  ASSUME Init
  PROVE  IInv
<1>1. TypeOK
  BY PublicActivationAssumption DEF Init, TypeOK, Transactions, MaxDepth
<1>2. StatusIsRead /\ SeenIsSo
  BY DEF Init, NoRun, StatusIsRead, SeenIsSo, Steps
<1>3. BundleIsConfirmed
  BY DEF Init, BundleIsConfirmed
<1> QED
  BY <1>1, <1>2, <1>3 DEF IInv

-------------------------------------------------------------------------------
(***************************************************************************)
(* The actions.                                                            *)
(***************************************************************************)
Kept == TypeOK' /\ StatusIsRead' /\ SeenIsSo' /\ BundleIsConfirmed'

\* The types after a step that the chain does not take part in.
LEMMA TypesAfterRunStep ==
  ASSUME TypeOK, UNCHANGED <<command, depth, since, bundles, reorgs>>,
         mempool' \subseteq Transactions, failures' \in 0 .. MaxFailures,
         run' = NoRun \/ run' \in Begun
  PROVE  TypeOK'
  BY DEF TypeOK, Begun, Runs

LEMMA ReadStatusKeeps ==
  ASSUME IInv, ReadStatus
  PROVE  Kept
<1>1. /\ command.backend = "esplora"
      /\ run.at \in {"look", "look again", "poll"}
      /\ UNCHANGED <<command, chain, bundles, failures>>
      /\ \/ Transaction \notin Confirmed /\ Goto(AfterNoConfirmation)
         \/ Transaction \in Confirmed /\ run' = [run EXCEPT !.read = depth[Transaction]]
  BY DEF ReadStatus
<1>2. run.at \in Steps /\ TypeOK
  BY <1>1 DEF Steps, IInv
<1>3. UNCHANGED <<command, depth, mempool, since, bundles, reorgs, failures>>
  BY <1>1 DEF chain
<1>4. run' \in Begun /\ StatusIsRead' /\ SeenIsSo' /\ BundleIsConfirmed'
  <2>1. CASE Goto(AfterNoConfirmation)
    <3>1. AfterNoConfirmation \in {"post", "poll"}
      BY <1>1, <1>2, RunHasTransaction DEF AfterNoConfirmation, Begun, Runs
    <3>2. AfterNoConfirmation \in Steps /\ AfterNoConfirmation # "finish"
      BY <3>1 DEF Steps
    <3> QED
      BY <1>2, <1>3, <2>1, <3>2, GotoKeepsInvariant
  <2>2. CASE run' = [run EXCEPT !.read = depth[Transaction]]
    <3>1. run \in Begun /\ Transaction \in Transactions
      BY <1>2, RunHasTransaction
    <3>2. depth[Transaction] \in 0 .. MaxDepth
      BY <1>2, <3>1 DEF TypeOK
    <3>3. PICK r : r = [run EXCEPT !.read = depth[Transaction]]
      OBVIOUS
    <3>4. /\ r \in Begun /\ r.at = run.at /\ r.stage = run.stage
          /\ r.funding = run.funding /\ r.read = depth[Transaction]
      BY <3>1, <3>2, <3>3 DEF Begun, Runs
    <3>5. run' = r
      BY <2>2, <3>3
    <3>6. StatusIsRead'
      <4>1. run'.at \in {"look", "look again", "poll"} /\ command'.backend = "esplora"
        BY <1>1, <1>3, <3>4, <3>5
      <4> QED
        BY ONLY <4>1 DEF StatusIsRead
    <3>7. ReadsAreWhole' = ReadsAreWhole /\ \A stage, u : Deep(stage, u)' = Deep(stage, u)
      BY <1>3 DEF ReadsAreWhole, Deep
    <3>8. Transaction' = Transaction /\ depth' = depth
      BY <1>3, <3>4, <3>5 DEF Transaction
    <3>9. run'.read <= depth'[Transaction']
      BY <3>2, <3>4, <3>5, <3>8 DEF MaxDepth
    <3>10. SeenIsSo'
      BY <3>4, <3>5, <3>7, <3>8, <3>9, <1>2 DEF SeenIsSo, IInv, Begun, Runs
    <3>11. BundleIsConfirmed'
      BY <1>3 DEF BundleIsConfirmed, ReadsAreWhole, IInv
    <3> QED
      BY <3>4, <3>5, <3>6, <3>10, <3>11
  <2> QED
    BY <1>1, <2>1, <2>2
<1>5. TypeOK'
  BY <1>2, <1>3, <1>4, TypesAfterRunStep DEF TypeOK
<1> QED
  BY <1>4, <1>5 DEF Kept

LEMMA ReadTipKeeps ==
  ASSUME IInv, ReadTip
  PROVE  Kept
<1>1. run.read > 0 /\ AfterConfirmations(run.read)
  BY DEF ReadTip
<1>2. UNCHANGED <<command, depth, mempool, since, bundles, reorgs, failures>>
  BY DEF ReadTip, chain
<1>3. run.at \in {"look", "look again", "poll"} /\ TypeOK
  BY <1>1 DEF IInv, StatusIsRead
<1>4. run.at \in Steps
  BY <1>3, RunHasTransaction DEF Steps, AnyRun, Runs
<1>5. run.read \in Nat
  <2>1. TypeOK
    BY DEF IInv
  <2>2. run \in AnyRun /\ MaxDepth \in Nat
    BY <2>1, RunHasTransaction
  <2> QED
    BY ONLY <2>2 DEF AnyRun, Runs
<1>6. ReadsAreWhole => run.read <= depth[Transaction]
  BY <1>1, <1>4 DEF IInv, SeenIsSo
<1>7. run' \in Begun /\ StatusIsRead' /\ SeenIsSo' /\ BundleIsConfirmed'
  BY <1>1, <1>2, <1>4, <1>5, <1>6, ConfirmationsKeepInvariant
<1>8. TypeOK'
  BY <1>2, <1>3, <1>7, TypesAfterRunStep DEF TypeOK
<1> QED
  BY <1>7, <1>8 DEF Kept

LEMMA PollKeeps ==
  ASSUME IInv, Poll
  PROVE  Kept
<1>1. run.at = "poll"
  BY DEF Poll
<1>2. UNCHANGED <<command, depth, mempool, since, bundles, reorgs, failures>>
  BY DEF Poll, chain
<1>3. TypeOK
  BY DEF IInv
<1>4. run.at \in Steps
  BY <1>1, <1>3, RunHasTransaction DEF Steps, AnyRun, Runs
<1>5. (run' = NoRun \/ run' \in Begun) /\ StatusIsRead' /\ SeenIsSo' /\ BundleIsConfirmed'
  <2>1. CASE Fail
    BY <1>2, <2>1, FailKeepsInvariant
  <2>2. CASE AfterConfirmations(depth[Transaction])
    <3>1. depth[Transaction] \in Nat
      BY <1>3, <1>4, RunHasTransaction DEF TypeOK
    <3>2. depth[Transaction] <= depth[Transaction]
      BY <3>1
    <3> QED
      BY <1>2, <1>4, <2>2, <3>1, <3>2, ConfirmationsKeepInvariant
  <2> QED
    BY <2>1, <2>2 DEF Poll
<1>6. TypeOK'
  BY <1>2, <1>3, <1>5, TypesAfterRunStep DEF TypeOK
<1> QED
  BY <1>5, <1>6 DEF Kept

(***************************************************************************)
(* A broadcast puts the run's transaction into the mempool, or nothing.    *)
(***************************************************************************)
Broadcasts == Post \/ Test \/ Send

LEMMA BroadcastsKeep ==
  ASSUME IInv, Broadcasts
  PROVE  /\ Kept
         /\ run.at \in Steps
         /\ mempool' \subseteq mempool \cup {Transaction}
<1>1. TypeOK
  BY DEF IInv
<1>2. run.at \in {"post", "test", "send"}
  BY DEF Broadcasts, Post, Test, Send
<1>3. run.at \in Steps
  BY <1>1, <1>2, RunHasTransaction DEF Steps, AnyRun, Runs
<1>4. UNCHANGED <<command, depth, since, bundles, reorgs, failures>>
  BY DEF Broadcasts, Post, Test, Send, Broadcast, chain
<1>5. mempool' \subseteq mempool \cup {Transaction}
  BY DEF Broadcasts, Post, Test, Send, Broadcast, chain
<1>6. Fail \/ Goto("look again") \/ Goto("send") \/ Goto("poll")
  BY DEF Broadcasts, Post, Test, Send
<1>7. (run' = NoRun \/ run' \in Begun) /\ StatusIsRead' /\ SeenIsSo' /\ BundleIsConfirmed'
  <2>1. CASE Fail
    BY <1>4, <2>1, FailKeepsInvariant
  <2>2. ASSUME NEW step \in {"look again", "send", "poll"}, Goto(step)
        PROVE  run' \in Begun /\ StatusIsRead' /\ SeenIsSo' /\ BundleIsConfirmed'
    <3>1. step \in Steps /\ step # "finish"
      BY <2>2 DEF Steps
    <3> QED
      BY <1>3, <1>4, <2>2, <3>1, GotoKeepsInvariant
  <2> QED
    BY <1>6, <2>1, <2>2
<1>8. mempool' \subseteq Transactions
  BY <1>1, <1>3, <1>5, RunHasTransaction DEF TypeOK
<1>9. TypeOK'
  BY <1>1, <1>4, <1>7, <1>8, TypesAfterRunStep DEF TypeOK
<1> QED
  BY <1>3, <1>5, <1>7, <1>9 DEF Kept

\* A run that starts, runs out of time or is interrupted has seen nothing.
LEMMA EndingsKeep ==
  ASSUME IInv, TimeOut \/ Interrupt
  PROVE  Kept
<1>1. /\ Fail
      /\ UNCHANGED <<command, depth, mempool, since, bundles, reorgs>>
      /\ failures' = failures \/ (failures' = failures + 1 /\ failures < MaxFailures)
  BY DEF TimeOut, Interrupt, chain
<1>2. run' = NoRun /\ StatusIsRead' /\ SeenIsSo' /\ BundleIsConfirmed'
  BY <1>1, FailKeepsInvariant
<1>3. failures' \in 0 .. MaxFailures
  BY <1>1, PublicActivationAssumption DEF IInv, TypeOK
<1>4. TypeOK'
  BY <1>1, <1>2, <1>3, TypesAfterRunStep DEF IInv, TypeOK
<1> QED
  BY <1>2, <1>4 DEF Kept

LEMMA StartKeeps ==
  ASSUME IInv, NEW u \in Outpoints, Start(u)
  PROVE  Kept
<1> DEFINE place == IF command.broadcast THEN FirstStep ELSE "done"
<1>1. UNCHANGED <<command, mempool, depth, bundles, reorgs, failures>> /\ since' = 0
  BY DEF Start
<1>2. PICK r : r = [NoRun EXCEPT !.at = place, !.funding = u]
  OBVIOUS
<1>3. run' = r
  BY <1>2 DEF Start
<1>4. place \in Steps \cup {"done"} /\ place # "finish"
  BY DEF FirstStep, Steps
<1>5. r = [at |-> place, stage |-> "parent", funding |-> u, read |-> 0]
  BY <1>2 DEF NoRun
<1>6. r \in Begun
  BY <1>4, <1>5, PublicActivationAssumption DEF Begun, Runs, MaxDepth
<1>7. r.read = 0 /\ r.at = place /\ r.stage = "parent"
  BY <1>5
<1>8. r \in AnyRun
  BY <1>6 DEF Begun, AnyRun, Runs
<1>9. StatusIsRead' /\ SeenIsSo' /\ BundleIsConfirmed'
  BY <1>1, <1>3, <1>4, <1>7, <1>8, RunStepKeepsInvariant
<1>10. TypeOK'
  <2>1. run' \in Begun /\ since' \in 0 .. RefundDelay
    BY <1>1, <1>3, <1>6, PublicActivationAssumption
  <2> QED
    BY <1>1, <2>1 DEF IInv, TypeOK, Begun, Runs
<1> QED
  BY <1>9, <1>10 DEF Kept

(***************************************************************************)
(* A run finishes over a bridge that is deep, and a bridge that is deep    *)
(* has a deep parent: this is what its bundle says.                        *)
(***************************************************************************)
LEMMA FinishKeeps ==
  ASSUME IInv, Finish
  PROVE  Kept
<1>1. UNCHANGED <<command, depth, mempool, since, reorgs, failures>>
  BY DEF Finish, chain
<1>2. run.at = "finish" /\ TypeOK
  BY DEF Finish, IInv
<1>3. run \in Begun /\ run.funding \in Outpoints /\ run.at \in Steps
  <2>1. run.at \in Steps
    BY <1>2, RunHasTransaction DEF Steps, AnyRun, Runs
  <2> QED
    BY <1>2, <2>1, RunHasTransaction DEF Begun, Runs
<1>4. CASE Fail /\ UNCHANGED bundles
  <2>1. run' = NoRun /\ StatusIsRead' /\ SeenIsSo' /\ BundleIsConfirmed'
    BY <1>1, <1>4, FailKeepsInvariant
  <2>2. TypeOK'
    BY <1>1, <1>2, <1>4, <2>1, TypesAfterRunStep DEF TypeOK
  <2> QED
    BY <2>1, <2>2 DEF Kept
<1>5. CASE /\ bundles' = {[funding |-> run.funding, refundIsFinal |-> RefundIsFinal]}
           /\ run' = [run EXCEPT !.at = "done"]
  <2>1. PICK r : r = [run EXCEPT !.at = "done"]
    OBVIOUS
  <2>2. r \in Begun /\ r.at = "done" /\ r.read = run.read
    BY <1>3, <2>1 DEF Begun, Runs
  <2>3. run' = r
    BY <1>5, <2>1
  <2>4. r.at \notin Steps
    BY <2>2, NoRunIsIdle
  <2>5. ~(run.read > 0)
    BY <1>2, <1>3 DEF IInv, StatusIsRead, Begun, Runs
  <2>6. StatusIsRead'
    <3>1. ~(run'.read > 0)
      BY <2>2, <2>3, <2>5
    <3> QED
      BY ONLY <3>1 DEF StatusIsRead
  <2>7. SeenIsSo'
    <3>1. run'.at \notin Steps
      BY <2>3, <2>4
    <3> QED
      BY ONLY <3>1 DEF SeenIsSo
  <2>8. BundleIsConfirmed'
    <3>1. ReadsAreWhole' = ReadsAreWhole /\ depth' = depth
      BY <1>1 DEF ReadsAreWhole
    <3>2. ReadsAreWhole => Deep("parent", run.funding) /\ Deep("bridge", run.funding)
      BY <1>2, <1>3 DEF IInv, SeenIsSo, Begun, Runs
    <3>3. \A bundle \in bundles' : bundle.funding = run.funding
      BY <1>5
    <3> QED
      BY <3>1, <3>2, <3>3 DEF BundleIsConfirmed, Deep
  <2>9. bundles' \subseteq [funding : Outpoints, refundIsFinal : BOOLEAN]
    BY <1>3, <1>5 DEF RefundIsFinal
  <2>10. TypeOK'
    BY <1>1, <1>2, <2>2, <2>3, <2>9 DEF TypeOK, Begun, Runs
  <2> QED
    BY <2>6, <2>7, <2>8, <2>10 DEF Kept
<1> QED
  BY <1>4, <1>5 DEF Finish

\* Coins that come or go wait in the mempool.
LEMMA CoinsKeep ==
  ASSUME IInv, NEW u \in Outpoints, Fund(u) \/ SpendElsewhere(u)
  PROVE  /\ Kept
         /\ mempool' \subseteq mempool \cup {<<"funding", u>>, <<"elsewhere", u>>}
<1>1. UNCHANGED <<command, depth, run, since, bundles, reorgs, failures>>
  BY DEF Fund, SpendElsewhere
<1>2. mempool' \subseteq mempool \cup {<<"funding", u>>, <<"elsewhere", u>>}
  BY DEF Fund, SpendElsewhere
<1>3. {<<"funding", u>>, <<"elsewhere", u>>} \subseteq Transactions
  BY DEF Transactions
<1>4. TypeOK'
  BY <1>1, <1>2, <1>3 DEF IInv, TypeOK
<1>5. StatusIsRead' /\ SeenIsSo' /\ BundleIsConfirmed'
  BY <1>1 DEF IInv, StatusIsRead, SeenIsSo, BundleIsConfirmed, ReadsAreWhole, Deep, Transaction
<1> QED
  BY <1>2, <1>4, <1>5 DEF Kept

(***************************************************************************)
(* Blocks.  A status that was read stays below what the chain has because  *)
(* both count the new block; after a reorganization it need not, and then  *)
(* ReadsAreWhole is over for Esplora, and a node has no status.            *)
(***************************************************************************)
LEMMA BlocksKeep ==
  ASSUME MinConfirmations >= 2, IInv,
         Reorganize \/ \E included \in SUBSET mempool : Mine(included)
  PROVE  /\ Kept
         /\ mempool' \subseteq Known
<1>0. TypeOK /\ MaxDepth \in Nat /\ run \in AnyRun
  BY RunHasTransaction DEF IInv
<1>1. UNCHANGED <<command, bundles, failures>> /\ Grow
  BY DEF Reorganize, Mine
<1>2. mempool' \subseteq Known
  BY DEF Reorganize, Mine, Known, Confirmed, TypeOK
<1>3. reorgs' \in 0 .. MaxReorgs /\ (reorgs' = 0 => ~Reorganize /\ reorgs = 0)
  BY <1>0, PublicActivationAssumption DEF Reorganize, Mine, TypeOK
<1>4. depth' \in [Transactions -> 0 .. MaxDepth]
  <2>1. depth' = [t \in Transactions |-> depth'[t]]
    BY DEF Reorganize, Mine
  <2> QED
    BY <1>0, <2>1, DeepStaysDeep
<1>5. PICK r : r = IF run.read > 0 THEN [run EXCEPT !.read = Counted(run.read + 1)] ELSE run
  OBVIOUS
<1>6. run' = r
  BY <1>1, <1>5 DEF Grow
<1>7. /\ run.read > 0 => r.read = Counted(run.read + 1)
      /\ ~(run.read > 0) => r.read = run.read
      /\ r.at = run.at /\ r.stage = run.stage /\ r.funding = run.funding
      /\ run \in Begun => r \in Begun
      /\ run = NoRun => r = NoRun
  <2>1. CASE run.read > 0
    <3>1. run.read \in 0 .. MaxDepth
      BY <1>0 DEF AnyRun, Runs
    <3>2. Counted(run.read + 1) \in 0 .. MaxDepth
      BY <1>0, <3>1 DEF Counted
    <3>3. r = [run EXCEPT !.read = Counted(run.read + 1)]
      BY <1>5, <2>1
    <3>4. /\ r.read = Counted(run.read + 1) /\ r.at = run.at
          /\ r.stage = run.stage /\ r.funding = run.funding
      BY <1>0, <3>3 DEF AnyRun, Runs
    <3>5. run \in Begun => r \in Begun
      BY <3>2, <3>3 DEF Begun, Runs
    <3>6. run # NoRun
      BY <2>1, NoRunIsIdle
    <3> QED
      BY <2>1, <3>4, <3>5, <3>6
  <2>2. CASE ~(run.read > 0)
    BY <1>5, <2>2
  <2> QED
    BY <2>1, <2>2
<1>8. run \in {NoRun} \cup Begun
  BY <1>0 DEF TypeOK, Begun, Runs
<1>9. TypeOK'
  <2>1. run' \in {NoRun} \cup Begun
    BY <1>6, <1>7, <1>8
  <2>2. since' \in 0 .. RefundDelay
    BY <1>0, <1>1, PublicActivationAssumption DEF Grow, TypeOK
  <2>3. mempool' \subseteq Transactions
    BY <1>0, <1>2 DEF Known, Confirmed, TypeOK
  <2> QED
    BY <1>0, <1>1, <1>3, <1>4, <2>1, <2>2, <2>3 DEF TypeOK, Begun, Runs
<1>10. ReadsAreWhole' => ReadsAreWhole /\ (command.backend = "rpc" \/ ~Reorganize)
  BY <1>1, <1>3 DEF ReadsAreWhole
<1>11. \A t \in Transactions : depth[t] >= MinConfirmations => depth'[t] >= MinConfirmations
  BY <1>0, DeepStaysDeep
<1>12. StatusIsRead'
  <2>1. run'.read > 0 => run.read > 0
    BY <1>6, <1>7
  <2>2. run'.at = run.at /\ command' = command
    BY <1>1, <1>6, <1>7
  <2> QED
    BY ONLY <2>1, <2>2, IInv DEF IInv, StatusIsRead
<1>13. SeenIsSo'
  <2> SUFFICES ASSUME ReadsAreWhole', run'.at \in Steps
               PROVE  /\ run'.read > 0 => run'.read <= depth'[Transaction']
                      /\ run'.stage = "bridge" => Deep("parent", run.funding)'
                      /\ run'.at = "finish" => run'.stage = "bridge"
                                               /\ Deep("bridge", run.funding)'
    BY DEF SeenIsSo
  <2>1. ReadsAreWhole /\ run.at \in Steps
    BY <1>6, <1>7, <1>10
  <2>2. Transaction' = Transaction /\ Transaction \in Transactions
    BY <1>0, <1>6, <1>7, <2>1, RunHasTransaction DEF Transaction
  <2>3. ASSUME run'.read > 0
        PROVE  run'.read <= depth'[Transaction']
    <3>1. run.read > 0
      BY <1>6, <1>7, <2>3
    <3>2. ~Reorganize
      BY <1>10, <3>1 DEF IInv, StatusIsRead
    <3>3. run.read <= depth[Transaction]
      BY <2>1, <3>1 DEF IInv, SeenIsSo
    <3>4. depth[Transaction] \in 0 .. MaxDepth /\ run.read \in 0 .. MaxDepth
      BY <1>0, <2>2 DEF TypeOK, AnyRun, Runs
    <3>5. depth'[Transaction] = Counted(depth[Transaction] + 1)
      BY <1>0, <2>2, <3>1, <3>2, <3>3, <3>4, DeepStaysDeep
    <3>6. run'.read = Counted(run.read + 1)
      BY <1>6, <1>7, <3>1
    <3> QED
      BY <1>0, <2>2, <3>3, <3>4, <3>5, <3>6 DEF Counted
  <2>4. \A stage \in {"parent", "bridge"} :
          Deep(stage, run.funding) => Deep(stage, run.funding)'
    <3>1. run'.funding = run.funding
      BY <1>6, <1>7
    <3>2. run.funding \in Outpoints
      BY <1>0, <2>1, RunHasTransaction DEF Begun, Runs
    <3>3. \A stage \in {"parent", "bridge"} : <<stage, run.funding>> \in Transactions
      BY <3>2 DEF Transactions
    <3> QED
      BY <1>11, <3>1, <3>3 DEF Deep
  <2>5. /\ run.stage = "bridge" => Deep("parent", run.funding)
        /\ run.at = "finish" => run.stage = "bridge" /\ Deep("bridge", run.funding)
    BY <2>1 DEF IInv, SeenIsSo
  <2> QED
    BY <1>6, <1>7, <2>3, <2>4, <2>5
<1>14. BundleIsConfirmed'
  <2>1. \A bundle \in bundles : bundle.funding \in Outpoints
    BY <1>0 DEF TypeOK
  <2>2. \A bundle \in bundles : \A stage \in {"parent", "bridge"} :
          <<stage, bundle.funding>> \in Transactions
    BY <2>1 DEF Transactions
  <2> QED
    BY <1>1, <1>10, <1>11, <2>2 DEF IInv, BundleIsConfirmed
<1> QED
  BY <1>2, <1>9, <1>12, <1>13, <1>14 DEF Kept

LEMMA StepKeepsInvariant ==
  ASSUME MinConfirmations >= 2, IInv, [Next]_vars
  PROVE  IInv'
<1>1. CASE Next
  <2>1. CASE \E u \in Outpoints : Start(u) \/ Fund(u) \/ SpendElsewhere(u)
    BY <2>1, StartKeeps, CoinsKeep DEF IInv, Kept
  <2>2. CASE Proceed
    BY <2>2, ReadStatusKeeps, ReadTipKeeps, PollKeeps, BroadcastsKeep, FinishKeeps
       DEF Proceed, Broadcasts, IInv, Kept
  <2>3. CASE TimeOut \/ Interrupt
    BY <2>3, EndingsKeep DEF IInv, Kept
  <2>4. CASE Mine({}) \/ Mine(mempool) \/ Reorganize
    BY <2>4, BlocksKeep DEF IInv, Kept
  <2> QED
    BY <1>1, <2>1, <2>2, <2>3, <2>4 DEF Next
<1>2. CASE UNCHANGED vars
  BY <1>2 DEF vars, IInv, TypeOK, StatusIsRead, SeenIsSo, BundleIsConfirmed, ReadsAreWhole,
              Deep, Transaction
<1> QED
  BY <1>1, <1>2

-------------------------------------------------------------------------------
(***************************************************************************)
(* The invariant, with two confirmations or more.                          *)
(***************************************************************************)
THEOREM Invariant ==
  ASSUME MinConfirmations >= 2
  PROVE  Spec => []IInv
<1>1. Init => IInv
  BY InitInvariant
<1>2. IInv /\ [Next]_vars => IInv'
  BY StepKeepsInvariant
<1> QED
  BY <1>1, <1>2, PTL DEF Spec

\* Type correctness, for any outputs, waits, failed runs and reorganizations.
THEOREM TypeCorrect ==
  ASSUME MinConfirmations >= 2
  PROVE  Spec => []TypeOK
<1>1. IInv => TypeOK
  BY DEF IInv
<1> QED
  BY <1>1, Invariant, PTL

(***************************************************************************)
(* Both transactions of a bundle stay confirmed, however often the script  *)
(* was killed, timed out and started again before it wrote the bundle, and *)
(* however many blocks were replaced, one at a time, after that.           *)
(***************************************************************************)
THEOREM BundlesStayConfirmed ==
  ASSUME MinConfirmations >= 2
  PROVE  Spec => []BundleIsConfirmed
<1>1. IInv => BundleIsConfirmed
  BY DEF IInv
<1> QED
  BY <1>1, Invariant, PTL

\* A bridge that is new to the network comes from a run's broadcast.
LEMMA BridgesComeFromRuns ==
  ASSUME MinConfirmations >= 2, IInv, [Next]_vars, NEW u \in Outpoints,
         <<"bridge", u>> \notin Known, <<"bridge", u>> \in mempool'
  PROVE  run.at \in Steps /\ run.stage = "bridge" /\ run.funding = u
<1>0. TypeOK /\ <<"bridge", u>> \notin mempool
  BY DEF IInv, Known
<1>1. mempool' # mempool
  BY <1>0
<1>2. ASSUME NEW v \in Outpoints, Fund(v) \/ SpendElsewhere(v)
      PROVE  FALSE
  BY <1>0, <1>2, CoinsKeep
<1>3. ASSUME Mine({}) \/ Mine(mempool) \/ Reorganize
      PROVE  FALSE
  BY <1>3, BlocksKeep
<1>4. Broadcasts
  BY <1>1, <1>2, <1>3 DEF Next, vars, Start, Proceed, Broadcasts, ReadStatus, ReadTip, Poll,
                          Finish, TimeOut, Interrupt, chain
<1>5. run.at \in Steps /\ <<"bridge", u>> = Transaction
  BY <1>0, <1>4, BroadcastsKeep
<1> QED
  BY <1>5 DEF Transaction

(***************************************************************************)
(* Whichever run shows a bridge to the network, its parent CET is as deep  *)
(* in the chain as was asked for.                                          *)
(***************************************************************************)
THEOREM BridgesFollowConfirmedParents ==
  ASSUME MinConfirmations >= 2
  PROVE  Spec => BridgeFollowsConfirmedParent
<1> DEFINE Follows ==
      \A u \in Outpoints :
        ReadsAreWhole /\ <<"bridge", u>> \notin Known /\ <<"bridge", u>> \in mempool'
          => depth[<<"parent", u>>] >= MinConfirmations
<1>1. IInv /\ [Next]_vars => Follows
  BY BridgesComeFromRuns DEF IInv, SeenIsSo, Deep
<1> QED
  BY <1>1, Invariant, PTL DEF Spec, BridgeFollowsConfirmedParent

-------------------------------------------------------------------------------
(***************************************************************************)
(* What a repetition of the command rests on.  As long as the funding is   *)
(* not spent elsewhere, a run never finds its way blocked by what an       *)
(* earlier run left behind.                                                *)
(***************************************************************************)
Untouched(u) == <<"elsewhere", u>> \notin Known

\* The run has shown its transaction to the network, or has seen it there.
Showed == run.at \in {"look again", "poll", "finish"} \/ run.read > 0

LeftBehind ==
  run.at \in Steps =>
    /\ <<"funding", run.funding>> \in Known
    /\ Untouched(run.funding) =>
         /\ run.stage = "bridge" => <<"parent", run.funding>> \in Known
         /\ Showed => Transaction \in Known

RunCanProceed ==
  run.at \in Steps /\ Untouched(run.funding) =>
    /\ Transaction \in Known \/ Acceptable(Transaction)
    /\ run.at \in {"look again", "poll", "finish"} => Transaction \in Known

\* Only a spend elsewhere takes a transaction from the network.
LEMMA KnownStays ==
  ASSUME IInv, [Next]_vars, NEW t \in Known
  PROVE  \/ t \in Known'
         \/ \E u \in Outpoints : SpendElsewhere(u) /\ t \in {<<"parent", u>>, <<"bridge", u>>}
<1>0. TypeOK /\ t \in Transactions /\ MaxDepth \in Nat
  BY RunHasTransaction DEF IInv, TypeOK, Known, Confirmed
<1>1. ASSUME mempool \subseteq mempool', depth' = depth
      PROVE  t \in Known'
  BY <1>1 DEF Known, Confirmed
<1>2. CASE mempool \subseteq mempool' /\ depth' = depth
  BY <1>1, <1>2
<1>3. CASE \E u \in Outpoints : SpendElsewhere(u)
  <2>1. PICK u \in Outpoints : SpendElsewhere(u)
    BY <1>3
  <2>2. CASE t \in {<<"parent", u>>, <<"bridge", u>>}
    BY <2>1, <2>2
  <2>3. CASE t \notin {<<"parent", u>>, <<"bridge", u>>}
    BY <2>1, <2>3 DEF SpendElsewhere, Known, Confirmed
  <2> QED
    BY <2>2, <2>3
<1>4. CASE \E included \in SUBSET mempool : Mine(included)
  <2>1. PICK included \in SUBSET mempool : Mine(included)
    BY <1>4
  <2>2. depth'[t] = IF t \in Confirmed THEN Counted(depth[t] + 1)
                    ELSE IF t \in included THEN 1 ELSE 0
    BY <1>0, <2>1 DEF Mine
  <2>3. mempool' = mempool \ included
    BY <2>1 DEF Mine
  <2>4. depth[t] \in 0 .. MaxDepth /\ MaxDepth >= 1
    BY <1>0, PublicActivationAssumption DEF TypeOK, MaxDepth
  <2>5. Counted(depth[t] + 1) > 0
    BY <1>0, <2>4 DEF Counted
  <2>6. t \in mempool' \/ depth'[t] > 0
    BY <2>2, <2>3, <2>5 DEF Known
  <2> QED
    BY <1>0, <2>6 DEF Known, Confirmed
<1>5. CASE Reorganize
  <2>1. depth'[t] = IF depth[t] > 1 THEN Counted(depth[t] + 1) ELSE 0
    BY <1>0, <1>5 DEF Reorganize
  <2>2. mempool' = mempool \cup {x \in Transactions : depth[x] = 1}
    BY <1>5 DEF Reorganize
  <2>3. depth[t] \in 0 .. MaxDepth /\ MaxDepth >= 1
    BY <1>0, PublicActivationAssumption DEF TypeOK, MaxDepth
  <2>4. Counted(depth[t] + 1) > 0
    BY <1>0, <2>3 DEF Counted
  <2>5. t \in mempool' \/ depth'[t] > 0
    <3>1. t \in mempool \/ depth[t] > 0
      BY DEF Known, Confirmed
    <3>2. CASE t \in mempool
      BY <2>2, <3>2
    <3>3. CASE depth[t] = 1
      BY <1>0, <2>2, <3>3
    <3>4. CASE depth[t] > 1
      BY <2>1, <2>4, <3>4
    <3> QED
      BY <2>3, <3>1, <3>2, <3>3, <3>4
  <2> QED
    BY <1>0, <2>5 DEF Known, Confirmed
<1>6. CASE ~(mempool \subseteq mempool' /\ depth' = depth)
  <2>1. CASE Proceed
    BY <1>6, <2>1 DEF Proceed, ReadStatus, ReadTip, Post, Test, Send, Poll, Finish, Broadcast,
                      chain
  <2>2. CASE TimeOut \/ Interrupt
    BY <1>6, <2>2 DEF TimeOut, Interrupt, chain
  <2>3. CASE \E u \in Outpoints : Start(u) \/ Fund(u)
    BY <1>6, <2>3 DEF Start, Fund
  <2>4. CASE UNCHANGED vars
    BY <1>6, <2>4 DEF vars
  <2> QED
    BY <1>3, <1>4, <1>5, <2>1, <2>2, <2>3, <2>4 DEF Next
<1> QED
  BY <1>2, <1>6

\* A spend elsewhere is there to stay, and so is a funding output.
LEMMA SpendsElsewhereStay ==
  ASSUME IInv, [Next]_vars, NEW u \in Outpoints
  PROVE  /\ <<"elsewhere", u>> \in Known => <<"elsewhere", u>> \in Known'
         /\ <<"funding", u>> \in Known => <<"funding", u>> \in Known'
         /\ \A stage \in {"parent", "bridge"} :
              Untouched(u)' /\ <<stage, u>> \in Known => <<stage, u>> \in Known'
<1>1. ASSUME NEW kind \in {"elsewhere", "funding"}, <<kind, u>> \in Known
      PROVE  <<kind, u>> \in Known'
  <2>1. \A v : <<kind, u>> # <<"parent", v>> /\ <<kind, u>> # <<"bridge", v>>
    OBVIOUS
  <2> QED
    BY <1>1, <2>1, KnownStays
<1>2. ASSUME NEW stage \in {"parent", "bridge"}, Untouched(u)', <<stage, u>> \in Known
      PROVE  <<stage, u>> \in Known'
  <2>1. ~SpendElsewhere(u)
    BY <1>2 DEF Untouched, SpendElsewhere, Known
  <2>2. \A v : <<stage, u>> \in {<<"parent", v>>, <<"bridge", v>>} => v = u
    OBVIOUS
  <2> QED
    BY <1>2, <2>1, <2>2, KnownStays
<1> QED
  BY <1>1, <1>2

(***************************************************************************)
(* How a run moves: it starts on the parent CET, stays on its transaction, *)
(* which it showed only if it is known, or turns to the bridge once the    *)
(* parent CET is known.                                                    *)
(***************************************************************************)
Starts ==
  /\ run'.stage = "parent"
  /\ run'.at \in {"look", "test"} /\ run'.read = 0
  /\ <<"funding", run'.funding>> \in Known

Stays ==
  /\ run.at \in Steps
  /\ run'.funding = run.funding /\ run'.stage = run.stage
  /\ Showed' => Showed \/ Transaction \in Known \/ Transaction \in Known'

Turns ==
  /\ run.at \in Steps
  /\ run'.funding = run.funding
  /\ run.stage = "parent"
  /\ run'.at \in {"look", "test"} /\ run'.read = 0
  /\ Showed \/ Transaction \in Known

LEMMA GotoMoves ==
  ASSUME IInv, run.at \in Steps, NEW step \in Steps, Goto(step)
  PROVE  /\ run'.at = step /\ run'.read = 0
         /\ run'.funding = run.funding /\ run'.stage = run.stage
<1>1. run \in Begun /\ step \in Steps \cup {"done"}
  BY RunHasTransaction DEF IInv
<1>2. run' = Moved(run, step)
  BY DEF Goto, Moved
<1> QED
  BY <1>1, <1>2, MovedRun DEF Begun

LEMMA ConfirmationsMove ==
  ASSUME IInv, run.at \in Steps, NEW confirmations, AfterConfirmations(confirmations),
         Showed \/ Transaction \in Known
  PROVE  Stays \/ Turns
<1>1. run \in Begun /\ "poll" \in Steps /\ "finish" \in Steps
  BY RunHasTransaction DEF IInv, Steps
<1>2. CASE Goto("poll")
  BY <1>1, <1>2, GotoMoves DEF Stays
<1>3. CASE CompleteStage
  <2>1. CASE run.stage = "parent"
    <3>1. run' = MovedToBridge(run, FirstStep)
      BY <1>3, <2>1 DEF CompleteStage, MovedToBridge
    <3>2. FirstStep \in {"look", "test"} /\ FirstStep \in Steps \cup {"done"}
      BY DEF FirstStep, Steps
    <3>3. run'.at = FirstStep /\ run'.read = 0 /\ run'.funding = run.funding
      BY <1>1, <3>1, <3>2, RunMovedToBridge DEF Begun
    <3> QED
      BY <2>1, <3>2, <3>3 DEF Turns
  <2>2. CASE run.stage # "parent"
    <3>1. Goto("finish")
      BY <1>3, <2>2 DEF CompleteStage, Goto
    <3> QED
      BY <1>1, <3>1, GotoMoves DEF Stays
  <2> QED
    BY <2>1, <2>2
<1> QED
  BY <1>2, <1>3 DEF AfterConfirmations

LEMMA RunMoves ==
  ASSUME IInv, [Next]_vars, run'.at \in Steps
  PROVE  Starts \/ Stays \/ Turns
<1>0. TypeOK /\ NoRun.at \notin Steps
  BY NoRunIsIdle DEF IInv
<1>1. ~Fail
  BY <1>0 DEF Fail
<1>2. ASSUME NEW u \in Outpoints, Start(u)
      PROVE  Starts
  <2>1. command.broadcast
    <3>1. ASSUME ~command.broadcast
          PROVE  run'.at = "done"
      BY <1>2, <3>1 DEF Start, NoRun
    <3> QED
      BY <3>1, NoRunIsIdle
  <2>2. run' = [at |-> FirstStep, stage |-> "parent", funding |-> u, read |-> 0]
    BY <1>2, <2>1 DEF Start, NoRun
  <2>3. FirstStep \in {"look", "test"}
    BY DEF FirstStep
  <2>4. <<"funding", u>> \in Known
    <3>1. u \in Readable
      BY <1>2 DEF Start
    <3>2. command.funding \in {"historical", "explicit", "scan"}
      BY <1>0 DEF TypeOK
    <3>3. CASE command.funding = "scan"
      <4>1. u \in Scanned
        BY <3>1, <3>3 DEF Readable
      <4> QED
        BY <4>1 DEF Scanned, Known
    <3>4. CASE command.funding # "scan"
      BY <3>1, <3>2, <3>4 DEF Readable
    <3> QED
      BY <3>3, <3>4
  <2>5. run'.at = FirstStep /\ run'.stage = "parent" /\ run'.funding = u /\ run'.read = 0
    BY <2>2
  <2> QED
    BY <2>3, <2>4, <2>5 DEF Starts
<1>3. ASSUME ReadStatus
      PROVE  Stays
  <2>1. run.at \in {"look", "look again", "poll"}
    BY <1>3 DEF ReadStatus
  <2>2. run.at \in Steps
    BY <2>1 DEF Steps
  <2>3. CASE Goto(AfterNoConfirmation)
    <3>1. CASE run.at = "look"
      <4>1. Goto("post")
        BY <2>3, <3>1 DEF AfterNoConfirmation
      <4>2. run'.at = "post" /\ run'.read = 0 /\ run'.funding = run.funding
            /\ run'.stage = run.stage
        BY <2>2, <4>1, GotoMoves DEF Steps
      <4>3. ~Showed'
        BY ONLY <4>2 DEF Showed
      <4> QED
        BY <2>2, <4>2, <4>3 DEF Stays
    <3>2. CASE run.at # "look"
      <4>1. Goto("poll")
        BY <2>1, <2>3, <3>2 DEF AfterNoConfirmation
      <4>2. run'.funding = run.funding /\ run'.stage = run.stage
        BY <2>2, <4>1, GotoMoves DEF Steps
      <4>3. Showed
        BY <2>1, <3>2 DEF Showed
      <4> QED
        BY <2>2, <4>2, <4>3 DEF Stays
    <3> QED
      BY <3>1, <3>2
  <2>4. CASE Transaction \in Confirmed /\ run' = [run EXCEPT !.read = depth[Transaction]]
    <3>1. run \in Begun
      BY <1>0, <2>2, RunHasTransaction
    <3>2. run'.funding = run.funding /\ run'.stage = run.stage
      BY <2>4, <3>1 DEF Begun, Runs
    <3> QED
      BY <2>2, <2>4, <3>2 DEF Stays, Known
  <2> QED
    BY <1>3, <2>3, <2>4 DEF ReadStatus
<1>4. ASSUME ReadTip
      PROVE  Stays \/ Turns
  <2>1. run.read > 0 /\ AfterConfirmations(run.read)
    BY <1>4 DEF ReadTip
  <2>2. run.at \in Steps
    BY <2>1 DEF IInv, StatusIsRead, Steps
  <2> QED
    BY <2>1, <2>2, ConfirmationsMove DEF Showed
<1>5. ASSUME Poll
      PROVE  Stays \/ Turns
  <2>1. run.at \in Steps /\ Showed /\ AfterConfirmations(depth[Transaction])
    BY <1>1, <1>5 DEF Poll, Steps, Showed
  <2> QED
    BY <2>1, ConfirmationsMove
<1>6. ASSUME Broadcasts
      PROVE  Stays
  <2>1. run.at \in Steps
    BY <1>6, BroadcastsKeep
  <2>2. CASE Goto("send")
    <3>1. run'.at = "send" /\ run'.read = 0 /\ run'.funding = run.funding
          /\ run'.stage = run.stage
      BY <2>1, <2>2, GotoMoves DEF Steps
    <3>2. ~Showed'
      BY ONLY <3>1 DEF Showed
    <3> QED
      BY <2>1, <3>1, <3>2 DEF Stays
  <2>3. CASE Goto("look again") \/ Goto("poll")
    <3>1. run'.funding = run.funding /\ run'.stage = run.stage /\ run'.at # "send"
      BY <2>1, <2>3, GotoMoves DEF Steps
    <3>2. ~Goto("send")
      BY <2>1, <3>1, GotoMoves DEF Steps
    <3>3. Transaction \in Known \/ Transaction \in mempool'
      BY <1>1, <1>6, <3>2 DEF Broadcasts, Post, Test, Send, Broadcast, Known
    <3>4. Transaction \in Known \/ Transaction \in Known'
      BY <3>3 DEF Known
    <3> QED
      BY <2>1, <3>1, <3>4 DEF Stays
  <2> QED
    BY <1>1, <1>6, <2>2, <2>3 DEF Broadcasts, Post, Test, Send
<1>7. ASSUME Finish
      PROVE  FALSE
  <2>1. run.at = "finish" /\ run' = [run EXCEPT !.at = "done"]
    BY <1>1, <1>7 DEF Finish
  <2>2. run.at \in Steps
    BY <2>1 DEF Steps
  <2>3. run'.at = "done"
    BY <1>0, <2>1, <2>2, RunHasTransaction DEF Begun, Runs
  <2> QED
    BY <2>3, NoRunIsIdle
<1>8. ASSUME Grow
      PROVE  Stays
  <2>1. run'.at = run.at /\ run'.funding = run.funding /\ run'.stage = run.stage
        /\ (run'.read > 0 => run.read > 0)
    BY <1>0, <1>8, RunHasTransaction DEF Grow, AnyRun, Runs
  <2> QED
    BY <2>1 DEF Stays, Showed
<1>9. ASSUME UNCHANGED run
      PROVE  Stays
  BY <1>9 DEF Stays, Showed
<1>10. CASE Next
  BY <1>1, <1>2, <1>3, <1>4, <1>5, <1>6, <1>7, <1>8, <1>9, <1>10
     DEF Next, Proceed, Broadcasts, TimeOut, Interrupt, Fund, SpendElsewhere, Mine, Reorganize
<1>11. CASE UNCHANGED vars
  BY <1>9, <1>11 DEF vars
<1> QED
  BY <1>10, <1>11

LEMMA StepKeepsLeftBehind ==
  ASSUME MinConfirmations >= 2, IInv, LeftBehind, [Next]_vars
  PROVE  LeftBehind'
<1> SUFFICES ASSUME run'.at \in Steps
             PROVE  /\ <<"funding", run'.funding>> \in Known'
                    /\ Untouched(run.funding)' =>
                         /\ run'.stage = "bridge" => <<"parent", run'.funding>> \in Known'
                         /\ Showed' => Transaction' \in Known'
  BY DEF LeftBehind
<1>1. TypeOK' /\ IInv'
  BY StepKeepsInvariant DEF IInv
<1>2. PICK u \in Outpoints : run'.funding = u
  <2>1. run' \in {NoRun} \cup [at : Steps \cup {"done"}, stage : {"parent", "bridge"},
                               funding : Outpoints, read : 0 .. MaxDepth]
    BY <1>1 DEF TypeOK, NoRun, MaxDepth, Steps
  <2> QED
    BY <2>1, NoRunIsIdle
<1>3. Untouched(run.funding)' <=> <<"elsewhere", u>> \notin Known'
  BY <1>2 DEF Untouched
<1>4. /\ <<"funding", u>> \in Known => <<"funding", u>> \in Known'
      /\ <<"elsewhere", u>> \notin Known' => Untouched(u)
      /\ <<"elsewhere", u>> \notin Known' =>
           \A stage \in {"parent", "bridge"} :
             <<stage, u>> \in Known => <<stage, u>> \in Known'
  BY SpendsElsewhereStay DEF Untouched
<1>5. CASE Starts
  <2>1. run'.stage = "parent" /\ <<"funding", u>> \in Known
    BY <1>2, <1>5 DEF Starts
  <2>2. ~Showed'
    <3>1. run'.at \notin {"look again", "poll", "finish"}
      BY <1>5 DEF Starts
    <3>2. run'.read = 0
      BY <1>5 DEF Starts
    <3>3. ~(run'.read > 0)
      BY ONLY <3>2
    <3> QED
      BY ONLY <3>1, <3>3 DEF Showed
  <2> QED
    BY <1>2, <1>3, <1>4, <2>1, <2>2
<1>6. CASE Stays
  <2>1. run.funding = u /\ run.at \in Steps /\ run'.stage = run.stage
    BY <1>2, <1>6 DEF Stays
  <2>2. run.stage \in {"parent", "bridge"}
    BY <2>1, RunHasTransaction DEF IInv, Begun, Runs
  <2>3. Transaction = <<run.stage, u>> /\ Transaction' = <<run.stage, u>>
    BY <1>2, <2>1 DEF Transaction
  <2>4. Showed' => Showed \/ Transaction \in Known \/ Transaction \in Known'
    BY <1>6 DEF Stays
  <2> QED
    BY <1>2, <1>3, <1>4, <2>1, <2>2, <2>3, <2>4 DEF LeftBehind
<1>7. CASE Turns
  <2>1. run.funding = u /\ run.at \in Steps /\ Transaction = <<"parent", u>>
    BY <1>2, <1>7 DEF Turns, Transaction
  <2>2. Showed \/ Transaction \in Known
    BY <1>7 DEF Turns
  <2>3. ~Showed'
    <3>1. run'.at \notin {"look again", "poll", "finish"}
      BY <1>7 DEF Turns
    <3>2. run'.read = 0
      BY <1>7 DEF Turns
    <3>3. ~(run'.read > 0)
      BY ONLY <3>2
    <3> QED
      BY ONLY <3>1, <3>3 DEF Showed
  <2> QED
    BY <1>2, <1>3, <1>4, <2>1, <2>2, <2>3 DEF LeftBehind
<1> QED
  BY <1>5, <1>6, <1>7, RunMoves

\* What is left behind by the runs so far blocks none of their successors.
LEMMA LeftBehindLetsProceed ==
  ASSUME TypeOK, LeftBehind
  PROVE  RunCanProceed
<1> SUFFICES ASSUME run.at \in Steps, Untouched(run.funding)
             PROVE  /\ Transaction \in Known \/ Acceptable(Transaction)
                    /\ run.at \in {"look again", "poll", "finish"} => Transaction \in Known
  BY DEF RunCanProceed
<1>1. run.funding \in Outpoints /\ run.stage \in {"parent", "bridge"}
  BY RunHasTransaction DEF Begun, Runs
<1>2. Input(Transaction) \in Known
  <2>1. CASE run.stage = "parent"
    <3>1. Input(<<"parent", run.funding>>) = <<"funding", run.funding>>
      BY DEF Input
    <3> QED
      BY <2>1, <3>1 DEF LeftBehind, Transaction
  <2>2. CASE run.stage = "bridge"
    <3>1. Input(<<"bridge", run.funding>>) = <<"parent", run.funding>>
      BY DEF Input
    <3> QED
      BY <2>2, <3>1 DEF LeftBehind, Transaction
  <2> QED
    BY <1>1, <2>1, <2>2
<1>3. ASSUME NEW other \in Known, Input(other) = Input(Transaction)
      PROVE  other = Transaction
  <2>1. PICK kind \in {"funding", "parent", "bridge", "elsewhere"}, u \in Outpoints :
          other = <<kind, u>>
    BY DEF Known, Confirmed, TypeOK, Transactions
  <2>2. /\ Input(<<"bridge", u>>) = <<"parent", u>>
        /\ Input(<<"parent", u>>) = <<"funding", u>>
        /\ Input(<<"elsewhere", u>>) = <<"funding", u>>
        /\ Input(<<"funding", u>>) = <<"outside", u>>
        /\ Input(<<"bridge", run.funding>>) = <<"parent", run.funding>>
        /\ Input(<<"parent", run.funding>>) = <<"funding", run.funding>>
    BY DEF Input
  <2>3. Transaction = <<run.stage, run.funding>>
    BY DEF Transaction
  <2>4. u = run.funding
    BY <1>1, <1>3, <2>1, <2>2, <2>3
  <2>5. kind # "elsewhere"
    BY <2>1, <2>4 DEF Untouched
  <2> QED
    BY <1>1, <1>3, <2>1, <2>2, <2>3, <2>4, <2>5
<1>4. Transaction \in Known \/ Acceptable(Transaction)
  BY <1>2, <1>3 DEF Acceptable, SpentBy
<1>5. run.at \in {"look again", "poll", "finish"} => Transaction \in Known
  BY DEF LeftBehind, Showed
<1> QED
  BY <1>4, <1>5

(***************************************************************************)
(* Whatever failed before, and wherever: while the funding is not spent    *)
(* elsewhere, a run's transaction is known to the network or the network   *)
(* takes it, and a run that waits, waits for a transaction that is there.  *)
(* That a run over Esplora then gets there is ResumesActivation; a node    *)
(* refuses a transaction it knows when it is asked to test it.             *)
(***************************************************************************)
THEOREM RunsCanProceed ==
  ASSUME MinConfirmations >= 2
  PROVE  Spec => []RunCanProceed
<1>1. Init => LeftBehind
  BY NoRunIsIdle DEF Init, LeftBehind
<1>2. IInv /\ LeftBehind /\ [Next]_vars => LeftBehind'
  BY StepKeepsLeftBehind
<1>3. IInv /\ LeftBehind => RunCanProceed
  BY LeftBehindLetsProceed DEF IInv
<1> QED
  BY <1>1, <1>2, <1>3, Invariant, PTL DEF Spec

================================================================================
