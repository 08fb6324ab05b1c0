----------------------- MODULE RestartRecovery_proofs -----------------------
(***************************************************************************)
(* What TLAPS proves of restart recovery, for any number of participants,  *)
(* any timeout and any number of crashes and losses.                       *)
(*                                                                         *)
(* The safety properties are not inductive: they hold because a checkpoint *)
(* file is, at every moment, what was written less what was lost of it.    *)
(* Faithful says so, and Whole the converse: a file that nothing was lost  *)
(* of is the checkpoint of its phase, which lets a participant proceed.    *)
(***************************************************************************)
EXTENDS RestartRecovery, TLAPS

Faithful(p) ==
  /\ disk[p] = NoCheckpoint => lost[p] = {}
  /\ disk[p] # NoCheckpoint =>
       /\ "file" \in lost[p] => ~disk[p].parses
       /\ "digest" \in lost[p] => ~disk[p].digestMatches
       /\ "transcript" \in lost[p] => ~disk[p].transcriptValidates
       /\ "retained state" \in lost[p] \/ "adaptor packets" \in lost[p]
            => disk[p].retainedState # "valid" /\ disk[p].phase # "after_funding_exchange"
       /\ "attestation" \in lost[p]
            => /\ disk[p].phase = "after_oracle_attestation"
               /\ disk[p].oracleAttestation = "none"
       /\ disk[p].phase = "after_funding_exchange" => disk[p].retainedState = "missing"
       /\ disk[p].oracleAttestation # "none" =>
            /\ disk[p].phase = "after_oracle_attestation"
            /\ disk[p].oracleAttestation = "activating"
            /\ "activating" \in published

IInv ==
  /\ TypeOK
  /\ \A p \in Participants : Faithful(p)
  /\ OrdersAreValid
  /\ AttestedNeverRefunds

-----------------------------------------------------------------------------
(***************************************************************************)
(* The evaluation of a checkpoint: its range, and what each of its actions *)
(* presupposes of the checkpoint and of the attestation.                   *)
(***************************************************************************)
LEMMA RecoveryRange ==
  ASSUME NEW c \in Checkpoint, NEW h \in Nat, NEW a \in Outcomes \cup {"none"}
  PROVE  EvaluateRestartRecovery(c, h, a) \in RecoveryActions
<1>1. RecoveredParticipantAction(c.retainedState, h, AttestationOf(c, a)) \in RecoveryActions
  BY DEF RecoveredParticipantAction, RecoveryActions
<1>2. RecoverWithRetainedState(c, h, a) \in RecoveryActions
  BY <1>1 DEF RecoverWithRetainedState, RecoveryActions
<1>3. RecoverAfterFunding(c, a) \in RecoveryActions
  BY DEF RecoverAfterFunding, RecoveryActions
<1>4. QED
  BY <1>2, <1>3 DEF EvaluateRestartRecovery, RecoveryActions

LEMMA RecoveryPresupposes ==
  ASSUME NEW c \in Checkpoint, NEW h \in Nat, NEW a \in Outcomes \cup {"none"},
         NEW action, action = EvaluateRestartRecovery(c, h, a), action # "abort_missing_state"
  PROVE  /\ c.digestMatches /\ c.transcriptValidates
         /\ c.phase = "after_funding_exchange" => action = "resume_setup"
         /\ c.phase # "after_funding_exchange" =>
              /\ c.retainedState = "valid"
              /\ action = "complete_with_oracle_attestation"
                   => AttestationOf(c, a) = "activating"
              /\ action # "complete_with_oracle_attestation"
                   => /\ AttestationOf(c, a) = "none"
                      /\ c.phase # "after_oracle_attestation"
              /\ action = "refund_after_timeout" => h > BridgeTimeoutHeight
<1>1. c.digestMatches /\ c.transcriptValidates
  BY DEF EvaluateRestartRecovery
<1>2. CASE c.phase = "after_funding_exchange"
  BY <1>1, <1>2 DEF EvaluateRestartRecovery, RecoverAfterFunding
<1>3. CASE c.phase # "after_funding_exchange"
  <2>1. action = RecoverWithRetainedState(c, h, a)
    BY <1>1, <1>3 DEF EvaluateRestartRecovery
  <2>2. /\ c.retainedState # "missing"
        /\ c.phase = "after_oracle_attestation" => AttestationOf(c, a) # "none"
        /\ action = RecoveredParticipantAction(c.retainedState, h, AttestationOf(c, a))
    BY <2>1 DEF RecoverWithRetainedState
  <2>3. c.retainedState = "valid"
    BY <2>2 DEF RecoveredParticipantAction, Checkpoint
  <2>4. CASE AttestationOf(c, a) = "none"
    <3>1. action = IF h > BridgeTimeoutHeight THEN "refund_after_timeout"
                                              ELSE "wait_for_oracle_or_timeout"
      BY <2>2, <2>3, <2>4 DEF RecoveredParticipantAction
    <3>2. QED
      BY <1>1, <1>3, <2>2, <2>3, <2>4, <3>1
  <2>5. CASE AttestationOf(c, a) # "none"
    <3>1. action = "complete_with_oracle_attestation" /\ CompletionVerifies(AttestationOf(c, a))
      BY <2>2, <2>3, <2>5 DEF RecoveredParticipantAction
    <3>2. QED
      BY <1>1, <1>3, <2>3, <3>1 DEF CompletionVerifies
  <2>6. QED
    BY <2>4, <2>5
<1>4. QED
  BY <1>2, <1>3

LEMMA BuiltIsCheckpoint ==
  ASSUME NEW phase \in Phases
  PROVE  BuiltCheckpoint(phase) \in Checkpoint
BY DEF BuiltCheckpoint, Checkpoint, Outcomes

LEMMA AfterLossIsCheckpoint ==
  ASSUME NEW c \in Checkpoint, NEW part \in Losses
  PROVE  AfterLoss(c, part) \in Checkpoint
<1>1. CASE part = "digest"
  BY <1>1 DEF AfterLoss, Checkpoint
<1>2. CASE part = "transcript"
  BY <1>2 DEF AfterLoss, Checkpoint
<1>3. CASE part = "retained state"
  BY <1>3 DEF AfterLoss, Checkpoint
<1>4. CASE part = "adaptor packets"
  BY <1>4 DEF AfterLoss, Checkpoint
<1>5. CASE part = "attestation"
  BY <1>5 DEF AfterLoss, Checkpoint
<1>6. QED
  BY <1>1, <1>2, <1>3, <1>4, <1>5 DEF Losses

(***************************************************************************)
(* What a loss leaves of the checkpoint, part by part.                     *)
(***************************************************************************)
LEMMA AfterLossFields ==
  ASSUME NEW c \in Checkpoint, NEW part \in Losses
  PROVE  /\ AfterLoss(c, part).phase = c.phase /\ AfterLoss(c, part).parses = c.parses
         /\ AfterLoss(c, part).digestMatches = (part # "digest")
         /\ AfterLoss(c, part).transcriptValidates =
              IF part = "transcript" THEN FALSE ELSE c.transcriptValidates
         /\ AfterLoss(c, part).retainedState =
              CASE part = "retained state" -> "missing"
                [] part = "adaptor packets" -> "inconsistent"
                [] OTHER -> c.retainedState
         /\ AfterLoss(c, part).oracleAttestation =
              IF part = "attestation" THEN "none" ELSE c.oracleAttestation
<1>1. CASE part = "digest"
  BY <1>1 DEF AfterLoss, Checkpoint
<1>2. CASE part = "transcript"
  BY <1>2 DEF AfterLoss, Checkpoint
<1>3. CASE part = "retained state"
  BY <1>3 DEF AfterLoss, Checkpoint
<1>4. CASE part = "adaptor packets"
  BY <1>4 DEF AfterLoss, Checkpoint
<1>5. CASE part = "attestation"
  BY <1>5 DEF AfterLoss, Checkpoint
<1>6. QED
  BY <1>1, <1>2, <1>3, <1>4, <1>5 DEF Losses

-----------------------------------------------------------------------------
LEMMA InitInvariant == Init => IInv
BY HeightAssumption DEF Init, IInv, TypeOK, Faithful, OrdersAreValid, AttestedNeverRefunds,
   HasPhase, RecoveryActions, ChainStates, Outcomes, Losses

(***************************************************************************)
(* Writing a checkpoint: the new file is whole.                            *)
(***************************************************************************)
LEMMA WriteInvariant ==
  ASSUME IInv, NEW p \in Participants, NEW phase \in Phases, Write(p, phase),
         phase = "after_oracle_attestation" => "activating" \in published,
         NEW now \in RecoveryActions \cup {"running"},
         process' = [process EXCEPT ![p] = now],
         now = process[p] \/ now = "running",
         phase = "after_oracle_attestation" => now # "refund_after_timeout"
  PROVE  IInv'
<1>1. TypeOK'
  BY BuiltIsCheckpoint DEF IInv, TypeOK, Write
<1>2. ASSUME NEW q \in Participants PROVE Faithful(q)'
  <2>1. CASE q = p
    BY <2>1, BuiltIsCheckpoint, NoCheckpointAssumption
       DEF IInv, TypeOK, Write, Faithful, BuiltCheckpoint
  <2>2. CASE q # p
    BY <2>2 DEF IInv, TypeOK, Write, Faithful
  <2>3. QED
    BY <2>1, <2>2
<1>3. OrdersAreValid'
  BY DEF IInv, TypeOK, Write, OrdersAreValid
<1>4. AttestedNeverRefunds'
  <2> SUFFICES ASSUME NEW q \in Participants, HasPhase(q, "after_oracle_attestation")'
               PROVE  process'[q] # "refund_after_timeout"
    BY DEF AttestedNeverRefunds
  <2>1. CASE q = p
    <3>1. disk'[p] = BuiltCheckpoint(phase)
      BY DEF IInv, TypeOK, Write
    <3>2. phase = "after_oracle_attestation"
      BY <2>1, <3>1 DEF HasPhase, BuiltCheckpoint
    <3>3. QED
      BY <2>1, <3>2 DEF IInv, TypeOK
  <2>2. CASE q # p
    BY <2>2 DEF IInv, TypeOK, Write, AttestedNeverRefunds, HasPhase
  <2>3. QED
    BY <2>1, <2>2
<1>5. QED
  BY <1>1, <1>2, <1>3, <1>4 DEF IInv

LEMMA WriteFundingInvariant ==
  ASSUME IInv, NEW p \in Participants, WriteFundingCheckpoint(p)
  PROVE  IInv'
<1>1. process' = [process EXCEPT ![p] = "running"]
  BY DEF IInv, TypeOK, WriteFundingCheckpoint, Write, MayWrite
<1>2. QED
  BY <1>1, WriteInvariant DEF WriteFundingCheckpoint, Phases

LEMMA WriteAdaptorInvariant ==
  ASSUME IInv, NEW p \in Participants, WriteAdaptorCheckpoint(p)
  PROVE  IInv'
BY WriteInvariant DEF WriteAdaptorCheckpoint, Phases

LEMMA WriteAttestationInvariant ==
  ASSUME IInv, NEW p \in Participants, WriteAttestationCheckpoint(p)
  PROVE  IInv'
<1>1. process' = [process EXCEPT ![p] = process[p]]
  BY DEF IInv, TypeOK, WriteAttestationCheckpoint
<1>2. /\ process[p] \in RecoveryActions \cup {"running"} /\ process[p] # "refund_after_timeout"
      /\ "activating" \in published
  BY DEF WriteAttestationCheckpoint, Write, MayWrite, RecoveryActions
<1>3. QED
  BY <1>1, <1>2, WriteInvariant DEF WriteAttestationCheckpoint, Phases

(***************************************************************************)
(* A write that is cut short leaves a file that does not parse, and no     *)
(* process.                                                                *)
(***************************************************************************)
LEMMA TornWriteInvariant ==
  ASSUME IInv, NEW p \in Participants, NEW phase \in Phases, TornWrite(p, phase)
  PROVE  IInv'
<1> DEFINE torn == [BuiltCheckpoint(phase) EXCEPT !.parses = FALSE]
<1>1. /\ torn \in Checkpoint /\ ~torn.parses /\ torn.phase = phase
      /\ phase = "after_funding_exchange" => torn.retainedState = "missing"
      /\ torn.oracleAttestation # "none" =>
           phase = "after_oracle_attestation" /\ torn.oracleAttestation = "activating"
  BY DEF BuiltCheckpoint, Checkpoint, Outcomes
<1>2. /\ disk' = [disk EXCEPT ![p] = torn] /\ lost' = [lost EXCEPT ![p] = {"file"}]
      /\ process' = [process EXCEPT ![p] = "down"]
      /\ crashes' = crashes + 1
      /\ UNCHANGED <<height, published, chain, losses>>
  BY DEF TornWrite
<1>3. phase = "after_oracle_attestation" => "activating" \in published
  BY DEF TornWrite, MayWrite
<1> HIDE DEF torn
<1>4. TypeOK'
  BY <1>1, <1>2 DEF IInv, TypeOK
<1>5. ASSUME NEW q \in Participants PROVE Faithful(q)'
  <2>1. CASE q = p
    <3>1. disk'[q] = torn /\ lost'[q] = {"file"} /\ published' = published
      BY <1>2, <2>1 DEF IInv, TypeOK
    <3>2. QED
      BY <1>1, <1>3, <3>1, NoCheckpointAssumption DEF Faithful
  <2>2. CASE q # p
    <3>1. disk'[q] = disk[q] /\ lost'[q] = lost[q] /\ published' = published
      BY <1>2, <2>2 DEF IInv, TypeOK
    <3>2. QED
      BY <3>1 DEF IInv, Faithful
  <2>3. QED
    BY <2>1, <2>2
<1>6. OrdersAreValid'
  BY <1>2 DEF IInv, TypeOK, OrdersAreValid
<1>7. AttestedNeverRefunds'
  <2> SUFFICES ASSUME NEW q \in Participants, HasPhase(q, "after_oracle_attestation")'
               PROVE  process'[q] # "refund_after_timeout"
    BY DEF AttestedNeverRefunds
  <2>1. CASE q = p
    BY <1>2, <2>1 DEF IInv, TypeOK
  <2>2. CASE q # p
    BY <1>2, <2>2 DEF IInv, TypeOK, AttestedNeverRefunds, HasPhase
  <2>3. QED
    BY <2>1, <2>2
<1>8. QED
  BY <1>4, <1>5, <1>6, <1>7 DEF IInv

LEMMA CrashInvariant ==
  ASSUME IInv, NEW p \in Participants, Crash(p)
  PROVE  IInv'
<1>1. TypeOK'
  BY DEF IInv, TypeOK, Crash
<1>2. \A q \in Participants : Faithful(q)'
  BY DEF IInv, Crash, Faithful
<1>3. OrdersAreValid' /\ AttestedNeverRefunds'
  BY DEF IInv, TypeOK, Crash, OrdersAreValid, AttestedNeverRefunds, HasPhase
<1>4. QED
  BY <1>1, <1>2, <1>3 DEF IInv

(***************************************************************************)
(* A loss is remembered for as long as the damaged file is there, but for  *)
(* a corrupted digest, which the next loss makes good.                     *)
(***************************************************************************)
LEMMA LoseInvariant ==
  ASSUME IInv, NEW p \in Participants, NEW part \in Losses, Lose(p, part)
  PROVE  IInv'
<1> DEFINE after == AfterLoss(disk[p], part)
           gone == (lost[p] \ {"digest"}) \cup {part}
<1>1. /\ disk[p] \in Checkpoint
      /\ disk' = [disk EXCEPT ![p] = after]
      /\ lost' = [lost EXCEPT ![p] = gone]
      /\ losses' = losses + 1
      /\ UNCHANGED <<height, published, process, chain, crashes>>
  BY DEF IInv, TypeOK, Lose
<1>2. after \in Checkpoint
  BY <1>1, AfterLossIsCheckpoint
<1>3. /\ after.phase = disk[p].phase /\ after.parses = disk[p].parses
      /\ after.digestMatches = (part # "digest")
      /\ after.transcriptValidates = IF part = "transcript" THEN FALSE
                                                           ELSE disk[p].transcriptValidates
      /\ after.retainedState = CASE part = "retained state" -> "missing"
                                 [] part = "adaptor packets" -> "inconsistent"
                                 [] OTHER -> disk[p].retainedState
      /\ after.oracleAttestation = IF part = "attestation" THEN "none"
                                                           ELSE disk[p].oracleAttestation
  BY <1>1, AfterLossFields
<1>4. gone \in SUBSET (Losses \cup {"file"})
  BY DEF IInv, TypeOK
<1> HIDE DEF after
<1>5. TypeOK'
  <2>1. disk' \in [Participants -> Checkpoint \cup {NoCheckpoint}]
    BY <1>1, <1>2 DEF IInv, TypeOK
  <2>2. lost' \in [Participants -> SUBSET (Losses \cup {"file"})]
    BY <1>1, <1>4 DEF IInv, TypeOK
  <2>3. losses' \in Nat
    BY <1>1 DEF IInv, TypeOK
  <2>4. QED
    BY <1>1, <2>1, <2>2, <2>3 DEF IInv, TypeOK
<1>6. Faithful(p)'
  <2>1. /\ disk'[p] = after /\ lost'[p] = gone /\ published' = published
        /\ disk'[p] # NoCheckpoint /\ disk[p] # NoCheckpoint
    BY <1>1, <1>2, NoCheckpointAssumption DEF IInv, TypeOK
  <2>2. /\ Faithful(p)
        /\ part = "retained state" => disk[p].retainedState # "missing"
        /\ part = "adaptor packets" => disk[p].retainedState = "valid"
        /\ part = "attestation" => disk[p].oracleAttestation # "none"
    BY DEF IInv, Lose
  <2>3. "file" \in gone => ~after.parses
    BY <1>3, <2>1, <2>2 DEF Faithful, Losses
  <2>4. /\ "digest" \in gone => ~after.digestMatches
        /\ "transcript" \in gone => ~after.transcriptValidates
    BY <1>3, <2>1, <2>2 DEF Faithful
  <2>5. "retained state" \in gone \/ "adaptor packets" \in gone
          => after.retainedState # "valid" /\ after.phase # "after_funding_exchange"
    BY <1>3, <2>1, <2>2 DEF Faithful
  <2>6. "attestation" \in gone
          => after.phase = "after_oracle_attestation" /\ after.oracleAttestation = "none"
    BY <1>3, <2>1, <2>2 DEF Faithful
  <2>7. after.phase = "after_funding_exchange" => after.retainedState = "missing"
    BY <1>3, <2>1, <2>2 DEF Faithful
  <2>8. after.oracleAttestation # "none" =>
          /\ after.phase = "after_oracle_attestation"
          /\ after.oracleAttestation = "activating"
          /\ "activating" \in published
    BY <1>3, <2>1, <2>2 DEF Faithful
  <2>9. QED
    BY <2>1, <2>3, <2>4, <2>5, <2>6, <2>7, <2>8 DEF Faithful
<1>7. \A q \in Participants : Faithful(q)'
  <2> SUFFICES ASSUME NEW q \in Participants, q # p
               PROVE  Faithful(q)'
    BY <1>6
  <2>1. disk'[q] = disk[q] /\ lost'[q] = lost[q] /\ published' = published
    BY <1>1 DEF IInv, TypeOK
  <2>2. QED
    BY <2>1 DEF IInv, Faithful
<1>8. OrdersAreValid'
  BY <1>1 DEF IInv, OrdersAreValid
<1>9. AttestedNeverRefunds'
  <2> SUFFICES ASSUME NEW q \in Participants, HasPhase(q, "after_oracle_attestation")'
               PROVE  process'[q] # "refund_after_timeout"
    BY DEF AttestedNeverRefunds
  <2>1. HasPhase(q, "after_oracle_attestation") /\ process' = process
    BY <1>1, <1>3, NoCheckpointAssumption DEF IInv, TypeOK, HasPhase
  <2>2. QED
    BY <2>1 DEF IInv, AttestedNeverRefunds
<1>10. QED
  BY <1>5, <1>7, <1>8, <1>9 DEF IInv

LEMMA RecoverInvariant ==
  ASSUME IInv, NEW p \in Participants, NEW supplied \in Outcomes \cup {"none"},
         Recover(p, supplied)
  PROVE  IInv'
<1>1. disk[p] \in Checkpoint /\ height \in Nat
  BY DEF IInv, TypeOK, Recover
<1> DEFINE now == IF disk[p].parses THEN EvaluateRestartRecovery(disk[p], height, supplied)
                                   ELSE "down"
<1>2. process' = [process EXCEPT ![p] = now]
  BY DEF Recover
<1>3. TypeOK'
  <2>1. now \in RecoveryActions \cup {"running", "down"}
    BY <1>1, RecoveryRange
  <2>2. QED
    BY <1>2, <2>1 DEF IInv, TypeOK, Recover
<1>4. /\ process'[p] = now
      /\ now # "down" => now = EvaluateRestartRecovery(disk[p], height, supplied)
  BY <1>2 DEF IInv, TypeOK
<1> HIDE DEF now
<1>5. \A q \in Participants : Faithful(q)'
  BY DEF IInv, Recover, Faithful
<1>6. process'[p] = "complete_with_oracle_attestation" => "activating" \in published
  <2> SUFFICES ASSUME process'[p] = "complete_with_oracle_attestation"
               PROVE  "activating" \in published
    OBVIOUS
  <2>1. AttestationOf(disk[p], supplied) = "activating"
    BY <1>1, <1>4, RecoveryPresupposes
  <2>2. CASE supplied # "none"
    BY <2>1, <2>2 DEF AttestationOf, Recover
  <2>3. CASE supplied = "none"
    BY <2>1, <2>3 DEF AttestationOf, IInv, Faithful, Recover
  <2>4. QED
    BY <2>2, <2>3
<1>7. process'[p] = "refund_after_timeout"
        => height > BridgeTimeoutHeight /\ disk[p].phase # "after_oracle_attestation"
  BY <1>1, <1>4, RecoveryPresupposes
<1>8. OrdersAreValid'
  BY <1>1, <1>2, <1>6, <1>7, HeightAssumption DEF IInv, TypeOK, OrdersAreValid, Recover
<1>9. AttestedNeverRefunds'
  BY <1>2, <1>7 DEF IInv, TypeOK, AttestedNeverRefunds, HasPhase, Recover
<1>10. QED
  BY <1>3, <1>5, <1>8, <1>9 DEF IInv

LEMMA SettleInvariant ==
  ASSUME IInv, NEW p \in Participants, Settle(p)
  PROVE  IInv'
<1>1. UNCHANGED <<height, published, disk, lost, process, crashes, losses>>
  BY DEF Settle, ConfirmParentCet, ConfirmBridge, ConfirmEdgeTimeoutRefund
<1>2. chain' \in ChainStates
  BY DEF Settle, ConfirmParentCet, ConfirmBridge, ConfirmEdgeTimeoutRefund, ChainStates
<1>3. TypeOK'
  BY <1>1, <1>2 DEF IInv, TypeOK
<1>4. \A q \in Participants : Faithful(q)'
  BY <1>1 DEF IInv, Faithful
<1>5. OrdersAreValid' /\ AttestedNeverRefunds'
  BY <1>1 DEF IInv, OrdersAreValid, AttestedNeverRefunds, HasPhase
<1>6. QED
  BY <1>3, <1>4, <1>5 DEF IInv

LEMMA EnvironmentInvariant ==
  ASSUME IInv, (\E outcome \in Outcomes : PublishAttestation(outcome)) \/ MineBlock
  PROVE  IInv'
<1>1. CASE MineBlock
  <2>1. TypeOK'
    BY <1>1 DEF MineBlock, IInv, TypeOK
  <2>2. \A p \in Participants : Faithful(p)'
    BY <1>1 DEF MineBlock, IInv, Faithful
  <2>3. OrdersAreValid'
    BY <1>1, HeightAssumption DEF MineBlock, IInv, TypeOK, OrdersAreValid
  <2>4. AttestedNeverRefunds'
    BY <1>1 DEF MineBlock, IInv, AttestedNeverRefunds, HasPhase
  <2>5. QED
    BY <2>1, <2>2, <2>3, <2>4 DEF IInv
<1>2. CASE \E outcome \in Outcomes : PublishAttestation(outcome)
  BY <1>2 DEF PublishAttestation, IInv, TypeOK, Faithful, OrdersAreValid,
     AttestedNeverRefunds, HasPhase
<1>3. QED
  BY <1>1, <1>2

LEMMA StepInvariant ==
  ASSUME IInv, [Next]_vars
  PROVE  IInv'
<1>1. CASE UNCHANGED vars
  BY <1>1 DEF vars, IInv, TypeOK, Faithful, OrdersAreValid, AttestedNeverRefunds, HasPhase
<1>2. CASE Next
  BY <1>2, WriteFundingInvariant, WriteAdaptorInvariant, WriteAttestationInvariant,
     CrashInvariant, TornWriteInvariant, LoseInvariant, RecoverInvariant, SettleInvariant, EnvironmentInvariant
     DEF Next, Setup
<1>3. QED
  BY <1>1, <1>2

THEOREM Invariant == Spec => []IInv
<1>1. Init => IInv
  BY InitInvariant
<1>2. IInv /\ [Next]_vars => IInv'
  BY StepInvariant
<1>3. QED
  BY <1>1, <1>2, PTL DEF Spec

-----------------------------------------------------------------------------
(***************************************************************************)
(* Type correctness.                                                       *)
(***************************************************************************)
THEOREM TypeCorrect == Spec => []TypeOK
BY Invariant, PTL DEF IInv

(***************************************************************************)
(* A recovery orders a completion only on an activating attestation, and a *)
(* refund only when it may be mined.                                       *)
(***************************************************************************)
THEOREM RecoveryOrdersAreValid == Spec => []OrdersAreValid
BY Invariant, PTL DEF IInv

(***************************************************************************)
(* A participant with an attestation checkpoint never refunds.             *)
(***************************************************************************)
THEOREM AttestedParticipantsNeverRefund == Spec => []AttestedNeverRefunds
BY Invariant, PTL DEF IInv

(***************************************************************************)
(* The race for the edge: the chain moves to the child by an activating    *)
(* attestation only, and to the refund only while the bridge's signer has  *)
(* no attestation checkpoint.                                              *)
(***************************************************************************)
THEOREM RaceForTheEdgeIsDecided == Spec => EdgeRaceIsDecided
<1> DEFINE Decided ==
      /\ chain' # chain /\ chain' \in {"parent_edge", "child_funding"}
           => "activating" \in published
      /\ chain' # chain /\ chain' = "parent_refund"
           => ~HasPhase(BridgeSigner, "after_oracle_attestation")
<1>1. IInv /\ [Next]_vars => [Decided]_vars
  <2> SUFFICES ASSUME IInv, Next
               PROVE  Decided
    OBVIOUS
  <2>1. ASSUME NEW p \in Participants, ConfirmParentCet(p) \/ ConfirmBridge(p)
        PROVE  Decided
    <3>1. "activating" \in published /\ chain' # "parent_refund"
      BY <2>1 DEF ConfirmParentCet, ConfirmBridge, IInv, OrdersAreValid
    <3>2. QED
      BY <3>1
  <2>2. ASSUME NEW p \in Participants, ConfirmEdgeTimeoutRefund(p)
        PROVE  Decided
    <3>1. /\ chain' = "parent_refund"
          /\ process[BridgeSigner] = "refund_after_timeout"
      BY <2>2 DEF ConfirmEdgeTimeoutRefund
    <3>2. ~HasPhase(BridgeSigner, "after_oracle_attestation")
      BY <3>1, BridgeSignerAssumption DEF IInv, AttestedNeverRefunds
    <3>3. QED
      BY <3>1, <3>2
  <2>3. CASE chain' = chain
    BY <2>3
  <2>4. QED
    BY <2>1, <2>2, <2>3 DEF Next, Setup, WriteFundingCheckpoint, WriteAdaptorCheckpoint,
       WriteAttestationCheckpoint, Write, TornWrite, Crash, Lose, Recover, Settle,
       PublishAttestation, MineBlock
<1>2. QED
  BY <1>1, Invariant, PTL DEF Spec, EdgeRaceIsDecided

(***************************************************************************)
(* No order of losses, crashes and restarts leads from a damaged file to   *)
(* anything but an abort, or to a completion by a published attestation.   *)
(***************************************************************************)
FailsClosedStep ==
  \A p \in Participants :
    /\ process'[p] # process[p]
    /\ process'[p] \in RecoveryActions \ {"abort_missing_state"}
    => \/ lost[p] = {}
       \/ lost[p] = {"attestation"} /\ process'[p] = "complete_with_oracle_attestation"

LEMMA RecoverFailsClosed ==
  ASSUME IInv, NEW q \in Participants, NEW supplied \in Outcomes \cup {"none"},
         Recover(q, supplied)
  PROVE  FailsClosedStep
<1> SUFFICES ASSUME NEW p \in Participants,
                    process'[p] # process[p],
                    process'[p] \in RecoveryActions \ {"abort_missing_state"},
                    lost[p] # {}
             PROVE  /\ lost[p] = {"attestation"}
                    /\ process'[p] = "complete_with_oracle_attestation"
  BY DEF FailsClosedStep
<1>1. p = q /\ disk[p] \in Checkpoint /\ height \in Nat
  BY DEF IInv, TypeOK, Recover
<1>2. disk[p].parses /\ process'[p] = EvaluateRestartRecovery(disk[p], height, supplied)
  BY <1>1 DEF IInv, TypeOK, Recover, RecoveryActions
<1>3. /\ disk[p].digestMatches /\ disk[p].transcriptValidates
      /\ disk[p].phase # "after_funding_exchange" => disk[p].retainedState = "valid"
      /\ /\ disk[p].phase # "after_funding_exchange"
         /\ process'[p] # "complete_with_oracle_attestation"
         => disk[p].phase # "after_oracle_attestation"
  BY <1>1, <1>2, RecoveryPresupposes
<1>4. Faithful(p) /\ disk[p] # NoCheckpoint
  BY <1>1 DEF IInv, Recover
<1>5. lost[p] \subseteq {"attestation"}
  BY <1>2, <1>3, <1>4 DEF Faithful, IInv, TypeOK, Losses
<1>6. "attestation" \in lost[p]
  BY <1>5
<1>7. disk[p].phase = "after_oracle_attestation"
  BY <1>4, <1>6 DEF Faithful
<1>8. QED
  BY <1>3, <1>5, <1>6, <1>7

THEOREM LossFailsClosed == Spec => PartialLossFailsClosed
<1>1. IInv /\ [Next]_vars => [FailsClosedStep]_vars
  <2> SUFFICES ASSUME IInv, Next
               PROVE  FailsClosedStep
    OBVIOUS
  <2>1. CASE \E p \in Participants : \E supplied \in Outcomes \cup {"none"} : Recover(p, supplied)
    BY <2>1, RecoverFailsClosed
  <2>2. CASE \E p \in Participants : Setup(p)
    BY <2>2 DEF Setup, WriteFundingCheckpoint, WriteAdaptorCheckpoint, FailsClosedStep,
       IInv, TypeOK, RecoveryActions
  <2>3. CASE \E p \in Participants : Crash(p)
    BY <2>3 DEF Crash, FailsClosedStep, IInv, TypeOK, RecoveryActions
  <2>4. CASE \E p \in Participants : \E phase \in Phases : TornWrite(p, phase)
    BY <2>4 DEF TornWrite, FailsClosedStep, IInv, TypeOK, RecoveryActions
  <2>5. CASE UNCHANGED process
    BY <2>5 DEF FailsClosedStep
  <2>6. QED
    BY <2>1, <2>2, <2>3, <2>4, <2>5 DEF Next, WriteAttestationCheckpoint, Lose, Settle,
       ConfirmParentCet, ConfirmBridge, ConfirmEdgeTimeoutRefund, PublishAttestation, MineBlock
<1>2. QED
  BY <1>1, Invariant, PTL DEF Spec, PartialLossFailsClosed, FailsClosedStep

-----------------------------------------------------------------------------
(***************************************************************************)
(* What EdgeIsResolved rests on: a participant whose checkpoint is whole   *)
(* is never left without an order, while the oracle attests nothing but    *)
(* the activating outcome.  It is about its work, down, waiting, or told   *)
(* to complete or to refund; and whenever it evaluates its checkpoint,     *)
(* above the timeout it is told to do one of the two.  A refund that is    *)
(* ordered may be mined, and the bridge's signer can sign it.              *)
(***************************************************************************)
IntactStateProceeds ==
  \A p \in Participants :
    HoldsRetainedState(p) /\ published \subseteq {"activating"} =>
      /\ process[p] \in {"running", "down", "wait_for_oracle_or_timeout",
                         "complete_with_oracle_attestation", "refund_after_timeout"}
      /\ process[p] = "refund_after_timeout" => height + 1 > BridgeTimeoutHeight
      /\ disk[p].parses
      /\ \A supplied \in published \cup {"none"} :
           EvaluateRestartRecovery(disk[p], height, supplied) \in
             {"complete_with_oracle_attestation",
              IF height > BridgeTimeoutHeight THEN "refund_after_timeout"
                                              ELSE "wait_for_oracle_or_timeout"}

\* A file nothing was lost of is what was written.
Whole(p) == disk[p] # NoCheckpoint /\ lost[p] = {} => disk[p] = BuiltCheckpoint(disk[p].phase)

HasWork(p) ==
  HoldsRetainedState(p) /\ published \subseteq {"activating"}
    => process[p] \notin {"resume_setup", "abort_missing_state"}

WholeInv == \A p \in Participants : Whole(p) /\ HasWork(p)

LEMMA BuiltCheckpointRecovers ==
  ASSUME NEW phase \in Phases \ {"after_funding_exchange"}, NEW h \in Nat,
         NEW supplied \in {"activating", "none"}
  PROVE  EvaluateRestartRecovery(BuiltCheckpoint(phase), h, supplied) \in
           {"complete_with_oracle_attestation",
            IF h > BridgeTimeoutHeight THEN "refund_after_timeout" ELSE "wait_for_oracle_or_timeout"}
<1>1. PICK c : c = BuiltCheckpoint(phase)
  OBVIOUS
<1>2. /\ c.phase = phase /\ c.digestMatches /\ c.transcriptValidates
      /\ c.retainedState = "valid"
      /\ c.oracleAttestation = IF phase = "after_oracle_attestation" THEN "activating" ELSE "none"
  BY <1>1 DEF BuiltCheckpoint
<1>3. PICK a : a = AttestationOf(c, supplied)
  OBVIOUS
<1>4. a \in {"activating", "none"} /\ (phase = "after_oracle_attestation" => a = "activating")
  BY <1>2, <1>3 DEF AttestationOf
<1>5. EvaluateRestartRecovery(c, h, supplied) = RecoverWithRetainedState(c, h, supplied)
  BY <1>2 DEF EvaluateRestartRecovery
<1>6. RecoverWithRetainedState(c, h, supplied) = RecoveredParticipantAction("valid", h, a)
  BY <1>2, <1>3, <1>4 DEF RecoverWithRetainedState
<1>7. CASE a = "activating"
  BY <1>1, <1>5, <1>6, <1>7 DEF RecoveredParticipantAction, CompletionVerifies
<1>8. CASE a = "none"
  BY <1>1, <1>5, <1>6, <1>8 DEF RecoveredParticipantAction
<1>9. QED
  BY <1>4, <1>7, <1>8

LEMMA IntactRecovers ==
  ASSUME IInv, WholeInv, NEW p \in Participants, HoldsRetainedState(p),
         published \subseteq {"activating"}, NEW supplied \in published \cup {"none"}
  PROVE  EvaluateRestartRecovery(disk[p], height, supplied) \in
           {"complete_with_oracle_attestation",
            IF height > BridgeTimeoutHeight THEN "refund_after_timeout"
                                            ELSE "wait_for_oracle_or_timeout"}
<1>1. disk[p] \in Checkpoint /\ height \in Nat
  BY DEF IInv, TypeOK, HoldsRetainedState
<1>2. disk[p] = BuiltCheckpoint(disk[p].phase)
  BY DEF WholeInv, Whole, HoldsRetainedState
<1>3. disk[p].phase \in Phases \ {"after_funding_exchange"}
  BY <1>1 DEF Checkpoint, HoldsRetainedState
<1>4. QED
  BY <1>1, <1>2, <1>3, BuiltCheckpointRecovers

LEMMA InitWhole == Init => WholeInv
BY DEF Init, WholeInv, Whole, HasWork, HoldsRetainedState

LEMMA WriteWhole ==
  ASSUME IInv, WholeInv, NEW p \in Participants, NEW phase \in Phases, Write(p, phase),
         NEW now, process' = [process EXCEPT ![p] = now],
         phase # "after_funding_exchange" => now \notin {"resume_setup", "abort_missing_state"}
  PROVE  WholeInv'
<1> SUFFICES ASSUME NEW q \in Participants
             PROVE  Whole(q)' /\ HasWork(q)'
  BY DEF WholeInv
<1>1. /\ published' = published
      /\ q = p => /\ disk'[q] = BuiltCheckpoint(phase) /\ process'[q] = now
      /\ q # p => disk'[q] = disk[q] /\ lost'[q] = lost[q] /\ process'[q] = process[q]
  BY DEF IInv, TypeOK, Write
<1>2. CASE q = p
  <2>1. disk'[q].phase = phase
    BY <1>1, <1>2 DEF BuiltCheckpoint
  <2>2. QED
    BY <1>1, <1>2, <2>1 DEF Whole, HasWork, HoldsRetainedState
<1>3. CASE q # p
  BY <1>1, <1>3 DEF WholeInv, Whole, HasWork, HoldsRetainedState
<1>4. QED
  BY <1>2, <1>3

LEMMA SetupWhole ==
  ASSUME IInv, WholeInv, NEW p \in Participants, Setup(p) \/ WriteAttestationCheckpoint(p)
  PROVE  WholeInv'
<1>1. CASE WriteFundingCheckpoint(p)
  <2>1. Write(p, "after_funding_exchange") /\ process' = [process EXCEPT ![p] = process[p]]
    BY <1>1 DEF WriteFundingCheckpoint, IInv, TypeOK
  <2>2. QED
    BY <2>1, WriteWhole DEF Phases
<1>2. CASE WriteAdaptorCheckpoint(p)
  BY <1>2, WriteWhole DEF WriteAdaptorCheckpoint, Phases
<1>3. CASE WriteAttestationCheckpoint(p)
  <2>1. /\ Write(p, "after_oracle_attestation") /\ process' = [process EXCEPT ![p] = process[p]]
        /\ process[p] \notin {"resume_setup", "abort_missing_state"}
    BY <1>3 DEF WriteAttestationCheckpoint, Write, MayWrite, IInv, TypeOK
  <2>2. QED
    BY <2>1, WriteWhole DEF Phases
<1>4. QED
  BY <1>1, <1>2, <1>3 DEF Setup

LEMMA TornWriteWhole ==
  ASSUME IInv, WholeInv, NEW p \in Participants, NEW phase \in Phases, TornWrite(p, phase)
  PROVE  WholeInv'
<1> SUFFICES ASSUME NEW q \in Participants
             PROVE  Whole(q)' /\ HasWork(q)'
  BY DEF WholeInv
<1>1. /\ published' = published
      /\ q = p => "file" \in lost'[q]
      /\ q # p => disk'[q] = disk[q] /\ lost'[q] = lost[q] /\ process'[q] = process[q]
  BY DEF IInv, TypeOK, TornWrite
<1>2. CASE q = p
  BY <1>1, <1>2 DEF Whole, HasWork, HoldsRetainedState
<1>3. CASE q # p
  BY <1>1, <1>3 DEF WholeInv, Whole, HasWork, HoldsRetainedState
<1>4. QED
  BY <1>2, <1>3

LEMMA LoseWhole ==
  ASSUME IInv, WholeInv, NEW p \in Participants, NEW part \in Losses, Lose(p, part)
  PROVE  WholeInv'
<1> SUFFICES ASSUME NEW q \in Participants
             PROVE  Whole(q)' /\ HasWork(q)'
  BY DEF WholeInv
<1>1. /\ published' = published /\ process' = process
      /\ q = p => part \in lost'[q]
      /\ q # p => disk'[q] = disk[q] /\ lost'[q] = lost[q]
  BY DEF IInv, TypeOK, Lose
<1>2. CASE q = p
  BY <1>1, <1>2 DEF Whole, HasWork, HoldsRetainedState
<1>3. CASE q # p
  BY <1>1, <1>3 DEF WholeInv, Whole, HasWork, HoldsRetainedState
<1>4. QED
  BY <1>2, <1>3

LEMMA ProcessWhole ==
  ASSUME IInv, WholeInv, NEW p \in Participants,
         Crash(p) \/ \E supplied \in Outcomes \cup {"none"} : Recover(p, supplied)
  PROVE  WholeInv'
<1> SUFFICES ASSUME NEW q \in Participants
             PROVE  Whole(q)' /\ HasWork(q)'
  BY DEF WholeInv
<1>1. disk' = disk /\ lost' = lost /\ published' = published /\ (q # p => process'[q] = process[q])
  BY DEF Crash, Recover, IInv, TypeOK
<1>2. CASE q # p
  BY <1>1, <1>2 DEF WholeInv, Whole, HasWork, HoldsRetainedState
<1>3. CASE q = p /\ Crash(p)
  <2>1. process'[q] = "down"
    BY <1>3 DEF Crash, IInv, TypeOK
  <2>2. QED
    BY <1>1, <2>1 DEF WholeInv, Whole, HasWork
<1>4. ASSUME q = p, NEW supplied \in Outcomes \cup {"none"}, Recover(p, supplied)
      PROVE  Whole(q)' /\ HasWork(q)'
  <2>1. /\ process'[q] \in {EvaluateRestartRecovery(disk[q], height, supplied), "down"}
        /\ supplied \in published \cup {"none"}
    BY <1>4 DEF Recover, IInv, TypeOK
  <2>2. ASSUME HoldsRetainedState(q), published \subseteq {"activating"}
        PROVE  process'[q] \notin {"resume_setup", "abort_missing_state"}
    BY <2>1, <2>2, IntactRecovers
  <2>3. QED
    BY <1>1, <2>2 DEF WholeInv, Whole, HasWork, HoldsRetainedState
<1>5. QED
  BY <1>2, <1>3, <1>4

LEMMA StepWhole ==
  ASSUME IInv, WholeInv, [Next]_vars
  PROVE  WholeInv'
<1>1. CASE UNCHANGED vars
  BY <1>1 DEF vars, WholeInv, Whole, HasWork, HoldsRetainedState
<1>2. ASSUME NEW p \in Participants, Settle(p)
      PROVE  WholeInv'
  <2>1. disk' = disk /\ lost' = lost /\ process' = process /\ published' = published
    BY <1>2 DEF Settle, ConfirmParentCet, ConfirmBridge, ConfirmEdgeTimeoutRefund
  <2>2. QED
    BY <2>1 DEF WholeInv, Whole, HasWork, HoldsRetainedState
<1>3. CASE (\E outcome \in Outcomes : PublishAttestation(outcome)) \/ MineBlock
  <2>1. disk' = disk /\ lost' = lost /\ process' = process /\ published \subseteq published'
    BY <1>3 DEF PublishAttestation, MineBlock
  <2>2. QED
    BY <2>1 DEF WholeInv, Whole, HasWork, HoldsRetainedState
<1>4. QED
  BY <1>1, <1>2, <1>3, SetupWhole, TornWriteWhole, LoseWhole, ProcessWhole DEF Next

\* The timeout leaves no height at which a recovering participant has nothing
\* to do, whatever crashed before and whatever was lost of other checkpoints.
THEOREM IntactParticipantsProceed == Spec => []IntactStateProceeds
<1>1. IInv /\ WholeInv => IntactStateProceeds
  <2> SUFFICES ASSUME IInv, WholeInv, NEW p \in Participants, HoldsRetainedState(p),
                      published \subseteq {"activating"}
               PROVE  /\ process[p] \in {"running", "down", "wait_for_oracle_or_timeout",
                                         "complete_with_oracle_attestation",
                                         "refund_after_timeout"}
                      /\ process[p] = "refund_after_timeout" => height + 1 > BridgeTimeoutHeight
                      /\ disk[p].parses
                      /\ \A supplied \in published \cup {"none"} :
                           EvaluateRestartRecovery(disk[p], height, supplied) \in
                             {"complete_with_oracle_attestation",
                              IF height > BridgeTimeoutHeight THEN "refund_after_timeout"
                                                              ELSE "wait_for_oracle_or_timeout"}
    BY DEF IntactStateProceeds
  <2>1. process[p] \in RecoveryActions \cup {"running", "down"}
    BY DEF IInv, TypeOK
  <2>2. process[p] \notin {"resume_setup", "abort_missing_state"}
    BY DEF WholeInv, HasWork
  <2>3. process[p] = "refund_after_timeout" => height + 1 > BridgeTimeoutHeight
    BY DEF IInv, OrdersAreValid
  <2>4. disk[p].parses
    <3>1. \E phase : disk[p] = BuiltCheckpoint(phase)
      BY DEF WholeInv, Whole, HoldsRetainedState
    <3>2. QED
      BY <3>1 DEF BuiltCheckpoint
  <2>5. QED
    BY <2>1, <2>2, <2>3, <2>4, IntactRecovers DEF RecoveryActions
<1>2. Init => WholeInv
  BY InitWhole
<1>3. IInv /\ WholeInv /\ [Next]_vars => WholeInv'
  BY StepWhole
<1>4. QED
  BY <1>1, <1>2, <1>3, Invariant, PTL DEF Spec

=============================================================================
