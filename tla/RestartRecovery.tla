--------------------------- MODULE RestartRecovery ---------------------------
(***************************************************************************)
(* Restart recovery of the two participants: testnet/src/                  *)
(* bilateral-restart-recovery.ts on top of bilateral-state-retention.ts.   *)
(*                                                                         *)
(* A participant writes a checkpoint after the funding exchange, after the *)
(* adaptor exchange and after the oracle's attestation; it may crash at    *)
(* any moment, in the middle of writing the file too, and lose part of the *)
(* file; and from what is left, the height of the chain and the            *)
(* attestation it is handed, it derives one action.  What that action      *)
(* meets is the chain of the retained template: the parent CET spends the  *)
(* parent funding, and the bridge and the edge timeout refund both spend   *)
(* the parent CET's output.  Completing needs nothing but the exchanged    *)
(* adaptor signatures and the attestation; the refund is retained          *)
(* unsigned, and only the bridge's signer has the key it needs.            *)
(*                                                                         *)
(* A completed adaptor signature verifies exactly when the attestation is  *)
(* the one of the activating outcome: parent CET and bridge carry the same *)
(* adaptor point.                                                          *)
(***************************************************************************)
EXTENDS Naturals

CONSTANTS
  Participants,
  BridgeSigner,         \* whose key signs the bridge and the edge timeout refund
  NoCheckpoint,         \* stands for a file that was never written
  BridgeTimeoutHeight,  \* the locktime of the edge timeout refund
  MaxHeight,            \* bound on the chain
  MaxCrashes,           \* bound on the crashes of all participants together
  MaxLosses             \* bound on the losses of all participants together

ASSUME HeightAssumption ==
  BridgeTimeoutHeight \in Nat /\ MaxHeight \in Nat /\ MaxCrashes \in Nat /\ MaxLosses \in Nat

ASSUME BridgeSignerAssumption == BridgeSigner \in Participants

VARIABLES
  height,     \* of the chain's tip
  published,  \* the outcomes the oracle attested
  disk,       \* the checkpoint file of each participant
  lost,       \* what was lost of that file since it was written
  process,    \* running, down, or the action the participant recovered to
  chain,      \* how far the template's transactions are confirmed
  crashes,
  losses

vars == <<height, published, disk, lost, process, chain, crashes, losses>>

Outcomes == {"activating", "wrong"}

Phases == {"after_funding_exchange", "after_adaptor_exchange", "after_oracle_attestation"}

Checkpoint ==
  [phase: Phases, parses: BOOLEAN, digestMatches: BOOLEAN, transcriptValidates: BOOLEAN,
   retainedState: {"missing", "inconsistent", "valid"},
   oracleAttestation: Outcomes \cup {"none"}]

ASSUME NoCheckpointAssumption == NoCheckpoint \notin Checkpoint

RecoveryActions ==
  {"resume_setup", "wait_for_oracle_or_timeout", "complete_with_oracle_attestation",
   "refund_after_timeout", "abort_missing_state"}

ChainStates == {"parent_funding", "parent_edge", "child_funding", "parent_refund"}

-----------------------------------------------------------------------------
(***************************************************************************)
(* completeRetainedAdaptorSignature, as the caller reads it.               *)
(***************************************************************************)
CompletionVerifies(attestation) == attestation = "activating"

(***************************************************************************)
(* evaluateRecoveredParticipantAction.                                     *)
(***************************************************************************)
\* Broken variant: the deadline is passed two blocks early.
EarlyRecoveredParticipantAction(retainedState, currentHeight, attestation) ==
  CASE retainedState # "valid" -> "abort_missing_state"
    [] retainedState = "valid" /\ attestation # "none" ->
         IF CompletionVerifies(attestation) THEN "complete_with_oracle_attestation"
                                            ELSE "abort_missing_state"
    [] retainedState = "valid" /\ attestation = "none" ->
         IF currentHeight + 2 > BridgeTimeoutHeight THEN "refund_after_timeout"
                                                    ELSE "wait_for_oracle_or_timeout"

\* Broken variant: at the timeout height the participant neither waits nor refunds.
StrandedRecoveredParticipantAction(retainedState, currentHeight, attestation) ==
  CASE retainedState # "valid" -> "abort_missing_state"
    [] retainedState = "valid" /\ attestation # "none" ->
         IF CompletionVerifies(attestation) THEN "complete_with_oracle_attestation"
                                            ELSE "abort_missing_state"
    [] retainedState = "valid" /\ attestation = "none" ->
         CASE currentHeight > BridgeTimeoutHeight -> "refund_after_timeout"
           [] currentHeight < BridgeTimeoutHeight -> "wait_for_oracle_or_timeout"
           [] OTHER -> "abort_missing_state"

RecoveredParticipantAction(retainedState, currentHeight, attestation) ==
  CASE retainedState # "valid" -> "abort_missing_state"
    [] retainedState = "valid" /\ attestation # "none" ->
         IF CompletionVerifies(attestation) THEN "complete_with_oracle_attestation"
                                            ELSE "abort_missing_state"
    [] retainedState = "valid" /\ attestation = "none" ->
         IF currentHeight > BridgeTimeoutHeight THEN "refund_after_timeout"
                                                ELSE "wait_for_oracle_or_timeout"

(***************************************************************************)
(* The attestation handed to the recovery comes before the stored one.     *)
(***************************************************************************)
AttestationOf(checkpoint, supplied) ==
  IF supplied # "none" THEN supplied ELSE checkpoint.oracleAttestation

(***************************************************************************)
(* evaluateBilateralRestartRecovery.                                       *)
(***************************************************************************)
RecoverAfterFunding(checkpoint, supplied) ==
  IF AttestationOf(checkpoint, supplied) # "none" THEN "abort_missing_state" ELSE "resume_setup"

RecoverWithRetainedState(checkpoint, currentHeight, supplied) ==
  IF \/ checkpoint.retainedState = "missing"
     \/ /\ checkpoint.phase = "after_oracle_attestation"
        /\ AttestationOf(checkpoint, supplied) = "none"
    THEN "abort_missing_state"
    ELSE RecoveredParticipantAction(checkpoint.retainedState, currentHeight,
                                    AttestationOf(checkpoint, supplied))

\* Broken variant: the digest of the checkpoint is not compared.
EvaluateRestartRecoveryWithoutDigest(checkpoint, currentHeight, supplied) ==
  CASE ~checkpoint.transcriptValidates -> "abort_missing_state"
    [] checkpoint.transcriptValidates /\ checkpoint.phase = "after_funding_exchange" ->
         RecoverAfterFunding(checkpoint, supplied)
    [] checkpoint.transcriptValidates /\ checkpoint.phase # "after_funding_exchange" ->
         RecoverWithRetainedState(checkpoint, currentHeight, supplied)

\* Broken variant: a missing attestation is not noticed.
EvaluateRestartRecoveryWithoutAttestationCheck(checkpoint, currentHeight, supplied) ==
  CASE ~(checkpoint.digestMatches /\ checkpoint.transcriptValidates)
         \/ checkpoint.retainedState = "missing" -> "abort_missing_state"
    [] OTHER -> RecoveredParticipantAction(checkpoint.retainedState, currentHeight,
                                           AttestationOf(checkpoint, supplied))

EvaluateRestartRecovery(checkpoint, currentHeight, supplied) ==
  LET readable == checkpoint.digestMatches /\ checkpoint.transcriptValidates
  IN  CASE ~readable -> "abort_missing_state"
        [] readable /\ checkpoint.phase = "after_funding_exchange" ->
             RecoverAfterFunding(checkpoint, supplied)
        [] readable /\ checkpoint.phase # "after_funding_exchange" ->
             RecoverWithRetainedState(checkpoint, currentHeight, supplied)

(***************************************************************************)
(* buildCheckpoint: a checkpoint as it is written.                         *)
(***************************************************************************)
BuiltCheckpoint(phase) ==
  [phase |-> phase, parses |-> TRUE, digestMatches |-> TRUE, transcriptValidates |-> TRUE,
   retainedState |-> IF phase = "after_funding_exchange" THEN "missing" ELSE "valid",
   oracleAttestation |-> IF phase = "after_oracle_attestation" THEN "activating" ELSE "none"]

-----------------------------------------------------------------------------
Init ==
  /\ height = 0
  /\ published = {}
  /\ disk = [p \in Participants |-> NoCheckpoint]
  /\ lost = [p \in Participants |-> {}]
  /\ process = [p \in Participants |-> "running"]
  /\ chain = "parent_funding"
  /\ crashes = 0
  /\ losses = 0

HasPhase(p, phase) == disk[p] # NoCheckpoint /\ disk[p].phase = phase

MayWrite(p, phase) ==
  \/ /\ phase = "after_funding_exchange"
     /\ process[p] = "running"
     /\ disk[p] = NoCheckpoint
  \/ /\ phase = "after_adaptor_exchange"
     /\ process[p] \in {"running", "resume_setup"}
     /\ HasPhase(p, "after_funding_exchange")
  \/ /\ phase = "after_oracle_attestation"
     /\ process[p] \in {"running", "wait_for_oracle_or_timeout", "complete_with_oracle_attestation"}
     /\ HasPhase(p, "after_adaptor_exchange")
     /\ "activating" \in published

Write(p, phase) ==
  /\ MayWrite(p, phase)
  /\ disk' = [disk EXCEPT ![p] = BuiltCheckpoint(phase)]
  /\ lost' = [lost EXCEPT ![p] = {}]
  /\ UNCHANGED <<height, published, chain, crashes, losses>>

WriteFundingCheckpoint(p) ==
  /\ Write(p, "after_funding_exchange")
  /\ UNCHANGED process

WriteAdaptorCheckpoint(p) ==
  /\ Write(p, "after_adaptor_exchange")
  /\ process' = [process EXCEPT ![p] = "running"]

WriteAttestationCheckpoint(p) ==
  /\ Write(p, "after_oracle_attestation")
  /\ UNCHANGED process

(***************************************************************************)
(* writeJsonFile overwrites the file in place: a crash in the middle       *)
(* leaves one that does not parse, and nothing of what it held before.     *)
(***************************************************************************)
TornWrite(p, phase) ==
  /\ crashes < MaxCrashes
  /\ MayWrite(p, phase)
  /\ disk' = [disk EXCEPT ![p] = [BuiltCheckpoint(phase) EXCEPT !.parses = FALSE]]
  /\ lost' = [lost EXCEPT ![p] = {"file"}]
  /\ process' = [process EXCEPT ![p] = "down"]
  /\ crashes' = crashes + 1
  /\ UNCHANGED <<height, published, chain, losses>>

Crash(p) ==
  /\ crashes < MaxCrashes
  /\ process[p] # "down"
  /\ process' = [process EXCEPT ![p] = "down"]
  /\ crashes' = crashes + 1
  /\ UNCHANGED <<height, published, disk, lost, chain, losses>>

(***************************************************************************)
(* The partial losses of the recovery test: a corrupted digest, and a      *)
(* missing or damaged part under a digest computed again, which also makes *)
(* good a digest corrupted before.                                         *)
(***************************************************************************)
Losses == {"digest", "transcript", "retained state", "adaptor packets", "attestation"}

\* Broken variant: a lost attestation leaves a placeholder.
AfterLossWithPlaceholder(checkpoint, part) ==
  IF part = "attestation" THEN [checkpoint EXCEPT !.oracleAttestation = "lost"] ELSE checkpoint

AfterLoss(checkpoint, part) ==
  LET digested == [checkpoint EXCEPT !.digestMatches = part # "digest"]
  IN  CASE part = "digest"          -> digested
        [] part = "transcript"      -> [digested EXCEPT !.transcriptValidates = FALSE]
        [] part = "retained state"  -> [digested EXCEPT !.retainedState = "missing"]
        [] part = "adaptor packets" -> [digested EXCEPT !.retainedState = "inconsistent"]
        [] part = "attestation"     -> [digested EXCEPT !.oracleAttestation = "none"]

Lose(p, part) ==
  /\ losses < MaxLosses
  /\ disk[p] # NoCheckpoint
  /\ disk[p].parses
  /\ part = "retained state" => disk[p].retainedState # "missing"
  /\ part = "adaptor packets" => disk[p].retainedState = "valid"
  /\ part = "attestation" => disk[p].oracleAttestation # "none"
  /\ disk' = [disk EXCEPT ![p] = AfterLoss(@, part)]
  /\ lost' = [lost EXCEPT ![p] = (@ \ {"digest"}) \cup {part}]
  /\ losses' = losses + 1
  /\ UNCHANGED <<height, published, process, chain, crashes>>

(***************************************************************************)
(* The participant reads its checkpoint and evaluates it; reading a file   *)
(* that does not parse throws, which ends the process.  One that is told   *)
(* to wait evaluates again later.                                          *)
(***************************************************************************)
Recover(p, supplied) ==
  /\ process[p] \in {"running", "down", "wait_for_oracle_or_timeout"}
  /\ disk[p] # NoCheckpoint
  /\ supplied \in published \cup {"none"}
  /\ process' = [process EXCEPT ![p] =
       IF disk[p].parses THEN EvaluateRestartRecovery(disk[p], height, supplied) ELSE "down"]
  /\ UNCHANGED <<height, published, disk, lost, chain, crashes, losses>>

PublishAttestation(outcome) ==
  /\ outcome \notin published
  /\ published' = published \cup {outcome}
  /\ UNCHANGED <<height, disk, lost, process, chain, crashes, losses>>

MineBlock ==
  /\ height < MaxHeight
  /\ height' = height + 1
  /\ UNCHANGED <<published, disk, lost, process, chain, crashes, losses>>

(***************************************************************************)
(* A participant told to complete brings the parent CET and then the       *)
(* bridge to the chain.  The edge timeout refund is retained unsigned: the *)
(* bridge's signer, told to refund, signs it with the key it keeps outside *)
(* the checkpoint, and a block takes it once its height is above the       *)
(* locktime.  The other participant can be told to refund, but cannot.     *)
(***************************************************************************)
ConfirmParentCet(p) ==
  /\ process[p] = "complete_with_oracle_attestation"
  /\ chain = "parent_funding"
  /\ chain' = "parent_edge"
  /\ UNCHANGED <<height, published, disk, lost, process, crashes, losses>>

ConfirmBridge(p) ==
  /\ process[p] = "complete_with_oracle_attestation"
  /\ chain = "parent_edge"
  /\ chain' = "child_funding"
  /\ UNCHANGED <<height, published, disk, lost, process, crashes, losses>>

\* Broken variant: the retained refund needs nobody's key.
ConfirmEdgeTimeoutRefundUnsigned(p) ==
  /\ process[p] = "refund_after_timeout"
  /\ chain = "parent_edge"
  /\ height + 1 > BridgeTimeoutHeight
  /\ chain' = "parent_refund"
  /\ UNCHANGED <<height, published, disk, lost, process, crashes, losses>>

ConfirmEdgeTimeoutRefund(p) ==
  /\ p = BridgeSigner
  /\ process[p] = "refund_after_timeout"
  /\ chain = "parent_edge"
  /\ height + 1 > BridgeTimeoutHeight
  /\ chain' = "parent_refund"
  /\ UNCHANGED <<height, published, disk, lost, process, crashes, losses>>

Setup(p) == WriteFundingCheckpoint(p) \/ WriteAdaptorCheckpoint(p)

Settle(p) == ConfirmParentCet(p) \/ ConfirmBridge(p) \/ ConfirmEdgeTimeoutRefund(p)

Next ==
  \/ \E p \in Participants :
       \/ Setup(p)
       \/ WriteAttestationCheckpoint(p)
       \/ Crash(p)
       \/ \E phase \in Phases : TornWrite(p, phase)
       \/ \E part \in Losses : Lose(p, part)
       \/ \E supplied \in Outcomes \cup {"none"} : Recover(p, supplied)
       \/ Settle(p)
  \/ \E outcome \in Outcomes : PublishAttestation(outcome)
  \/ MineBlock

(***************************************************************************)
(* Blocks keep coming, and a participant keeps evaluating its checkpoint   *)
(* and acts on what it is told.  Nobody owes a crash, a loss, an           *)
(* attestation or progress of the setup.                                   *)
(***************************************************************************)
Fairness ==
  /\ WF_vars(MineBlock)
  /\ \A p \in Participants :
       /\ WF_vars(\E supplied \in Outcomes \cup {"none"} : Recover(p, supplied))
       /\ WF_vars(Settle(p))

Spec == Init /\ [][Next]_vars /\ Fairness

-----------------------------------------------------------------------------
(***************************************************************************)
(* Every variable has its type.                                            *)
(***************************************************************************)
TypeOK ==
  /\ height \in Nat
  /\ published \subseteq Outcomes
  /\ disk \in [Participants -> Checkpoint \cup {NoCheckpoint}]
  /\ lost \in [Participants -> SUBSET (Losses \cup {"file"})]
  /\ process \in [Participants -> RecoveryActions \cup {"running", "down"}]
  /\ chain \in ChainStates
  /\ crashes \in Nat
  /\ losses \in Nat

(***************************************************************************)
(* Partial loss fails closed: whatever was lost of the checkpoint, in any  *)
(* order of losses, crashes and restarts, by a write that was cut short or *)
(* under a digest that matches again, the recovery does not resume, wait,  *)
(* complete or refund on it.  The one loss a caller can make good is *)
(* the attestation, which the oracle's publication replaces.               *)
(***************************************************************************)
PartialLossFailsClosed ==
  [][\A p \in Participants :
       /\ process'[p] # process[p]
       /\ process'[p] \in RecoveryActions \ {"abort_missing_state"}
       => \/ lost[p] = {}
          \/ lost[p] = {"attestation"} /\ process'[p] = "complete_with_oracle_attestation"
    ]_vars

(***************************************************************************)
(* What a recovery orders, the chain can accept: it orders a completion    *)
(* only when the oracle attested the activating outcome, and a refund only *)
(* when the next block may contain it.                                     *)
(***************************************************************************)
OrdersAreValid ==
  \A p \in Participants :
    /\ process[p] = "complete_with_oracle_attestation" => "activating" \in published
    /\ process[p] = "refund_after_timeout" => height + 1 > BridgeTimeoutHeight

(***************************************************************************)
(* A participant that has written its attestation checkpoint never works   *)
(* on the refund: neither a crash, nor the timeout, nor the loss of the    *)
(* stored attestation turns it against its own completion.                 *)
(***************************************************************************)
AttestedNeverRefunds ==
  \A p \in Participants :
    HasPhase(p, "after_oracle_attestation") => process[p] # "refund_after_timeout"

(***************************************************************************)
(* Two participants race for the parent edge, one with the bridge and one  *)
(* with the refund, and either may have crashed and forgotten what it did. *)
(* The chain moves towards the child only by an attestation of the         *)
(* activating outcome, and back to the parent only while the bridge's      *)
(* signer has written no attestation checkpoint, whatever the other        *)
(* participant was told.                                                   *)
(***************************************************************************)
EdgeRaceIsDecided ==
  [][/\ chain' # chain /\ chain' \in {"parent_edge", "child_funding"}
          => "activating" \in published
     /\ chain' # chain /\ chain' = "parent_refund"
          => ~HasPhase(BridgeSigner, "after_oracle_attestation")
    ]_vars

(***************************************************************************)
(* While the oracle attests nothing but the activating outcome, a parent   *)
(* edge on the chain is spent in the end, by the bridge or by the refund,  *)
(* if the bridge's signer keeps its retained state: the timeout leaves no  *)
(* height at which it has nothing to do.  If only the other participant    *)
(* keeps its state, the edge is spent too, unless the timeout comes before *)
(* the attestation: then it is told to refund, which needs the signer.     *)
(***************************************************************************)
HoldsRetainedState(p) ==
  /\ disk[p] # NoCheckpoint
  /\ disk[p].phase # "after_funding_exchange"
  /\ lost[p] = {}

EdgeIsResolved ==
  [](published \subseteq {"activating"})
    => \A p \in Participants :
         (chain = "parent_edge" /\ HoldsRetainedState(p))
           ~> \/ chain # "parent_edge" \/ ~HoldsRetainedState(p)
              \/ p # BridgeSigner /\ process[p] = "refund_after_timeout"

-----------------------------------------------------------------------------
(***************************************************************************)
(* What the document on state retention says of a restart after the        *)
(* timeout height: the participant uses the retained refund template, and  *)
(* aborts only when retained state is missing or inconsistent.             *)
(***************************************************************************)
RefundableAfterTimeout ==
  [][\A p \in Participants :
       process'[p] # process[p] /\ HoldsRetainedState(p) /\ height > BridgeTimeoutHeight
         => process'[p] # "abort_missing_state"]_vars

(***************************************************************************)
(* The refund capability a retained state declares: after the deadlines    *)
(* the participant can refund.  The retained refund spends the parent      *)
(* edge, so the edge must be there when the recovery orders the refund.    *)
(***************************************************************************)
OrderedRefundHasItsInput ==
  \A p \in Participants :
    process[p] = "refund_after_timeout" => chain # "parent_funding"

==============================================================================
