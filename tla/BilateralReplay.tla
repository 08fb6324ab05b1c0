--------------------------- MODULE BilateralReplay ---------------------------
(***************************************************************************)
(* replayOrThrow and tryReplayBilateralStateMachine: a transcript is       *)
(* validated, its messages are applied one after the other, then a list of *)
(* post-setup actions is applied.  The first input that does not apply     *)
(* ends the replay, and what it had computed is discarded.                 *)
(*                                                                         *)
(* The caller's transcript and actions are arbitrary, so each is chosen    *)
(* when the replay reaches it: choosing message i once i - 1 messages were *)
(* read ranges over the same transcripts as choosing all of them first.    *)
(* The code validates the whole transcript before it applies any of it, so *)
(* what "thrown" discards may differ; nothing of it survives the throw.    *)
(***************************************************************************)
EXTENDS BilateralStateMachine, FiniteSets

CONSTANTS
  Messages,         \* the setup messages a transcript may hold
  SessionIdHex,     \* the session of the transcript
  MaxSequence       \* bound on the messages and actions of one replay

ASSUME MessagesAssumption == \A m \in Messages : m \in SetupMessage

ASSUME SessionAssumption == SessionIdHex \in SessionIds

VARIABLES
  machine,      \* MutableBilateralState
  transcript,   \* the messages applied so far
  transitions,  \* the transition records, in order
  result        \* how far the replay is: reading, acting, or how it ended

vars == <<machine, transcript, transitions, result>>

Ended == {"returned", "caught", "thrown"}

InputKinds == AgreementKinds \cup {"role_announcement", "ack"} \cup ActionKinds

TransitionRecord(kind, next) ==
  [sequence |-> machine.nextSequence, inputKind |-> kind,
   fromState |-> machine.state, toState |-> next.state,
   retainedState |-> next.retained]

Init ==
  /\ machine = InitialState(SessionIdHex)
  /\ transcript = <<>>
  /\ transitions = <<>>
  /\ result = "reading"

(***************************************************************************)
(* A message of a valid transcript that applies.                           *)
(***************************************************************************)
ReadMessage(m) ==
  /\ result = "reading"
  /\ machine.nextSequence <= MaxSequence
  /\ ValidNext(SessionIdHex, transcript, m)
  /\ SetupMessageApplies(machine, m)
  /\ machine' = AfterSetupMessage(machine, m)
  /\ transcript' = Append(transcript, m)
  /\ transitions' = Append(transitions, TransitionRecord(m.kind, machine'))
  /\ UNCHANGED result

(***************************************************************************)
(* A message that makes the transcript invalid: the validation in front of *)
(* the replay throws, and so does the second one in tryReplay's handler.   *)
(***************************************************************************)
MeetInvalidMessage(m) ==
  /\ result = "reading"
  /\ ~ValidNext(SessionIdHex, transcript, m)
  /\ result' = "thrown"
  /\ UNCHANGED <<machine, transcript, transitions>>

(***************************************************************************)
(* A message of a valid transcript that the state machine rejects: the     *)
(* exception is caught and an aborted, unaccepted replay is returned.      *)
(***************************************************************************)
RejectMessage(m) ==
  /\ result = "reading"
  /\ ValidNext(SessionIdHex, transcript, m)
  /\ ~SetupMessageApplies(machine, m)
  /\ result' = "caught"
  /\ UNCHANGED <<machine, transcript, transitions>>

StartActions ==
  /\ result = "reading"
  /\ result' = "acting"
  /\ UNCHANGED <<machine, transcript, transitions>>

TakeAction(kind) ==
  /\ result = "acting"
  /\ machine.nextSequence <= MaxSequence
  /\ PostSetupActionApplies(machine, kind)
  /\ machine' = AfterPostSetupAction(machine, kind)
  /\ transitions' = Append(transitions, TransitionRecord(kind, machine'))
  /\ UNCHANGED <<transcript, result>>

RejectAction(kind) ==
  /\ result = "acting"
  /\ ~PostSetupActionApplies(machine, kind)
  /\ result' = "caught"
  /\ UNCHANGED <<machine, transcript, transitions>>

Return ==
  /\ result = "acting"
  /\ result' = "returned"
  /\ UNCHANGED <<machine, transcript, transitions>>

Next ==
  \/ \E m \in Messages : ReadMessage(m) \/ MeetInvalidMessage(m) \/ RejectMessage(m)
  \/ StartActions
  \/ \E kind \in ActionKinds : TakeAction(kind) \/ RejectAction(kind)
  \/ Return

Spec == Init /\ [][Next]_vars

-----------------------------------------------------------------------------
(***************************************************************************)
(* The replay record that is returned.                                     *)
(***************************************************************************)
AcceptedStates == {"setup_accepted", "oracle_attested", "settled"}

TemplateStates ==
  {"cet_templates_agreed", "bridge_templates_agreed", "refund_templates_agreed"}

ReplayAccepted == result = "returned" /\ machine.state \in AcceptedStates

FundingValidatedBeforeTemplates ==
  /\ \E i \in 1 .. Len(transitions) : transitions[i].toState = "funding_validated"
  /\ \A i \in 1 .. Len(transitions) :
       transitions[i].toState \in TemplateStates
         => "funding_inputs" \in transitions[i].retainedState

TemplatesAgreedBeforeAdaptorExchange ==
  \A i \in 1 .. Len(transitions) :
    transitions[i].toState = "adaptor_points_exchanged"
      => TemplateAgreementComplete(transitions[i].retainedState)

SetupAcceptedBeforeSettlement ==
  \A i \in 1 .. Len(transitions) :
    transitions[i].toState = "settled"
      => \E j \in 1 .. Len(transitions) : transitions[j].toState = "setup_accepted"

-----------------------------------------------------------------------------
(***************************************************************************)
(* Every variable has its type.                                            *)
(***************************************************************************)
TypeOK ==
  /\ machine \in MachineState
  /\ transcript \in Seq(SetupMessage)
  /\ transitions \in Seq([sequence : Nat, inputKind : InputKinds, fromState : States,
                          toState : States, retainedState : SUBSET RetainedFlags])
  /\ result \in {"reading", "acting"} \cup Ended

(***************************************************************************)
(* A session that counts as accepted (accepted, attested or settled) was   *)
(* acknowledged by both participants and retains all nine artifacts: no    *)
(* order of messages and actions reaches acceptance with half a setup.     *)
(***************************************************************************)
AcceptedMeansComplete ==
  machine.state \in AcceptedStates
    => machine.acceptedBy = Roles /\ machine.retained = RetainedFlags

(***************************************************************************)
(* The artifacts are retained in the order the document on the state       *)
(* machine demands, whatever state the session ended in: an artifact is    *)
(* retained only if the ones its message requires were retained before it, *)
(* so adaptor points are never held without refund templates, nor          *)
(* templates without validated funding.                                    *)
(***************************************************************************)
RetainedInOrder ==
  \A kind \in AgreementKinds :
    kind \in machine.retained
      => /\ RoleFlags \subseteq machine.retained
         /\ \A earlier \in AgreementKinds :
              Rank[LeadsTo[earlier]] < Rank[LeadsTo[kind]] => earlier \in machine.retained

(***************************************************************************)
(* The two acceptances vouch for two different earlier messages: a         *)
(* participant cannot complete the setup by acknowledging again what the   *)
(* other acknowledged.                                                     *)
(***************************************************************************)
AcceptancesDiffer ==
  machine.acceptedBy = Roles
    => \E i, j \in 1 .. Len(transcript) :
         /\ transcript[i].kind = "ack" /\ transcript[i].sender = "alice"
         /\ transcript[j].kind = "ack" /\ transcript[j].sender = "bob"
         /\ transcript[i].acknowledges < i
         /\ transcript[j].acknowledges < j
         /\ transcript[i].acknowledges # transcript[j].acknowledges

(***************************************************************************)
(* An accepted replay passes every check it reports, which is what the     *)
(* artifact verifier insists on: the checks are computed from the          *)
(* transition log after the fact, acceptance from the final state.         *)
(***************************************************************************)
AcceptedReplayPassesChecks ==
  ReplayAccepted
    => /\ RoleFlags \subseteq machine.retained
       /\ FundingValidatedBeforeTemplates
       /\ TemplatesAgreedBeforeAdaptorExchange
       /\ SetupAcceptedBeforeSettlement

(***************************************************************************)
(* The settlement branch's own test of the retained state can never be the *)
(* reason a settlement is refused: an attested session can always settle,  *)
(* and it can always fall back.                                            *)
(***************************************************************************)
AttestedCanSettle ==
  machine.state = "oracle_attested"
    => /\ PostSetupActionApplies(machine, "settlement_attempted")
       /\ PostSetupActionApplies(machine, "fallback_timeout_reached")

(***************************************************************************)
(* A session never moves to a state of a lower rank: an acknowledgement    *)
(* cannot take an attested session back to setup_accepted, and a second    *)
(* announcement cannot take it back to roles_announced.                    *)
(***************************************************************************)
NoRegress == [][Rank[machine.state] <= Rank[machine'.state]]_vars

(***************************************************************************)
(* A terminal session is final: the check the replay reports as the        *)
(* literal true.                                                           *)
(***************************************************************************)
TerminalIsFinal == [][machine.state \in TerminalStates => UNCHANGED machine]_vars

(***************************************************************************)
(* The replay implements the session contract.                             *)
(***************************************************************************)
SessionPhase ==
  CASE machine.state = "settled"         -> "settled"
    [] machine.state = "fallback_ready"  -> "fallback"
    [] machine.state = "aborted"         -> "aborted"
    [] machine.state = "oracle_attested" -> "attested"
    [] machine.state = "setup_accepted"  -> "accepted"
    [] OTHER -> IF AtLeast(machine.state, "funding_validated")
                  THEN "funded" ELSE "negotiating"

Session == INSTANCE SetupSession WITH phase <- SessionPhase,
                                      accepted <- machine.acceptedBy

(***************************************************************************)
(* Every step of a replay is a step of the session contract or leaves the  *)
(* session as it was.                                                      *)
(***************************************************************************)
SessionContract == Session!Spec

(***************************************************************************)
(* What the state machine's document says of role announcements: before an *)
(* oracle event is selected, Alice and Bob are bound to distinct public    *)
(* role material.                                                          *)
(***************************************************************************)
DistinctRoleMaterial ==
  AtLeast(machine.state, "oracle_selected") /\ machine.state \notin TerminalStates
    => \A i, j \in 1 .. Len(transcript) :
         /\ transcript[i].kind = "role_announcement"
         /\ transcript[j].kind = "role_announcement"
         /\ transcript[i].sender # transcript[j].sender
         => transcript[i].material # transcript[j].material

==============================================================================
