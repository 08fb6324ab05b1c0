------------------------ MODULE BilateralStateMachine ------------------------
(***************************************************************************)
(* The deterministic state machine of testnet/src/bilateral-state-machine  *)
(* .ts, as operators on its mutable state: whether a setup message or a    *)
(* post-setup action applies, and the state it leaves.  A handler that     *)
(* throws in the code is an "Applies" guard that is false here; nothing is *)
(* assigned before the last check of a handler, so a rejected input leaves *)
(* the state as it was.  A definition announced as a broken variant is not *)
(* part of the model: a property fails when it takes the place of the      *)
(* definition after it.                                                    *)
(***************************************************************************)
EXTENDS BilateralSetupSchema

(***************************************************************************)
(* stateRank: the order of the protocol states, terminal states last.      *)
(***************************************************************************)
Rank ==
  [initialized              |-> 0,
   roles_announced          |-> 1,
   oracle_selected          |-> 2,
   funding_validated        |-> 3,
   payout_graph_agreed      |-> 4,
   cet_templates_agreed     |-> 5,
   bridge_templates_agreed  |-> 6,
   refund_templates_agreed  |-> 7,
   adaptor_points_exchanged |-> 8,
   setup_accepted           |-> 9,
   oracle_attested          |-> 10,
   settled                  |-> 11,
   fallback_ready           |-> 12,
   aborted                  |-> 13]

States == DOMAIN Rank

TerminalStates == {"settled", "fallback_ready", "aborted"}

AtLeast(state, required) == Rank[state] >= Rank[required]

(***************************************************************************)
(* The one-shot agreement messages: the exact state each needs, the state  *)
(* it leads to and the least number of list entries it must carry.  Each   *)
(* sets the retained-state flag of its own name.                           *)
(***************************************************************************)
AgreementKinds == ListKinds \cup {"funding_inputs"}

\* Broken variant: CET templates are agreed without a payout graph.
RequiresWithoutGraph ==
  [oracle_event_selection |-> "roles_announced",
   funding_inputs         |-> "oracle_selected",
   payout_graph           |-> "funding_validated",
   cet_templates          |-> "funding_validated",
   bridge_templates       |-> "cet_templates_agreed",
   refund_templates       |-> "bridge_templates_agreed",
   adaptor_points         |-> "refund_templates_agreed"]

Requires ==
  [oracle_event_selection |-> "roles_announced",
   funding_inputs         |-> "oracle_selected",
   payout_graph           |-> "funding_validated",
   cet_templates          |-> "payout_graph_agreed",
   bridge_templates       |-> "cet_templates_agreed",
   refund_templates       |-> "bridge_templates_agreed",
   adaptor_points         |-> "refund_templates_agreed"]

LeadsTo ==
  [oracle_event_selection |-> "oracle_selected",
   funding_inputs         |-> "funding_validated",
   payout_graph           |-> "payout_graph_agreed",
   cet_templates          |-> "cet_templates_agreed",
   bridge_templates       |-> "bridge_templates_agreed",
   refund_templates       |-> "refund_templates_agreed",
   adaptor_points         |-> "adaptor_points_exchanged"]

MinEntries(kind) == IF kind = "oracle_event_selection" THEN 2 ELSE 1

RoleFlag(role) ==
  IF role = "alice" THEN "alice_role_announcement" ELSE "bob_role_announcement"

RoleFlags == {"alice_role_announcement", "bob_role_announcement"}

RetainedFlags == AgreementKinds \cup RoleFlags

MachineState ==
  [state: States, sessionIdHex: SessionIds, nextSequence: Nat,
   roleAnnouncements: SUBSET Roles, acceptedBy: SUBSET Roles,
   retained: SUBSET RetainedFlags]

InitialState(sessionIdHex) ==
  [state |-> "initialized", sessionIdHex |-> sessionIdHex, nextSequence |-> 1,
   roleAnnouncements |-> {}, acceptedBy |-> {}, retained |-> {}]

TemplateAgreementComplete(retained) ==
  {"funding_inputs", "payout_graph", "cet_templates", "bridge_templates",
   "refund_templates"} \subseteq retained

SettlementStateRetained(retained) ==
  TemplateAgreementComplete(retained) /\ "adaptor_points" \in retained

ValidFundingInputs(inputs) ==
  /\ \A input \in inputs : input.valueSat > 0
  /\ \A r \in Roles : \E input \in inputs : input.owner = r

-----------------------------------------------------------------------------
(***************************************************************************)
(* applySetupMessage: the three checks every message passes, then the      *)
(* branch of its kind.                                                     *)
(***************************************************************************)
\* Broken variant: a role may announce itself twice.
RepeatedAnnouncementApplies(s, m) ==
  m.kind = "role_announcement" /\ m.role = m.sender

RoleAnnouncementApplies(s, m) ==
  /\ m.kind = "role_announcement"
  /\ m.sender \notin s.roleAnnouncements
  /\ m.role = m.sender

AgreementApplies(s, m) ==
  /\ m.kind \in AgreementKinds
  /\ s.state = Requires[m.kind]
  /\ m.kind = "adaptor_points" => TemplateAgreementComplete(s.retained)
  /\ IF m.kind = "funding_inputs" THEN ValidFundingInputs(m.fundingInputs)
                                  ELSE m.entries >= MinEntries(m.kind)

\* Broken variant: acknowledged one step too early.
EarlyAcknowledgementApplies(s, m) ==
  /\ m.kind = "ack"
  /\ AtLeast(s.state, "refund_templates_agreed")

AcknowledgementApplies(s, m) ==
  /\ m.kind = "ack"
  /\ AtLeast(s.state, "adaptor_points_exchanged")

SetupMessageApplies(s, m) ==
  /\ s.state \notin TerminalStates
  /\ m.sessionIdHex = s.sessionIdHex
  /\ m.sequence = s.nextSequence
  /\ \/ RoleAnnouncementApplies(s, m)
     \/ AgreementApplies(s, m)
     \/ AcknowledgementApplies(s, m)

AfterRoleAnnouncement(s, m) ==
  LET announced == s.roleAnnouncements \cup {m.sender}
  IN  [s EXCEPT !.roleAnnouncements = announced,
                !.retained = @ \cup {RoleFlag(m.sender)},
                !.state = IF announced = Roles THEN "roles_announced" ELSE @,
                !.nextSequence = @ + 1]

\* Broken variant: the branch of the adaptor points forgets its flag.
AfterForgetfulAgreement(s, m) ==
  [s EXCEPT !.retained = @ \cup ({m.kind} \ {"adaptor_points"}),
            !.state = LeadsTo[m.kind],
            !.nextSequence = @ + 1]

AfterAgreement(s, m) ==
  [s EXCEPT !.retained = @ \cup {m.kind},
            !.state = LeadsTo[m.kind],
            !.nextSequence = @ + 1]

\* Broken variant: one acknowledgement is enough.
AfterAnyAcknowledgement(s, m) ==
  [s EXCEPT !.acceptedBy = @ \cup {m.sender},
            !.state = "setup_accepted",
            !.nextSequence = @ + 1]

AfterAcknowledgement(s, m) ==
  LET accepted == s.acceptedBy \cup {m.sender}
  IN  [s EXCEPT !.acceptedBy = accepted,
                !.state = IF accepted = Roles THEN "setup_accepted" ELSE @,
                !.nextSequence = @ + 1]

AfterSetupMessage(s, m) ==
  CASE m.kind = "role_announcement" -> AfterRoleAnnouncement(s, m)
    [] m.kind = "ack"               -> AfterAcknowledgement(s, m)
    [] OTHER                        -> AfterAgreement(s, m)

-----------------------------------------------------------------------------
(***************************************************************************)
(* applyPostSetupAction.                                                   *)
(***************************************************************************)
ActionKinds == {"oracle_attestation_published", "settlement_attempted",
                "fallback_timeout_reached", "abort_requested"}

\* Broken variant: an attestation may be published before both accepted.
EarlyAttestationApplies(s, kind) ==
  /\ s.state \notin TerminalStates
  /\ CASE kind = "oracle_attestation_published" -> AtLeast(s.state, "adaptor_points_exchanged")
       [] kind = "settlement_attempted" -> /\ s.state = "oracle_attested"
                                           /\ SettlementStateRetained(s.retained)
       [] kind = "fallback_timeout_reached" -> AtLeast(s.state, "funding_validated")
       [] kind = "abort_requested" -> TRUE

\* Broken variant: an action is taken in a terminal state.
ActionAppliesWhenTerminal(s, kind) ==
  CASE kind = "oracle_attestation_published" -> s.state = "setup_accepted"
    [] kind = "settlement_attempted" -> /\ s.state = "oracle_attested"
                                        /\ SettlementStateRetained(s.retained)
    [] kind = "fallback_timeout_reached" -> AtLeast(s.state, "funding_validated")
    [] kind = "abort_requested" -> TRUE

PostSetupActionApplies(s, kind) ==
  /\ s.state \notin TerminalStates
  /\ CASE kind = "oracle_attestation_published" -> s.state = "setup_accepted"
       [] kind = "settlement_attempted" -> /\ s.state = "oracle_attested"
                                           /\ SettlementStateRetained(s.retained)
       [] kind = "fallback_timeout_reached" -> AtLeast(s.state, "funding_validated")
       [] kind = "abort_requested" -> TRUE

\* Broken variant: the state takes the name of the action.
ActionLeadsToItsName ==
  [oracle_attestation_published |-> "oracle_attested",
   settlement_attempted         |-> "settled",
   fallback_timeout_reached     |-> "fallback_timeout_reached",
   abort_requested              |-> "aborted"]

ActionLeadsTo ==
  [oracle_attestation_published |-> "oracle_attested",
   settlement_attempted         |-> "settled",
   fallback_timeout_reached     |-> "fallback_ready",
   abort_requested              |-> "aborted"]

AfterPostSetupAction(s, kind) ==
  [s EXCEPT !.state = ActionLeadsTo[kind], !.nextSequence = @ + 1]

==============================================================================
