----------------------- MODULE BilateralReplay_proofs -----------------------
(***************************************************************************)
(* What TLAPS proves of the replay of the bilateral state machine, for     *)
(* every set of messages, every session and every bound.                   *)
(*                                                                         *)
(* The invariants of BilateralReplay are not inductive: why an accepted    *)
(* session retains everything is that every live state retains exactly the *)
(* artifacts of the states below it, that nobody is recorded as having     *)
(* acknowledged before all of them are there, and that setup messages are  *)
(* only read while no action has been taken.  Coherent and IInv say so.    *)
(***************************************************************************)
EXTENDS BilateralReplay, TLAPS

StoppedStates == {"fallback_ready", "aborted"}

Coherent(s) ==
  /\ \A r \in Roles : RoleFlag(r) \in s.retained <=> r \in s.roleAnnouncements
  /\ s.state \notin StoppedStates =>
       /\ s.state # "initialized" <=> s.roleAnnouncements = Roles
       /\ \A kind \in AgreementKinds :
            kind \in s.retained <=> Rank[LeadsTo[kind]] <= Rank[s.state]
  /\ \A kind \in AgreementKinds :
       kind \in s.retained =>
         /\ s.roleAnnouncements = Roles
         /\ \A earlier \in AgreementKinds :
              Rank[LeadsTo[earlier]] < Rank[LeadsTo[kind]] => earlier \in s.retained
  /\ s.acceptedBy # {} => "adaptor_points" \in s.retained
  /\ s.state \in AcceptedStates => s.acceptedBy = Roles
  /\ s.state = "adaptor_points_exchanged" => s.acceptedBy # Roles

IInv ==
  /\ TypeOK
  /\ Coherent(machine)
  /\ result = "reading" => Rank[machine.state] <= Rank["setup_accepted"]

-----------------------------------------------------------------------------
(***************************************************************************)
(* The tables of the state machine, evaluated.                             *)
(***************************************************************************)
LEMMA RankTable ==
  /\ Rank["initialized"] = 0
  /\ Rank["roles_announced"] = 1
  /\ Rank["oracle_selected"] = 2
  /\ Rank["funding_validated"] = 3
  /\ Rank["payout_graph_agreed"] = 4
  /\ Rank["cet_templates_agreed"] = 5
  /\ Rank["bridge_templates_agreed"] = 6
  /\ Rank["refund_templates_agreed"] = 7
  /\ Rank["adaptor_points_exchanged"] = 8
  /\ Rank["setup_accepted"] = 9
  /\ Rank["oracle_attested"] = 10
  /\ Rank["settled"] = 11
  /\ Rank["fallback_ready"] = 12
  /\ Rank["aborted"] = 13
BY DEF Rank

LEMMA StatesAre ==
  States = {"initialized", "roles_announced", "oracle_selected", "funding_validated",
            "payout_graph_agreed", "cet_templates_agreed", "bridge_templates_agreed",
            "refund_templates_agreed", "adaptor_points_exchanged", "setup_accepted",
            "oracle_attested", "settled", "fallback_ready", "aborted"}
BY DEF States, Rank

LEMMA LeadsToTable ==
  /\ LeadsTo["oracle_event_selection"] = "oracle_selected"
  /\ LeadsTo["funding_inputs"] = "funding_validated"
  /\ LeadsTo["payout_graph"] = "payout_graph_agreed"
  /\ LeadsTo["cet_templates"] = "cet_templates_agreed"
  /\ LeadsTo["bridge_templates"] = "bridge_templates_agreed"
  /\ LeadsTo["refund_templates"] = "refund_templates_agreed"
  /\ LeadsTo["adaptor_points"] = "adaptor_points_exchanged"
BY DEF LeadsTo

LEMMA RequiresTable ==
  /\ Requires["oracle_event_selection"] = "roles_announced"
  /\ Requires["funding_inputs"] = "oracle_selected"
  /\ Requires["payout_graph"] = "funding_validated"
  /\ Requires["cet_templates"] = "payout_graph_agreed"
  /\ Requires["bridge_templates"] = "cet_templates_agreed"
  /\ Requires["refund_templates"] = "bridge_templates_agreed"
  /\ Requires["adaptor_points"] = "refund_templates_agreed"
BY DEF Requires

LEMMA ActionLeadsToTable ==
  /\ ActionLeadsTo["oracle_attestation_published"] = "oracle_attested"
  /\ ActionLeadsTo["settlement_attempted"] = "settled"
  /\ ActionLeadsTo["fallback_timeout_reached"] = "fallback_ready"
  /\ ActionLeadsTo["abort_requested"] = "aborted"
BY DEF ActionLeadsTo

LEMMA KindsAre ==
  AgreementKinds = {"oracle_event_selection", "payout_graph", "cet_templates",
                    "bridge_templates", "refund_templates", "adaptor_points",
                    "funding_inputs"}
BY DEF AgreementKinds, ListKinds

(***************************************************************************)
(* An agreement kind leads exactly one rank above the state it requires.   *)
(***************************************************************************)
LEMMA OneRankUp ==
  ASSUME NEW kind \in AgreementKinds
  PROVE  /\ Requires[kind] \in States
         /\ LeadsTo[kind] \in States
         /\ Rank[Requires[kind]] \in 1 .. 7
         /\ Rank[LeadsTo[kind]] = Rank[Requires[kind]] + 1
         /\ Rank[LeadsTo[kind]] \in 2 .. 8
BY RankTable, LeadsToTable, RequiresTable, StatesAre, KindsAre

LEMMA RankInjective ==
  ASSUME NEW s \in States, NEW t \in States, Rank[s] = Rank[t]
  PROVE  s = t
BY RankTable, StatesAre

LEMMA LeadsToInjective ==
  ASSUME NEW k \in AgreementKinds, NEW l \in AgreementKinds,
         Rank[LeadsTo[k]] = Rank[LeadsTo[l]]
  PROVE  k = l
BY RankTable, LeadsToTable, KindsAre

-----------------------------------------------------------------------------
(***************************************************************************)
(* What the handlers preserve.                                             *)
(***************************************************************************)
LEMMA InitialCoherent ==
  ASSUME NEW sid \in SessionIds
  PROVE  InitialState(sid) \in MachineState /\ Coherent(InitialState(sid))
<1>1. InitialState(sid) \in MachineState
  BY StatesAre DEF InitialState, MachineState
<1>2. \A kind \in AgreementKinds : ~(Rank[LeadsTo[kind]] <= Rank["initialized"])
  BY OneRankUp, RankTable
<1>3. QED
  BY <1>1, <1>2 DEF Coherent, InitialState, Roles, AcceptedStates, StoppedStates

(***************************************************************************)
(* A role is announced only to a session that is still initialized and     *)
(* retains no agreement.                                                   *)
(***************************************************************************)
LEMMA AnnouncedWhenInitialized ==
  ASSUME NEW s \in MachineState, Coherent(s), s.state \notin TerminalStates,
         NEW m \in SetupMessage, RoleAnnouncementApplies(s, m)
  PROVE  /\ s.state = "initialized"
         /\ \A kind \in AgreementKinds : kind \notin s.retained
         /\ s.acceptedBy = {}
<1>1. m.sender \in Roles /\ m.sender \notin s.roleAnnouncements
  BY DEF RoleAnnouncementApplies, SetupMessage, RoleAnnouncementMessage, ListMessage,
         FundingInputsMessage, AcknowledgementMessage
<1>2. s.roleAnnouncements # Roles
  BY <1>1
<1>3. s.state = "initialized"
  BY <1>2 DEF Coherent, TerminalStates, StoppedStates
<1>4. \A kind \in AgreementKinds : kind \notin s.retained
  BY <1>2 DEF Coherent
<1>5. s.acceptedBy = {}
  BY <1>4, KindsAre DEF Coherent
<1>6. QED
  BY <1>3, <1>4, <1>5

LEMMA RoleAnnouncementCoherent ==
  ASSUME NEW s \in MachineState, Coherent(s), s.state \notin TerminalStates,
         NEW m \in SetupMessage, RoleAnnouncementApplies(s, m)
  PROVE  LET t == AfterRoleAnnouncement(s, m)
         IN  /\ t \in MachineState
             /\ Coherent(t)
             /\ t.state \in {"initialized", "roles_announced"}
             /\ t.acceptedBy = s.acceptedBy
<1> DEFINE t == AfterRoleAnnouncement(s, m)
           announced == s.roleAnnouncements \cup {m.sender}
<1>1. m.sender \in Roles
  BY DEF SetupMessage, RoleAnnouncementMessage, ListMessage, FundingInputsMessage,
         AcknowledgementMessage
<1>2. /\ s.state = "initialized"
      /\ \A kind \in AgreementKinds : kind \notin s.retained
      /\ s.acceptedBy = {}
  BY AnnouncedWhenInitialized
<1>3. /\ t.roleAnnouncements = announced
      /\ t.retained = s.retained \cup {RoleFlag(m.sender)}
      /\ t.state = IF announced = Roles THEN "roles_announced" ELSE s.state
      /\ t.acceptedBy = s.acceptedBy
      /\ t.sessionIdHex = s.sessionIdHex
      /\ t.nextSequence = s.nextSequence + 1
  BY DEF AfterRoleAnnouncement, MachineState
<1>4. RoleFlag(m.sender) \in RoleFlags
  BY DEF RoleFlag, RoleFlags
<1>5. t \in MachineState
  <2>1. /\ announced \in SUBSET Roles
        /\ s.retained \cup {RoleFlag(m.sender)} \in SUBSET RetainedFlags
        /\ s.nextSequence + 1 \in Nat
    BY <1>1, <1>4 DEF MachineState, RetainedFlags
  <2>2. t.state \in States
    BY <1>2, <1>3, StatesAre
  <2>3. QED
    BY <1>3, <2>1, <2>2 DEF AfterRoleAnnouncement, MachineState
<1>6. t.state \in {"initialized", "roles_announced"}
  BY <1>2, <1>3
<1>7. \A r \in Roles : RoleFlag(r) \in t.retained <=> r \in t.roleAnnouncements
  BY <1>1, <1>3 DEF Coherent, Roles, RoleFlag
<1>8. \A kind \in AgreementKinds : kind \notin t.retained
  BY <1>2, <1>3, <1>4, KindsAre DEF RoleFlags
<1>9. \A kind \in AgreementKinds : ~(Rank[LeadsTo[kind]] <= Rank[t.state])
  BY <1>6, OneRankUp, RankTable
<1>10. t.state # "initialized" <=> t.roleAnnouncements = Roles
  BY <1>2, <1>3
<1>11. t.acceptedBy = {}
  BY <1>2, <1>3
<1>12. Coherent(t)
  BY <1>6, <1>7, <1>8, <1>9, <1>10, <1>11 DEF Coherent, AcceptedStates
<1>13. QED
  BY <1>3, <1>5, <1>6, <1>12

LEMMA AgreementCoherent ==
  ASSUME NEW s \in MachineState, Coherent(s), s.state \notin TerminalStates,
         NEW m \in SetupMessage, AgreementApplies(s, m)
  PROVE  LET t == AfterAgreement(s, m)
         IN  /\ t \in MachineState
             /\ Coherent(t)
             /\ Rank[t.state] = Rank[s.state] + 1
             /\ Rank[t.state] \in 2 .. 8
             /\ t.acceptedBy = s.acceptedBy
<1> DEFINE t == AfterAgreement(s, m)
<1>1. m.kind \in AgreementKinds /\ s.state = Requires[m.kind]
  BY DEF AgreementApplies
<1>2. /\ t.roleAnnouncements = s.roleAnnouncements
      /\ t.retained = s.retained \cup {m.kind}
      /\ t.state = LeadsTo[m.kind]
      /\ t.acceptedBy = s.acceptedBy
  BY DEF AfterAgreement, MachineState
<1>3. /\ Rank[t.state] = Rank[s.state] + 1
      /\ Rank[t.state] \in 2 .. 8
      /\ Rank[s.state] \in 1 .. 7
      /\ t.state \in States
  BY <1>1, <1>2, OneRankUp
<1>4. t \in MachineState
  <2>1. s.retained \cup {m.kind} \in SUBSET RetainedFlags /\ s.nextSequence + 1 \in Nat
    BY <1>1 DEF MachineState, RetainedFlags
  <2>2. LeadsTo[m.kind] \in States
    BY <1>1, OneRankUp
  <2>3. QED
    BY <2>1, <2>2 DEF AfterAgreement, MachineState
<1>5. s.state \notin StoppedStates /\ s.state # "initialized"
  BY <1>3, RankTable DEF StoppedStates
<1>6. s.roleAnnouncements = Roles
  BY <1>5 DEF Coherent
<1>7. \A kind \in AgreementKinds : kind \in s.retained <=> Rank[LeadsTo[kind]] <= Rank[s.state]
  BY <1>5 DEF Coherent
<1>8. \A kind \in AgreementKinds : kind \in t.retained <=> Rank[LeadsTo[kind]] <= Rank[t.state]
  <2> TAKE kind \in AgreementKinds
  <2>1. CASE kind = m.kind
    BY <2>1, <1>2, <1>3
  <2>2. CASE kind # m.kind
    <3>1. Rank[LeadsTo[kind]] # Rank[LeadsTo[m.kind]]
      BY <2>2, <1>1, LeadsToInjective
    <3>2. Rank[LeadsTo[kind]] \in Nat
      BY OneRankUp
    <3>3. QED
      BY <2>2, <3>1, <3>2, <1>2, <1>3, <1>7
  <2>3. QED
    BY <2>1, <2>2
<1>9. \A r \in Roles : RoleFlag(r) \in t.retained <=> r \in t.roleAnnouncements
  BY <1>2, <1>1, KindsAre DEF Coherent, RoleFlag
<1>10. \A kind \in AgreementKinds :
         kind \in t.retained =>
           \A earlier \in AgreementKinds :
             Rank[LeadsTo[earlier]] < Rank[LeadsTo[kind]] => earlier \in t.retained
  BY <1>3, <1>8, OneRankUp
<1>11. s.acceptedBy = {}
  <2>1. Rank[LeadsTo["adaptor_points"]] = 8
    BY RankTable, LeadsToTable
  <2>2. "adaptor_points" \notin s.retained
    BY <2>1, <1>3, <1>7, KindsAre
  <2>3. QED
    BY <2>2 DEF Coherent
<1>12. t.state \notin AcceptedStates /\ t.state \notin StoppedStates /\ t.state # "initialized"
  BY <1>3, RankTable DEF AcceptedStates, StoppedStates
<1>13. Coherent(t)
  BY <1>2, <1>6, <1>8, <1>9, <1>10, <1>11, <1>12 DEF Coherent, Roles
<1>14. QED
  BY <1>2, <1>3, <1>4, <1>13

LEMMA AcknowledgementCoherent ==
  ASSUME NEW s \in MachineState, Coherent(s), Rank[s.state] <= Rank["setup_accepted"],
         NEW m \in SetupMessage, AcknowledgementApplies(s, m)
  PROVE  LET t == AfterAcknowledgement(s, m)
         IN  /\ t \in MachineState
             /\ Coherent(t)
             /\ s.state \in {"adaptor_points_exchanged", "setup_accepted"}
             /\ m.sender \in Roles
             /\ t.acceptedBy = s.acceptedBy \cup {m.sender}
             /\ t.state = IF t.acceptedBy = Roles THEN "setup_accepted" ELSE s.state
             /\ t.acceptedBy # Roles => s.state = "adaptor_points_exchanged"
<1> DEFINE t == AfterAcknowledgement(s, m)
<1>1. m.sender \in Roles
  BY DEF SetupMessage, RoleAnnouncementMessage, ListMessage, FundingInputsMessage,
         AcknowledgementMessage
<1>2. s.state \in {"adaptor_points_exchanged", "setup_accepted"}
  <2>1. s.state \in States /\ Rank[s.state] \in 8 .. 9
    BY RankTable, StatesAre DEF AcknowledgementApplies, AtLeast, MachineState
  <2>2. QED
    BY <2>1, RankTable, StatesAre
<1>3. /\ t.roleAnnouncements = s.roleAnnouncements
      /\ t.retained = s.retained
      /\ t.acceptedBy = s.acceptedBy \cup {m.sender}
      /\ t.state = IF t.acceptedBy = Roles THEN "setup_accepted" ELSE s.state
  BY DEF AfterAcknowledgement, MachineState
<1>4. t \in MachineState
  <2>1. s.acceptedBy \cup {m.sender} \in SUBSET Roles /\ s.nextSequence + 1 \in Nat
    BY <1>1 DEF MachineState
  <2>2. t.state \in States
    BY <1>3, StatesAre DEF MachineState
  <2>3. QED
    BY <1>3, <2>1, <2>2 DEF AfterAcknowledgement, MachineState
<1>5. t.acceptedBy # Roles => s.state = "adaptor_points_exchanged"
  BY <1>1, <1>2, <1>3 DEF Coherent, AcceptedStates, MachineState
<1>6. t.state \in {"adaptor_points_exchanged", "setup_accepted"}
  BY <1>2, <1>3
<1>7. \A kind \in AgreementKinds : Rank[LeadsTo[kind]] <= Rank[t.state] /\ Rank[LeadsTo[kind]] <= Rank[s.state]
  BY <1>2, <1>6, OneRankUp, RankTable
<1>8. s.state \notin StoppedStates /\ t.state \notin StoppedStates
  BY <1>2, <1>6 DEF StoppedStates
<1>9. /\ \A kind \in AgreementKinds : kind \in s.retained
      /\ s.roleAnnouncements = Roles
  BY <1>2, <1>7, <1>8 DEF Coherent
<1>10. "adaptor_points" \in t.retained
  BY <1>3, <1>9, KindsAre
<1>11. Coherent(t)
  BY <1>3, <1>5, <1>6, <1>7, <1>8, <1>9, <1>10 DEF Coherent, AcceptedStates
<1>12. QED
  BY <1>1, <1>2, <1>3, <1>4, <1>5, <1>11

LEMMA PostSetupActionCoherent ==
  ASSUME NEW s \in MachineState, Coherent(s),
         NEW kind \in ActionKinds, PostSetupActionApplies(s, kind)
  PROVE  LET t == AfterPostSetupAction(s, kind)
         IN  /\ t \in MachineState
             /\ Coherent(t)
             /\ Rank[s.state] < Rank[t.state]
             /\ t.acceptedBy = s.acceptedBy
             /\ t.state = ActionLeadsTo[kind]
<1> DEFINE t == AfterPostSetupAction(s, kind)
<1>1. /\ t.roleAnnouncements = s.roleAnnouncements
      /\ t.retained = s.retained
      /\ t.acceptedBy = s.acceptedBy
      /\ t.state = ActionLeadsTo[kind]
  BY DEF AfterPostSetupAction, MachineState
<1>2. t \in MachineState
  <2>1. ActionLeadsTo[kind] \in States
    BY StatesAre, ActionLeadsToTable DEF ActionKinds
  <2>2. s.nextSequence + 1 \in Nat
    BY DEF MachineState
  <2>3. QED
    BY <2>1, <2>2 DEF AfterPostSetupAction, MachineState
<1>3. s.state \in States /\ s.state \notin TerminalStates
  BY DEF PostSetupActionApplies, MachineState
<1>4. Rank[s.state] <= 10
  BY <1>3, StatesAre, RankTable DEF TerminalStates
<1>5. CASE kind \in {"fallback_timeout_reached", "abort_requested"}
  <2>1. t.state \in StoppedStates
    BY <1>1, <1>5, ActionLeadsToTable DEF StoppedStates
  <2>2. Rank[s.state] < Rank[t.state]
    BY <1>4, <2>1, <1>3, StatesAre, RankTable DEF StoppedStates
  <2>3. Coherent(t)
    BY <1>1, <2>1 DEF Coherent, StoppedStates, AcceptedStates
  <2>4. QED
    BY <1>1, <1>2, <2>2, <2>3
<1>6. CASE kind \in {"oracle_attestation_published", "settlement_attempted"}
  <2>1. \/ s.state = "setup_accepted" /\ t.state = "oracle_attested"
        \/ s.state = "oracle_attested" /\ t.state = "settled"
    BY <1>1, <1>6, ActionLeadsToTable DEF PostSetupActionApplies
  <2>2. Rank[s.state] < Rank[t.state] /\ Rank[s.state] \in 9 .. 10 /\ Rank[t.state] \in 10 .. 11
    BY <2>1, RankTable
  <2>3. \A k \in AgreementKinds : Rank[LeadsTo[k]] <= Rank[t.state] /\ Rank[LeadsTo[k]] <= Rank[s.state]
    BY <2>2, OneRankUp
  <2>4. s.state \notin StoppedStates /\ t.state \notin StoppedStates
    BY <2>1 DEF StoppedStates
  <2>5. /\ \A k \in AgreementKinds : k \in s.retained
        /\ s.roleAnnouncements = Roles
        /\ s.acceptedBy = Roles
    BY <2>1, <2>3, <2>4 DEF Coherent, AcceptedStates
  <2>6. Coherent(t)
    BY <1>1, <2>1, <2>3, <2>4, <2>5, KindsAre DEF Coherent, AcceptedStates
  <2>7. QED
    BY <1>1, <1>2, <2>2, <2>6
<1>7. QED
  BY <1>5, <1>6 DEF ActionKinds

(***************************************************************************)
(* Any setup message: what the three kinds of handler have in common.      *)
(***************************************************************************)
LEMMA SetupMessageCoherent ==
  ASSUME NEW s \in MachineState, Coherent(s), Rank[s.state] <= Rank["setup_accepted"],
         NEW m \in SetupMessage, SetupMessageApplies(s, m)
  PROVE  LET t == AfterSetupMessage(s, m)
         IN  /\ t \in MachineState
             /\ Coherent(t)
             /\ Rank[s.state] <= Rank[t.state]
             /\ Rank[t.state] <= Rank["setup_accepted"]
<1> DEFINE t == AfterSetupMessage(s, m)
<1>1. s.state \notin TerminalStates
  BY DEF SetupMessageApplies
<1>2. CASE RoleAnnouncementApplies(s, m)
  <2>1. t = AfterRoleAnnouncement(s, m)
    BY <1>2 DEF RoleAnnouncementApplies, AfterSetupMessage
  <2>2. s.state = "initialized"
    BY <1>1, <1>2, AnnouncedWhenInitialized
  <2>3. /\ t \in MachineState /\ Coherent(t)
        /\ t.state \in {"initialized", "roles_announced"}
    BY <1>1, <1>2, <2>1, RoleAnnouncementCoherent
  <2>4. QED
    BY <2>2, <2>3, RankTable
<1>3. CASE AgreementApplies(s, m)
  <2>1. t = AfterAgreement(s, m)
    BY <1>3, KindsAre DEF AgreementApplies, AfterSetupMessage
  <2>2. /\ t \in MachineState /\ Coherent(t)
        /\ Rank[t.state] = Rank[s.state] + 1
        /\ Rank[t.state] \in 2 .. 8
    BY <1>1, <1>3, <2>1, AgreementCoherent
  <2>3. Rank[s.state] \in Nat
    BY StatesAre, RankTable DEF MachineState
  <2>4. QED
    BY <2>2, <2>3, RankTable
<1>4. CASE AcknowledgementApplies(s, m)
  <2>1. t = AfterAcknowledgement(s, m)
    BY <1>4 DEF AcknowledgementApplies, AfterSetupMessage
  <2>2. /\ t \in MachineState /\ Coherent(t)
        /\ s.state \in {"adaptor_points_exchanged", "setup_accepted"}
        /\ t.state = IF t.acceptedBy = Roles THEN "setup_accepted" ELSE s.state
    BY <1>4, <2>1, AcknowledgementCoherent
  <2>3. QED
    BY <2>2, RankTable
<1>5. QED
  BY <1>2, <1>3, <1>4 DEF SetupMessageApplies

-----------------------------------------------------------------------------
LEMMA InitInvariant == Init => IInv
<1> SUFFICES ASSUME Init PROVE IInv
  OBVIOUS
<1>1. machine \in MachineState /\ Coherent(machine)
  BY InitialCoherent, SessionAssumption DEF Init
<1>2. machine.state = "initialized"
  BY DEF Init, InitialState
<1>3. TypeOK
  BY <1>1 DEF Init, TypeOK
<1>4. QED
  BY <1>1, <1>2, <1>3, RankTable DEF IInv

LEMMA ReadMessageInvariant ==
  ASSUME IInv, NEW m \in Messages, ReadMessage(m)
  PROVE  IInv' /\ Rank[machine.state] <= Rank[machine'.state]
<1>1. m \in SetupMessage
  BY MessagesAssumption
<1>2. /\ machine \in MachineState /\ Coherent(machine)
      /\ Rank[machine.state] <= Rank["setup_accepted"]
      /\ machine' = AfterSetupMessage(machine, m)
      /\ SetupMessageApplies(machine, m)
  BY DEF IInv, TypeOK, ReadMessage
<1>3. /\ machine' \in MachineState /\ Coherent(machine')
      /\ Rank[machine.state] <= Rank[machine'.state]
      /\ Rank[machine'.state] <= Rank["setup_accepted"]
  BY <1>1, <1>2, SetupMessageCoherent
<1>4. transcript' \in Seq(SetupMessage)
  BY <1>1 DEF IInv, TypeOK, ReadMessage
<1>5. m.kind \in InputKinds
  BY <1>1 DEF SetupMessage, RoleAnnouncementMessage, ListMessage, FundingInputsMessage,
              AcknowledgementMessage, InputKinds, AgreementKinds
<1>6. TransitionRecord(m.kind, machine') \in
        [sequence : Nat, inputKind : InputKinds, fromState : States,
         toState : States, retainedState : SUBSET RetainedFlags]
  BY <1>2, <1>3, <1>5 DEF TransitionRecord, MachineState
<1>7. TypeOK'
  BY <1>3, <1>4, <1>6 DEF IInv, TypeOK, ReadMessage
<1>8. QED
  BY <1>3, <1>7 DEF IInv

LEMMA TakeActionInvariant ==
  ASSUME IInv, NEW kind \in ActionKinds, TakeAction(kind)
  PROVE  IInv' /\ Rank[machine.state] <= Rank[machine'.state]
<1>1. /\ machine \in MachineState /\ Coherent(machine)
      /\ machine' = AfterPostSetupAction(machine, kind)
      /\ PostSetupActionApplies(machine, kind)
  BY DEF IInv, TypeOK, TakeAction
<1>2. /\ machine' \in MachineState /\ Coherent(machine')
      /\ Rank[machine.state] < Rank[machine'.state]
  BY <1>1, PostSetupActionCoherent
<1>3. TransitionRecord(kind, machine') \in
        [sequence : Nat, inputKind : InputKinds, fromState : States,
         toState : States, retainedState : SUBSET RetainedFlags]
  BY <1>1, <1>2 DEF TransitionRecord, MachineState, InputKinds
<1>4. TypeOK'
  BY <1>2, <1>3 DEF IInv, TypeOK, TakeAction
<1>5. Rank[machine.state] <= Rank[machine'.state]
  BY <1>1, <1>2, StatesAre, RankTable DEF MachineState
<1>6. result' # "reading"
  BY DEF TakeAction
<1>7. QED
  BY <1>2, <1>4, <1>5, <1>6 DEF IInv

(***************************************************************************)
(* The steps that leave the machine as it is.                              *)
(***************************************************************************)
Quiet ==
  /\ UNCHANGED <<machine, transcript, transitions>>
  /\ result' = result \/ result' \in Ended \/ result' = "acting"

LEMMA QuietInvariant ==
  ASSUME IInv, Quiet
  PROVE  IInv'
BY DEF IInv, TypeOK, Quiet, Coherent, Ended

LEMMA NextSteps ==
  ASSUME [Next]_vars
  PROVE  \/ \E m \in Messages : ReadMessage(m)
         \/ \E kind \in ActionKinds : TakeAction(kind)
         \/ Quiet
<1>1. CASE UNCHANGED vars
  BY <1>1 DEF vars, Quiet
<1>2. CASE Next
  BY <1>2 DEF Next, MeetInvalidMessage, RejectMessage, StartActions, RejectAction, Return,
              Quiet, Ended
<1>3. QED
  BY <1>1, <1>2

LEMMA StepInvariant ==
  ASSUME IInv, [Next]_vars
  PROVE  IInv' /\ Rank[machine.state] <= Rank[machine'.state]
<1>1. CASE \E m \in Messages : ReadMessage(m)
  BY <1>1, ReadMessageInvariant
<1>2. CASE \E kind \in ActionKinds : TakeAction(kind)
  BY <1>2, TakeActionInvariant
<1>3. CASE Quiet
  <2>1. Rank[machine.state] <= Rank[machine'.state]
    BY <1>3, StatesAre, RankTable DEF IInv, TypeOK, MachineState, Quiet
  <2>2. QED
    BY <1>3, <2>1, QuietInvariant
<1>4. QED
  BY <1>1, <1>2, <1>3, NextSteps

(***************************************************************************)
(* The strengthened invariant holds in every reachable state.              *)
(***************************************************************************)
THEOREM Invariant == Spec => []IInv
<1>1. Init => IInv
  BY InitInvariant
<1>2. IInv /\ [Next]_vars => IInv'
  BY StepInvariant
<1>3. QED
  BY <1>1, <1>2, PTL DEF Spec

-----------------------------------------------------------------------------
(***************************************************************************)
(* Type correctness of the replay.                                         *)
(***************************************************************************)
THEOREM TypeCorrect == Spec => []TypeOK
BY Invariant, PTL DEF IInv

(***************************************************************************)
(* An accepted, attested or settled session was acknowledged by both       *)
(* participants and retains every artifact.                                *)
(***************************************************************************)
THEOREM AcceptanceIsComplete == Spec => []AcceptedMeansComplete
<1>1. IInv => AcceptedMeansComplete
  <2> SUFFICES ASSUME IInv, machine.state \in AcceptedStates
               PROVE  machine.acceptedBy = Roles /\ machine.retained = RetainedFlags
    BY DEF AcceptedMeansComplete
  <2>1. machine \in MachineState /\ Coherent(machine)
    BY DEF IInv, TypeOK
  <2>2. machine.acceptedBy = Roles
    BY <2>1 DEF Coherent
  <2>3. machine.state \notin StoppedStates /\ machine.state # "initialized"
    BY DEF AcceptedStates, StoppedStates
  <2>4. Rank[machine.state] >= 9 /\ Rank[machine.state] \in Nat
    BY RankTable DEF AcceptedStates
  <2>5. \A kind \in AgreementKinds : Rank[LeadsTo[kind]] <= Rank[machine.state]
    BY <2>4, OneRankUp
  <2>6. \A kind \in AgreementKinds : kind \in machine.retained
    BY <2>1, <2>3, <2>5 DEF Coherent
  <2>7. RoleFlags \subseteq machine.retained
    BY <2>1, <2>3 DEF Coherent, RoleFlags, RoleFlag, Roles
  <2>8. machine.retained \subseteq RetainedFlags
    BY <2>1 DEF MachineState
  <2>9. QED
    BY <2>2, <2>6, <2>7, <2>8 DEF RetainedFlags
<1>2. QED
  BY <1>1, Invariant, PTL

(***************************************************************************)
(* The artifacts are retained in the order of the protocol, in every state *)
(* a session may end in.                                                   *)
(***************************************************************************)
THEOREM RetentionIsOrdered == Spec => []RetainedInOrder
<1>1. IInv => RetainedInOrder
  <2> SUFFICES ASSUME IInv, NEW kind \in AgreementKinds, kind \in machine.retained
               PROVE  /\ RoleFlags \subseteq machine.retained
                      /\ \A earlier \in AgreementKinds :
                           Rank[LeadsTo[earlier]] < Rank[LeadsTo[kind]]
                             => earlier \in machine.retained
    BY DEF RetainedInOrder
  <2>1. Coherent(machine)
    BY DEF IInv
  <2>2. machine.roleAnnouncements = Roles
    BY <2>1 DEF Coherent
  <2>3. RoleFlags \subseteq machine.retained
    BY <2>1, <2>2 DEF Coherent, RoleFlags, RoleFlag, Roles
  <2>4. QED
    BY <2>1, <2>3 DEF Coherent
<1>2. QED
  BY <1>1, Invariant, PTL

(***************************************************************************)
(* The settlement branch never refuses an attested session for want of     *)
(* retained state, and such a session can still fall back.                 *)
(***************************************************************************)
THEOREM AttestedSettles == Spec => []AttestedCanSettle
<1>1. AcceptedMeansComplete => AttestedCanSettle
  <2> SUFFICES ASSUME AcceptedMeansComplete, machine.state = "oracle_attested"
               PROVE  /\ PostSetupActionApplies(machine, "settlement_attempted")
                      /\ PostSetupActionApplies(machine, "fallback_timeout_reached")
    BY DEF AttestedCanSettle
  <2>1. machine.retained = RetainedFlags
    BY DEF AcceptedMeansComplete, AcceptedStates
  <2>2. SettlementStateRetained(machine.retained)
    BY <2>1, KindsAre DEF SettlementStateRetained, TemplateAgreementComplete, RetainedFlags
  <2>3. AtLeast(machine.state, "funding_validated")
    BY RankTable DEF AtLeast
  <2>4. machine.state \notin TerminalStates
    BY DEF TerminalStates
  <2>5. QED
    BY <2>2, <2>3, <2>4 DEF PostSetupActionApplies
<1>2. QED
  BY <1>1, AcceptanceIsComplete, PTL

(***************************************************************************)
(* No input takes a session back to a state of a lower rank.               *)
(***************************************************************************)
THEOREM StateNeverRegresses == Spec => NoRegress
<1>1. IInv /\ [Next]_vars => [Rank[machine.state] <= Rank[machine'.state]]_vars
  BY StepInvariant
<1>2. QED
  BY <1>1, Invariant, PTL DEF Spec, NoRegress

(***************************************************************************)
(* Once a session is settled, has fallen back or is aborted, no input      *)
(* changes anything the machine holds.                                     *)
(***************************************************************************)
THEOREM TerminalStatesAreFinal == Spec => TerminalIsFinal
<1>1. [Next]_vars => [machine.state \in TerminalStates => UNCHANGED machine]_vars
  <2> SUFFICES ASSUME [Next]_vars, machine.state \in TerminalStates
               PROVE  UNCHANGED machine
    OBVIOUS
  <2>1. ~ \E m \in Messages : ReadMessage(m)
    BY DEF ReadMessage, SetupMessageApplies
  <2>2. ~ \E kind \in ActionKinds : TakeAction(kind)
    BY DEF TakeAction, PostSetupActionApplies
  <2>3. QED
    BY <2>1, <2>2, NextSteps DEF Quiet
<1>2. QED
  BY <1>1, PTL DEF Spec, TerminalIsFinal

-----------------------------------------------------------------------------
(***************************************************************************)
(* What the transcript and the transition log say of the machine.  The     *)
(* acknowledgements of a transcript name earlier messages, each its own,   *)
(* and the machine counts only senders of them; a record is written with   *)
(* the state it leads to, so it has what the checks of the replay look     *)
(* for, and no state is reached without the record that led to it.         *)
(***************************************************************************)
IsAck(messages, i) == i \in 1 .. Len(messages) /\ messages[i].kind = "ack"

AcknowledgementsNameEarlier(messages) ==
  \A i \in 1 .. Len(messages) :
    IsAck(messages, i) => messages[i].acknowledges \in 1 .. i - 1

AcknowledgementsNameOwn(messages) ==
  \A i, j \in 1 .. Len(messages) :
    IsAck(messages, i) /\ IsAck(messages, j) /\ i # j
      => messages[i].acknowledges # messages[j].acknowledges

AcceptancesWereRead(accepted, messages) ==
  \A r \in accepted : \E i \in 1 .. Len(messages) :
    IsAck(messages, i) /\ messages[i].sender = r

RecordPassesChecks(record) ==
  /\ record.toState \in TemplateStates => "funding_inputs" \in record.retainedState
  /\ record.toState = "adaptor_points_exchanged"
       => TemplateAgreementComplete(record.retainedState)

Reached(state, log) == \E i \in 1 .. Len(log) : log[i].toState = state

LogInv ==
  /\ AcknowledgementsNameEarlier(transcript)
  /\ AcknowledgementsNameOwn(transcript)
  /\ AcceptancesWereRead(machine.acceptedBy, transcript)
  /\ \A i \in 1 .. Len(transitions) : RecordPassesChecks(transitions[i])
  /\ \A i \in 1 .. Len(transitions) :
       transitions[i].toState = "settled" => Reached("setup_accepted", transitions)
  /\ "funding_inputs" \in machine.retained => Reached("funding_validated", transitions)
  /\ machine.state \in AcceptedStates => Reached("setup_accepted", transitions)

(***************************************************************************)
(* A coherent machine passes the checks the log records of it.             *)
(***************************************************************************)
LEMMA CoherentPassesChecks ==
  ASSUME NEW s \in MachineState, Coherent(s)
  PROVE  /\ s.state \in TemplateStates => "funding_inputs" \in s.retained
         /\ s.state = "adaptor_points_exchanged" => TemplateAgreementComplete(s.retained)
<1>1. ASSUME s.state \in TemplateStates \cup {"adaptor_points_exchanged"},
             NEW kind \in AgreementKinds, Rank[LeadsTo[kind]] <= Rank[s.state]
      PROVE  kind \in s.retained
  BY <1>1 DEF Coherent, StoppedStates, TemplateStates
<1>2. "funding_inputs" \in AgreementKinds /\ Rank[LeadsTo["funding_inputs"]] = 3
  BY KindsAre, LeadsToTable, RankTable
<1>3. s.state \in TemplateStates => Rank[s.state] \in 5 .. 7
  BY RankTable DEF TemplateStates
<1>4. \A kind \in AgreementKinds : Rank[LeadsTo[kind]] \in 2 .. 8
  BY OneRankUp
<1>5. s.state = "adaptor_points_exchanged" => AgreementKinds \subseteq s.retained
  BY <1>1, <1>4, RankTable
<1>6. QED
  BY <1>1, <1>2, <1>3, <1>5, KindsAre DEF TemplateAgreementComplete

(***************************************************************************)
(* What a setup message can add: an acceptance only of the sender of an    *)
(* acknowledgement, funding only on entering funding_validated, and an     *)
(* accepted state only through setup_accepted.                             *)
(***************************************************************************)
LEMMA SetupMessageAdds ==
  ASSUME NEW s \in MachineState, NEW m \in SetupMessage, SetupMessageApplies(s, m),
         NEW t, t = AfterSetupMessage(s, m)
  PROVE  /\ t.acceptedBy = s.acceptedBy \/ (m.kind = "ack" /\ t.acceptedBy = s.acceptedBy \cup {m.sender})
         /\ "funding_inputs" \in t.retained
              => "funding_inputs" \in s.retained \/ t.state = "funding_validated"
         /\ t.state \in AcceptedStates => s.state \in AcceptedStates \/ t.state = "setup_accepted"
<1>1. CASE RoleAnnouncementApplies(s, m)
  BY <1>1 DEF RoleAnnouncementApplies, AfterSetupMessage, AfterRoleAnnouncement, MachineState,
              RoleFlag, AcceptedStates
<1>2. CASE AgreementApplies(s, m)
  <2>1. t = AfterAgreement(s, m) /\ m.kind \in AgreementKinds
    BY <1>2, KindsAre DEF AgreementApplies, AfterSetupMessage
  <2>2. LeadsTo[m.kind] \notin AcceptedStates
    BY <2>1, LeadsToTable, KindsAre DEF AcceptedStates
  <2>3. QED
    BY <2>1, <2>2, LeadsToTable DEF AfterAgreement, MachineState
<1>3. CASE AcknowledgementApplies(s, m)
  BY <1>3 DEF AcknowledgementApplies, AfterSetupMessage, AfterAcknowledgement, MachineState,
              AcceptedStates
<1>4. QED
  BY <1>1, <1>2, <1>3 DEF SetupMessageApplies

(***************************************************************************)
(* A message that continues a valid transcript keeps its acknowledgements  *)
(* in order and apart.                                                     *)
(***************************************************************************)
LEMMA ValidNextKeepsAcknowledgements ==
  ASSUME NEW messages \in Seq(SetupMessage), NEW m \in SetupMessage,
         ValidNext(SessionIdHex, messages, m),
         AcknowledgementsNameEarlier(messages), AcknowledgementsNameOwn(messages)
  PROVE  /\ AcknowledgementsNameEarlier(Append(messages, m))
         /\ AcknowledgementsNameOwn(Append(messages, m))
<1> DEFINE longer == Append(messages, m)
           n == Len(messages)
<1>1. /\ n \in Nat /\ Len(longer) = n + 1 /\ longer[n + 1] = m
      /\ \A i \in 1 .. n : longer[i] = messages[i]
  OBVIOUS
<1>2. \A i \in 1 .. n : IsAck(longer, i) => IsAck(messages, i)
  BY <1>1 DEF IsAck
<1>3. IsAck(longer, n + 1)
        => /\ m.acknowledges \in 1 .. n
           /\ \A i \in 1 .. n : IsAck(messages, i) => messages[i].acknowledges # m.acknowledges
  BY <1>1 DEF IsAck, ValidNext, Acknowledged
<1>4. AcknowledgementsNameEarlier(longer)
  BY <1>1, <1>2, <1>3 DEF AcknowledgementsNameEarlier
<1>5. AcknowledgementsNameOwn(longer)
  <2> SUFFICES ASSUME NEW i \in 1 .. n + 1, NEW j \in 1 .. n + 1,
                      IsAck(longer, i), IsAck(longer, j), i # j
               PROVE  longer[i].acknowledges # longer[j].acknowledges
    BY <1>1 DEF AcknowledgementsNameOwn
  <2>1. CASE i \in 1 .. n /\ j \in 1 .. n
    BY <2>1, <1>1, <1>2 DEF AcknowledgementsNameOwn
  <2>2. CASE i = n + 1 /\ j \in 1 .. n
    BY <2>2, <1>1, <1>2, <1>3
  <2>3. CASE i \in 1 .. n /\ j = n + 1
    BY <2>3, <1>1, <1>2, <1>3
  <2>4. QED
    BY <2>1, <2>2, <2>3, <1>1
<1>6. QED
  BY <1>4, <1>5

(***************************************************************************)
(* A record that is written keeps the log as the checks want it.           *)
(***************************************************************************)
LEMMA RecordKeepsLog ==
  ASSUME IInv, LogInv, IInv', NEW kind,
         transitions' = Append(transitions, TransitionRecord(kind, machine')),
         "funding_inputs" \in machine'.retained
           => "funding_inputs" \in machine.retained \/ machine'.state = "funding_validated",
         machine'.state \in AcceptedStates
           => machine.state \in AcceptedStates \/ machine'.state = "setup_accepted"
  PROVE  /\ \A i \in 1 .. Len(transitions') : RecordPassesChecks(transitions'[i])
         /\ \A i \in 1 .. Len(transitions') :
              transitions'[i].toState = "settled" => Reached("setup_accepted", transitions')
         /\ "funding_inputs" \in machine'.retained => Reached("funding_validated", transitions')
         /\ machine'.state \in AcceptedStates => Reached("setup_accepted", transitions')
<1> DEFINE n == Len(transitions)
<1>1. /\ n \in Nat /\ Len(transitions') = n + 1
      /\ transitions'[n + 1] = TransitionRecord(kind, machine')
      /\ \A i \in 1 .. n : transitions'[i] = transitions[i]
  BY DEF IInv, TypeOK
<1>2. /\ transitions'[n + 1].toState = machine'.state
      /\ transitions'[n + 1].retainedState = machine'.retained
  BY <1>1 DEF TransitionRecord
<1>3. machine' \in MachineState /\ Coherent(machine')
  BY DEF IInv, TypeOK
<1>4. RecordPassesChecks(transitions'[n + 1])
  BY <1>2, <1>3, CoherentPassesChecks DEF RecordPassesChecks
<1>5. \A i \in 1 .. n : RecordPassesChecks(transitions'[i])
  BY <1>1 DEF LogInv
<1>6. \A state : Reached(state, transitions) => Reached(state, transitions')
  BY <1>1 DEF Reached
<1>7. Reached(machine'.state, transitions')
  BY <1>1, <1>2 DEF Reached
<1>8. machine'.state \in AcceptedStates => Reached("setup_accepted", transitions')
  BY <1>6, <1>7 DEF LogInv
<1>9. "funding_inputs" \in machine'.retained => Reached("funding_validated", transitions')
  BY <1>6, <1>7 DEF LogInv
<1>10. ASSUME NEW i \in 1 .. n + 1, transitions'[i].toState = "settled"
       PROVE  Reached("setup_accepted", transitions')
  <2>1. CASE i \in 1 .. n
    BY <2>1, <1>10, <1>1, <1>6 DEF LogInv
  <2>2. CASE i = n + 1
    BY <2>2, <1>10, <1>2, <1>8 DEF AcceptedStates
  <2>3. QED
    BY <2>1, <2>2, <1>1
<1>11. \A i \in 1 .. n + 1 : RecordPassesChecks(transitions'[i])
  BY <1>1, <1>4, <1>5
<1>12. QED
  BY <1>1, <1>8, <1>9, <1>10, <1>11

LEMMA ReadMessageKeepsLog ==
  ASSUME IInv, LogInv, IInv', NEW m \in Messages, ReadMessage(m)
  PROVE  LogInv'
<1>1. /\ m \in SetupMessage /\ machine \in MachineState /\ transcript \in Seq(SetupMessage)
      /\ SetupMessageApplies(machine, m) /\ machine' = AfterSetupMessage(machine, m)
      /\ ValidNext(SessionIdHex, transcript, m) /\ transcript' = Append(transcript, m)
      /\ transitions' = Append(transitions, TransitionRecord(m.kind, machine'))
  BY MessagesAssumption DEF IInv, TypeOK, ReadMessage
<1>2. /\ \/ machine'.acceptedBy = machine.acceptedBy
         \/ m.kind = "ack" /\ machine'.acceptedBy = machine.acceptedBy \cup {m.sender}
      /\ "funding_inputs" \in machine'.retained
           => "funding_inputs" \in machine.retained \/ machine'.state = "funding_validated"
      /\ machine'.state \in AcceptedStates
           => machine.state \in AcceptedStates \/ machine'.state = "setup_accepted"
  BY <1>1, SetupMessageAdds
<1>3. AcknowledgementsNameEarlier(transcript') /\ AcknowledgementsNameOwn(transcript')
  BY <1>1, ValidNextKeepsAcknowledgements DEF LogInv
<1>4. AcceptancesWereRead(machine'.acceptedBy, transcript')
  <2>1. /\ Len(transcript) \in Nat /\ Len(transcript') = Len(transcript) + 1
        /\ transcript'[Len(transcript) + 1] = m
        /\ \A i \in 1 .. Len(transcript) : transcript'[i] = transcript[i]
    BY <1>1
  <2>2. AcceptancesWereRead(machine.acceptedBy, transcript')
    BY <2>1 DEF LogInv, AcceptancesWereRead, IsAck
  <2>3. m.kind = "ack" => AcceptancesWereRead({m.sender}, transcript')
    BY <2>1 DEF AcceptancesWereRead, IsAck
  <2>4. QED
    BY <1>2, <2>2, <2>3 DEF AcceptancesWereRead
<1>5. /\ \A i \in 1 .. Len(transitions') : RecordPassesChecks(transitions'[i])
      /\ \A i \in 1 .. Len(transitions') :
           transitions'[i].toState = "settled" => Reached("setup_accepted", transitions')
      /\ "funding_inputs" \in machine'.retained => Reached("funding_validated", transitions')
      /\ machine'.state \in AcceptedStates => Reached("setup_accepted", transitions')
  BY <1>1, <1>2, RecordKeepsLog
<1>6. QED
  BY <1>3, <1>4, <1>5 DEF LogInv

LEMMA TakeActionKeepsLog ==
  ASSUME IInv, LogInv, IInv', NEW kind \in ActionKinds, TakeAction(kind)
  PROVE  LogInv'
<1>1. /\ machine \in MachineState /\ PostSetupActionApplies(machine, kind)
      /\ machine' = AfterPostSetupAction(machine, kind)
      /\ transitions' = Append(transitions, TransitionRecord(kind, machine'))
      /\ transcript' = transcript
  BY DEF IInv, TypeOK, TakeAction
<1>2. /\ machine'.acceptedBy = machine.acceptedBy
      /\ machine'.retained = machine.retained
      /\ machine'.state = ActionLeadsTo[kind]
  BY <1>1 DEF AfterPostSetupAction, MachineState
<1>3. machine'.state \in AcceptedStates => machine.state \in AcceptedStates
  BY <1>1, <1>2, ActionLeadsToTable
     DEF PostSetupActionApplies, ActionKinds, AcceptedStates
<1>4. /\ \A i \in 1 .. Len(transitions') : RecordPassesChecks(transitions'[i])
      /\ \A i \in 1 .. Len(transitions') :
           transitions'[i].toState = "settled" => Reached("setup_accepted", transitions')
      /\ "funding_inputs" \in machine'.retained => Reached("funding_validated", transitions')
      /\ machine'.state \in AcceptedStates => Reached("setup_accepted", transitions')
  BY <1>1, <1>2, <1>3, RecordKeepsLog
<1>5. QED
  BY <1>1, <1>2, <1>4 DEF LogInv

(***************************************************************************)
(* The log says of the machine what LogInv claims, in every state.         *)
(***************************************************************************)
LEMMA LogInvariant == Spec => []LogInv
<1>1. Init => LogInv
  <2> SUFFICES ASSUME Init PROVE LogInv
    OBVIOUS
  <2>1. transcript = <<>> /\ transitions = <<>> /\ machine.acceptedBy = {}
        /\ machine.retained = {} /\ machine.state = "initialized"
    BY DEF Init, InitialState
  <2>2. QED
    BY <2>1 DEF LogInv, AcknowledgementsNameEarlier, AcknowledgementsNameOwn,
                AcceptancesWereRead, AcceptedStates
<1>2. IInv /\ IInv' /\ LogInv /\ [Next]_vars => LogInv'
  <2> SUFFICES ASSUME IInv, IInv', LogInv, [Next]_vars PROVE LogInv'
    OBVIOUS
  <2>1. CASE \E m \in Messages : ReadMessage(m)
    BY <2>1, ReadMessageKeepsLog
  <2>2. CASE \E kind \in ActionKinds : TakeAction(kind)
    BY <2>2, TakeActionKeepsLog
  <2>3. CASE Quiet
    BY <2>3 DEF Quiet, LogInv
  <2>4. QED
    BY <2>1, <2>2, <2>3, NextSteps
<1>3. QED
  BY <1>1, <1>2, Invariant, PTL DEF Spec

(***************************************************************************)
(* The acknowledgements that complete a setup vouch for two different      *)
(* earlier messages, one from each participant.                            *)
(***************************************************************************)
THEOREM AcceptancesVouchForTwo == Spec => []AcceptancesDiffer
<1>1. LogInv => AcceptancesDiffer
  <2> SUFFICES ASSUME LogInv, machine.acceptedBy = Roles
               PROVE  \E i, j \in 1 .. Len(transcript) :
                        /\ transcript[i].kind = "ack" /\ transcript[i].sender = "alice"
                        /\ transcript[j].kind = "ack" /\ transcript[j].sender = "bob"
                        /\ transcript[i].acknowledges < i
                        /\ transcript[j].acknowledges < j
                        /\ transcript[i].acknowledges # transcript[j].acknowledges
    BY DEF AcceptancesDiffer
  <2>1. PICK i \in 1 .. Len(transcript) : IsAck(transcript, i) /\ transcript[i].sender = "alice"
    BY DEF LogInv, AcceptancesWereRead, Roles
  <2>2. PICK j \in 1 .. Len(transcript) : IsAck(transcript, j) /\ transcript[j].sender = "bob"
    BY DEF LogInv, AcceptancesWereRead, Roles
  <2>3. i # j
    BY <2>1, <2>2
  <2>4. transcript[i].acknowledges # transcript[j].acknowledges
    BY <2>1, <2>2, <2>3 DEF LogInv, AcknowledgementsNameOwn
  <2>5. transcript[i].acknowledges \in 1 .. i - 1 /\ transcript[j].acknowledges \in 1 .. j - 1
    BY <2>1, <2>2 DEF LogInv, AcknowledgementsNameEarlier
  <2>6. QED
    BY <2>1, <2>2, <2>4, <2>5 DEF IsAck
<1>2. QED
  BY <1>1, LogInvariant, PTL

(***************************************************************************)
(* An accepted replay passes each check it reports of its own log.         *)
(***************************************************************************)
THEOREM AcceptedReplaysPassChecks == Spec => []AcceptedReplayPassesChecks
<1>1. AcceptedMeansComplete /\ LogInv => AcceptedReplayPassesChecks
  <2> SUFFICES ASSUME AcceptedMeansComplete, LogInv, ReplayAccepted
               PROVE  /\ RoleFlags \subseteq machine.retained
                      /\ FundingValidatedBeforeTemplates
                      /\ TemplatesAgreedBeforeAdaptorExchange
                      /\ SetupAcceptedBeforeSettlement
    BY DEF AcceptedReplayPassesChecks
  <2>1. machine.retained = RetainedFlags
    BY DEF AcceptedMeansComplete, ReplayAccepted
  <2>2. RoleFlags \subseteq machine.retained /\ "funding_inputs" \in machine.retained
    BY <2>1, KindsAre DEF RetainedFlags
  <2>3. FundingValidatedBeforeTemplates
    BY <2>2 DEF LogInv, Reached, RecordPassesChecks, FundingValidatedBeforeTemplates
  <2>4. TemplatesAgreedBeforeAdaptorExchange
    BY DEF LogInv, RecordPassesChecks, TemplatesAgreedBeforeAdaptorExchange
  <2>5. SetupAcceptedBeforeSettlement
    BY DEF LogInv, Reached, SetupAcceptedBeforeSettlement
  <2>6. QED
    BY <2>2, <2>3, <2>4, <2>5
<1>2. QED
  BY <1>1, AcceptanceIsComplete, LogInvariant, PTL

-----------------------------------------------------------------------------
(***************************************************************************)
(* The phase of a live session, by the rank of its state.                  *)
(***************************************************************************)
LEMMA PhaseByRank ==
  ASSUME machine \in MachineState
  PROVE  /\ Rank[machine.state] <= 2 => SessionPhase = "negotiating"
         /\ Rank[machine.state] \in 3 .. 8 => SessionPhase = "funded"
         /\ Rank[machine.state] = 9 <=> SessionPhase = "accepted"
         /\ Rank[machine.state] = 10 <=> SessionPhase = "attested"
         /\ Rank[machine.state] = 11 <=> SessionPhase = "settled"
         /\ Rank[machine.state] = 12 <=> SessionPhase = "fallback"
         /\ Rank[machine.state] = 13 <=> SessionPhase = "aborted"
BY StatesAre, RankTable DEF MachineState, SessionPhase, AtLeast

LEMMA MachineRank ==
  ASSUME machine \in MachineState
  PROVE  Rank[machine.state] \in 0 .. 13
BY StatesAre, RankTable DEF MachineState

(***************************************************************************)
(* A setup message funds the session, records an acceptance, or is no step *)
(* of the session at all.                                                  *)
(***************************************************************************)
LEMMA ReadMessageRefines ==
  ASSUME IInv, IInv', NEW m \in Messages, ReadMessage(m)
  PROVE  [Session!Next]_Session!vars
<1>1. /\ m \in SetupMessage
      /\ machine \in MachineState /\ Coherent(machine)
      /\ machine' \in MachineState
      /\ Rank[machine.state] <= Rank["setup_accepted"]
      /\ machine' = AfterSetupMessage(machine, m)
      /\ SetupMessageApplies(machine, m)
      /\ machine.state \notin TerminalStates
  BY MessagesAssumption DEF IInv, TypeOK, ReadMessage, SetupMessageApplies
<1>2. CASE RoleAnnouncementApplies(machine, m)
  <2>1. machine' = AfterRoleAnnouncement(machine, m)
    BY <1>1, <1>2 DEF RoleAnnouncementApplies, AfterSetupMessage
  <2>2. /\ machine.state = "initialized"
        /\ machine'.state \in {"initialized", "roles_announced"}
        /\ machine'.acceptedBy = machine.acceptedBy
    BY <1>1, <1>2, <2>1, AnnouncedWhenInitialized, RoleAnnouncementCoherent
  <2>3. SessionPhase = "negotiating" /\ SessionPhase' = "negotiating"
    BY <2>2, RankTable DEF SessionPhase, AtLeast
  <2>4. QED
    BY <2>2, <2>3 DEF Session!vars
<1>3. CASE AgreementApplies(machine, m)
  <2>1. machine' = AfterAgreement(machine, m)
    BY <1>1, <1>3, KindsAre DEF AgreementApplies, AfterSetupMessage
  <2>2. /\ Rank[machine'.state] = Rank[machine.state] + 1
        /\ Rank[machine'.state] \in 2 .. 8
        /\ machine'.acceptedBy = machine.acceptedBy
    BY <1>1, <1>3, <2>1, AgreementCoherent
  <2>3. /\ Rank[machine'.state] <= 2 => SessionPhase' = "negotiating"
        /\ Rank[machine'.state] \in 3 .. 8 => SessionPhase' = "funded"
    BY <1>1, StatesAre, RankTable DEF MachineState, SessionPhase, AtLeast
  <2>4. Rank[machine.state] \in 1 .. 7
    BY <1>1, <2>2, MachineRank
  <2>5. CASE Rank[machine'.state] = 3
    <3>1. SessionPhase = "negotiating" /\ SessionPhase' = "funded"
      BY <1>1, <2>2, <2>3, <2>4, <2>5, PhaseByRank
    <3>2. Session!Fund
      BY <2>2, <3>1 DEF Session!Fund
    <3>3. QED
      BY <3>2 DEF Session!Next
  <2>6. CASE Rank[machine'.state] # 3
    <3>1. SessionPhase' = SessionPhase
      BY <1>1, <2>2, <2>3, <2>4, <2>6, PhaseByRank
    <3>2. QED
      BY <2>2, <3>1 DEF Session!vars
  <2>7. QED
    BY <2>5, <2>6
<1>4. CASE AcknowledgementApplies(machine, m)
  <2>1. machine' = AfterAcknowledgement(machine, m)
    BY <1>1, <1>4 DEF AcknowledgementApplies, AfterSetupMessage
  <2>2. /\ machine.state \in {"adaptor_points_exchanged", "setup_accepted"}
        /\ m.sender \in Roles
        /\ machine'.acceptedBy = machine.acceptedBy \cup {m.sender}
        /\ machine'.state = IF machine'.acceptedBy = Roles THEN "setup_accepted"
                                                          ELSE machine.state
        /\ machine'.acceptedBy # Roles => machine.state = "adaptor_points_exchanged"
    BY <1>1, <1>4, <2>1, AcknowledgementCoherent
  <2>3. SessionPhase = IF machine.state = "setup_accepted" THEN "accepted" ELSE "funded"
    BY <2>2, RankTable DEF SessionPhase, AtLeast
  <2>4. SessionPhase' = IF machine'.state = "setup_accepted" THEN "accepted" ELSE "funded"
    BY <2>2, RankTable DEF SessionPhase, AtLeast
  <2>5. Session!Accept(m.sender)
    BY <2>2, <2>3, <2>4 DEF Session!Accept
  <2>6. QED
    BY <2>2, <2>5 DEF Session!Next
<1>5. QED
  BY <1>1, <1>2, <1>3, <1>4 DEF SetupMessageApplies

(***************************************************************************)
(* Each post-setup action is the session's action of that meaning.         *)
(***************************************************************************)
LEMMA TakeActionRefines ==
  ASSUME IInv, IInv', NEW kind \in ActionKinds, TakeAction(kind)
  PROVE  Session!Next
<1>1. /\ machine \in MachineState /\ Coherent(machine)
      /\ machine' = AfterPostSetupAction(machine, kind)
      /\ PostSetupActionApplies(machine, kind)
      /\ machine.state \in States \ TerminalStates
  BY DEF IInv, TypeOK, TakeAction, PostSetupActionApplies, MachineState
<1>2. machine'.acceptedBy = machine.acceptedBy /\ machine'.state = ActionLeadsTo[kind]
  BY <1>1, PostSetupActionCoherent
<1>3. CASE kind = "oracle_attestation_published"
  <2>1. machine.state = "setup_accepted" /\ machine'.state = "oracle_attested"
    BY <1>1, <1>2, <1>3, ActionLeadsToTable DEF PostSetupActionApplies
  <2>2. SessionPhase = "accepted" /\ SessionPhase' = "attested"
    BY <2>1 DEF SessionPhase
  <2>3. QED
    BY <1>2, <2>2 DEF Session!Next, Session!Attest
<1>4. CASE kind = "settlement_attempted"
  <2>1. machine.state = "oracle_attested" /\ machine'.state = "settled"
    BY <1>1, <1>2, <1>4, ActionLeadsToTable DEF PostSetupActionApplies
  <2>2. SessionPhase = "attested" /\ SessionPhase' = "settled"
    BY <2>1 DEF SessionPhase
  <2>3. QED
    BY <1>2, <2>2 DEF Session!Next, Session!Settle
<1>5. CASE kind = "fallback_timeout_reached"
  <2>1. AtLeast(machine.state, "funding_validated") /\ machine'.state = "fallback_ready"
    BY <1>1, <1>2, <1>5, ActionLeadsToTable DEF PostSetupActionApplies
  <2>2. SessionPhase \in {"funded", "accepted", "attested"}
    BY <1>1, <2>1 DEF SessionPhase, TerminalStates
  <2>3. SessionPhase' = "fallback"
    BY <2>1 DEF SessionPhase
  <2>4. QED
    BY <1>2, <2>2, <2>3 DEF Session!Next, Session!FallBack
<1>6. CASE kind = "abort_requested"
  <2>1. machine'.state = "aborted"
    BY <1>2, <1>6, ActionLeadsToTable
  <2>2. SessionPhase \notin Session!Over
    BY <1>1 DEF SessionPhase, TerminalStates, Session!Over
  <2>3. SessionPhase' = "aborted"
    BY <2>1 DEF SessionPhase
  <2>4. QED
    BY <1>2, <2>2, <2>3 DEF Session!Next, Session!Abort
<1>7. QED
  BY <1>3, <1>4, <1>5, <1>6 DEF ActionKinds

(***************************************************************************)
(* The replay implements the session contract.                             *)
(***************************************************************************)
THEOREM ReplayImplementsSession == Spec => SessionContract
<1>1. Init => Session!Init
  <2> SUFFICES ASSUME Init PROVE Session!Init
    OBVIOUS
  <2>1. machine.state = "initialized" /\ machine.acceptedBy = {}
    BY DEF Init, InitialState
  <2>2. SessionPhase = "negotiating"
    BY <2>1, RankTable DEF SessionPhase, AtLeast
  <2>3. QED
    BY <2>1, <2>2 DEF Session!Init
<1>2. IInv /\ IInv' /\ [Next]_vars => [Session!Next]_Session!vars
  <2> SUFFICES ASSUME IInv, IInv', [Next]_vars
               PROVE  [Session!Next]_Session!vars
    OBVIOUS
  <2>1. CASE \E m \in Messages : ReadMessage(m)
    BY <2>1, ReadMessageRefines
  <2>2. CASE \E kind \in ActionKinds : TakeAction(kind)
    BY <2>2, TakeActionRefines
  <2>3. CASE Quiet
    BY <2>3 DEF Quiet, Session!vars, SessionPhase
  <2>4. QED
    BY <2>1, <2>2, <2>3, NextSteps
<1>3. QED
  BY <1>1, <1>2, Invariant, PTL DEF Spec, SessionContract, Session!Spec

=============================================================================
