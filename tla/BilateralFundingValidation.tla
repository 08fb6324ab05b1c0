---------------------- MODULE BilateralFundingValidation ----------------------
(***************************************************************************)
(* validateBilateralFundingAgreement of testnet/src/                       *)
(* bilateral-funding-validation.ts: whether the funding inputs of a valid  *)
(* setup transcript can carry the contract.                                *)
(***************************************************************************)
EXTENDS BilateralSetupSchema, FiniteSets

CONSTANTS
  DustFloorSat,          \* conservativeTaprootDustFloorSat
  ParticipantFundingSat  \* canonicalAmounts.parentFundingValueSat

ASSUME AmountAssumption ==
  DustFloorSat \in Nat /\ ParticipantFundingSat \in Nat

MessagesOfKind(messages, kind) ==
  {i \in 1 .. Len(messages) : messages[i].kind = kind}

FirstOfKind(messages, kind) ==
  CHOOSE i \in MessagesOfKind(messages, kind) :
    \A j \in MessagesOfKind(messages, kind) : i <= j

FundingInputsOf(messages) ==
  messages[FirstOfKind(messages, "funding_inputs")].fundingInputs

(***************************************************************************)
(* The announcements of a role, and the material of the last of them.      *)
(***************************************************************************)
AnnouncementsOf(messages, role) ==
  {i \in MessagesOfKind(messages, "role_announcement") : messages[i].sender = role}

AnnouncedScript(messages, role) ==
  messages[CHOOSE i \in AnnouncementsOf(messages, role) :
             \A j \in AnnouncementsOf(messages, role) : j <= i].material

ScriptsMatchRoleAnnouncements(messages) ==
  \A input \in FundingInputsOf(messages) :
    /\ AnnouncementsOf(messages, input.owner) # {}
    /\ input.scriptPubKeyHex = AnnouncedScript(messages, input.owner)

(***************************************************************************)
(* The inputs are a set: the same input listed twice, which the code       *)
(* rejects here, is one input.                                             *)
(***************************************************************************)
OutpointsUnique(inputs) ==
  \A a, b \in inputs : a.outpoint = b.outpoint => a = b

FundingBeforeAdaptorExchange(messages) ==
  MessagesOfKind(messages, "adaptor_points") # {}
    => FirstOfKind(messages, "funding_inputs") < FirstOfKind(messages, "adaptor_points")

FundingAccepted(messages) ==
  /\ MessagesOfKind(messages, "funding_inputs") # {}
  /\ \A r \in Roles : /\ AnnouncementsOf(messages, r) # {}
                      /\ \E input \in FundingInputsOf(messages) : input.owner = r
  /\ ScriptsMatchRoleAnnouncements(messages)
  /\ OutpointsUnique(FundingInputsOf(messages))
  /\ \A input \in FundingInputsOf(messages) :
       input.valueSat >= DustFloorSat /\ input.valueSat >= ParticipantFundingSat
  /\ FundingBeforeAdaptorExchange(messages)

===============================================================================
