--------------------------- MODULE Lightning_proofs ---------------------------
(***************************************************************************)
(* What TLAPS proves of the hold invoice commands, for any outcomes,       *)
(* secrets and number of commands: the types, that reports are true, and   *)
(* that a payment is made only for its own attested outcome.               *)
(***************************************************************************)
EXTENDS Lightning, TLAPS

HashOf(p) == Sha256HexFromHex(AttestationSecret(p))

LEMMA HashesAreTyped ==
  /\ \A p \in Points : HashOf(p) \in Hashes
  /\ \A key \in {GivenKey} \cup FreshKeys, o \in Outcomes :
       /\ PrepareLightningOracleLock(key, o) \in Lock
       /\ AttestLightningOracle(key, o) \in Attestation
       /\ <<key, o>> \in Points
BY DEF HashOf, Hashes, Points, PrepareLightningOracleLock, AttestLightningOracle, Lock, Attestation

LEMMA InitTyped == Init => TypeOK
BY DEF Init, TypeOK, FilesOK, OracleOK, CallsOK, Call, NodesOK, InvoiceStates, Idle

(***************************************************************************)
(* Type correctness, action by action.                                     *)
(***************************************************************************)
LEMMA OracleTyped ==
  ASSUME TypeOK, OracleStep
  PROVE  TypeOK'
<1>1. ASSUME NEW key \in {GivenKey} \cup FreshKeys, NEW o \in Outcomes, NEW include \in BOOLEAN,
             OracleLock(key, o, include)
      PROVE  TypeOK'
  <2>1. FilesOK'
    BY <1>1, HashesAreTyped DEF OracleLock, TypeOK, FilesOK
  <2>2. OracleOK'
    BY <1>1 DEF OracleLock, TypeOK, OracleOK
  <2>3. CallsOK' /\ NodesOK'
    BY <1>1 DEF OracleLock, TypeOK, CallsOK, Call, NodesOK, nodes
  <2>4. QED
    BY <2>1, <2>2, <2>3 DEF TypeOK
<1>2. ASSUME NEW key \in {GivenKey} \cup FreshKeys, NEW o \in Outcomes, OracleAttest(key, o)
      PROVE  TypeOK'
  <2>1. FilesOK'
    BY <1>2, HashesAreTyped DEF OracleAttest, TypeOK, FilesOK
  <2>2. OracleOK'
    BY <1>2, HashesAreTyped DEF OracleAttest, TypeOK, OracleOK
  <2>3. CallsOK' /\ NodesOK'
    BY <1>2 DEF OracleAttest, TypeOK, CallsOK, Call, NodesOK, nodes
  <2>4. QED
    BY <2>1, <2>2, <2>3 DEF TypeOK
<1>3. QED
  BY <1>1, <1>2 DEF OracleStep

\* A command whose process has gone on, or ended, is typed as before.
LEMMA CallTyped ==
  ASSUME CallsOK, NEW c \in Commands, NEW next \in Call(c), call' = [call EXCEPT ![c] = next]
  PROVE  CallsOK'
<1>1. call' = [d \in Commands |-> IF d = c THEN next ELSE call[d]]
  BY DEF CallsOK
<1>2. \A d \in Commands : call'[d] \in Call(d)
  BY <1>1 DEF CallsOK
<1>3. (\A d \in Commands : call[d] \in Call(d))'
  BY <1>2 DEF Call, Idle, Input, Lock, Artifact, Attestation
<1>4. QED
  BY <1>1, <1>3 DEF CallsOK

LEMMA RunningTyped ==
  ASSUME CallsOK, NEW c \in Commands, call[c].stage \in Stages
  PROVE  /\ call[c] \in [stage : Stages, input : Input(c), answer : Answers]
         /\ \A stage \in Stages, answer \in Answers :
              /\ [call[c] EXCEPT !.stage = stage] \in Call(c)
              /\ [call[c] EXCEPT !.stage = stage, !.answer = answer] \in Call(c)
<1>1. call[c] \in [stage : Stages, input : Input(c), answer : Answers]
  BY DEF CallsOK, Call, Stages, Idle
<1>2. QED
  BY <1>1 DEF Call

LEMMA InputTyped ==
  ASSUME CallsOK, NEW c \in Commands, call[c].stage \in Stages
  PROVE  call[c].input \in Input(c)
BY RunningTyped

LEMMA IdleTyped == \A c \in Commands : Idle \in Call(c)
BY DEF Call

LEMMA InputsTyped ==
  /\ Commands = {"create", "pay", "settle", "cancel"}
  /\ Input("create") = Lock /\ Input("pay") = Artifact
  /\ Input("settle") = Attestation /\ Input("cancel") = Hashes
BY DEF Commands, Input

\* A request is made of what a file holds.
LEMMA SendTyped ==
  ASSUME TypeOK, NEW c \in Commands, NEW input \in Input(c), Send(c, input)
  PROVE  TypeOK'
<1>1. CallsOK'
  <2> DEFINE next == [stage |-> "sent", input |-> input, answer |-> Nothing]
  <2>1. next \in Call(c)
    BY DEF Call, Stages, Answers
  <2>2. QED
    BY <2>1, CallTyped DEF Send, TypeOK
<1>2. FilesOK' /\ OracleOK' /\ NodesOK'
  BY DEF Send, TypeOK, FilesOK, OracleOK, NodesOK, files, oracle, nodes
<1>3. QED
  BY <1>1, <1>2 DEF TypeOK

\* An answer comes to a process that waits for it, or to nobody.
LEMMA AnsweredTyped ==
  ASSUME CallsOK, NEW c \in Commands, NEW answer \in Answers, Pending(c), Answered(c, answer)
  PROVE  CallsOK'
<1> DEFINE next == IF call[c].stage = "sent"
                   THEN [call[c] EXCEPT !.stage = "answered", !.answer = answer] ELSE Idle
<1>1. next \in Call(c)
  BY RunningTyped, IdleTyped DEF Pending, Stages
<1>2. call' = [call EXCEPT ![c] = next]
  BY DEF Answered, CallsOK
<1>3. QED
  BY <1>1, <1>2, CallTyped

LEMMA NodesTyped ==
  ASSUME TypeOK, NEW h \in Hashes
  PROVE  /\ invoices[h].state \in InvoiceStates
         /\ \A state \in InvoiceStates : SetInvoice(h, state) /\ UNCHANGED payments => NodesOK'
         /\ \A state \in {"none", "in_flight", "succeeded", "failed"} :
              payments' = [payments EXCEPT ![h] = state] /\ UNCHANGED invoices => NodesOK'
BY DEF TypeOK, NodesOK, SetInvoice

LEMMA CommandTyped ==
  ASSUME TypeOK, CommandStep
  PROVE  TypeOK'
<1>1. CASE CreateHoldInvoice
  BY <1>1, SendTyped, InputsTyped DEF CreateHoldInvoice, TypeOK, FilesOK
<1>2. CASE PayInvoice
  BY <1>2, SendTyped, InputsTyped DEF PayInvoice, TypeOK, FilesOK
<1>3. CASE SettleInvoice
  BY <1>3, SendTyped, InputsTyped DEF SettleInvoice, TypeOK, FilesOK
<1>4. CASE CancelInvoice
  <2>1. PICK file \in {lockFile, invoiceFile} \ {Nothing} : Send("cancel", file.paymentHash)
    BY <1>4 DEF CancelInvoice
  <2>2. file.paymentHash \in Hashes
    BY DEF TypeOK, FilesOK, Lock, Artifact
  <2>3. QED
    BY <2>1, <2>2, SendTyped, InputsTyped
<1>5. ASSUME NEW c \in Commands, Abandon(c)
      PROVE  TypeOK'
  <2> DEFINE next == IF call[c].stage = "sent" THEN [call[c] EXCEPT !.stage = "abandoned"] ELSE Idle
  <2>1. next \in Call(c)
    BY <1>5, RunningTyped, IdleTyped DEF Abandon, Stages, TypeOK
  <2>2. call' = [call EXCEPT ![c] = next]
    BY <1>5 DEF Abandon, TypeOK, CallsOK
  <2>3. CallsOK'
    BY <2>1, <2>2, CallTyped DEF TypeOK
  <2>4. QED
    BY <1>5, <2>3 DEF Abandon, TypeOK, FilesOK, OracleOK, NodesOK, files, oracle, nodes
<1>6. CASE FinishCreate
  <2>1. CallsOK'
    BY <1>6, CallTyped, IdleTyped, InputsTyped DEF FinishCreate, TypeOK
  <2>2. call["create"].input \in Lock
    BY <1>6, InputTyped, InputsTyped DEF FinishCreate, TypeOK, Stages
  <2> DEFINE lock == call["create"].input
             answer == call["create"].answer
             report == Report("create", lock.paymentHash, lock.point, answer)
  <2>3. HasPaymentRequest(answer) => HoldInvoiceArtifact(lock, answer) \in Artifact
    BY <2>2 DEF HasPaymentRequest, HoldInvoiceArtifact, Lock, Artifact
  <2>4. report.of \in Commands /\ report.hash \in Hashes
    BY <2>2, InputsTyped DEF Report, Lock
  <2>5. FilesOK'
    <3>1. CASE invoiceFile' = HoldInvoiceArtifact(lock, answer) /\ HasPaymentRequest(answer)
               /\ reports' = reports \cup {report}
      <4> HIDE DEF report
      <4> QED
        BY <1>6, <2>3, <2>4, <3>1 DEF FinishCreate, TypeOK, FilesOK
    <3>2. CASE UNCHANGED <<invoiceFile, reports>>
      BY <1>6, <3>2 DEF FinishCreate, TypeOK, FilesOK
    <3>3. QED
      BY <1>6, <3>1, <3>2 DEF FinishCreate
  <2>6. QED
    BY <1>6, <2>1, <2>5 DEF FinishCreate, TypeOK, OracleOK, NodesOK, oracle, nodes
<1>7. ASSUME NEW c \in Commands, FinishReport(c)
      PROVE  TypeOK'
  <2>1. CallsOK'
    BY <1>7, CallTyped, IdleTyped DEF FinishReport, TypeOK
  <2>2. call[c].input \in Input(c) /\ c # "create"
    BY <1>7, InputTyped DEF FinishReport, TypeOK, Stages
  <2>3. ReportedHash(c, call[c].input) \in Hashes
    <3>1. c = "cancel" => call[c].input \in Hashes
      BY <2>2, InputsTyped
    <3>2. c \in {"pay", "settle"} => call[c].input \in Artifact \cup Attestation
      BY <2>2, InputsTyped
    <3>3. QED
      BY <2>2, <3>1, <3>2, InputsTyped DEF ReportedHash, Artifact, Attestation
  <2>4. FilesOK'
    BY <1>7, <2>3 DEF FinishReport, TypeOK, FilesOK, Report
  <2>5. QED
    BY <1>7, <2>1, <2>4 DEF FinishReport, TypeOK, OracleOK, NodesOK, oracle, nodes
<1>8. QED
  BY <1>1, <1>2, <1>3, <1>4, <1>5, <1>6, <1>7 DEF CommandStep

LEMMA NodeTyped ==
  ASSUME TypeOK, NodeStep
  PROVE  TypeOK'
<1>1. ASSUME UNCHANGED <<files, oracle>>, CallsOK', NodesOK'
      PROVE  TypeOK'
  BY <1>1 DEF TypeOK, FilesOK, OracleOK, files, oracle
<1>2. CallsOK /\ NodesOK
  BY DEF TypeOK
<1>3. UNCHANGED call => CallsOK'
  BY <1>2 DEF CallsOK, Call, Input, Lock, Artifact, Attestation
<1>4. UNCHANGED nodes => NodesOK'
  BY <1>2 DEF NodesOK, nodes
<1>5. CASE AddHoldInvoice
  <2>1. call["create"].input \in Lock
    BY <1>2, <1>5, RunningTyped, InputsTyped DEF AddHoldInvoice, Pending, Stages
  <2>2. CallsOK'
    BY <1>2, <1>5, AnsweredTyped, InputsTyped DEF AddHoldInvoice, Answers
  <2>3. NodesOK'
    BY <1>2, <1>5, <2>1 DEF AddHoldInvoice, NodesOK, Lock, InvoiceStates
  <2>4. QED
    BY <1>1, <1>5, <2>2, <2>3 DEF AddHoldInvoice
<1>6. CASE SendPaymentSync
  <2>1. call["pay"].input.paymentRequest \in Hashes
    <3>1. call["pay"].stage \in Stages
      BY <1>6 DEF SendPaymentSync, Pending, Stages
    <3>2. call["pay"].input \in Artifact
      BY <1>2, <3>1, InputTyped, InputsTyped
    <3>3. QED
      BY <3>2 DEF Artifact
  <2>2. CallsOK'
    <3> DEFINE next == IF call["pay"].stage = "sent"
                       THEN [call["pay"] EXCEPT !.stage = "waiting"] ELSE Idle
    <3>1. next \in Call("pay")
      BY <1>2, <1>6, RunningTyped, IdleTyped, InputsTyped DEF SendPaymentSync, Pending, Stages
    <3>2. "pay" \in Commands /\ "pay" \in DOMAIN call
      BY <1>2, InputsTyped DEF CallsOK
    <3>3. call' = [call EXCEPT !["pay"] = next] => CallsOK'
      <4> HIDE DEF next
      <4> QED
        BY <1>2, <3>1, <3>2, CallTyped
    <3>4. Answered("pay", "error") => CallsOK'
      BY <1>2, <1>6, <3>2, AnsweredTyped DEF SendPaymentSync, Answers
    <3>5. QED
      BY <1>6, <3>2, <3>3, <3>4 DEF SendPaymentSync
  <2>3. NodesOK'
    BY <1>2, <1>6, <2>1, NodesTyped DEF SendPaymentSync, NodesOK
  <2>4. QED
    BY <1>1, <1>6, <2>2, <2>3 DEF SendPaymentSync
<1>7. CASE PaymentIsOver
  <2> DEFINE h == call["pay"].input.paymentRequest
             next == [call["pay"] EXCEPT !.stage = "answered", !.answer = payments[h]]
  <2>1. "pay" \in Commands /\ "pay" \in DOMAIN call
    BY <1>2, InputsTyped DEF CallsOK
  <2>2. next \in Call("pay")
    BY <1>2, <1>7, <2>1, RunningTyped DEF PaymentIsOver, Stages, Answers
  <2>3. call' = [call EXCEPT !["pay"] = next]
    BY <1>7, <2>1 DEF PaymentIsOver
  <2>4. CallsOK'
    <3> HIDE DEF next
    <3> QED
      BY <1>2, <2>1, <2>2, <2>3, CallTyped
  <2>5. QED
    BY <1>1, <1>4, <1>7, <2>4 DEF PaymentIsOver
<1>8. CASE SettleHoldInvoice
  <2>1. Sha256HexFromHex(call["settle"].input.paymentPreimage) \in Hashes
    <3>1. call["settle"].input \in Attestation
      BY <1>2, <1>8, RunningTyped, InputsTyped DEF SettleHoldInvoice, Pending, Stages
    <3>2. QED
      BY <3>1 DEF Attestation, Hashes
  <2>2. CallsOK'
    BY <1>2, <1>8, AnsweredTyped, InputsTyped DEF SettleHoldInvoice, Answers
  <2>3. NodesOK'
    BY <1>4, <1>8, <2>1, NodesTyped DEF SettleHoldInvoice, InvoiceStates, nodes
  <2>4. QED
    BY <1>1, <1>8, <2>2, <2>3 DEF SettleHoldInvoice
<1>9. CASE CancelHoldInvoice
  <2>1. call["cancel"].input \in Hashes
    BY <1>2, <1>9, RunningTyped, InputsTyped DEF CancelHoldInvoice, Pending, Stages
  <2>2. CallsOK'
    BY <1>2, <1>9, AnsweredTyped, InputsTyped DEF CancelHoldInvoice, Answers
  <2>3. NodesOK'
    BY <1>4, <1>9, <2>1, NodesTyped DEF CancelHoldInvoice, InvoiceStates, nodes
  <2>4. QED
    BY <1>1, <1>9, <2>2, <2>3 DEF CancelHoldInvoice
<1>10. ASSUME NEW c \in Commands, RequestIsLost(c)
       PROVE  TypeOK'
  BY <1>1, <1>2, <1>4, <1>10, CallTyped, IdleTyped DEF RequestIsLost
<1>11. ASSUME NEW h \in Hashes,
              PaymentArrives(h) \/ PaymentFails(h) \/ PaymentSucceeds(h) \/ InvoiceExpires(h)
       PROVE  TypeOK'
  <2>1. CallsOK' /\ UNCHANGED <<files, oracle>>
    BY <1>3, <1>11 DEF PaymentArrives, PaymentFails, PaymentSucceeds, InvoiceExpires
  <2>2. NodesOK'
    BY <1>11, NodesTyped DEF PaymentArrives, PaymentFails, PaymentSucceeds, InvoiceExpires,
       InvoiceStates
  <2>3. QED
    BY <1>1, <2>1, <2>2
<1>12. QED
  BY <1>5, <1>6, <1>7, <1>8, <1>9, <1>10, <1>11 DEF NodeStep

LEMMA NextTyped ==
  ASSUME TypeOK, [Next]_vars
  PROVE  TypeOK'
<1>1. CASE UNCHANGED vars
  BY <1>1 DEF vars, files, oracle, nodes, TypeOK, FilesOK, OracleOK, CallsOK, Call, Input, Lock,
     Artifact, Attestation, NodesOK
<1>2. QED
  BY <1>1, OracleTyped, CommandTyped, NodeTyped DEF Next

\* The files and running commands are always what their readers accept; an
\* invoice file never lacks its payment request.
THEOREM TypeCorrect == Spec => []TypeOK
BY InitTyped, NextTyped, PTL DEF Spec

-------------------------------------------------------------------------------
(***************************************************************************)
(* What is true of the nodes lasts: an invoice keeps its memo, a settled   *)
(* or canceled one stays so, and so does a payment that succeeded.  What   *)
(* files and running commands hold is bound to it: a lock names the hash   *)
(* of its own secret, an attestation is of what was attested, and an       *)
(* answer says what the node did.                                          *)
(***************************************************************************)
Bound(lock) == lock.paymentHash = HashOf(lock.point)

Payable(artifact) == artifact.paymentRequest = artifact.paymentHash

Backed(attestation) ==
  \E p \in attested : /\ attestation.paymentPreimage = AttestationSecret(p)
                      /\ attestation.paymentHash = HashOf(p)

Created(lock) ==
  /\ invoices[lock.paymentHash].state # "none"
  /\ invoices[lock.paymentHash].memo = lock.point

Resolved(c) == call[c].stage = "answered" /\ call[c].answer # "error"

FilesBind ==
  /\ lockFile # Nothing => Bound(lockFile)
  /\ invoiceFile # Nothing => Payable(invoiceFile)
  /\ attestationFile # Nothing => Backed(attestationFile)

CreateBinds ==
  call["create"] # Idle =>
    /\ Bound(call["create"].input)
    /\ Resolved("create") => Created(call["create"].input)

PayBinds ==
  call["pay"] # Idle =>
    /\ Payable(call["pay"].input)
    /\ call["pay"].stage = "waiting" => payments[call["pay"].input.paymentRequest] # "none"
    /\ Resolved("pay") =>
         /\ call["pay"].answer \in {"succeeded", "failed"}
         /\ payments[call["pay"].input.paymentRequest] # "none"
         /\ call["pay"].answer = "succeeded"
              => payments[call["pay"].input.paymentRequest] = "succeeded"

SettleBinds ==
  call["settle"] # Idle =>
    /\ Backed(call["settle"].input)
    /\ Resolved("settle") => invoices[call["settle"].input.paymentHash].state = "settled"

CancelBinds ==
  call["cancel"] # Idle =>
    (Resolved("cancel") => invoices[call["cancel"].input].state = "canceled")

InvoicesBind ==
  \A h \in Hashes : invoices[h].state # "none" =>
    invoices[h].memo \in Points /\ h = HashOf(invoices[h].memo)

PaymentsFollow ==
  \A h \in Hashes : payments[h] = "succeeded" => invoices[h].state = "settled"

ReportHolds(r) == Holds(r) /\ (r.of = "create" => invoices[r.hash].state # "none")

ReportsHold == \A r \in reports : ReportHolds(r)

IInv ==
  /\ TypeOK
  /\ FilesBind
  /\ CreateBinds /\ PayBinds /\ SettleBinds /\ CancelBinds
  /\ InvoicesBind
  /\ PaymentsFollow
  /\ ReportsHold

Lasts ==
  /\ attested \subseteq attested'
  /\ \A h \in Hashes :
       /\ invoices[h].state # "none" => /\ invoices'[h].state # "none"
                                        /\ invoices'[h].memo = invoices[h].memo
       /\ invoices[h].state = "settled" => invoices'[h].state = "settled"
       /\ invoices[h].state = "canceled" => invoices'[h].state = "canceled"
       /\ payments[h] # "none" => payments'[h] # "none"
       /\ payments[h] = "succeeded" => payments'[h] = "succeeded"

LEMMA InitBinds == Init => IInv
BY InitTyped, InputsTyped DEF Init, IInv, FilesBind, CreateBinds, PayBinds, SettleBinds, CancelBinds,
   InvoicesBind, PaymentsFollow, ReportsHold

\* No step takes back what a node did.
LEMMA StepsLast ==
  ASSUME IInv, [Next]_vars
  PROVE  Lasts
<1>1. TypeOK /\ NodesOK
  BY DEF IInv, TypeOK
<1>2. UNCHANGED <<attested, nodes>> => Lasts
  BY DEF Lasts, nodes
<1>3. CASE UNCHANGED vars
  BY <1>2, <1>3 DEF vars, oracle
<1>4. CASE OracleStep
  BY <1>4 DEF OracleStep, OracleLock, OracleAttest, Lasts, nodes
<1>5. CASE CommandStep
  BY <1>2, <1>5 DEF CommandStep, CreateHoldInvoice, PayInvoice, SettleInvoice, CancelInvoice,
     Send, Abandon, FinishCreate, FinishReport, oracle, nodes
<1>6. CASE NodeStep
  <2>1. CASE AddHoldInvoice
    BY <1>1, <2>1 DEF AddHoldInvoice, Lasts, NodesOK, oracle
  <2>2. CASE SendPaymentSync
    BY <1>1, <2>2 DEF SendPaymentSync, Lasts, NodesOK, oracle
  <2>3. CASE PaymentIsOver \/ \E c \in Commands : RequestIsLost(c)
    BY <1>2, <2>3 DEF PaymentIsOver, RequestIsLost, oracle
  <2>4. CASE SettleHoldInvoice
    BY <1>1, <2>4 DEF SettleHoldInvoice, SetInvoice, Lasts, NodesOK, oracle
  <2>5. CASE CancelHoldInvoice
    BY <1>1, <2>5 DEF CancelHoldInvoice, SetInvoice, Lasts, NodesOK, oracle
  <2>6. ASSUME NEW h \in Hashes,
               PaymentArrives(h) \/ PaymentFails(h) \/ PaymentSucceeds(h) \/ InvoiceExpires(h)
        PROVE  Lasts
    BY <1>1, <2>6 DEF PaymentArrives, PaymentFails, PaymentSucceeds, InvoiceExpires, SetInvoice,
       Lasts, NodesOK, oracle
  <2>7. QED
    BY <1>6, <2>1, <2>2, <2>3, <2>4, <2>5, <2>6 DEF NodeStep
<1>7. QED
  BY <1>3, <1>4, <1>5, <1>6 DEF Next

(***************************************************************************)
(* What lasts keeps every fact about a process that took no step, ended,   *)
(* or lost its answer, and about every report.                             *)
(***************************************************************************)
Kept(c) ==
  \/ call'[c] = call[c]
  \/ call'[c] = Idle
  \/ /\ call[c] # Idle
     /\ call'[c].input = call[c].input
     /\ call'[c].stage = "abandoned"

LEMMA BackedLasts ==
  ASSUME Lasts, NEW a, Backed(a)
  PROVE  (\E p \in attested' : /\ a.paymentPreimage = AttestationSecret(p)
                               /\ a.paymentHash = HashOf(p))
BY DEF Backed, Lasts

LEMMA CreateKept == ASSUME IInv, Lasts, Kept("create") PROVE CreateBinds'
<1>1. CASE call'["create"] = call["create"]
  <2>1. ASSUME call["create"] # Idle
        PROVE  call["create"].input.paymentHash \in Hashes
    <3>1. call["create"].stage \in Stages
      BY <2>1, InputsTyped DEF IInv, TypeOK, CallsOK, Call
    <3>2. call["create"].input \in Lock
      BY <3>1, InputTyped, InputsTyped DEF IInv, TypeOK
    <3>3. QED
      BY <3>2 DEF Lock
  <2>2. QED
    BY <1>1, <2>1 DEF IInv, CreateBinds, Resolved, Created, Bound, Lasts
<1>2. CASE call'["create"] = Idle
  BY <1>2 DEF CreateBinds, Idle
<1>3. CASE /\ call["create"] # Idle
           /\ call'["create"].input = call["create"].input
           /\ call'["create"].stage = "abandoned"
  BY <1>3 DEF IInv, CreateBinds, Resolved, Bound
<1>4. QED
  BY <1>1, <1>2, <1>3 DEF Kept

LEMMA PayKept == ASSUME IInv, Lasts, Kept("pay") PROVE PayBinds'
<1>1. CASE call'["pay"] = call["pay"]
  <2>1. ASSUME call["pay"] # Idle
        PROVE  call["pay"].input.paymentRequest \in Hashes
    <3>1. call["pay"].stage \in Stages
      BY <2>1, InputsTyped DEF IInv, TypeOK, CallsOK, Call
    <3>2. call["pay"].input \in Artifact
      BY <3>1, InputTyped, InputsTyped DEF IInv, TypeOK
    <3>3. QED
      BY <3>2 DEF Artifact
  <2>2. QED
    BY <1>1, <2>1 DEF IInv, PayBinds, Resolved, Payable, Lasts
<1>2. CASE call'["pay"] = Idle
  BY <1>2 DEF PayBinds, Idle
<1>3. CASE /\ call["pay"] # Idle
           /\ call'["pay"].input = call["pay"].input
           /\ call'["pay"].stage = "abandoned"
  BY <1>3 DEF IInv, PayBinds, Resolved, Payable
<1>4. QED
  BY <1>1, <1>2, <1>3 DEF Kept

LEMMA SettleKept == ASSUME IInv, Lasts, Kept("settle") PROVE SettleBinds'
<1>1. CASE call'["settle"] = call["settle"]
  <2>1. ASSUME call["settle"] # Idle
        PROVE  call["settle"].input.paymentHash \in Hashes
    <3>1. call["settle"].stage \in Stages
      BY <2>1, InputsTyped DEF IInv, TypeOK, CallsOK, Call
    <3>2. call["settle"].input \in Attestation
      BY <3>1, InputTyped, InputsTyped DEF IInv, TypeOK
    <3>3. QED
      BY <3>2 DEF Attestation
  <2>2. QED
    BY <1>1, <2>1, BackedLasts DEF IInv, SettleBinds, Resolved, Backed, Lasts
<1>2. CASE call'["settle"] = Idle
  BY <1>2 DEF SettleBinds, Idle
<1>3. CASE /\ call["settle"] # Idle
           /\ call'["settle"].input = call["settle"].input
           /\ call'["settle"].stage = "abandoned"
  BY <1>3, BackedLasts DEF IInv, SettleBinds, Resolved, Backed
<1>4. QED
  BY <1>1, <1>2, <1>3 DEF Kept

LEMMA CancelKept == ASSUME IInv, Lasts, Kept("cancel") PROVE CancelBinds'
<1>1. CASE call'["cancel"] = call["cancel"]
  <2>1. ASSUME call["cancel"] # Idle
        PROVE  call["cancel"].input \in Hashes
    <3>1. call["cancel"].stage \in Stages
      BY <2>1, InputsTyped DEF IInv, TypeOK, CallsOK, Call
    <3>2. QED
      BY <3>1, InputTyped, InputsTyped DEF IInv, TypeOK
  <2>2. QED
    BY <1>1, <2>1 DEF IInv, CancelBinds, Resolved, Lasts
<1>2. CASE call'["cancel"] = Idle
  BY <1>2 DEF CancelBinds, Idle
<1>3. CASE /\ call["cancel"] # Idle
           /\ call'["cancel"].input = call["cancel"].input
           /\ call'["cancel"].stage = "abandoned"
  BY <1>3 DEF CancelBinds, Resolved
<1>4. QED
  BY <1>1, <1>2, <1>3 DEF Kept

LEMMA ReportLasts ==
  ASSUME Lasts, NEW r, r.hash \in Hashes, ReportHolds(r)
  PROVE  ReportHolds(r)'
BY DEF Lasts, ReportHolds, Holds

LEMMA ReportsKept ==
  ASSUME IInv, Lasts, \A r \in reports' : r \in reports \/ ReportHolds(r)'
  PROVE  ReportsHold'
BY ReportLasts DEF IInv, TypeOK, FilesOK, ReportsHold

LEMMA CallsKept ==
  ASSUME IInv, Lasts, NEW c,
         \A d \in Commands : d # c => Kept(d)
  PROVE  /\ c # "create" => CreateBinds'
         /\ c # "pay" => PayBinds'
         /\ c # "settle" => SettleBinds'
         /\ c # "cancel" => CancelBinds'
BY CreateKept, PayKept, SettleKept, CancelKept, InputsTyped

\* An action on one process leaves the others as they are.
LEMMA OthersKept ==
  ASSUME TypeOK, NEW c \in Commands, NEW next, call' = [call EXCEPT ![c] = next]
  PROVE  call'[c] = next /\ \A d \in Commands : d # c => Kept(d)
BY DEF TypeOK, CallsOK, Kept

(***************************************************************************)
(* The invariant, action by action: the parts an action cannot disturb     *)
(* follow from what lasts.                                                 *)
(***************************************************************************)
Rest == FilesBind /\ InvoicesBind /\ PaymentsFollow /\ ReportsHold

LEMMA RestKept ==
  ASSUME IInv, Lasts
  PROVE  /\ UNCHANGED <<lockFile, invoiceFile, attestationFile>> => FilesBind'
         /\ UNCHANGED invoices => InvoicesBind'
         /\ UNCHANGED nodes => PaymentsFollow'
<1>1. UNCHANGED <<lockFile, invoiceFile, attestationFile>> => FilesBind'
  BY BackedLasts DEF IInv, FilesBind, Bound, Payable, Backed
<1>2. UNCHANGED invoices => InvoicesBind'
  BY DEF IInv, InvoicesBind
<1>3. UNCHANGED nodes => PaymentsFollow'
  BY DEF IInv, PaymentsFollow, nodes
<1>4. QED
  BY <1>1, <1>2, <1>3

LEMMA AllCallsKept ==
  ASSUME IInv, Lasts, UNCHANGED call
  PROVE  CreateBinds' /\ PayBinds' /\ SettleBinds' /\ CancelBinds'
BY CreateKept, PayKept, SettleKept, CancelKept DEF Kept

LEMMA OracleBinds ==
  ASSUME IInv, Lasts, OracleStep
  PROVE  Rest' /\ CreateBinds' /\ PayBinds' /\ SettleBinds' /\ CancelBinds'
<1>1. UNCHANGED <<call, nodes, reports, invoiceFile>>
  BY DEF OracleStep, OracleLock, OracleAttest
<1>2. FilesBind'
  <2>1. ASSUME NEW key \in {GivenKey} \cup FreshKeys, NEW o \in Outcomes, NEW include \in BOOLEAN,
               OracleLock(key, o, include)
        PROVE  FilesBind'
    <3>1. Bound(lockFile')
      BY <2>1 DEF OracleLock, PrepareLightningOracleLock, Bound, HashOf
    <3>2. attestationFile # Nothing => Backed(attestationFile)'
      BY <2>1, BackedLasts DEF IInv, FilesBind, OracleLock, Backed
    <3>3. QED
      BY <1>1, <2>1, <3>1, <3>2 DEF IInv, FilesBind, OracleLock, Bound, Payable
  <2>2. ASSUME NEW key \in {GivenKey} \cup FreshKeys, NEW o \in Outcomes, OracleAttest(key, o)
        PROVE  FilesBind'
    <3>1. Backed(attestationFile)'
      BY <2>2 DEF OracleAttest, AttestLightningOracle, Backed, HashOf
    <3>2. QED
      BY <1>1, <2>2, <3>1 DEF IInv, FilesBind, OracleAttest, Bound, Payable
  <2>3. QED
    BY <2>1, <2>2 DEF OracleStep
<1>3. ReportsHold'
  BY <1>1, ReportsKept
<1>4. InvoicesBind' /\ PaymentsFollow'
  BY <1>1, RestKept DEF nodes
<1>5. CreateBinds' /\ PayBinds' /\ SettleBinds' /\ CancelBinds'
  BY <1>1, AllCallsKept
<1>6. QED
  BY <1>2, <1>3, <1>4, <1>5 DEF Rest

\* A process that starts has just read what its file holds.
LEMMA SendBinds ==
  ASSUME IInv, Lasts, NEW c \in Commands, NEW input, Send(c, input),
         c = "create" => Bound(input),
         c = "pay" => Payable(input),
         c = "settle" => Backed(input)
  PROVE  Rest' /\ CreateBinds' /\ PayBinds' /\ SettleBinds' /\ CancelBinds'
<1> DEFINE next == [stage |-> "sent", input |-> input, answer |-> Nothing]
<1>1. call'[c] = next /\ \A d \in Commands : d # c => Kept(d)
  BY OthersKept DEF Send, IInv
<1>2. Rest'
  <2>1. UNCHANGED <<lockFile, invoiceFile, attestationFile, reports, nodes, invoices>>
    BY DEF Send, files, nodes
  <2>2. QED
    BY <2>1, RestKept, ReportsKept DEF Rest
<1>3. c = "create" => CreateBinds'
  BY <1>1 DEF CreateBinds, Resolved, Bound
<1>4. c = "pay" => PayBinds'
  BY <1>1 DEF PayBinds, Resolved, Payable
<1>5. c = "settle" => SettleBinds'
  BY <1>1, BackedLasts DEF SettleBinds, Resolved, Backed
<1>6. c = "cancel" => CancelBinds'
  BY <1>1 DEF CancelBinds, Resolved
<1>7. QED
  BY <1>1, <1>2, <1>3, <1>4, <1>5, <1>6, CallsKept

LEMMA CommandBinds ==
  ASSUME IInv, Lasts, CommandStep
  PROVE  Rest' /\ CreateBinds' /\ PayBinds' /\ SettleBinds' /\ CancelBinds'
<1>1. CASE CreateHoldInvoice
  BY <1>1, SendBinds, InputsTyped DEF CreateHoldInvoice, IInv, FilesBind
<1>2. CASE PayInvoice
  BY <1>2, SendBinds, InputsTyped DEF PayInvoice, IInv, FilesBind
<1>3. CASE SettleInvoice
  BY <1>3, SendBinds, InputsTyped DEF SettleInvoice, IInv, FilesBind
<1>4. CASE CancelInvoice
  BY <1>4, SendBinds, InputsTyped DEF CancelInvoice
<1>5. ASSUME NEW c \in Commands, Abandon(c)
      PROVE  Rest' /\ CreateBinds' /\ PayBinds' /\ SettleBinds' /\ CancelBinds'
  <2>1. Rest'
    <3>1. UNCHANGED <<lockFile, invoiceFile, attestationFile, reports, nodes, invoices>>
      BY <1>5 DEF Abandon, files, nodes
    <3>2. QED
      BY <3>1, RestKept, ReportsKept DEF Rest
  <2>2. \A d \in Commands : Kept(d)
    <3> DEFINE next == IF call[c].stage = "sent" THEN [call[c] EXCEPT !.stage = "abandoned"]
                       ELSE Idle
    <3>1. call' = [call EXCEPT ![c] = next]
      BY <1>5 DEF Abandon, IInv, TypeOK, CallsOK
    <3>2. call'[c] = next /\ \A d \in Commands : d # c => Kept(d)
      <4> HIDE DEF next
      <4> QED
        BY <3>1, OthersKept DEF IInv
    <3>3. call[c].stage \in Stages
      BY <1>5 DEF Abandon, Stages
    <3>4. call[c] # Idle
      BY <3>3 DEF Stages, Idle
    <3>5. Kept(c)
      <4>1. call[c] \in [stage : Stages, input : Input(c), answer : Answers]
        BY <3>3, RunningTyped DEF IInv, TypeOK
      <4>2. QED
        BY <3>2, <3>4, <4>1 DEF Kept
    <3>6. QED
      BY <3>2, <3>5
  <2>3. QED
    BY <2>1, <2>2, CreateKept, PayKept, SettleKept, CancelKept, InputsTyped
<1>6. CASE FinishCreate
  <2> DEFINE lock == call["create"].input
             answer == call["create"].answer
             report == Report("create", lock.paymentHash, lock.point, answer)
  <2>1. CreateBinds' /\ PayBinds' /\ SettleBinds' /\ CancelBinds'
    <3>1. call'["create"] = Idle /\ \A d \in Commands : d # "create" => Kept(d)
      BY <1>6, OthersKept, InputsTyped DEF FinishCreate, IInv
    <3>2. QED
      BY <3>1, CreateKept, PayKept, SettleKept, CancelKept, InputsTyped DEF Kept
  <2>2. InvoicesBind' /\ PaymentsFollow' /\ UNCHANGED <<lockFile, attestationFile, invoices>>
    BY <1>6, RestKept DEF FinishCreate, nodes
  <2>3. CASE /\ HasPaymentRequest(answer)
             /\ invoiceFile' = HoldInvoiceArtifact(lock, answer)
             /\ reports' = reports \cup {report}
    <3>1. Payable(invoiceFile')
      BY <2>3 DEF HasPaymentRequest, HoldInvoiceArtifact, Payable
    <3>2. FilesBind'
      BY <2>2, <3>1, BackedLasts DEF IInv, FilesBind, Bound, Payable, Backed
    <3>3. call["create"] # Idle /\ Resolved("create")
      BY <1>6, <2>3 DEF FinishCreate, HasPaymentRequest, Resolved, Idle
    <3>4. Created(lock)
      BY <3>3 DEF IInv, CreateBinds
    <3>5. \A r : r = report => ReportHolds(r)'
      BY <2>2, <3>4 DEF Created, ReportHolds, Holds, Report
    <3>6. ReportsHold'
      <4> HIDE DEF report
      <4> QED
        BY <2>3, <3>5, ReportsKept
    <3>7. QED
      BY <2>1, <2>2, <3>2, <3>6 DEF Rest
  <2>4. CASE UNCHANGED <<invoiceFile, reports>>
    BY <2>1, <2>2, <2>4, RestKept, ReportsKept DEF Rest
  <2>5. QED
    BY <1>6, <2>3, <2>4 DEF FinishCreate
<1>7. ASSUME NEW c \in Commands, FinishReport(c)
      PROVE  Rest' /\ CreateBinds' /\ PayBinds' /\ SettleBinds' /\ CancelBinds'
  <2> DEFINE report == Report(c, ReportedHash(c, call[c].input), Nothing, call[c].answer)
  <2>1. CreateBinds' /\ PayBinds' /\ SettleBinds' /\ CancelBinds'
    <3>1. call'[c] = Idle /\ \A d \in Commands : d # c => Kept(d)
      BY <1>7, OthersKept DEF FinishReport, IInv
    <3>2. \A d \in Commands : Kept(d)
      BY <3>1 DEF Kept
    <3>3. QED
      BY <3>2, CreateKept, PayKept, SettleKept, CancelKept, InputsTyped
  <2>2. FilesBind' /\ InvoicesBind' /\ PaymentsFollow' /\ UNCHANGED <<nodes, invoices, payments>>
    BY <1>7, RestKept DEF FinishReport, nodes
  <2>3. CASE LndRequestResolves(call[c].answer) /\ reports' = reports \cup {report}
    <3>1. call[c] # Idle /\ Resolved(c) /\ c # "create"
      BY <1>7, <2>3 DEF FinishReport, LndRequestResolves, Resolved, Idle
    <3>2. c = "pay" => \A r : r = report => ReportHolds(r)'
      <4> SUFFICES ASSUME c = "pay" PROVE \A r : r = report => ReportHolds(r)'
        OBVIOUS
      <4>1. call["pay"].input.paymentRequest \in Hashes
        <5>1. call["pay"].stage \in Stages
          BY <3>1 DEF Resolved, Stages
        <5>2. call["pay"].input \in Artifact
          BY <5>1, InputTyped, InputsTyped DEF IInv, TypeOK
        <5>3. QED
          BY <5>2 DEF Artifact
      <4>2. PayBinds /\ PaymentsFollow
        BY DEF IInv
      <4>3. /\ call["pay"].input.paymentRequest = call["pay"].input.paymentHash
            /\ call["pay"].answer \in {"succeeded", "failed"}
            /\ payments[call["pay"].input.paymentHash] # "none"
            /\ call["pay"].answer = "succeeded"
                 => /\ payments[call["pay"].input.paymentHash] = "succeeded"
                    /\ invoices[call["pay"].input.paymentHash].state = "settled"
        BY <3>1, <4>1, <4>2 DEF PayBinds, Payable, PaymentsFollow
      <4>4. QED
        BY <2>2, <4>3 DEF ReportHolds, Holds, Report, ReportedHash
    <3>3. c = "settle" => \A r : r = report => ReportHolds(r)'
      BY <2>2, <3>1 DEF IInv, SettleBinds, ReportHolds, Holds, Report, ReportedHash
    <3>4. c = "cancel" => \A r : r = report => ReportHolds(r)'
      BY <2>2, <3>1 DEF IInv, CancelBinds, ReportHolds, Holds, Report, ReportedHash
    <3>5. ReportsHold'
      <4> HIDE DEF report
      <4> QED
        BY <2>3, <3>1, <3>2, <3>3, <3>4, ReportsKept, InputsTyped
    <3>6. QED
      BY <2>1, <2>2, <3>5 DEF Rest
  <2>4. CASE UNCHANGED reports
    BY <2>1, <2>2, <2>4, ReportsKept DEF Rest
  <2>5. QED
    BY <1>7, <2>3, <2>4 DEF FinishReport
<1>8. QED
  BY <1>1, <1>2, <1>3, <1>4, <1>5, <1>6, <1>7 DEF CommandStep

\* What an answer says of the call it is given to.
LEMMA AnswerGiven ==
  ASSUME TypeOK, NEW c \in Commands, NEW answer \in Answers, Pending(c), Answered(c, answer)
  PROVE  /\ call[c] # Idle
         /\ \/ call'[c] = Idle
            \/ /\ call'[c].stage = "answered" /\ call'[c].answer = answer
               /\ call'[c].input = call[c].input
         /\ \A d \in Commands : d # c => Kept(d)
<1> DEFINE next == IF call[c].stage = "sent"
                   THEN [call[c] EXCEPT !.stage = "answered", !.answer = answer] ELSE Idle
<1>1. call[c].stage \in Stages
  BY DEF Pending, Stages
<1>2. call[c] # Idle
  BY <1>1 DEF Stages, Idle
<1>3. call' = [call EXCEPT ![c] = next]
  BY DEF Answered, TypeOK, CallsOK
<1>4. call'[c] = next /\ \A d \in Commands : d # c => Kept(d)
  <2> HIDE DEF next
  <2> QED
    BY <1>3, OthersKept
<1>5. call[c] \in [stage : Stages, input : Input(c), answer : Answers]
  BY <1>1, RunningTyped DEF TypeOK
<1>6. QED
  BY <1>2, <1>4, <1>5

LEMMA NodeBinds ==
  ASSUME IInv, Lasts, NodeStep
  PROVE  Rest' /\ CreateBinds' /\ PayBinds' /\ SettleBinds' /\ CancelBinds'
<1>1. /\ TypeOK /\ CallsOK /\ NodesOK
      /\ CreateBinds /\ PayBinds /\ SettleBinds /\ CancelBinds
      /\ InvoicesBind /\ PaymentsFollow
  BY DEF IInv, TypeOK
<1>2. UNCHANGED files /\ FilesBind' /\ ReportsHold'
  <2>1. UNCHANGED files
    BY DEF NodeStep, AddHoldInvoice, SendPaymentSync, PaymentIsOver, SettleHoldInvoice,
       CancelHoldInvoice, RequestIsLost, PaymentArrives, PaymentFails, PaymentSucceeds,
       InvoiceExpires
  <2>2. QED
    BY <2>1, RestKept, ReportsKept DEF files
<1>3. \A c \in Commands : call[c].stage \in Stages => call[c].input \in Input(c)
  BY <1>1, InputTyped
<1>4. CASE AddHoldInvoice
  <2>1. Pending("create") /\ call["create"].stage \in Stages
    BY <1>4 DEF AddHoldInvoice, Pending, Stages
  <2>2. PICK lock \in Lock : lock = call["create"].input
    BY <1>3, <2>1, InputsTyped
  <2>3. lock.paymentHash \in Hashes /\ lock.point \in Points
    BY <2>2 DEF Lock
  <2>4. call["create"] # Idle /\ Bound(lock)
    BY <1>1, <2>1, <2>2 DEF CreateBinds, Stages, Idle
  <2>5. CASE /\ invoices[lock.paymentHash].state = "none"
             /\ invoices' = [invoices EXCEPT ![lock.paymentHash] =
                               [state |-> "open", memo |-> lock.point]]
             /\ \E answer \in {"ok", "unreadable"} : Answered("create", answer)
    <3>1. PICK answer \in {"ok", "unreadable"} : Answered("create", answer)
      BY <2>5
    <3>2. /\ call'["create"] = Idle \/ call'["create"].input = lock
          /\ \A d \in Commands : d # "create" => Kept(d)
      BY <1>1, <2>1, <2>2, <3>1, AnswerGiven, InputsTyped DEF Answers
    <3>3. /\ invoices'[lock.paymentHash] = [state |-> "open", memo |-> lock.point]
          /\ \A h \in Hashes : h # lock.paymentHash => invoices'[h] = invoices[h]
      BY <1>1, <2>3, <2>5 DEF NodesOK
    <3>4. CreateBinds'
      BY <2>4, <3>2, <3>3 DEF CreateBinds, Created, Bound
    <3>5. InvoicesBind'
      BY <1>1, <2>3, <2>4, <3>3 DEF InvoicesBind, Bound
    <3>6. PaymentsFollow'
      BY <1>1, <1>4, <2>3, <2>5, <3>3 DEF AddHoldInvoice, PaymentsFollow
    <3>7. QED
      BY <1>2, <3>2, <3>4, <3>5, <3>6, CallsKept DEF Rest
  <2>6. CASE Answered("create", "error") /\ UNCHANGED invoices
    <3>1. /\ \/ call'["create"] = Idle
             \/ call'["create"].input = lock /\ call'["create"].answer = "error"
          /\ \A d \in Commands : d # "create" => Kept(d)
      BY <1>1, <2>1, <2>2, <2>6, AnswerGiven, InputsTyped DEF Answers
    <3>2. CreateBinds'
      BY <2>4, <3>1 DEF CreateBinds, Resolved, Bound
    <3>3. QED
      BY <1>2, <1>4, <2>6, <3>1, <3>2, CallsKept, RestKept DEF Rest, AddHoldInvoice, nodes
  <2>7. QED
    BY <1>4, <2>2, <2>5, <2>6 DEF AddHoldInvoice
<1>5. CASE SendPaymentSync
  <2>1. Pending("pay") /\ call["pay"].stage \in Stages
    BY <1>5 DEF SendPaymentSync, Pending, Stages
  <2>2. PICK artifact \in Artifact : artifact = call["pay"].input
    BY <1>3, <2>1, InputsTyped
  <2>3. artifact.paymentRequest \in Hashes
    BY <2>2 DEF Artifact
  <2>4. call["pay"] # Idle /\ Payable(artifact)
    BY <1>1, <2>1, <2>2 DEF PayBinds, Stages, Idle
  <2>5. InvoicesBind' /\ UNCHANGED invoices
    BY <1>5, RestKept DEF SendPaymentSync
  <2>6. CASE /\ payments[artifact.paymentRequest] \in {"none", "failed"}
             /\ payments' = [payments EXCEPT ![artifact.paymentRequest] = "in_flight"]
             /\ call' = [call EXCEPT !["pay"] = IF @.stage = "sent"
                           THEN [@ EXCEPT !.stage = "waiting"] ELSE Idle]
    <3> DEFINE next == IF call["pay"].stage = "sent" THEN [call["pay"] EXCEPT !.stage = "waiting"]
                       ELSE Idle
    <3>1. call["pay"] \in [stage : Stages, input : Input("pay"), answer : Answers]
      BY <1>1, <2>1, RunningTyped, InputsTyped
    <3>2. call' = [call EXCEPT !["pay"] = next]
      BY <1>1, <2>6, InputsTyped DEF CallsOK
    <3>3. call'["pay"] = next /\ \A d \in Commands : d # "pay" => Kept(d)
      <4> HIDE DEF next
      <4> QED
        BY <1>1, <3>2, OthersKept, InputsTyped
    <3>4. \/ call'["pay"] = Idle
          \/ call'["pay"].input = artifact /\ call'["pay"].stage = "waiting"
      BY <2>2, <3>1, <3>3
    <3>5. payments'[artifact.paymentRequest] = "in_flight"
      BY <1>1, <2>3, <2>6 DEF NodesOK
    <3>6. PayBinds'
      BY <2>4, <3>4, <3>5 DEF PayBinds, Payable, Resolved
    <3>7. PaymentsFollow'
      BY <1>1, <2>3, <2>5, <2>6 DEF PaymentsFollow, NodesOK
    <3>8. QED
      BY <1>2, <2>5, <3>3, <3>6, <3>7, CallsKept DEF Rest
  <2>7. CASE Answered("pay", "error") /\ UNCHANGED payments
    <3>1. /\ \/ call'["pay"] = Idle
             \/ /\ call'["pay"].stage = "answered"
                /\ call'["pay"].input = artifact /\ call'["pay"].answer = "error"
          /\ \A d \in Commands : d # "pay" => Kept(d)
      BY <1>1, <2>1, <2>2, <2>7, AnswerGiven, InputsTyped DEF Answers
    <3>2. PayBinds'
      BY <2>4, <3>1 DEF PayBinds, Resolved, Payable
    <3>3. QED
      BY <1>2, <2>5, <2>7, <3>1, <3>2, CallsKept, RestKept DEF Rest, nodes
  <2>8. QED
    BY <1>5, <2>2, <2>6, <2>7 DEF SendPaymentSync
<1>6. CASE PaymentIsOver
  <2>1. call["pay"].stage \in Stages
    BY <1>6 DEF PaymentIsOver, Stages
  <2>2. PICK artifact \in Artifact : artifact = call["pay"].input
    BY <1>3, <2>1, InputsTyped
  <2>3. call["pay"] # Idle /\ Payable(artifact)
    BY <1>1, <2>1, <2>2 DEF PayBinds, Stages, Idle
  <2>4. PICK result \in {"succeeded", "failed"} : result = payments[artifact.paymentRequest]
    BY <1>6, <2>2 DEF PaymentIsOver
  <2> DEFINE next == [call["pay"] EXCEPT !.stage = "answered", !.answer = result]
  <2>5. call["pay"] \in [stage : Stages, input : Input("pay"), answer : Answers]
    BY <1>1, <2>1, RunningTyped, InputsTyped
  <2>6. call' = [call EXCEPT !["pay"] = next]
    BY <1>1, <1>6, <2>2, <2>4, InputsTyped DEF PaymentIsOver, CallsOK
  <2>7. call'["pay"] = next /\ \A d \in Commands : d # "pay" => Kept(d)
    <3> HIDE DEF next
    <3> QED
      BY <1>1, <2>6, OthersKept, InputsTyped
  <2>8. call'["pay"].input = artifact /\ call'["pay"].answer = result
        /\ call'["pay"].stage = "answered"
    BY <2>2, <2>5, <2>7
  <2>9. UNCHANGED <<nodes, invoices, payments>>
    BY <1>6 DEF PaymentIsOver, nodes
  <2>10. PayBinds'
    BY <2>3, <2>4, <2>8, <2>9 DEF PayBinds, Payable, Resolved
  <2>11. QED
    BY <1>2, <2>7, <2>9, <2>10, CallsKept, RestKept DEF Rest
<1>7. CASE SettleHoldInvoice
  <2>1. Pending("settle") /\ call["settle"].stage \in Stages
    BY <1>7 DEF SettleHoldInvoice, Pending, Stages
  <2>2. PICK attestation \in Attestation : attestation = call["settle"].input
    BY <1>3, <2>1, InputsTyped
  <2>3. call["settle"] # Idle /\ Backed(attestation)
    BY <1>1, <2>1, <2>2 DEF SettleBinds, Stages, Idle
  <2>4. Backed(attestation)'
    BY <2>3, BackedLasts DEF Backed
  <2>5. /\ attestation.paymentHash \in Hashes
        /\ Sha256HexFromHex(attestation.paymentPreimage) = attestation.paymentHash
    BY <2>2, <2>3 DEF Attestation, Backed, HashOf
  <2>6. CASE /\ invoices[attestation.paymentHash].state \in {"accepted", "settled"}
             /\ SetInvoice(attestation.paymentHash, "settled")
             /\ Answered("settle", "ok")
    <3>1. /\ call'["settle"] = Idle \/ call'["settle"].input = attestation
          /\ \A d \in Commands : d # "settle" => Kept(d)
      BY <1>1, <2>1, <2>2, <2>6, AnswerGiven, InputsTyped DEF Answers
    <3>2. /\ invoices'[attestation.paymentHash].state = "settled"
          /\ invoices'[attestation.paymentHash].memo = invoices[attestation.paymentHash].memo
          /\ \A h \in Hashes : h # attestation.paymentHash => invoices'[h] = invoices[h]
      BY <1>1, <2>5, <2>6 DEF SetInvoice, NodesOK
    <3>3. SettleBinds'
      BY <2>4, <3>1, <3>2 DEF SettleBinds, Resolved, Backed
    <3>4. InvoicesBind'
      BY <1>1, <2>5, <2>6, <3>2 DEF InvoicesBind
    <3>5. PaymentsFollow'
      BY <1>1, <1>7, <3>2 DEF PaymentsFollow, SettleHoldInvoice
    <3>6. QED
      BY <1>2, <3>1, <3>3, <3>4, <3>5, CallsKept DEF Rest
  <2>7. CASE Answered("settle", "error") /\ UNCHANGED invoices
    <3>1. /\ \/ call'["settle"] = Idle
             \/ call'["settle"].input = attestation /\ call'["settle"].answer = "error"
          /\ \A d \in Commands : d # "settle" => Kept(d)
      BY <1>1, <2>1, <2>2, <2>7, AnswerGiven, InputsTyped DEF Answers
    <3>2. SettleBinds'
      BY <2>4, <3>1 DEF SettleBinds, Resolved, Backed
    <3>3. QED
      BY <1>2, <1>7, <2>7, <3>1, <3>2, CallsKept, RestKept DEF Rest, SettleHoldInvoice, nodes
  <2>8. QED
    BY <1>7, <2>2, <2>5, <2>6, <2>7 DEF SettleHoldInvoice
<1>8. CASE CancelHoldInvoice
  <2>1. Pending("cancel") /\ call["cancel"].stage \in Stages
    BY <1>8 DEF CancelHoldInvoice, Pending, Stages
  <2>2. PICK h \in Hashes : h = call["cancel"].input
    BY <1>3, <2>1, InputsTyped
  <2>3. CASE /\ invoices[h].state \in {"open", "accepted", "canceled"}
             /\ SetInvoice(h, "canceled")
             /\ Answered("cancel", "ok")
    <3>1. /\ call'["cancel"] = Idle \/ call'["cancel"].input = h
          /\ \A d \in Commands : d # "cancel" => Kept(d)
      BY <1>1, <2>1, <2>2, <2>3, AnswerGiven, InputsTyped DEF Answers
    <3>2. /\ invoices'[h].state = "canceled" /\ invoices'[h].memo = invoices[h].memo
          /\ \A g \in Hashes : g # h => invoices'[g] = invoices[g]
      BY <1>1, <2>3 DEF SetInvoice, NodesOK
    <3>3. CancelBinds'
      BY <3>1, <3>2 DEF CancelBinds, Resolved
    <3>4. InvoicesBind'
      BY <1>1, <2>3, <3>2 DEF InvoicesBind
    <3>5. PaymentsFollow'
      BY <1>1, <1>8, <2>3, <3>2 DEF PaymentsFollow, CancelHoldInvoice
    <3>6. QED
      BY <1>2, <3>1, <3>3, <3>4, <3>5, CallsKept DEF Rest
  <2>4. CASE Answered("cancel", "error") /\ UNCHANGED invoices
    <3>1. /\ call'["cancel"] = Idle \/ call'["cancel"].answer = "error"
          /\ \A d \in Commands : d # "cancel" => Kept(d)
      BY <1>1, <2>1, <2>4, AnswerGiven, InputsTyped DEF Answers
    <3>2. CancelBinds'
      BY <3>1 DEF CancelBinds, Resolved
    <3>3. QED
      BY <1>2, <1>8, <2>4, <3>1, <3>2, CallsKept, RestKept DEF Rest, CancelHoldInvoice, nodes
  <2>5. QED
    BY <1>8, <2>2, <2>3, <2>4 DEF CancelHoldInvoice
<1>9. ASSUME NEW c \in Commands, RequestIsLost(c)
      PROVE  Rest' /\ CreateBinds' /\ PayBinds' /\ SettleBinds' /\ CancelBinds'
  <2>1. \A d \in Commands : Kept(d)
    <3>1. call'[c] = Idle /\ \A d \in Commands : d # c => Kept(d)
      BY <1>1, <1>9, OthersKept DEF RequestIsLost
    <3>2. QED
      BY <3>1 DEF Kept
  <2>2. UNCHANGED <<nodes, invoices>>
    BY <1>9 DEF RequestIsLost, nodes
  <2>3. QED
    BY <1>2, <2>1, <2>2, RestKept, CreateKept, PayKept, SettleKept, CancelKept, InputsTyped
       DEF Rest
<1>10. ASSUME NEW h \in Hashes,
              PaymentArrives(h) \/ PaymentFails(h) \/ PaymentSucceeds(h) \/ InvoiceExpires(h)
       PROVE  Rest' /\ CreateBinds' /\ PayBinds' /\ SettleBinds' /\ CancelBinds'
  <2>1. CreateBinds' /\ PayBinds' /\ SettleBinds' /\ CancelBinds'
    BY <1>10, AllCallsKept DEF PaymentArrives, PaymentFails, PaymentSucceeds, InvoiceExpires
  <2>2. InvoicesBind'
    BY <1>1, <1>10 DEF PaymentArrives, PaymentFails, PaymentSucceeds, InvoiceExpires, SetInvoice,
       NodesOK, InvoicesBind
  <2>3. PaymentsFollow'
    BY <1>1, <1>10 DEF PaymentArrives, PaymentFails, PaymentSucceeds, InvoiceExpires, SetInvoice,
       NodesOK, PaymentsFollow
  <2>4. QED
    BY <1>2, <2>1, <2>2, <2>3 DEF Rest
<1>11. QED
  BY <1>4, <1>5, <1>6, <1>7, <1>8, <1>9, <1>10 DEF NodeStep

LEMMA NextBinds ==
  ASSUME IInv, [Next]_vars
  PROVE  IInv'
<1>1. Lasts
  BY StepsLast
<1>2. TypeOK'
  BY NextTyped DEF IInv
<1>3. CASE UNCHANGED vars
  <2>1. UNCHANGED <<call, nodes, invoices, lockFile, invoiceFile, attestationFile, reports>>
    BY <1>3 DEF vars, files, nodes
  <2>2. QED
    BY <1>1, <1>2, <2>1, RestKept, ReportsKept, AllCallsKept DEF IInv
<1>4. CASE Next
  <2>1. Rest' /\ CreateBinds' /\ PayBinds' /\ SettleBinds' /\ CancelBinds'
    BY <1>1, <1>4, OracleBinds, CommandBinds, NodeBinds DEF Next
  <2>2. QED
    BY <1>2, <2>1 DEF IInv, Rest
<1>5. QED
  BY <1>3, <1>4

LEMMA Invariant == Spec => []IInv
BY InitBinds, NextBinds, PTL DEF Spec

\* Whatever files were overwritten, answers lost and commands repeated while a
\* command waited, what it has written is true of the nodes, and stays true.
THEOREM ReportsStayTrue == Spec => []ReportsAreTrue
<1>1. IInv => ReportsAreTrue
  BY DEF IInv, ReportsHold, ReportHolds, ReportsAreTrue
<1>2. QED
  BY <1>1, Invariant, PTL

-------------------------------------------------------------------------------
(***************************************************************************)
(* The refinement: the money of a lock is told by the invoice of its hash  *)
(* alone, which two locks never share.                                     *)
(***************************************************************************)
MoneyAt(state) ==
  CASE state = "settled" -> "paid"
    [] state = "accepted" -> "held"
    [] state = "canceled" -> "returned"
    [] OTHER -> "none"

LEMMA HashesDiffer == \A p, q : HashOf(p) = HashOf(q) => p = q
<1>1. \A p : HashOf(p).sha256.attests = p
  BY DEF HashOf, Sha256HexFromHex, AttestationSecret
<1>2. QED
  BY <1>1

LEMMA MoneyIsAtItsHash ==
  ASSUME NodesOK, InvoicesBind, NEW p \in Points
  PROVE  MoneyOf(p) = MoneyAt(invoices[HashOf(p)].state)
<1>1. HashOf(p) \in Hashes
  BY HashesAreTyped
<1>2. ASSUME NEW state \in {"settled", "accepted", "canceled"}
      PROVE  MoneyIs(state, p) <=> invoices[HashOf(p)].state = state
  BY <1>1, HashesDiffer DEF MoneyIs, InvoicesBind
<1>3. invoices[HashOf(p)].state \in InvoiceStates
  BY <1>1 DEF NodesOK
<1>4. QED
  BY <1>2, <1>3 DEF MoneyOf, MoneyAt, InvoiceStates

Money == [p \in Points |-> MoneyOf(p)]

LEMMA MoneyFollows ==
  ASSUME IInv, IInv', NEW l \in Points, NEW state,
         invoices'[HashOf(l)].state = state,
         \A h \in Hashes : h # HashOf(l) => invoices'[h].state = invoices[h].state
  PROVE  Money' = [Money EXCEPT ![l] = MoneyAt(state)]
<1>1. NodesOK /\ InvoicesBind /\ NodesOK' /\ InvoicesBind'
  BY DEF IInv, TypeOK
<1>2. \A p \in Points : MoneyOf(p) = MoneyAt(invoices[HashOf(p)].state)
  BY <1>1, MoneyIsAtItsHash
<1>3. \A p \in Points : MoneyOf(p)' = MoneyAt(invoices'[HashOf(p)].state)
  <2>1. TAKE p \in Points
  <2>2. (MoneyOf(p) = MoneyAt(invoices[HashOf(p)].state))'
    BY <1>1, MoneyIsAtItsHash, PTL
  <2>3. QED
    BY <2>2
<1>4. \A p \in Points : p # l => MoneyOf(p)' = MoneyOf(p)
  BY <1>2, <1>3, HashesDiffer, HashesAreTyped
<1>5. MoneyOf(l)' = MoneyAt(state)
  BY <1>3
<1>6. QED
  BY <1>4, <1>5 DEF Money

\* A step that changes the invoice of one lock moves its money, or no money.
LEMMA MoneyMoves ==
  ASSUME IInv, IInv', NEW l \in Points, NEW state \in InvoiceStates, UNCHANGED attested,
         invoices'[HashOf(l)].state = state,
         \A h \in Hashes : h # HashOf(l) => invoices'[h].state = invoices[h].state,
         \/ invoices[HashOf(l)].state = "none" /\ state = "open"
         \/ invoices[HashOf(l)].state = "open" /\ state = "accepted"
         \/ invoices[HashOf(l)].state = "accepted" /\ state = "settled" /\ l \in attested
         \/ invoices[HashOf(l)].state \in {"open", "accepted"} /\ state = "canceled"
         \/ invoices[HashOf(l)].state = state
  PROVE  [Promise!Next]_Promise!vars
<1>1. Money' = [Money EXCEPT ![l] = MoneyAt(state)]
  BY MoneyFollows
<1>2. Money[l] = MoneyAt(invoices[HashOf(l)].state)
  BY MoneyIsAtItsHash DEF IInv, TypeOK, Money
<1>3. Money'[l] = MoneyAt(state)
  BY <1>1 DEF Money
<1>4. CASE MoneyAt(state) = Money[l]
  <2>1. Money' = Money
    BY <1>1, <1>4 DEF Money
  <2>2. QED
    BY <2>1 DEF Money, Promise!vars
<1>5. CASE MoneyAt(state) # Money[l]
  <2>1. \/ Money[l] = "none" /\ MoneyAt(state) = "held"
        \/ Money[l] = "held" /\ MoneyAt(state) = "paid" /\ l \in attested
        \/ Money[l] \in {"none", "held"} /\ MoneyAt(state) = "returned"
    BY <1>2, <1>5 DEF MoneyAt
  <2>2. Promise!Becomes(l, MoneyAt(state))
    BY <1>1 DEF Money, Promise!Becomes
  <2>3. Promise!Hold(l) \/ Promise!Pay(l) \/ Promise!Return(l)
    BY <2>1, <2>2 DEF Promise!Hold, Promise!Pay, Promise!Return, Money
  <2>4. Promise!Moves(l)
    BY <1>3, <1>5, <2>3 DEF Promise!Moves, Money
  <2>5. QED
    BY <2>4 DEF Promise!Next
<1>6. QED
  BY <1>4, <1>5

LEMMA SameMoney == UNCHANGED invoices => Money' = Money
BY DEF Money, MoneyOf, MoneyIs

LEMMA NextRefines ==
  ASSUME IInv, IInv', [Next]_vars
  PROVE  [Promise!Next]_Promise!vars
<1>1. ASSUME UNCHANGED <<attested, invoices>>
      PROVE  [Promise!Next]_Promise!vars
  BY <1>1, SameMoney DEF Money, Promise!vars
<1>2. NodesOK /\ InvoicesBind /\ SettleBinds
  BY DEF IInv, TypeOK
<1>3. \A h \in Hashes : \E l \in Points : h = HashOf(l)
  BY DEF Hashes, HashOf
<1>4. CASE UNCHANGED vars
  BY <1>1, <1>4 DEF vars, oracle, nodes
<1>5. CASE OracleStep
  <2>1. ASSUME NEW key \in {GivenKey} \cup FreshKeys, NEW o \in Outcomes, OracleAttest(key, o)
        PROVE  [Promise!Next]_Promise!vars
    <3>1. UNCHANGED invoices /\ attested' = attested \cup {<<key, o>>} /\ <<key, o>> \in Points
      BY <2>1, HashesAreTyped DEF OracleAttest, nodes
    <3>2. Promise!Attest(<<key, o>>)
      BY <3>1, SameMoney DEF Promise!Attest, Money
    <3>3. QED
      BY <3>1, <3>2 DEF Promise!Next
  <2>2. QED
    BY <1>1, <1>5, <2>1 DEF OracleStep, OracleLock, nodes
<1>6. CASE CommandStep
  BY <1>1, <1>6 DEF CommandStep, CreateHoldInvoice, PayInvoice, SettleInvoice, CancelInvoice,
     Send, Abandon, FinishCreate, FinishReport, oracle, nodes
<1>7. CASE NodeStep
  <2>1. ASSUME NEW h \in Hashes, NEW state \in InvoiceStates, UNCHANGED attested,
               invoices'[h].state = state,
               \A g \in Hashes : g # h => invoices'[g].state = invoices[g].state,
               \/ invoices[h].state = "none" /\ state = "open"
               \/ invoices[h].state = "open" /\ state = "accepted"
               \/ /\ invoices[h].state = "accepted" /\ state = "settled"
                  /\ \E l \in attested : h = HashOf(l)
               \/ invoices[h].state \in {"open", "accepted"} /\ state = "canceled"
               \/ invoices[h].state = state
        PROVE  [Promise!Next]_Promise!vars
    <3>1. PICK l \in Points : h = HashOf(l)
      BY <1>3
    <3>2. (\E k \in attested : h = HashOf(k)) => l \in attested
      BY <3>1, HashesDiffer
    <3>3. QED
      BY <2>1, <3>1, <3>2, MoneyMoves
  <2>2. CASE AddHoldInvoice
    <3>1. call["create"].stage \in Stages
      BY <2>2 DEF AddHoldInvoice, Pending, Stages
    <3>2. PICK lock \in Lock : lock = call["create"].input
      BY <3>1, InputTyped, InputsTyped DEF IInv, TypeOK
    <3>3. PICK h \in Hashes : h = lock.paymentHash
      BY DEF Lock
    <3>4. CASE UNCHANGED invoices
      BY <1>1, <2>2, <3>4 DEF AddHoldInvoice, oracle
    <3>5. CASE invoices[h].state = "none"
               /\ invoices' = [invoices EXCEPT ![h] = [state |-> "open", memo |-> lock.point]]
      <4>1. /\ invoices'[h].state = "open"
            /\ \A g \in Hashes : g # h => invoices'[g].state = invoices[g].state
        BY <1>2, <3>5 DEF NodesOK
      <4>2. UNCHANGED attested
        BY <2>2 DEF AddHoldInvoice, oracle
      <4>3. QED
        BY <2>1, <3>5, <4>1, <4>2 DEF InvoiceStates
    <3>6. QED
      BY <2>2, <3>2, <3>3, <3>4, <3>5 DEF AddHoldInvoice
  <2>3. CASE \/ SendPaymentSync \/ PaymentIsOver \/ \E c \in Commands : RequestIsLost(c)
             \/ \E h \in Hashes : PaymentFails(h) \/ PaymentSucceeds(h)
    BY <1>1, <2>3 DEF SendPaymentSync, PaymentIsOver, RequestIsLost, PaymentFails,
       PaymentSucceeds, oracle, nodes
  <2>4. ASSUME NEW h \in Hashes, NEW state \in InvoiceStates, SetInvoice(h, state)
        PROVE  /\ invoices'[h].state = state
               /\ \A g \in Hashes : g # h => invoices'[g].state = invoices[g].state
    BY <1>2, <2>4 DEF SetInvoice, NodesOK
  <2>5. CASE SettleHoldInvoice
    <3>1. call["settle"].stage \in Stages
      BY <2>5 DEF SettleHoldInvoice, Pending, Stages
    <3>2. call["settle"] # Idle
      BY <3>1 DEF Stages, Idle
    <3>3. PICK p \in attested : call["settle"].input.paymentPreimage = AttestationSecret(p)
      BY <1>2, <3>2 DEF SettleBinds, Backed
    <3>4. PICK h \in Hashes : h = HashOf(p)
      BY HashesAreTyped DEF IInv, TypeOK, OracleOK
    <3>5. CASE UNCHANGED invoices
      BY <1>1, <2>5, <3>5 DEF SettleHoldInvoice, oracle
    <3>6. CASE invoices[h].state \in {"accepted", "settled"} /\ SetInvoice(h, "settled")
      <4>1. UNCHANGED attested
        BY <2>5 DEF SettleHoldInvoice, oracle
      <4>2. QED
        BY <2>1, <2>4, <3>4, <3>6, <4>1 DEF InvoiceStates
    <3>7. QED
      BY <2>5, <3>3, <3>4, <3>5, <3>6 DEF SettleHoldInvoice, HashOf
  <2>6. CASE CancelHoldInvoice
    <3>1. call["cancel"].stage \in Stages
      BY <2>6 DEF CancelHoldInvoice, Pending, Stages
    <3>2. PICK h \in Hashes : h = call["cancel"].input
      BY <3>1, InputTyped, InputsTyped DEF IInv, TypeOK
    <3>3. CASE UNCHANGED invoices
      BY <1>1, <2>6, <3>3 DEF CancelHoldInvoice, oracle
    <3>4. CASE invoices[h].state \in {"open", "accepted", "canceled"} /\ SetInvoice(h, "canceled")
      <4>1. UNCHANGED attested
        BY <2>6 DEF CancelHoldInvoice, oracle
      <4>2. QED
        BY <2>1, <2>4, <3>4, <4>1 DEF InvoiceStates
    <3>5. QED
      BY <2>6, <3>2, <3>3, <3>4 DEF CancelHoldInvoice
  <2>7. ASSUME NEW h \in Hashes, PaymentArrives(h)
        PROVE  [Promise!Next]_Promise!vars
    BY <2>1, <2>4, <2>7 DEF PaymentArrives, InvoiceStates, oracle
  <2>8. ASSUME NEW h \in Hashes, InvoiceExpires(h)
        PROVE  [Promise!Next]_Promise!vars
    BY <2>1, <2>4, <2>8 DEF InvoiceExpires, InvoiceStates, oracle
  <2>9. QED
    BY <1>7, <2>2, <2>3, <2>5, <2>6, <2>7, <2>8 DEF NodeStep
<1>8. QED
  BY <1>4, <1>5, <1>6, <1>7 DEF Next

\* The receiver is paid for a lock only once its own outcome is attested, and what
\* was paid or returned stays so: the commands implement the conditional payment.
THEOREM LightningImplementsConditionalPayment == Spec => ImplementsConditionalPayment
<1>1. Init => Promise!Init
  <2> SUFFICES ASSUME Init PROVE Promise!Init
    OBVIOUS
  <2>1. \A p \in Points : MoneyOf(p) = "none"
    BY DEF Init, MoneyOf, MoneyIs
  <2>2. QED
    BY <2>1 DEF Init, Promise!Init
<1>2. IInv /\ IInv' /\ [Next]_vars => [Promise!Next]_Promise!vars
  BY NextRefines
<1>3. QED
  BY <1>1, <1>2, Invariant, PTL DEF Spec, ImplementsConditionalPayment, Promise!Spec

===============================================================================
