------------------------------- MODULE Lightning -------------------------------
(***************************************************************************)
(* The hold invoice harness of testnet/src/lightning.ts, as the commands   *)
(* lightning:* of testnet/src/cli.ts run it against two LND nodes: the     *)
(* oracle's lock names the hash of a secret that only the attestation of   *)
(* its outcome reveals, the receiver's node holds a payment of that hash,  *)
(* and settling it takes the attestation.                                  *)
(*                                                                         *)
(* Every command is a process of its own.  It reads its input files when   *)
(* it starts, sends one REST request, and writes its own file when the     *)
(* answer has come; meanwhile other commands run and overwrite the files.  *)
(* A process may be killed, or lose its connection, before or after its    *)
(* node handled the request, and the operator may run any command again.   *)
(* The two nodes are external.                                             *)
(***************************************************************************)
EXTENDS AdaptorSignature, Naturals

CONSTANTS
  Outcomes,     \* outcomes of the event
  GivenKey,     \* the oracle and nonce secrets given on the command line
  FreshKeys,    \* secrets drawn at random when none are given
  MaxCommands,  \* bound: commands that talk to a node
  MaxOracle,    \* bound: commands of the oracle
  Nothing

VARIABLES
  lockFile, invoiceFile, attestationFile,  \* the files at --out, or Nothing
  reports,    \* every report a command has written
  knownKeys,  \* the secrets the oracle's operator can give to oracle-attest
  drawn,      \* the random secrets used so far
  attested,   \* what was attested
  call,       \* the running process of each command, if any
  invoices,   \* the receiver's node: its invoices, by payment hash
  payments,   \* the payer's node: its payments, by payment hash
  started, oracleCommands

files == <<lockFile, invoiceFile, attestationFile, reports>>
oracle == <<knownKeys, drawn, attested, oracleCommands>>
nodes == <<invoices, payments>>
vars == <<files, oracle, call, nodes, started>>

Commands == {"create", "pay", "settle", "cancel"}
Points == ({GivenKey} \cup FreshKeys) \X Outcomes

-----------------------------------------------------------------------------
(* The oracle's two commands. *)

\* A hash is the term of what was hashed.
Sha256HexFromHex(secret) == [sha256 |-> secret]

Hashes == {Sha256HexFromHex(AttestationSecret(p)) : p \in Points}

\* Broken variant: the lock of one outcome names the hash of another's secret.
LockOfAnotherOutcome(key, outcome) ==
  LET other == CHOOSE o \in Outcomes : o # outcome
  IN [point |-> <<key, outcome>>,
      paymentHash |-> Sha256HexFromHex(AttestationSecret(<<key, other>>))]

PrepareLightningOracleLock(key, outcome) ==
  [point |-> <<key, outcome>>,
   paymentHash |-> Sha256HexFromHex(AttestationSecret(<<key, outcome>>))]

\* Whether the hash is the expected one is written for the reader only: an
\* attestation of another lock is written all the same, and no command asks.
AttestLightningOracle(key, outcome) ==
  LET secret == AttestationSecret(<<key, outcome>>)
  IN [paymentPreimage |-> secret, paymentHash |-> Sha256HexFromHex(secret)]

\* The lock file holds the secrets, random or not, only if the operator asks to
\* include them; without that a random secret is gone with the process.
OracleLock(key, outcome, includeTestSecrets) ==
  /\ oracleCommands < MaxOracle
  /\ key \notin drawn
  /\ oracleCommands' = oracleCommands + 1
  /\ lockFile' = PrepareLightningOracleLock(key, outcome)
  /\ drawn' = drawn \cup ({key} \cap FreshKeys)
  /\ knownKeys' = IF includeTestSecrets THEN knownKeys \cup {key} ELSE knownKeys
  /\ UNCHANGED <<invoiceFile, attestationFile, reports, attested, call, nodes, started>>

OracleAttest(key, outcome) ==
  /\ oracleCommands < MaxOracle
  /\ key \in knownKeys
  /\ oracleCommands' = oracleCommands + 1
  /\ attestationFile' = AttestLightningOracle(key, outcome)
  /\ attested' = attested \cup {<<key, outcome>>}
  /\ UNCHANGED <<lockFile, invoiceFile, reports, knownKeys, drawn, call, nodes, started>>

-----------------------------------------------------------------------------
(* The commands that talk to a node: read the input, send the request. *)

Idle == [stage |-> "idle", input |-> Nothing, answer |-> Nothing]

Send(c, input) ==
  /\ call[c] = Idle
  /\ started < MaxCommands
  /\ started' = started + 1
  /\ call' = [call EXCEPT ![c] = [stage |-> "sent", input |-> input, answer |-> Nothing]]
  /\ UNCHANGED <<files, oracle, nodes>>

CreateHoldInvoice == lockFile # Nothing /\ Send("create", lockFile)

PayInvoice == invoiceFile # Nothing /\ Send("pay", invoiceFile)

SettleInvoice == attestationFile # Nothing /\ Send("settle", attestationFile)

\* The operator copies the payment hash from a lock or an invoice.
CancelInvoice ==
  \E file \in {lockFile, invoiceFile} \ {Nothing} : Send("cancel", file.paymentHash)

\* The process is killed, or its connection breaks and the command fails: it
\* writes nothing, and what it sent may still reach the node.
Abandon(c) ==
  /\ call[c].stage \in {"sent", "waiting", "answered"}
  /\ call' = [call EXCEPT ![c] = IF @.stage = "sent" THEN [@ EXCEPT !.stage = "abandoned"]
                                 ELSE Idle]
  /\ UNCHANGED <<files, oracle, nodes, started>>

-----------------------------------------------------------------------------
(* The nodes.  A request that was abandoned is handled without an answer, or *)
(* never arrives.                                                            *)

Answered(c, answer) ==
  call' = [call EXCEPT ![c] = IF @.stage = "sent"
                              THEN [@ EXCEPT !.stage = "answered", !.answer = answer]
                              ELSE Idle]

Pending(c) == call[c].stage \in {"sent", "abandoned"}

\* A request that was carried out is answered with a status in the 200s.  Only the
\* answer to "create" has a body the command looks into, and it may be unreadable.
SetInvoice(h, state) == invoices' = [invoices EXCEPT ![h].state = state]

AddHoldInvoice ==
  LET lock == call["create"].input
  IN /\ Pending("create")
     /\ \/ /\ invoices[lock.paymentHash].state = "none"
           /\ invoices' = [invoices EXCEPT ![lock.paymentHash] =
                             [state |-> "open", memo |-> lock.point]]
           /\ \E answer \in {"ok", "unreadable"} : Answered("create", answer)
        \/ /\ invoices[lock.paymentHash].state # "none"
           /\ Answered("create", "error")
           /\ UNCHANGED invoices
     /\ UNCHANGED <<files, oracle, payments, started>>

\* The payer's node answers once the payment is over; until then it waits.
SendPaymentSync ==
  LET h == call["pay"].input.paymentRequest
  IN /\ Pending("pay")
     /\ \/ /\ payments[h] \in {"none", "failed"}
           /\ payments' = [payments EXCEPT ![h] = "in_flight"]
           /\ call' = [call EXCEPT !["pay"] = IF @.stage = "sent" THEN [@ EXCEPT !.stage = "waiting"]
                                              ELSE Idle]
        \/ /\ payments[h] \in {"in_flight", "succeeded"}
           /\ Answered("pay", "error")
           /\ UNCHANGED payments
     /\ UNCHANGED <<files, oracle, invoices, started>>

\* The payment is over, well or not: both are answered with status 200.
PaymentIsOver ==
  LET h == call["pay"].input.paymentRequest
  IN /\ call["pay"].stage = "waiting"
     /\ payments[h] \in {"succeeded", "failed"}
     /\ call' = [call EXCEPT !["pay"] = [@ EXCEPT !.stage = "answered", !.answer = payments[h]]]
     /\ UNCHANGED <<files, oracle, nodes, started>>

\* Settling again what is settled may be answered either way.
SettleHoldInvoice ==
  LET h == Sha256HexFromHex(call["settle"].input.paymentPreimage)
  IN /\ Pending("settle")
     /\ \/ /\ invoices[h].state \in {"accepted", "settled"}
           /\ SetInvoice(h, "settled")
           /\ Answered("settle", "ok")
        \/ /\ invoices[h].state # "accepted"
           /\ Answered("settle", "error")
           /\ UNCHANGED invoices
     /\ UNCHANGED <<files, oracle, payments, started>>

\* So may canceling again what is canceled.
CancelHoldInvoice ==
  LET h == call["cancel"].input
  IN /\ Pending("cancel")
     /\ \/ /\ invoices[h].state \in {"open", "accepted", "canceled"}
           /\ SetInvoice(h, "canceled")
           /\ Answered("cancel", "ok")
        \/ /\ invoices[h].state \in {"none", "settled", "canceled"}
           /\ Answered("cancel", "error")
           /\ UNCHANGED invoices
     /\ UNCHANGED <<files, oracle, payments, started>>

RequestIsLost(c) ==
  /\ call[c].stage = "abandoned"
  /\ call' = [call EXCEPT ![c] = Idle]
  /\ UNCHANGED <<files, oracle, nodes, started>>

PaymentArrives(h) ==
  /\ payments[h] = "in_flight"
  /\ invoices[h].state = "open"
  /\ SetInvoice(h, "accepted")
  /\ UNCHANGED <<files, oracle, call, payments, started>>

\* No route reached the receiver, or its node refused or gave back the payment.
PaymentFails(h) ==
  /\ payments[h] = "in_flight"
  /\ invoices[h].state \in {"open", "canceled"}
  /\ payments' = [payments EXCEPT ![h] = "failed"]
  /\ UNCHANGED <<files, oracle, call, invoices, started>>

PaymentSucceeds(h) ==
  /\ payments[h] = "in_flight"
  /\ invoices[h].state = "settled"
  /\ payments' = [payments EXCEPT ![h] = "succeeded"]
  /\ UNCHANGED <<files, oracle, call, invoices, started>>

InvoiceExpires(h) ==
  /\ invoices[h].state \in {"open", "accepted"}
  /\ SetInvoice(h, "canceled")
  /\ UNCHANGED <<files, oracle, call, payments, started>>

-----------------------------------------------------------------------------
(* What a command writes when its answer has come. *)

\* lndRequest: a status outside the 200s makes the command fail.
LndRequestResolves(answer) == answer # "error"

\* Broken variant: the command does not insist on a payment request.
AnyResponseHasPaymentRequest(answer) == TRUE

\* extractPaymentRequest throws when the body is not what it should be.
HasPaymentRequest(answer) == answer = "ok"

HoldInvoiceArtifact(lock, answer) ==
  [oracleLock |-> lock, paymentHash |-> lock.paymentHash,
   paymentRequest |-> IF answer = "ok" THEN lock.paymentHash ELSE Nothing]

Report(c, hash, lock, result) == [of |-> c, hash |-> hash, lock |-> lock, result |-> result]

\* createHoldInvoiceArtifact and the command around it.
FinishCreate ==
  LET lock == call["create"].input
      answer == call["create"].answer
  IN /\ call["create"].stage = "answered"
     /\ call' = [call EXCEPT !["create"] = Idle]
     /\ \/ /\ LndRequestResolves(answer) /\ HasPaymentRequest(answer)
           /\ invoiceFile' = HoldInvoiceArtifact(lock, answer)
           /\ reports' = reports \cup {Report("create", lock.paymentHash, lock.point, answer)}
        \/ /\ ~(LndRequestResolves(answer) /\ HasPaymentRequest(answer))
           /\ UNCHANGED <<invoiceFile, reports>>
     /\ UNCHANGED <<lockFile, attestationFile, oracle, nodes, started>>

\* Broken variant: the report names the attestation that is in the file by now.
ReportedHashOfFile(c, input) ==
  CASE c = "settle" -> attestationFile.paymentHash
    [] c = "pay" -> input.paymentHash
    [] c = "cancel" -> input

\* The payment hash of the input the process read when it started.
ReportedHash(c, input) == IF c = "cancel" THEN input ELSE input.paymentHash

FinishReport(c) ==
  /\ c # "create"
  /\ call[c].stage = "answered"
  /\ call' = [call EXCEPT ![c] = Idle]
  /\ \/ /\ LndRequestResolves(call[c].answer)
        /\ reports' =
             reports \cup {Report(c, ReportedHash(c, call[c].input), Nothing, call[c].answer)}
     \/ /\ ~LndRequestResolves(call[c].answer)
        /\ UNCHANGED reports
  /\ UNCHANGED <<lockFile, invoiceFile, attestationFile, oracle, nodes, started>>

-----------------------------------------------------------------------------
Init ==
  /\ lockFile = Nothing /\ invoiceFile = Nothing /\ attestationFile = Nothing
  /\ reports = {}
  /\ knownKeys = {GivenKey} /\ drawn = {} /\ attested = {}
  /\ call = [c \in Commands |-> Idle]
  /\ invoices = [h \in Hashes |-> [state |-> "none", memo |-> Nothing]]
  /\ payments = [h \in Hashes |-> "none"]
  /\ started = 0 /\ oracleCommands = 0

OracleStep ==
  \/ \E key \in {GivenKey} \cup FreshKeys, o \in Outcomes, include \in BOOLEAN :
       OracleLock(key, o, include)
  \/ \E key \in {GivenKey} \cup FreshKeys, o \in Outcomes : OracleAttest(key, o)

CommandStep ==
  \/ CreateHoldInvoice
  \/ PayInvoice
  \/ SettleInvoice
  \/ CancelInvoice
  \/ \E c \in Commands : Abandon(c)
  \/ FinishCreate
  \/ \E c \in Commands : FinishReport(c)

NodeStep ==
  \/ AddHoldInvoice
  \/ SendPaymentSync
  \/ PaymentIsOver
  \/ SettleHoldInvoice
  \/ CancelHoldInvoice
  \/ \E c \in Commands : RequestIsLost(c)
  \/ \E h \in Hashes : \/ PaymentArrives(h)
                       \/ PaymentFails(h)
                       \/ PaymentSucceeds(h)
                       \/ InvoiceExpires(h)

Next == OracleStep \/ CommandStep \/ NodeStep

Spec == Init /\ [][Next]_vars

-----------------------------------------------------------------------------
(* Properties. *)

InvoiceStates == {"none", "open", "accepted", "settled", "canceled"}
Lock == [point : Points, paymentHash : Hashes]
Artifact == [oracleLock : Lock, paymentHash : Hashes, paymentRequest : Hashes]
Attestation == [paymentPreimage : {AttestationSecret(p) : p \in Points}, paymentHash : Hashes]
Input(c) == CASE c = "create" -> Lock
              [] c = "pay" -> Artifact
              [] c = "settle" -> Attestation
              [] c = "cancel" -> Hashes

FilesOK ==
  /\ lockFile \in Lock \cup {Nothing}
  /\ invoiceFile \in Artifact \cup {Nothing}
  /\ attestationFile \in Attestation \cup {Nothing}
  /\ \A r \in reports : r.of \in Commands /\ r.hash \in Hashes

OracleOK ==
  /\ knownKeys \subseteq {GivenKey} \cup FreshKeys
  /\ drawn \subseteq FreshKeys
  /\ attested \subseteq Points

Stages == {"sent", "abandoned", "waiting", "answered"}
Answers == {Nothing, "ok", "unreadable", "error", "succeeded", "failed"}
Call(c) == {Idle} \cup [stage : Stages, input : Input(c), answer : Answers]

CallsOK == call = [c \in Commands |-> call[c]] /\ \A c \in Commands : call[c] \in Call(c)

NodesOK ==
  /\ invoices \in [Hashes -> [state : InvoiceStates, memo : Points \cup {Nothing}]]
  /\ payments \in [Hashes -> {"none", "in_flight", "succeeded", "failed"}]

\* The files hold what the commands that read them accept: an invoice file always
\* has a payment request, of a hash some lock names (parseHoldInvoiceArtifact).
TypeOK == FilesOK /\ OracleOK /\ CallsOK /\ NodesOK

Holds(r) ==
  CASE r.of = "create" -> invoices[r.hash].memo = r.lock
    [] r.of = "settle" -> invoices[r.hash].state = "settled"
    [] r.of = "cancel" -> invoices[r.hash].state = "canceled"
    [] r.of = "pay" /\ r.result = "succeeded" -> /\ payments[r.hash] = "succeeded"
                                                  /\ invoices[r.hash].state = "settled"
    [] OTHER -> payments[r.hash] # "none"

\* What a command has written is true of the nodes and stays true, whichever files
\* were overwritten while it waited, whichever commands were run again or died,
\* and whatever they were answered: an invoice artifact names an invoice made for
\* its own lock, a settlement or cancellation report an invoice that is settled or
\* canceled, a payment report the payment as it ended.
ReportsAreTrue == \A r \in reports : Holds(r)

\* The money of a lock is where the receiver's node has the invoice made for it.
MoneyIs(state, p) == \E h \in Hashes : invoices[h].memo = p /\ invoices[h].state = state

MoneyOf(p) ==
  IF MoneyIs("settled", p) THEN "paid"
  ELSE IF MoneyIs("accepted", p) THEN "held"
  ELSE IF MoneyIs("canceled", p) THEN "returned"
  ELSE "none"

Promise == INSTANCE ConditionalPayment
             WITH Locks <- Points, payment <- [p \in Points |-> MoneyOf(p)]

\* The receiver gets the money of a lock only once the oracle has attested the
\* outcome of that lock, and what was paid or returned stays so, through lost
\* answers, repeated commands, expiring invoices and attestations of other
\* outcomes: the harness implements the payment the abstract specification states.
ImplementsConditionalPayment == Promise!Spec

================================================================================
