# NITI in TLA+

NITI is a research testnet for conditional discreet log contracts: a parent
contract whose activating outcome, attested by an oracle, completes adaptor
signatures that fund a child contract. The TypeScript under `testnet/src/` holds
the two participants' setup protocol, the recovery of a restarted participant,
and the scripts that put the templates on a chain; `testnet/ada/` and `spark/`
hold a manifest validator and SPARK models.

This directory holds TLA+ modules of that program, TLC runs on small instances
of them, and TLAPS proofs of what holds for every instance. Paths below are
relative to the repository.

## 1. The system

### 1.1 Components

For each part: the state it keeps, its operations, how it meets the others, what
is hard about it, and what makes it correct.

**Setup message schema and transcript** (`testnet/src/bilateral-setup-schema.ts`).
Stateless over a list of messages. A transcript is valid if every message has the
session of the first, sequences are 1, 2, 3, ..., and an acknowledgement names the
digest of an earlier message that the same and other participants have not
acknowledged yet. Feeds the state machine and the peers. Hard: replayed or
duplicated acknowledgements. Correct if acknowledgements vouch for distinct
earlier messages.

**Bilateral state machine** (`testnet/src/bilateral-state-machine.ts`).
State: the session's state (13 names from `initialized` to `aborted`), nine
retained flags, who acknowledged, the log of transitions. Operations:
`applySetupMessage` (eight kinds), `applyPostSetupAction` (four), and
the replay around them, which validates, applies, catches and reports. Used by
every other bilateral module. Hard: long legal sequences (an acknowledgement after
the attestation, actions after terminal ones, a replay whose report is computed
from the log and not from the state). Correct if acceptance is complete, states
never regress, terminal states are final, and the reported checks agree with the
verdict.

**State retention** (`testnet/src/bilateral-state-retention.ts`).
Builds, from an accepted replay, the record a participant must not lose
(templates, packets, deadlines), validates it field by field, and decides what a
recovered participant does: complete, refund, wait or abort. Hard: the comparison
with the timeout height; an attestation of the wrong outcome. Correct if what it
orders can be confirmed and nothing is ordered from an inconsistent record.

**Restart recovery** (`testnet/src/bilateral-restart-recovery.ts`).
State: one checkpoint file per participant, with a digest. Operations: write a
checkpoint after the funding exchange, the adaptor exchange and the attestation;
recover from one. Hard: crashes between checkpoints, partial losses, a chain and
an oracle that moved on. Correct if loss fails closed, attested participants never
turn to the refund, and a parent edge on the chain does not stay there.

**Template agreement** (`testnet/src/bilateral-template-agreement.ts`).
Computes the transactions both participants must hold alike, their digest, and the
comparison of two views. Stateless; used by funding, exchange, retention and the
peers. Correct if equal digests mean equal templates.

**Funding validation** (`testnet/src/bilateral-funding-validation.ts`).
Checks ownership, uniqueness, amounts and change of the funding inputs in a
transcript, and compares the digests of two views. Correct if both participants
rely on the same inputs.

**Adaptor exchange** (`testnet/src/bilateral-adaptor-exchange.ts`).
Builds and verifies two messages with three adaptor packets in all: Alice's for the
parent CET, Bob's for the bridge and for the child CET. Correct if every
accepted packet can be completed by the attestation it is meant for, and by it only.

**Process peers and their harness** (`testnet/src/bilateral-process-peer.ts`,
`bilateral-two-process-test.ts`). Each peer is a process that reads JSON lines,
keeps the messages and the last exchange, and at `finalize`, an unknown line or
the end of input judges what it holds, prints a result and exits. The harness
starts two of them, writes the lines, and compares the results. Hard: lines lost,
repeated, exchanged, altered; lines after the exit; two judges that do not see
each other's input. Correct if what a peer accepts is whole, of one session and
executable, if what the harness accepts binds both, and if both peers end.

**Bilateral roles** (`testnet/src/bilateral-roles.ts`). Builds and checks role
announcements and keeps private material out of them. Stateless.

**Public activation** (`testnet/src/public-cdlc-evidence.ts`,
`public-child-cet-fund-parent.ts`). State: the chain and mempool behind an RPC or an
Esplora backend, and the artifact files. Operations: scan for funding, broadcast
and confirm the parent CET, broadcast and confirm the bridge, test the child refund
before its locktime, write the bundle. Hard: a run that dies between two broadcasts
and is started again; waits that time out and transactions that confirm later; one
HTTP error in a polling loop; funding spent by somebody else. Correct if a bundle
is written only of confirmed transactions, the bridge never precedes its parent,
and a rerun resumes.

**Regtest evidence** (`testnet/src/regtest-cdlc-evidence.ts`). The same on a
private node, one step after the other.

**Oracle commitment history** (`testnet/src/oracle-history.ts`, `oracle-audit.ts`,
`oracle-query.ts`). State: an append-only hash-chained list of commitments and
attestations. Operations: build, verify, monitor, query. Hard: equivocation spread over
a history of legal entries; a reader whose copy was altered, with its hashes computed
again. Correct if a history without faults attests one message per nonce, what a
query returns verifies, a fault that was found stays found, and an altered copy does
not keep the root.

**Scenario and Taproot spends, elliptic curve and adaptor signatures**
(`testnet/src/cdlc-scenario.ts`, `taproot.ts`, `secp.ts`, `bytes.ts`). Pure
functions: keys, nonces, adaptor signatures, completion, extraction of the secret,
transaction bytes, amounts. Correct if a completed adaptor verifies and only then,
and if the least parent funding pays for every spend of the graph.

**Lazy activation and settlement replays** (`testnet/src/bilateral-lazy-activation-test.ts`,
`bilateral-settlement-execution-test.ts`, `bilateral-wrong-path-replay-test.ts`).
Tests that drive the components above, and hold code the components do not: the
prepared edge package and its activation by any holder, the settlement of a retained
state under an attestation, the alterations of a state with its digests computed
again. Hard: two alterations that cancel each other's trace. Correct if what settles
is the agreed graph under a published attestation, and one intact holder is enough.

**Lightning hold invoice harness** (`testnet/src/lightning.ts`, its commands in
`cli.ts`). State: the files of the lock, the invoice and the attestation, the reports,
and two LND nodes. Operations: lock and attest (the oracle), create, pay, settle,
cancel. Each command is a process that reads files, sends one request and writes a
file. Hard: answers lost after the node acted, files overwritten while a command
waits, commands repeated, an invoice that expires. Correct if the receiver is paid
only for the outcome of the lock, once it is attested, and what was reported stays
true.

**Economic stress and loan lifecycle** (`testnet/src/economic-stress.ts`). A
numeric simulation of a collateralised claim over price paths, in integers. Stateless.
Correct if rounding neither hides nor invents a shortfall.

**Command line, manifest and evidence verification** (`testnet/src/cli.ts`,
`manifest.ts`, `evidence-bundle-verify.ts`). Arguments, files, checks of recorded
artifacts.

**Ada manifest validator, SPARK models** (`testnet/ada/src/`, `spark/src/`). A
validator of a line-oriented manifest; algebraic models of window, loan, Lightning
and signature properties that SPARK proves.

### 1.2 Interactions

```
 schema ---> state machine ---> retention ---> restart recovery ---> chain
    |             ^                  ^                                ^
    |             |                  |                                |
    +--> process peer <--- funding   templates ---> adaptor exchange  |
              ^        validation        ^               |            |
              |                          +---------------+       public activation
           harness (two peers)

 oracle audit ---> history ---> queries        templates, retention ---> settlement
 adaptor algebra ---> adaptor exchange, settlement, Lightning
```

Messages cross a process boundary in one place only: from the harness to the two
peers. Shared state is the chain, which the recovered participants and the
activation script reach independently, and, of the Lightning commands, the files and
the two nodes. Everything else is calls.

## 2. Modules

| Module | Models | Role |
|---|---|---|
| `BilateralSetupSchema` | `bilateral-setup-schema.ts` | messages, what makes the next message of a transcript valid |
| `BilateralStateMachine` | `bilateral-state-machine.ts` 160-395 | guards and effects of each message and action, as operators |
| `BilateralReplay` | the same, 396-530 | the replay as a state machine: read, act, reject, return; the reported checks; properties |
| `SetupSession` | none | the abstract contract of a session |
| `MCBilateralReplay` | none | the messages TLC tries |
| `BilateralReplay_proofs` | none | theorems about `BilateralReplay` |
| `RestartRecovery` | `bilateral-restart-recovery.ts`, `bilateral-state-retention.ts` 480-590, the chain of `bilateral-template-agreement.ts` | checkpoints, crashes, losses, recovery, chain |
| `RestartRecovery_proofs` | none | theorems about `RestartRecovery` |
| `BilateralFundingValidation` | `bilateral-funding-validation.ts` | `FundingAccepted` |
| `BilateralAdaptorExchange` | `bilateral-adaptor-exchange.ts`, the plan of templates | `ExchangeAccepted`, curve as free terms |
| `TwoProcess` | `bilateral-process-peer.ts`, `bilateral-two-process-test.ts` | two peers, transport with faults, verdict; composes the four operator modules |
| `MCTwoProcess` | none | the altered lines TLC tries, and that none changes who sends a message (`EnvelopesKept`), and that the funding is no dust (`AmountsSuffice`) |
| `TwoProcess_proofs` | none | theorems about `TwoProcess` |
| `PublicActivation` | `public-cdlc-evidence.ts` 405-941, 1211-1764 | the activation script request by request, its reruns, a chain with a mempool and reorganizations |
| `PublicActivation_proofs` | none | theorems about `PublicActivation` |
| `AdaptorSignature` | `secp.ts`, `bytes.ts` | Schnorr and adaptor signatures as free terms, as operators |
| `TaprootSpend` | `taproot.ts`, `cdlc-scenario.ts` | fees, dust, amounts, spends, completion of an adaptor |
| `BilateralTemplateAgreement` | `bilateral-template-agreement.ts` | the five spends, the checks of a template, views and their comparison |
| `BilateralStateRetention` | `bilateral-state-retention.ts`, `bilateral-roles.ts` | building and validation of a retained state field by field, settlement of one |
| `Settlement` | `bilateral-settlement-execution-test.ts`, `bilateral-lazy-activation-test.ts`, the retained states of `bilateral-wrong-path-replay-test.ts` | copies of states and packages, their damage and loss, attestation, settlement, activation |
| `MCSettlement` | none | the two setups TLC tries |
| `Settlement_proofs` | none | theorems about `Settlement` and the amounts |
| `OracleAudit` | `oracle-audit.ts` | announcements and attestations, building and verification |
| `OracleHistory` | `oracle-history.ts`, `oracle-query.ts` | the log, a reader's copy, the monitor, the queries |
| `MCOracleHistory` | none | the publications TLC tries |
| `OracleHistory_proofs` | none | theorems about `OracleHistory` |
| `ConditionalPayment` | none | the abstract contract of a payment conditioned on an outcome |
| `Lightning` | `lightning.ts`, `cli.ts` 452-563 | the commands as processes, their files, two external nodes |
| `MCLightning` | none | the symmetry of the outcomes |
| `Lightning_proofs` | none | theorems about `Lightning` |
| `EconomicStress` | `economic-stress.ts` 278-323, 455-468, 549-609 | liquidation and waterfall, as operators |
| `EconomicStress_proofs` | none | theorems about these |

Composition: `BilateralReplay` and `TwoProcess` both extend
`BilateralStateMachine`, so the same guards and effects are judged once step by
step (with all the transitions recorded) and once as a peer replays what it
received, a function of how many messages it has read. `BilateralReplay` instantiates `SetupSession` with the refinement
mapping `SessionPhase`.

`Settlement` extends `BilateralStateRetention`, which extends
`BilateralTemplateAgreement`, which extends `BilateralAdaptorExchange` (the plan of
packets, shared with `TwoProcess`) and `TaprootSpend`, and that `AdaptorSignature`:
every value a settlement compares is computed by the operators of the module that
models its file. `Lightning` extends `AdaptorSignature`, too, and instantiates
`ConditionalPayment`: the money of a lock is where the invoice that the receiver's
node made for the lock has it (`MoneyOf`).

Several definitions stand below a *broken variant* of themselves, marked as such:
the variant is a plausible mistake in the same code, and substituting it makes TLC
violate the property it was written for. No specification uses the variants.

### 2.1 State and actions against the code

`BilateralReplay`: `machine` is `MutableBilateralState` (state, retained flags,
`acceptedBy`, announced roles, next sequence); `transitions` is the list of
transition records; `transcript` the messages read; `result` how the replay ended.
`ReadMessage` is one turn of the message loop (validation, guard, effect, record),
`RejectMessage` and `RejectAction` the exceptions that `tryReplay...` catches,
`MeetInvalidMessage` the transcript error it does not survive, `TakeAction` one turn
of the action loop. The inputs are chosen when the loop reaches them, which ranges
over the same transcripts as choosing them beforehand. The code validates the whole
transcript first; since a replay that throws or catches discards all it computed,
the order does not show.

`RestartRecovery`: `disk` is the checkpoint file, where each part of it the
recovery reads is a field (does the file parse, does the digest match, does the
transcript validate, is the retained state missing, inconsistent or valid, which
attestation is stored). `lost` is history: which parts were damaged since the file was
written. `process` is what the participant is doing or was told to do. `chain` is how
far the retained template is confirmed: the parent funding is unspent, then the parent
CET's output, which either the bridge or the edge timeout refund spends. The actions
are the three checkpoint writes, `TornWrite`, `Crash`, `Lose`, `Recover`,
`PublishAttestation`, `MineBlock` and the three confirmations.
`Lose` has the five damages of the recovery test. The test computes the digest again
after each damage but that of the digest, and so does `AfterLoss`, so that a later loss
makes good a digest corrupted before. `TornWrite` is a crash inside `writeJsonFile`,
which overwrites the file in place: what is left does not parse, and every recovery
throws on it. A caller that keeps a file per phase, as the test does, still has the
previous one, which is `Crash` before the write.
Completing needs the retained adaptor signatures and the attestation, so either
participant can do it. The edge timeout refund is retained unsigned, its signature is by
the bridge's signer, Bob, and the retained state says that signing it needs local secret
material; `ConfirmEdgeTimeoutRefund` is therefore Bob's alone (`BridgeSigner`), although
the recovery tells either participant to refund. The key is no part of the checkpoint and
is assumed kept.

`TwoProcess`: `peer[p]` is the module state of the process (messages, last
exchange) and how it ended; `written[p]` how much of the stream the transport
consumed; `session[p]` which session's stream the harness feeds it. A digest is
represented by the message it is the digest of; the schema's position in the
transcript is derived when the peer finalizes. The peer's judgement is one step, as
it is synchronous in the code.

`PublicActivation`: `run` is the script's position between two requests (which
transaction it works on, which funding output it chose, and a status it has read
whose height it has not yet asked for); what happens between two awaits is one
action. `command` is the command line, kept over reruns. `mempool`
and `depth` are the chain as nodes and Esplora report it, `since` the blocks since the
run read the height from which it computed the refund's locktime. `Interrupt` is every
way a run dies at a request (an HTTP error in a polling loop is one), `TimeOut` the
deadline of the wait. The environment funds the address, spends the funding
elsewhere, mines and reorganizes.

`OracleHistory`: `log` is the observer's list of entries, `copy` the list and root a
reader holds, `changes` how often that was altered. `Observe` appends a publication,
sound or not, which is what the code's builder does. The alterations are those of the
monitor's fixtures and the ones they leave out: `Drop`, `Truncate`, `Swap` and
`Rewrite` an entry, `Relink` (compute the hashes again over what is there) and
`Reroot`. Verification, monitor and queries are operators over a list of entries.

`Settlement`: `transcript` is the accepted setup, `retained` each role's state or
nothing, `package` each holder's prepared edge; `stateFaults` and `packageFaults` count
what happened to each copy, `published` holds the attested outcomes, `settlements` and
`activations` what succeeded, with the copy it used. `DamageState` and
`DamagePackage` lose a copy, or put into one of some fifty fields a value that nothing
was computed from or that of another field. `RewriteStateDigest` and
`RewriteTemplateDigest` make the digests match again, as the replay test does.
`Settle` is the attempt of that test with every check, `ActivatePreparedEdge` the
activation of the lazy activation test.

`Lightning`: the three files and `reports` are what commands wrote; `call[c]` is the
process of command `c`: what it read, whether its request is on the way, and the
answer. `OracleLock` and `OracleAttest` touch no node and are one step; `CreateHoldInvoice`,
`PayInvoice`, `SettleInvoice`, `CancelInvoice` read the files and send, the
node's handlers answer, `FinishCreate` and `FinishReport` write. `Abandon` is a
process killed or a connection broken; the request may still arrive. The nodes are
external, modelled from what the commands send and from which answers they expect:
an invoice is open, accepted, settled or canceled, and until it is settled it may expire.
Secrets drawn at random are lost unless the lock was made with `--include-test-secrets`.

## 3. Runs

| Run | Result | What it asks |
|---|---|---|
| `BilateralReplay` | passes, 15,320 states | is acceptance complete, ordered, final and of distinct acknowledgements for every transcript and action list; does the replay implement `SetupSession` |
| `RestartRecovery` | passes, 580,529 states | are recovery's orders valid, does loss fail closed, is a parent edge resolved |
| `TwoProcess` | passes, 74,912 states | is what peers accept whole, of one session, binding and executable, and do they end |
| `PublicActivation` | passes, 171,554 states | is a bundle of confirmed transactions, does the bridge wait for its parent, does a rerun get through |
| `Settlement` | passes, 80,432 states | does damage to what is kept change what settles, and is one intact copy enough |
| `OracleHistory` | passes, 113,869 states | what may a reader conclude from a history that verifies, or has no faults |
| `Lightning` | passes, 707,874 states | do reports stay true, and do the commands implement the conditional payment |
| `BilateralReplayMaterial` | violated | finding 1 |
| `RestartRecoveryAbort` | violated | finding 2 |
| `RestartRecoveryRefund` | violated | finding 3 |
| `TwoProcessFunding` | violated | finding 4 |
| `PublicActivationRefund` | violated | finding 5 |

### 3.1 Properties

`BilateralReplay`: `AcceptedMeansComplete` (accepted, attested or settled means both
acknowledged and all nine artifacts retained), `RetainedInOrder`, `AcceptancesDiffer`
(the two acceptances vouch for different earlier messages),
`AcceptedReplayPassesChecks` (the checks computed from the log agree with the verdict
computed from the state), `AttestedCanSettle`, `NoRegress`, `TerminalIsFinal`,
`SessionContract` (refinement).

`RestartRecovery`: `OrdersAreValid`, `AttestedNeverRefunds`, `EdgeRaceIsDecided` (an
action property: the chain moves towards the child only by the activating attestation, and
the parent edge is refunded only while the bridge's signer has written no attestation
checkpoint, whatever the other participant was told), `PartialLossFailsClosed` (an action
property over all losses and torn writes since the last whole write), `EdgeIsResolved`
(liveness: a parent edge is spent in the end if the bridge's signer keeps its retained
state). If only the other participant keeps its state, `EdgeIsResolved` excepts that the
timeout came before the attestation: that participant is told to refund and has no key
for it. The race itself is not excluded: while Bob has not written the attestation he may have
used, a crash, a restart without the attestation and the timeout may turn him to the refund,
and then the chain takes whichever of the two spends comes first.

`TwoProcess`: `AcceptedHoldsWholeSetup`, `AcknowledgementsBind` (though neither peer
sees what the other got, an acknowledgement they share means they share what it
acknowledges), `AcceptedExchangeCompletes`, `AcceptedIsOneSession`, `AnswersOnce`,
`EveryPeerEnds` (liveness).

`PublicActivation`: `BundleIsConfirmed` (both transactions of a bundle have the
confirmations asked for, and keep them), `BridgeFollowsConfirmedParent` (an action
property over all runs), `ResumesActivation` (liveness, for a named funding output over
Esplora). The two safety properties except Esplora after a reorganization
(`ReadsAreWhole`): it is asked for the block of a transaction and for the height of the tip in
two requests, and a reorganization between them makes the script count confirmations
that no chain had. `ResumesActivation` excepts RPC, where a rerun fails at the mempool
test of the parent CET its predecessor broadcast; the funding named on mainnet, which
must be unspent; and the scan, which no longer finds the spent funding and may take
another output. The model contains these behaviours, and no document promises otherwise.

`Settlement`: `SettlementIsBound` (an accepted settlement holds together, however many
fields were damaged and digests computed again), `OnlyActivatingOutcomeActivates`,
`SettledAsAgreed` (and it is the settlement that was agreed), `SomeHolderActivates`
(liveness: while fewer copies are damaged than there are, the bridge is completed).
`SettledAsAgreed` is stated of at most one fault, or of a view of the template that
agrees with the one the other participant derives, and the model shows why: the
validation compares the child funding with the bridge's output, so that two matching
alterations pass it; the unsigned bytes of a spend are read by no check at all; and the
output index and the role name of the child funding are guarded by the digest of the
template alone. A copy whose index was altered and whose digests were computed again
settles on its own, into another child outpoint. What notices is the comparison of the
two participants' settlements in the settlement test (the second half of
`SettledAsAgreed`), so for a single fault the property promises the edge, the bridge, the
amount and script of the child funding and the signatures, and not these two fields
(`AsAgreedButForLabels`). A setup with a third acknowledgement is accepted by
the state machine and refused by the builder of the retained states: both roles then
keep nothing, which `SomeHolderActivates` says is no loss as long as a prepared package
is left.

`OracleHistory`: `TamperEvident` (whoever knows the root holds the observer's entries or
a log that does not verify), `OneMessagePerNonce` (a log without faults attests one
message per nonce), `QueryFindsVerifyingAnnouncement`, `HistoryAnswersAreBacked` (an
attestation a query returns stands after the announcement that verifies it),
`FaultsPersist` (an action property: no publication hides a fault that was found).

`Lightning`: `ReportsAreTrue` (what a command wrote is true of the nodes and stays true),
`ImplementsConditionalPayment` (refinement: the receiver gets the money of a lock only
once the outcome of that lock is attested, and what was paid or returned stays so).

### 3.2 Bounds

* `BilateralReplay`: `MaxSequence = 14`. The canonical setup has eleven messages, so
  three more inputs are left: a repeated announcement or a third and fourth
  acknowledgement, or any three actions, which is one more than the longest path to a
  terminal state (attest, settle). Two sessions, two materials and lists one
  entry short or just long enough make every guard of the validation fail and
  succeed. `AckTargets` are the first message, the adaptor points (9) and the first
  acknowledgement (10) of the canonical order, the zero that stands for an unknown
  digest, and a position (12) that exists only in transcripts longer than the
  canonical one.
* `RestartRecovery`: two participants, since what one does to the chain is what the
  other recovers into. `BridgeTimeoutHeight = 2` and `MaxHeight = 3` give heights
  below, at and above the timeout, two of them below. Two crashes and two losses in
  all: the second loss has its digest computed again and so hides a corrupted digest,
  losses of two parts meet in one file, and a participant may crash again after it
  recovered, or in the middle of the write that follows. One of the two is
  `BridgeSigner`, as in the code. The proofs remove these bounds.
* `TwoProcess`: one fault in all, of any kind, at any line, to either peer, on top of
  any choice of sessions for the two streams. Every alteration of the tests of
  malformed counterparties is among `MCAlterations`, and some that no test makes (a
  scalar made for the adaptor point of another purpose, a message with its packets
  twice, the exchange of the other session).
* `PublicActivation`: every combination of backend and funding mode, and the dry run.
  Two outputs for the scan to choose from, two interrupted runs in all and any number
  that time out, one reorganization. `MinConfirmations = 2`, because a reorganization
  here replaces one block; confirmations are counted up to one more. With the
  script's default of one the safety properties do not survive a reorganization, which
  the release notes say a run does not prove anything about. `RefundDelay = 6`
  stands for 144: more than the four blocks two waits take, so that a run over
  RPC can both finish in time and be late.
* `Settlement`: two faults in all, because a second alteration may hide the first from
  the check that would have caught it. Alice's copy and the watchtower's are damaged
  field by field, Bob's is lost as a whole, since what a check reads does not depend on
  the role. Two setups, one with a repeated acknowledgement. Both outcomes are attested
  in any order. The parent funding is a fixed amount above the least one, which
  `MinimumFundsTheGraph` proves to be the least.
* `OracleHistory`: up to four publications out of fourteen, sound, equivocating and
  malformed: a conflict takes at most two announcements and two attestations. The second
  event's name extends the first's, and the expiry of one announcement has passed.
  Copies of logs of at most two entries are altered, twice, so that an entry can be
  rewritten and the chain made to match.
* `Lightning`: two outcomes, so that the wrong one can be attested; the secrets given on
  the command line and one pair drawn at random, which are two locks for each outcome;
  four commands that talk to a node (the longest path is create, pay and settle, and one
  more interferes) and three of the oracle's. One process at a time for each command;
  different commands overlap.
* The violated runs use the smallest instance that shows the behaviour.

Every run switches off the deadlock check, because each of these systems
ends: a replay returns, the bounds on heights and faults are used up and the last
order is carried out, both peers exit, a bundle is written and its transactions are
as deep as is counted, every outcome is attested, the commands are used up. That
peers, edges and activations do not stop too early is what the liveness properties say.

### 3.3 Fairness

`BilateralReplay` has none: a replay is a function call and no liveness is asked of
it. `RestartRecovery`: weak fairness of `MineBlock` (blocks keep coming), of a
participant's `Recover` with some attestation or none (the recovery is a command
that an operator runs until it gives something to do, which is what
`wait_for_oracle_or_timeout` tells it), and of `Settle` (a participant told to
complete broadcasts, the bridge's signer told to refund signs and broadcasts, and a valid
transaction is confirmed). None is
assumed of the oracle, of the setup, of crashes or losses. `EdgeIsResolved`
assumes in its own statement that the oracle attests no outcome but the activating
one, and finding 2 is why it must. `TwoProcess`: weak fairness of `Deliver` and
`Close` for each peer. The harness writes all lines and ends the input without
waiting for an answer, and the runtime hands a process its input; faults are never
owed. `PublicActivation`: weak fairness of starting the command (an operator runs it
until it is through), of the run's next step (its requests are answered) and of a block
that takes the mempool. None of a timeout: in the fair behaviours a wait may
always time out before the poll that would have ended it, and the rerun's first look
finds the transaction. `Settlement`: weak fairness of each role's `Settle` and each
holder's `ActivatePreparedEdge` for each outcome, since a participant that can settle
tries to; none of attestations, damage, or digests. `OracleHistory` and `Lightning`
have none: nobody owes a publication, an alteration or a command, and no document
promises that a node answers.

## 4. Proofs

Eight proof modules are checked by TLAPS to the last leaf. They hold for every value
of the constants that satisfies the named assumptions of the modules they are about:
any set of messages, transcripts of any length, any set of participants, any heights and
any number of crashes, losses, failed runs, publications, alterations and commands.

**`BilateralReplay_proofs`.** `AcceptedMeansComplete` is not inductive: it
says nothing of the states on the way, where the flags get set. The invariant `IInv`
adds `Coherent`: which flags are retained follows from the rank of the state in the
protocol (a table of ranks, and of the state each message leads to), the roles'
flags from the roles announced, and acceptances occur only from
`adaptor_points_exchanged` on; a terminal session keeps the flags in order, and
messages are read only while no action has been taken. One
lemma per kind of message and per action shows that it is preserved
(`RoleAnnouncementCoherent`, `AgreementCoherent`, `AcknowledgementCoherent`,
`PostSetupActionCoherent`), lemmas on the tables carry the case distinctions, and
`Invariant` combines them. From it follow `TypeCorrect`, `AcceptanceIsComplete`,
`RetentionIsOrdered`, `AttestedSettles`, the action properties `StateNeverRegresses`
and `TerminalStatesAreFinal`, and the refinement `ReplayImplementsSession`, whose
step lemmas match each step of the replay with a step of `SetupSession` or a stutter.
A second invariant, `LogInv`, relates the log and the transcript to the machine: the
acknowledgements read name earlier messages, each one its own, and those counted were
read; every record of the log passes the checks reported of it; and an accepted state,
or retained funding inputs, left their record in the log. From it follow
`AcceptancesVouchForTwo` and `AcceptedReplaysPassChecks`.

**`TwoProcess_proofs`.** Two assumptions say what the transport may do: an altered line
has the fields of its kind (`AlterationsAssumption`), and the canonical material and
outpoints of a role are among those of the schema (`CanonicalAssumption`). The invariant
says that a peer holds only messages that a possible line carries, and that a peer that
accepted passed every check with what it still holds (`Judged`): a process that exited
handles no line. Hence `PeersAnswerOnce`, `TypeCorrect`, `AcknowledgementsBindBoth`
(a valid acknowledgement has the position of an earlier message of the same
peer), `AcceptedExchangesComplete` and `AcceptedSetupsAreOneSession`, for any sessions,
alterations and number of faults.
`AcceptedPeersHoldWholeSetups` follows the replay, a recursive function of the position.
That such a function has a value at every position is itself an induction, done by the
least position where it fails (`ReplayExists`). `Shape` says what a machine that has
replayed so many messages was given: which kind stood at each place, in which states it
is, whose acknowledgements it counted. One lemma per kind of message carries it over a
message that applies (`ShapeStep`), and `ReplayHasShape` is the induction. A machine that
reached acceptance then has been given both announcements, the seven agreements in their
order and acknowledgements of both roles, and the sequence numbers leave no gap. Nothing in
the code says more: no check of a peer says which of the two roles sends a list, and further
acknowledgements are accepted. `AcceptedSetupsAreCanonical`, which states
`AcceptedHoldsWholeSetup`, therefore assumes `EnvelopesKept`, that no alteration changes a
message's kind, place, session or sender; every alteration TLC tries is one of
those, which it evaluates with the run. What is inside a message, every line of another
kind, and any number of losses, repetitions, exchanges and early ends stay arbitrary.
The converse is `UnfaultedSetupsAreAccepted`: the checks are not so strict that nothing
passes. Without a fault every peer that ended accepted, and two peers of one session make
an accepted setup, for any session and any order in which the two get their lines. Its
assumption `AmountsSuffice`, that the participants' funding is positive and no dust, TLC
evaluates with the run. The invariant is that a peer holds exactly what it was fed of the
canonical lines (`AllFed`); the canonical transcript is shown valid
(`CanonicalIsValid`), its messages to apply one after the other up to acceptance
(`CanonicalStep`, `CanonicalReplayAccepts`), and its funding and exchange to pass. That
the peers do end is `EveryPeerEnds`.

**`RestartRecovery_proofs`.** None of the safety properties is inductive either: a
participant's order is computed from its checkpoint, so the invariant must say what
a checkpoint can hold. `Faithful` says that every loss leaves its mark until the
next write: a digest that was damaged does not match, a transcript that was damaged
does not validate, a retained state that was damaged is not valid, a lost
attestation is missing from a checkpoint that must have one, a file that was torn does
not parse (`AfterLossFields` and `TornWriteInvariant` say what a damage does); and that
an attestation is stored in the last checkpoint only, is the activating one, and was published.
`IInv` adds the orders
(`OrdersAreValid`, `AttestedNeverRefunds`) and the chain. `RecoveryPresupposes`
states what each verdict of the recovery presupposes of the checkpoint, and it is
the only place where the decision is expanded; `RecoverInvariant` and
`RecoverFailsClosed` cite it. From the invariant follow `TypeCorrect`,
`RecoveryOrdersAreValid`, `AttestedParticipantsNeverRefund`,
`RaceForTheEdgeIsDecided` and `LossFailsClosed`.
`IntactParticipantsProceed` is what `EdgeIsResolved` rests on, as an invariant: as long as
no other outcome is attested, a participant that keeps its retained state is at work, or
waits, or was ordered to complete or, above the timeout only, to refund, and to evaluate
its checkpoint again gives no other orders; nothing makes it abort. The invariant it needs
(`WholeInv`) is the converse of `Faithful`: a file that nothing was lost of is the
checkpoint that is built at its phase.

**`PublicActivation_proofs`.** The invariant adds to the types what a run has seen and
what is still so (`SeenIsSo`): a status it read is at most what the chain has, a run
that works on the bridge left a deep parent behind, one about to finish a deep bridge.
That a deep transaction stays deep (`DeepStaysDeep`) needs two confirmations or more, an
assumption of each theorem, because a reorganization replaces one block; a status and
the chain count the same blocks until a reorganization, where `ReadsAreWhole` ends.
From it `TypeCorrect`, `BundlesStayConfirmed`, and, since a bridge that is new to the
network can only come from a run's broadcast (`BridgesComeFromRuns`), the action
property `BridgesFollowConfirmedParents`.
`RunsCanProceed` is what `ResumesActivation` rests on: while the funding is not spent
elsewhere, a run never finds its way blocked by what earlier runs, blocks and
reorganizations left behind. Its transaction is known to the network or the network takes
it, and what a run waits for is there. The invariant (`LeftBehind`) says which transaction a run
must have shown to be where it is; `KnownStays` that only a spend elsewhere takes a
transaction from the network; and `RunMoves` names the three ways a run moves.

**`Settlement_proofs`.** `MinimumFundsTheGraph`: the least parent funding of the code is
the least from which every spend of the graph can be built. The invariant keeps hold of
where values come from through any damage: every packet's and package's scalar is one
the participants made, under the point it was made for, or the damaged value
(`RetainedKnown`, `PackagesKnown`), and what settled was checked (`SettlementsTyped`).
From it `TypeCorrect` and `SettlementsAreBound`; `WrongOutcomeActivatesNothing` assumes
in addition that the damaged value is no signature (`NotForged`).
`SettlementsAreAsAgreed` states `SettledAsAgreed` under the like assumption that the
damaged value is the scalar of no signature at all (`NotAScalar`): after one fault the
agreed edge, bridge, child amount and script and signatures (`SameGraph`), the whole
settlement, output index included, if the views agree. `SettledAsAgreed` is not
inductive: the invariant needs two more parts. `Untouched` says that a copy without a
fault is the state that was built, and one with a single fault has the agreed template or,
if the fault is in the template, the agreed packets. `Made` says that every kept scalar is
an agreed one or the damaged value, also in packages and in whatever settled. Then the
graph that was checked is compared with the agreed one, fault by fault
(`DamagedGraphIsTheSame`), and a packet whose scalar verifies was made for its wallet, point
and template. `UntouchedCopiesActivate` is what `SomeHolderActivates` rests on, as an
invariant: an untouched state settles as agreed with the activating attestation and an
untouched package completes to a spend the network accepts, whatever became of the other
copies. That fewer faults than copies leave one untouched, and that a holder of it gets
to act, stays with TLC.

**`OracleHistory_proofs`.** `NoncesAttestOnce` needs no invariant, as it holds of every
list of entries: in a log without faults two attestations that share a nonce verify
against announcements of that nonce, which are of one event, and multiple attestations
of one event are a fault. `AnswersAreBacked` is of the same kind. `FaultsStay` shows for
each kind of fault that it grows with the log, as long as the log verifies.
`TypeCorrect` goes through every alteration of a copy. `RootsBindLogs` is the chain of
hashes for logs of any length: equal hashes have equal lengths under them, so that the
last hash fixes the number of entries, and each hash fixes its entry and the hash before
(`HashesAgree`, `LastHashBinds`). `QueriesFindVerifyingAnnouncements` takes the first
verifying announcement with the attestation's digest, which is the one a query picks. Both are
inductions over positions, done by taking the least counterexample
(`PositionInduction`).

**`Lightning_proofs`.** Neither property is inductive: a report is written from what a
process read long ago and from an answer given long ago. `IInv` says of each command
what binds its input and its answer to the nodes (`CreateBinds`, `PayBinds`,
`SettleBinds`, `CancelBinds`), of each file that its parts belong together (`FilesBind`),
of each invoice that its hash is that of the lock it was made for (`InvoicesBind`), and
that payments follow invoices. `Lasts` is the action predicate that makes it inductive:
what a node did, no step undoes. From it `TypeCorrect`, `ReportsStayTrue`, and
`LightningImplementsConditionalPayment`, which also needs that two locks with one hash
are one lock.

**`EconomicStress_proofs`.** Of operators, without states. Integer division is exact in
comparisons (`FloorIsExact`, `CeilIsLeast`); hence `WaterfallConservesCollateral`,
`ShortfallIsExact` (rounding the claim up and its value down never reports a shortfall
that is not there, or hides one), `ClaimIsNotOverpaid`, and `UntriggeredPathIsSolvent`
(a position that no price on the path triggers pays in full, if the threshold leaves
room for the relay fee). A scenario keeps no state, so no run goes with them.

Only model-checked: the liveness properties `EdgeIsResolved`, `EveryPeerEnds`,
`ResumesActivation` and `SomeHolderActivates`, since liveness under fairness is out of the
prover's reach. Of three of them the part that is an invariant is proved
(`IntactParticipantsProceed`, `RunsCanProceed`, `UntouchedCopiesActivate`); that what can
proceed does, is what TLC shows. Every safety property and action property of the passing
runs is stated by a theorem. The violated properties are refuted and have nothing to prove.

## 5. Findings

Each one is a disagreement between a document (or a declared capability) and the
code, shown by a violated run.

1. `BilateralReplayMaterial`, `DistinctRoleMaterial`:
   `docs/L3_BILATERAL_STATE_MACHINE.md` says that role announcements bind the
   participants to distinct public material before an oracle event is selected. The
   state machine never compares the two; the separation check of the roles module is
   called from its test only.
2. `RestartRecoveryAbort`, `RefundableAfterTimeout`:
   `docs/L3_BILATERAL_STATE_RETENTION.md` says that a participant refunds after the
   timeout height and aborts when retained state is missing or inconsistent. Handed
   an attestation of another outcome, a participant with intact state aborts at any
   height.
3. `RestartRecoveryRefund`, `OrderedRefundHasItsInput`: the retained state declares
   `canRefundAfterDeadlines`. The retained refund spends the parent CET's output, and
   the parent CET waits for the same attestation as the bridge; with a silent oracle
   the recovery orders a refund whose input does not exist.
4. `TwoProcessFunding`, `FundingDigestsAgree`:
   `docs/L3_BILATERAL_FUNDING_VALIDATION.md` says that both participant views
   observe the same funding digest. Both views are built from one transcript in one
   process; two peers that accept different outpoints are accepted by the harness,
   which compares a digest that does not depend on them.
5. `PublicActivationRefund`, `BundleRefundIsTimelocked`: a bundle declares its child
   refund complete but timelocked, and `docs/V0_1_TECHNICAL_DEMO.md` says that the early
   refund is rejected as non-final. Over Esplora nobody is asked: `allowed: false` is
   recorded as a constant, the check `childRefundEarlyRejected` passes on it, and
   after a run of more than 144 blocks the refund is final.

## 6. Abstractions

* Text, hex and JSON: a line parses or not; a value is well formed. A malformed
  stored scalar that throws out of recovery is therefore outside.
* Digests are injective: two values have the same digest exactly if they are equal in
  what the digest covers. What a digest covers is modelled (the template digest
  covers the session and not the funding inputs).
* Signatures are free terms: a packet's scalar records what it was computed from, the
  verification equation compares these, and completion yields a signature of the
  wallet and template the term names. Nobody is modelled as computing a term without
  the key.
* The funding inputs of a message are a set: the same input listed twice, which
  `outpointsUnique` rejects, is one input here. Two inputs that share an outpoint and
  differ otherwise are told apart and rejected.
* Of the checks of an adaptor exchange `publicMessagesContainNoPrivateScalars`, a search of
  the text for the canonical secrets, and the parity of nonces are left out. The model
  accepts no fewer exchanges than the code, so what holds of every accepted exchange holds
  of those of the code.
* In `RestartRecovery` the validation of a retained state is one of three verdicts;
  `Settlement` has it field by field. Of an output it damages the index, the amount and
  the script, of the child funding the role name too.
* In `OracleHistory` a time is a text that is read or not, and an announcement's
  freshness, a comparison of two times that nothing else uses, is left out.
* In `Lightning` a payment request stands for the hash it asks for; amounts, routes and
  timelocks of the nodes are left out. Whether an attestation's hash matches its lock is
  reported by the code and not enforced, which the model follows.
* A list in a message is its length, compared with its least length.
* In `RestartRecovery` the chain confirms what it is asked to confirm if the input is
  there and the locktime is past. `PublicActivation` has a mempool, conflicts and
  reorganizations of one block; fees are nowhere.
* Reading the funding in `PublicActivation` is one step although it takes several
  requests: no property speaks of what the funding's confirmations were.
* An answer of Esplora to a known transaction is one of those the script distinguishes:
  accepted, an error with the transaction's name, an error without it.

## 7. Not modelled, and the plan

Not modelled:

* `regtest-cdlc-evidence.ts` and `cdlc-smoke-test.ts`: the spends of `TaprootSpend` and the
  template graph in one fixed sequence against a private node that nobody else uses.
  No interleaving, no retry, and a failure ends the script.
* `public-child-cet-fund-parent.ts`, and of `public-cdlc-evidence.ts` the funding request,
  the mainnet plan, the lazy window evidence and the bilateral evidence: they write
  files from what the modelled parts computed. The window they describe holds
  computed edges, whose preparation and activation are in `Settlement`.
* Of the command line everything but the Lightning commands and the oracle's queries;
  `manifest.ts` and `evidence-bundle-verify.ts`: comparisons of recorded
  artifacts field by field, with no state over time.
* Of `lightning.ts` the manifest, the doctor, the lookup and the offline mock flow,
  which change nothing that lasts.
* Of `bilateral-roles.ts` the separation check, which only its test calls; one run is
  about that.
* The Ada validator and the SPARK models, which the repository proves in SPARK itself.
* Curve arithmetic, the parity of points and transaction bytes: 256-bit arithmetic is
  out of reach of both tools.
* Of `economic-stress.ts` the data set, the report's texts and the drawdown statistics.

The plan, in this order:

1. `LazyWindow`: the sliding window of prepared children and `LoanLifecycle`, from the
   SPARK models. Theorem: the active child was prepared.
2. `ManifestValidator`: the Ada validator as an automaton over lines.
3. The retained templates of an accepted setup: that two peers that hold one session
   retain the states that `Settlement` starts from.
