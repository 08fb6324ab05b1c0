----------------------------- MODULE OracleHistory -----------------------------
(***************************************************************************)
(* The observed history of an oracle: a hash-chained log of announcements  *)
(* and attestations (oracle-history.ts), the monitor that looks for faults *)
(* in it, and the queries over a directory of the same files               *)
(* (oracle-query.ts).                                                      *)
(*                                                                         *)
(* An observer appends what the oracle publishes, whatever it is: nothing  *)
(* is checked when a log is built.  A reader gets a copy of the log that   *)
(* may have been altered on the way, and verifies, monitors and queries    *)
(* it.                                                                     *)
(***************************************************************************)
EXTENDS OracleAudit, Naturals, SequencesExt

CONSTANTS
  Payloads,     \* what the oracle's builders, and damage, can put in a log
  MaxEntries,   \* bound on the length of the log
  MaxAltered,   \* bound on the length of a log that is altered on its way
  MaxChanges    \* bound on the changes a copy suffers

ASSUME OracleHistoryAssumption ==
  /\ Timestamps # {}
  /\ MaxEntries \in Nat /\ MaxAltered \in Nat /\ MaxChanges \in Nat

VARIABLES
  log,     \* the observer's entries
  copy,    \* the log a reader holds
  changes  \* how often the copy was changed

vars == <<log, copy, changes>>

-------------------------------------------------------------------------------
(***************************************************************************)
(* Building.  The hash of an entry covers its sequence number, the time,   *)
(* the previous hash, the type and the payload.  It is symbolic: the       *)
(* sequence of all that was hashed so far.                                 *)
(***************************************************************************)
EntryTypes == {"announcement", "attestation"}

\* What is no timestamp, no type and no payload of the oracle's.
Unreadable == "unreadable"

Contents ==
  [sequence : Nat, observedAt : Timestamps \cup {Unreadable},
   entryType : EntryTypes \cup {Unreadable}, payload : Payloads]

Hashes == Seq(Contents)

ZeroHash == <<>>

Entries == [content : Contents, previous : Hashes, hash : Hashes]

EntryHash(previous, content) == Append(previous, content)

LastHash(entries) == IF entries = <<>> THEN ZeroHash ELSE Last(entries).hash

\* Broken variant: an entry is built and hashed without its time.
UntimedEntry(entries, entryType, payload) ==
  LET content == [sequence |-> Len(entries) + 1, entryType |-> entryType, payload |-> payload]
  IN  [content |-> content, previous |-> LastHash(entries),
       hash |-> EntryHash(LastHash(entries), content)]

\* The next entry of a log.
MakeEntry(entries, entryType, payload) ==
  LET content == [sequence |-> Len(entries) + 1, observedAt |-> CHOOSE t \in Timestamps : TRUE,
                  entryType |-> entryType, payload |-> payload]
  IN  [content |-> content, previous |-> LastHash(entries),
       hash |-> EntryHash(LastHash(entries), content)]

\* The log of some entries as the builder returns it.
LogOf(entries) == [entries |-> entries, root |-> LastHash(entries)]

-------------------------------------------------------------------------------
(***************************************************************************)
(* Verification.                                                           *)
(***************************************************************************)
Payload(entries, i) == entries[i].content.payload

TypeAt(entries, i) == entries[i].content.entryType

\* The announcements the verifier knows by this digest when it reaches entry i.
KnownBefore(entries, i, digest) ==
  {j \in DOMAIN entries : /\ j < i
                          /\ TypeAt(entries, j) = "announcement"
                          /\ AnnouncementVerifies(Payload(entries, j))
                          /\ Payload(entries, j).digest = digest}

\* An attestation is compared with the latest of them.
PayloadVerifies(entries, i) ==
  LET known == KnownBefore(entries, i, Payload(entries, i).digest)
  IN  \/ /\ TypeAt(entries, i) = "announcement"
         /\ AnnouncementVerifies(Payload(entries, i))
      \/ /\ TypeAt(entries, i) = "attestation"
         /\ ParsesAsAttestation(Payload(entries, i))
         /\ \E j \in known : /\ \A k \in known : k <= j
                             /\ AttestationVerifies(Payload(entries, j), Payload(entries, i))

\* Broken variant: entries are not compared with the ones before them.
EntryVerifiesUnlinked(entries, i) ==
  /\ entries[i].content.sequence = i
  /\ entries[i].content.observedAt \in Timestamps
  /\ entries[i].hash = EntryHash(entries[i].previous, entries[i].content)

EntryVerifies(entries, i) ==
  /\ entries[i].content.sequence = i
  /\ entries[i].previous = IF i = 1 THEN ZeroHash ELSE entries[i - 1].hash
  /\ entries[i].content.observedAt \in Timestamps
  /\ entries[i].hash = EntryHash(entries[i].previous, entries[i].content)

Verifies(l) ==
  /\ \A i \in DOMAIN l.entries : EntryVerifies(l.entries, i) /\ PayloadVerifies(l.entries, i)
  /\ l.root = LastHash(l.entries)

-------------------------------------------------------------------------------
(***************************************************************************)
(* Monitoring.  Each fault carries its evidence.  A log that does not      *)
(* verify is not searched.                                                 *)
(***************************************************************************)
Several(S) == \E x, y \in S : x # y

Announced(l) ==
  {Payload(l.entries, i) : i \in {j \in DOMAIN l.entries : TypeAt(l.entries, j) = "announcement"}}

\* Broken variant: only the last two entries are searched.
RecentlyAttested(l) ==
  {Payload(l.entries, i) :
     i \in {j \in DOMAIN l.entries : j + 1 >= Len(l.entries) /\ TypeAt(l.entries, j) = "attestation"}}

Attested(l) ==
  {Payload(l.entries, i) : i \in {j \in DOMAIN l.entries : TypeAt(l.entries, j) = "attestation"}}

EventsOf(S) == {p.event : p \in S}

DigestsOf(S) == {a.digest : a \in S}

OutcomesOf(S) == {t.outcome : t \in S}

SameNonce(l, a) == {b \in Announced(l) : b.key = a.key /\ b.nonce = a.nonce}

SameEventNonce(l, a) == {b \in SameNonce(l, a) : b.event = a.event}

SameDigest(l, t) == {u \in Attested(l) : u.digest = t.digest}

\* What the oracle announced under the digest of an attestation.
AnnouncementOf(l, t) == CHOOSE a \in Announced(l) : a.digest = t.digest

Fault(faultType, a, events, digests, outcomes) ==
  [faultType |-> faultType, key |-> a.key, nonce |-> a.nonce,
   events |-> events, digests |-> digests, outcomes |-> outcomes]

NonceReuses(l) ==
  {Fault("nonce_reuse_across_events", a,
         EventsOf(SameNonce(l, a)), DigestsOf(SameNonce(l, a)), {}) :
     a \in {b \in Announced(l) : Several(EventsOf(SameNonce(l, b)))}}

InconsistentRoots(l) ==
  {Fault("inconsistent_announcement_root", a,
         {a.event}, DigestsOf(SameEventNonce(l, a)), {}) :
     a \in {b \in Announced(l) : Several(DigestsOf(SameEventNonce(l, b)))}}

MultipleAttestations(l) ==
  {Fault("multiple_attestations_for_event", AnnouncementOf(l, t),
         EventsOf(SameDigest(l, t)), {t.digest}, OutcomesOf(SameDigest(l, t))) :
     t \in {u \in Attested(l) : Several(OutcomesOf(SameDigest(l, u)))}}

\* Broken variant: two announcements of one event are no fault.
FaultsOfEvents(l) ==
  IF Verifies(l) THEN NonceReuses(l) \cup MultipleAttestations(l) ELSE {}

Faults(l) ==
  IF Verifies(l) THEN NonceReuses(l) \cup InconsistentRoots(l) \cup MultipleAttestations(l)
  ELSE {}

MonitorOk(l) == Verifies(l) /\ Faults(l) = {}

-------------------------------------------------------------------------------
(***************************************************************************)
(* Queries.  A directory holds one file per payload, read in the order of  *)
(* their names; a file that is neither an announcement nor an attestation  *)
(* is ignored.                                                             *)
(***************************************************************************)
Files(entries) == [i \in DOMAIN entries |-> Payload(entries, i)]

Announcements(files) == {i \in DOMAIN files : ParsesAsAnnouncement(files[i])}

Attestations(files) == {i \in DOMAIN files : ParsesAsAttestation(files[i])}

\* Broken variant: the last announcement of a digest stands for it.
LatestRecord(files, digest) ==
  LET records == {i \in Announcements(files) : files[i].digest = digest}
  IN  {i \in records : \A j \in records : j <= i}

\* The announcement that stands for a digest: the first that verifies, or the
\* first of all when none does.
RecordOf(files, digest) ==
  LET records == {i \in Announcements(files) : files[i].digest = digest}
      good == {i \in records : AnnouncementVerifies(files[i])}
      best == IF good = {} THEN records ELSE good
  IN  {i \in best : \A j \in best : i <= j}

\* The matches of a query for attestations, each with its verification, which
\* is missing when no announcement stands for its digest.
QueryOracleAttestations(files, event, outcome) ==
  {[file |-> i, ok |-> {AttestationVerifies(files[j], files[i]) :
                          j \in RecordOf(files, files[i].digest)}] :
     i \in {j \in Attestations(files) :
              files[j].event = event /\ files[j].outcome = outcome}}

QueryOracleAnnouncements(files, event) ==
  {i \in Announcements(files) : files[i].event = event}

\* Broken variant: an announcement matches by its first outcome only.
QueryFirstOutcome(l, event, outcome) ==
  {i \in DOMAIN l.entries :
     /\ Payload(l.entries, i).event = event
     /\ \/ /\ TypeAt(l.entries, i) = "attestation"
           /\ Payload(l.entries, i).outcome = outcome
        \/ /\ TypeAt(l.entries, i) = "announcement"
           /\ Payload(l.entries, i).outcomes[1].outcome = outcome}

\* The matches of a query over a history; a history that does not verify
\* throws instead.
QueryOracleHistory(l, event, outcome) ==
  {i \in DOMAIN l.entries :
     /\ Payload(l.entries, i).event = event
     /\ \/ /\ TypeAt(l.entries, i) = "attestation"
           /\ Payload(l.entries, i).outcome = outcome
        \/ /\ TypeAt(l.entries, i) = "announcement"
           /\ \E k \in DOMAIN Payload(l.entries, i).outcomes :
                Payload(l.entries, i).outcomes[k].outcome = outcome}

-------------------------------------------------------------------------------
(***************************************************************************)
(* The observer and the ways a copy is altered.                            *)
(***************************************************************************)
Init ==
  /\ log = <<>>
  /\ copy = LogOf(log)
  /\ changes = 0

\* The observer sees one more publication and builds the log with it.
Observe ==
  /\ Len(log) < MaxEntries
  /\ changes = 0
  /\ \E entryType \in EntryTypes, payload \in Payloads :
       /\ payload.kind \in EntryTypes => payload.kind = entryType
       /\ log' = Append(log, MakeEntry(log, entryType, payload))
  /\ copy' = LogOf(log')
  /\ UNCHANGED changes

\* Only copies of logs that verify are worth altering.
Change(altered) ==
  /\ Len(log) <= MaxAltered
  /\ Verifies(LogOf(log))
  /\ changes < MaxChanges
  /\ copy' = altered
  /\ changes' = changes + 1
  /\ UNCHANGED log

\* An entry is missing, as in the fixture of a tampered history.
Drop ==
  \E i \in DOMAIN copy.entries : Change([copy EXCEPT !.entries = RemoveAt(@, i)])

\* The log ends early, at the root of the entries that are left.
Truncate == copy.entries # <<>> /\ Change(LogOf(Front(copy.entries)))

\* Two entries change places.
Swap ==
  \E i, j \in DOMAIN copy.entries :
    /\ i < j
    /\ Change([copy EXCEPT !.entries[i] = copy.entries[j], !.entries[j] = copy.entries[i]])

\* An entry gets another payload, number, time or type, under its old hash or
\* a hash of its own.
Rewrite ==
  \E i \in DOMAIN copy.entries :
    LET content == copy.entries[i].content
    IN  \E altered \in {[content EXCEPT !.payload = p] : p \in Payloads}
                         \cup {[content EXCEPT !.sequence = n] : n \in 1..MaxEntries}
                         \cup {[content EXCEPT !.observedAt = Unreadable],
                               [content EXCEPT !.entryType = Unreadable]} :
          \/ Change([copy EXCEPT !.entries[i].content = altered])
          \/ Change([copy EXCEPT !.entries[i].content = altered,
                                 !.entries[i].hash = EntryHash(copy.entries[i].previous, altered)])

\* An entry is linked to another one than the one before it.
Relink ==
  \E i \in DOMAIN copy.entries :
    LET previous == IF i > 2 THEN copy.entries[i - 2].hash ELSE ZeroHash
    IN  Change([copy EXCEPT !.entries[i].previous = previous,
                            !.entries[i].hash = EntryHash(previous, copy.entries[i].content)])

\* Another root is published with the entries.
Reroot == \E i \in DOMAIN log : Change([copy EXCEPT !.root = log[i].hash])

Next == Observe \/ Drop \/ Truncate \/ Swap \/ Rewrite \/ Relink \/ Reroot

Spec == Init /\ [][Next]_vars

-------------------------------------------------------------------------------
(***************************************************************************)
(* Properties.                                                             *)
(***************************************************************************)

\* The shape of the log and of the copies.
TypeOK ==
  /\ log \in Seq(Entries)
  /\ copy \in [entries : Seq(Entries), root : Hashes]
  /\ changes \in 0..MaxChanges

\* Whoever knows the root the observer had after some entries holds those
\* entries, or a log that does not verify: no alteration keeps both.
TamperEvident ==
  Verifies(copy) =>
    \A n \in 0..Len(log) :
      copy.root = LastHash(SubSeq(log, 1, n)) => copy.entries = SubSeq(log, 1, n)

\* In a log the monitor finds clean, the oracle has used a nonce to attest at
\* most one message: the three kinds of fault leave no other way, whichever
\* announcements and events the two attestations name.
OneMessagePerNonce ==
  MonitorOk(copy) =>
    \A t, u \in Attested(copy) :
      \A a, b \in Announced(copy) :
        /\ t.digest = a.digest /\ u.digest = b.digest
        /\ a.key = b.key /\ a.nonce = b.nonce
        => t.message = u.message

\* An attestation a query reports as verified is one that some announcement of
\* the directory verifies, and it is missed for none of them: a file with the
\* same digest and a broken signature cannot stand in front of the good one,
\* wherever its name puts it.
QueryFindsVerifyingAnnouncement ==
  LET files == Files(log)
  IN  \A i \in Attestations(files) :
        \A match \in QueryOracleAttestations(files, files[i].event, files[i].outcome) :
          TRUE \in match.ok <=>
            \E j \in QueryOracleAnnouncements(files, files[i].event) :
              AttestationVerifies(files[j], files[match.file])

\* A reader who asks a history for one outcome of an event gets, before every
\* attestation of it, the announcement that attestation is under.
HistoryAnswersAreBacked ==
  Verifies(copy) =>
    \A t \in Attested(copy) :
      LET matches == QueryOracleHistory(copy, t.event, t.outcome)
      IN  \A i \in matches :
            TypeAt(copy.entries, i) = "attestation" =>
              \E j \in matches :
                /\ j < i /\ TypeAt(copy.entries, j) = "announcement"
                /\ AttestationVerifies(Payload(copy.entries, j), Payload(copy.entries, i))

\* Fault f grew into fault g.
Grew(f, g) ==
  /\ f.faultType = g.faultType /\ f.key = g.key /\ f.nonce = g.nonce
  /\ f.events \subseteq g.events /\ f.digests \subseteq g.digests
  /\ f.outcomes \subseteq g.outcomes

\* A fault once found stays found, with all its evidence, when the observer
\* adds entries, for as long as the log verifies.
FaultsPersist ==
  [][Verifies(LogOf(log')) =>
       \A f \in Faults(LogOf(log)) : \E g \in Faults(LogOf(log')) : Grew(f, g)]_log

===============================================================================
