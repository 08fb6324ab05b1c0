------------------------- MODULE OracleHistory_proofs -------------------------
(***************************************************************************)
(* What TLAPS proves of the oracle's history, for any publications, any    *)
(* length of the log and any number of alterations.                        *)
(*                                                                         *)
(* Three facts about a log that verifies carry the rest: its announcements *)
(* verify, each of its attestations verifies against one of them, and the  *)
(* digest of an announcement that verifies determines what it says.        *)
(***************************************************************************)
EXTENDS OracleHistory, SequenceTheorems, WellFoundedInduction, TLAPS

LEMMA AnnouncedVerify ==
  ASSUME NEW l, Verifies(l), NEW a \in Announced(l)
  PROVE  AnnouncementVerifies(a)
<1>1. PICK i \in DOMAIN l.entries : TypeAt(l.entries, i) = "announcement" /\ a = Payload(l.entries, i)
  BY DEF Announced
<1>2. PayloadVerifies(l.entries, i)
  BY DEF Verifies
<1>3. QED
  BY <1>1, <1>2 DEF PayloadVerifies

LEMMA AttestedVerify ==
  ASSUME NEW l, Verifies(l), NEW t \in Attested(l)
  PROVE  \E c \in Announced(l) : AttestationVerifies(c, t)
<1>1. PICK i \in DOMAIN l.entries : TypeAt(l.entries, i) = "attestation" /\ t = Payload(l.entries, i)
  BY DEF Attested
<1>2. PayloadVerifies(l.entries, i)
  BY DEF Verifies
<1>3. PICK j \in KnownBefore(l.entries, i, t.digest) : AttestationVerifies(Payload(l.entries, j), t)
  BY <1>1, <1>2 DEF PayloadVerifies
<1>4. Payload(l.entries, j) \in Announced(l)
  BY <1>3 DEF KnownBefore, Announced
<1>5. QED
  BY <1>3, <1>4

LEMMA DigestsBind ==
  ASSUME NEW a, NEW b, AnnouncementVerifies(a), AnnouncementVerifies(b), a.digest = b.digest
  PROVE  a.event = b.event /\ a.key = b.key /\ a.nonce = b.nonce
<1>1. Digest(a) = Digest(b)
  BY DEF AnnouncementVerifies
<1>2. QED
  BY <1>1 DEF Digest

LEMMA AttestationBinds ==
  ASSUME NEW a, NEW t, AttestationVerifies(a, t)
  PROVE  /\ t.digest = a.digest /\ t.event = a.event
         /\ t.message = Message(t.event, t.outcome)
         /\ \E i \in DOMAIN a.outcomes : a.outcomes[i].outcome = t.outcome
BY DEF AttestationVerifies, AnnouncementVerifies

-------------------------------------------------------------------------------
(***************************************************************************)
(* The monitor.                                                            *)
(***************************************************************************)
LEMMA CleanLogUsesNonceOnce ==
  ASSUME NEW l, MonitorOk(l),
         NEW t \in Attested(l), NEW u \in Attested(l),
         NEW a \in Announced(l), NEW b \in Announced(l),
         t.digest = a.digest, u.digest = b.digest, a.key = b.key, a.nonce = b.nonce
  PROVE  t.message = u.message
<1>1. Verifies(l) /\ NonceReuses(l) = {} /\ InconsistentRoots(l) = {} /\ MultipleAttestations(l) = {}
  BY DEF MonitorOk, Faults
<1>2. a \in SameNonce(l, a) /\ b \in SameNonce(l, a)
  BY DEF SameNonce
<1>3. a.event = b.event
  <2>1. ~Several(EventsOf(SameNonce(l, a)))
    BY <1>1 DEF NonceReuses
  <2>2. QED
    BY <1>2, <2>1 DEF Several, EventsOf
<1>4. a.digest = b.digest
  <2>1. ~Several(DigestsOf(SameEventNonce(l, a)))
    BY <1>1 DEF InconsistentRoots
  <2>2. a \in SameEventNonce(l, a) /\ b \in SameEventNonce(l, a)
    BY <1>2, <1>3 DEF SameEventNonce
  <2>3. QED
    BY <2>1, <2>2 DEF Several, DigestsOf
<1>5. t.outcome = u.outcome
  <2>1. ~Several(OutcomesOf(SameDigest(l, t)))
    BY <1>1 DEF MultipleAttestations
  <2>2. t \in SameDigest(l, t) /\ u \in SameDigest(l, t)
    BY <1>4 DEF SameDigest
  <2>3. QED
    BY <2>1, <2>2 DEF Several, OutcomesOf
<1>6. PICK c \in Announced(l) : AttestationVerifies(c, t)
  BY <1>1, AttestedVerify
<1>7. PICK d \in Announced(l) : AttestationVerifies(d, u)
  BY <1>1, AttestedVerify
<1>8. c.event = d.event
  <2>1. c.digest = d.digest
    BY <1>4, <1>6, <1>7, AttestationBinds
  <2>2. AnnouncementVerifies(c) /\ AnnouncementVerifies(d)
    BY <1>1, AnnouncedVerify
  <2>3. QED
    BY <2>1, <2>2, DigestsBind
<1>9. QED
  BY <1>5, <1>6, <1>7, <1>8, AttestationBinds

\* OneMessagePerNonce, for any publications and alterations.
THEOREM NoncesAttestOnce == Spec => []OneMessagePerNonce
<1>1. OneMessagePerNonce
  BY CleanLogUsesNonceOnce DEF OneMessagePerNonce
<1>2. QED
  BY <1>1, PTL

-------------------------------------------------------------------------------
(***************************************************************************)
(* The queries.                                                            *)
(***************************************************************************)

\* HistoryAnswersAreBacked, for any publications and alterations.
THEOREM AnswersAreBacked == Spec => []HistoryAnswersAreBacked
<1>1. HistoryAnswersAreBacked
  <2> SUFFICES ASSUME Verifies(copy), NEW t \in Attested(copy),
                      NEW i \in QueryOracleHistory(copy, t.event, t.outcome),
                      TypeAt(copy.entries, i) = "attestation"
               PROVE  \E j \in QueryOracleHistory(copy, t.event, t.outcome) :
                        /\ j < i /\ TypeAt(copy.entries, j) = "announcement"
                        /\ AttestationVerifies(Payload(copy.entries, j), Payload(copy.entries, i))
    BY DEF HistoryAnswersAreBacked
  <2> DEFINE p == Payload(copy.entries, i)
  <2>1. i \in DOMAIN copy.entries /\ p.event = t.event /\ p.outcome = t.outcome
    BY DEF QueryOracleHistory
  <2>2. PayloadVerifies(copy.entries, i)
    BY <2>1 DEF Verifies
  <2>3. PICK j \in KnownBefore(copy.entries, i, p.digest) :
          AttestationVerifies(Payload(copy.entries, j), p)
    BY <2>2 DEF PayloadVerifies
  <2>4. j \in DOMAIN copy.entries /\ j < i /\ TypeAt(copy.entries, j) = "announcement"
    BY <2>3 DEF KnownBefore
  <2>5. /\ Payload(copy.entries, j).event = p.event
        /\ \E k \in DOMAIN Payload(copy.entries, j).outcomes :
             Payload(copy.entries, j).outcomes[k].outcome = p.outcome
    BY <2>3, AttestationBinds
  <2>6. j \in QueryOracleHistory(copy, t.event, t.outcome)
    BY <2>1, <2>4, <2>5 DEF QueryOracleHistory
  <2>7. QED
    BY <2>3, <2>4, <2>6
<1>2. QED
  BY <1>1, PTL

-------------------------------------------------------------------------------
(***************************************************************************)
(* The type invariant.                                                     *)
(***************************************************************************)
LEMMA LastHashType ==
  ASSUME NEW entries \in Seq(Entries)
  PROVE  LastHash(entries) \in Hashes
<1>1. CASE entries = <<>>
  BY <1>1 DEF LastHash, ZeroHash, Hashes
<1>2. CASE entries # <<>>
  <2>1. entries[Len(entries)] \in Entries
    BY <1>2
  <2>2. QED
    BY <1>2, <2>1 DEF LastHash, Last, Entries
<1>3. QED
  BY <1>1, <1>2

LEMMA MakeEntryType ==
  ASSUME NEW entries \in Seq(Entries), NEW entryType \in EntryTypes, NEW payload \in Payloads
  PROVE  MakeEntry(entries, entryType, payload) \in Entries
<1> DEFINE content == [sequence |-> Len(entries) + 1, observedAt |-> CHOOSE t \in Timestamps : TRUE,
                       entryType |-> entryType, payload |-> payload]
<1>1. (CHOOSE t \in Timestamps : TRUE) \in Timestamps
  BY OracleHistoryAssumption
<1>2. content \in Contents
  BY <1>1 DEF Contents
<1>3. LastHash(entries) \in Hashes
  BY LastHashType
<1>4. EntryHash(LastHash(entries), content) \in Hashes
  BY <1>2, <1>3 DEF EntryHash, Hashes
<1>5. MakeEntry(entries, entryType, payload)
        = [content |-> content, previous |-> LastHash(entries),
           hash |-> EntryHash(LastHash(entries), content)]
  BY DEF MakeEntry
<1> HIDE DEF content
<1>6. QED
  BY <1>2, <1>3, <1>4, <1>5 DEF Entries

Logs == [entries : Seq(Entries), root : Hashes]

LEMMA LogOfType ==
  ASSUME NEW entries \in Seq(Entries)
  PROVE  LogOf(entries) \in Logs
BY LastHashType DEF LogOf, Logs

LEMMA ObserveLog ==
  ASSUME TypeOK, Observe
  PROVE  /\ log' \in Seq(Entries) /\ Len(log') = Len(log) + 1
         /\ \A i \in 1..Len(log) : log'[i] = log[i]
         /\ copy' = LogOf(log') /\ changes' = changes
<1>1. PICK entryType \in EntryTypes, payload \in Payloads :
        log' = Append(log, MakeEntry(log, entryType, payload))
  BY DEF Observe
<1>2. MakeEntry(log, entryType, payload) \in Entries
  BY MakeEntryType DEF TypeOK
<1>3. QED
  BY <1>1, <1>2 DEF Observe, TypeOK

\* A change replaces the copy by a log.
LEMMA ChangeType ==
  ASSUME TypeOK, NEW altered \in Logs, Change(altered)
  PROVE  TypeOK'
BY OracleHistoryAssumption DEF TypeOK, Change, Logs

LEMMA WithEntry ==
  ASSUME NEW l \in Logs, NEW i \in DOMAIN l.entries, NEW entry \in Entries
  PROVE  [l EXCEPT !.entries = [@ EXCEPT ![i] = entry]] \in Logs
<1>1. [l.entries EXCEPT ![i] = entry] \in Seq(Entries)
  BY ExceptSeq DEF Logs
<1>2. QED
  BY <1>1 DEF Logs

LEMMA PairOfHash ==
  ASSUME NEW previous \in Hashes, NEW content \in Contents
  PROVE  EntryHash(previous, content) \in Hashes
BY DEF EntryHash, Hashes

LEMMA DropType == ASSUME TypeOK, Drop PROVE TypeOK'
<1>1. PICK i \in DOMAIN copy.entries : Change([copy EXCEPT !.entries = RemoveAt(@, i)])
  BY DEF Drop
<1>2. copy.entries \in Seq(Entries)
  BY DEF TypeOK
<1>3. SubSeq(copy.entries, 1, i - 1) \in Seq(Entries)
      /\ SubSeq(copy.entries, i + 1, Len(copy.entries)) \in Seq(Entries)
  BY <1>2
<1>4. RemoveAt(copy.entries, i) \in Seq(Entries)
  BY <1>3 DEF RemoveAt
<1>5. [copy EXCEPT !.entries = RemoveAt(@, i)] \in Logs
  BY <1>4 DEF TypeOK, Logs
<1>6. QED
  BY <1>1, <1>5, ChangeType

LEMMA TruncateType == ASSUME TypeOK, Truncate PROVE TypeOK'
<1>1. Front(copy.entries) \in Seq(Entries)
  BY DEF TypeOK, Truncate, Front
<1>2. QED
  BY <1>1, LogOfType, ChangeType DEF Truncate

LEMMA SwapType == ASSUME TypeOK, Swap PROVE TypeOK'
<1>1. PICK i, j \in DOMAIN copy.entries :
        Change([copy EXCEPT !.entries[i] = copy.entries[j], !.entries[j] = copy.entries[i]])
  BY DEF Swap
<1>2. copy.entries[i] \in Entries /\ copy.entries[j] \in Entries
  BY DEF TypeOK
<1>3. copy \in Logs
  BY DEF TypeOK, Logs
<1> DEFINE first == [copy EXCEPT !.entries[i] = copy.entries[j]]
<1>4. first \in Logs /\ j \in DOMAIN first.entries
  BY <1>2, <1>3, WithEntry DEF Logs
<1>5. [first EXCEPT !.entries[j] = copy.entries[i]] \in Logs
  BY <1>2, <1>4, WithEntry
<1>6. QED
  BY <1>1, <1>5, ChangeType

LEMMA RewriteType == ASSUME TypeOK, Rewrite PROVE TypeOK'
<1>0. PICK i \in DOMAIN copy.entries :
        \E altered \in {[copy.entries[i].content EXCEPT !.payload = p] : p \in Payloads}
                        \cup {[copy.entries[i].content EXCEPT !.sequence = n] : n \in 1..MaxEntries}
                        \cup {[copy.entries[i].content EXCEPT !.observedAt = Unreadable],
                              [copy.entries[i].content EXCEPT !.entryType = Unreadable]} :
          \/ Change([copy EXCEPT !.entries[i].content = altered])
          \/ Change([copy EXCEPT !.entries[i].content = altered,
                                 !.entries[i].hash = EntryHash(copy.entries[i].previous, altered)])
  BY DEF Rewrite
<1>1. PICK altered \in {[copy.entries[i].content EXCEPT !.payload = p] : p \in Payloads}
                      \cup {[copy.entries[i].content EXCEPT !.sequence = n] : n \in 1..MaxEntries}
                      \cup {[copy.entries[i].content EXCEPT !.observedAt = Unreadable],
                            [copy.entries[i].content EXCEPT !.entryType = Unreadable]} :
        \/ Change([copy EXCEPT !.entries[i].content = altered])
        \/ Change([copy EXCEPT !.entries[i].content = altered,
                               !.entries[i].hash = EntryHash(copy.entries[i].previous, altered)])
  BY <1>0
<1> DEFINE entry == copy.entries[i]
<1>2. copy \in Logs /\ entry \in Entries /\ copy.entries \in Seq(Entries)
  BY DEF TypeOK, Logs
<1>3. altered \in Contents
  <2>1. entry.content \in Contents
    BY <1>2 DEF Entries
  <2>2. QED
    BY <1>1, <2>1, OracleHistoryAssumption DEF Contents
<1>4. CASE Change([copy EXCEPT !.entries[i].content = altered])
  <2>1. [entry EXCEPT !.content = altered] \in Entries
    BY <1>2, <1>3 DEF Entries
  <2>2. [copy EXCEPT !.entries[i].content = altered] \in Logs
    BY <1>2, <2>1, WithEntry
  <2>3. QED
    BY <1>4, <2>2, ChangeType
<1>5. CASE Change([copy EXCEPT !.entries[i].content = altered,
                               !.entries[i].hash = EntryHash(entry.previous, altered)])
  <2> DEFINE hash == EntryHash(entry.previous, altered)
             first == [copy EXCEPT !.entries[i].content = altered]
  <2>1. hash \in Hashes
    BY <1>2, <1>3, PairOfHash DEF Entries
  <2>2. [entry EXCEPT !.content = altered] \in Entries
    BY <1>2, <1>3 DEF Entries
  <2>3. first \in Logs /\ i \in DOMAIN first.entries
        /\ first.entries[i] = [entry EXCEPT !.content = altered]
    BY <1>2, <2>2, WithEntry DEF Logs
  <2>4. [first.entries[i] EXCEPT !.hash = hash] \in Entries
    BY <2>1, <2>2, <2>3 DEF Entries
  <2>5. [first EXCEPT !.entries[i].hash = hash] \in Logs
    BY <2>3, <2>4, WithEntry
  <2>6. QED
    BY <1>5, <2>5, ChangeType
<1>6. QED
  BY <1>1, <1>4, <1>5

LEMMA RelinkType == ASSUME TypeOK, Relink PROVE TypeOK'
<1>1. PICK i \in DOMAIN copy.entries :
        LET previous == IF i > 2 THEN copy.entries[i - 2].hash ELSE ZeroHash
        IN  Change([copy EXCEPT !.entries[i].previous = previous,
                                !.entries[i].hash = EntryHash(previous, copy.entries[i].content)])
  BY DEF Relink
<1> DEFINE previous == IF i > 2 THEN copy.entries[i - 2].hash ELSE ZeroHash
           entry == copy.entries[i]
           hash == EntryHash(previous, entry.content)
           first == [copy EXCEPT !.entries[i].previous = previous]
<1>2. copy \in Logs /\ entry \in Entries /\ copy.entries \in Seq(Entries)
  BY DEF TypeOK, Logs
<1>3. previous \in Hashes
  <2>1. CASE i > 2
    <3>1. copy.entries[i - 2] \in Entries
      BY <1>2, <2>1
    <3>2. QED
      BY <2>1, <3>1 DEF Entries
  <2>2. CASE ~(i > 2)
    BY <2>2 DEF ZeroHash, Hashes
  <2>3. QED
    BY <2>1, <2>2
<1> HIDE DEF previous
<1>4. hash \in Hashes
  BY <1>2, <1>3, PairOfHash DEF Entries
<1>5. [entry EXCEPT !.previous = previous] \in Entries
  BY <1>2, <1>3 DEF Entries
<1>6. first \in Logs /\ i \in DOMAIN first.entries
      /\ first.entries[i] = [entry EXCEPT !.previous = previous]
  BY <1>2, <1>5, WithEntry DEF Logs
<1>7. [first.entries[i] EXCEPT !.hash = hash] \in Entries
  BY <1>4, <1>5, <1>6 DEF Entries
<1>8. [first EXCEPT !.entries[i].hash = hash] \in Logs
  BY <1>6, <1>7, WithEntry
<1>9. QED
  BY <1>1, <1>8, ChangeType DEF previous

LEMMA RerootType == ASSUME TypeOK, Reroot PROVE TypeOK'
<1>1. PICK i \in DOMAIN log : Change([copy EXCEPT !.root = log[i].hash])
  BY DEF Reroot
<1>2. log[i].hash \in Hashes
  <2>1. log[i] \in Entries
    BY DEF TypeOK
  <2>2. QED
    BY <2>1 DEF Entries
<1>3. [copy EXCEPT !.root = log[i].hash] \in Logs
  BY <1>2 DEF TypeOK, Logs
<1>4. QED
  BY <1>1, <1>3, ChangeType

LEMMA TypeStep == TypeOK /\ [Next]_vars => TypeOK'
<1> SUFFICES ASSUME TypeOK, [Next]_vars PROVE TypeOK'
  OBVIOUS
<1>1. CASE Observe
  <2>1. log' \in Seq(Entries) /\ copy' = LogOf(log') /\ changes' = changes
    BY <1>1, ObserveLog
  <2>2. QED
    BY <2>1, LogOfType DEF TypeOK, Logs
<1>2. CASE UNCHANGED vars
  BY <1>2 DEF vars, TypeOK
<1>3. QED
  BY <1>1, <1>2, DropType, TruncateType, SwapType, RewriteType, RelinkType, RerootType DEF Next

\* Type correctness for any publications and bounds.
THEOREM TypeCorrect == Spec => []TypeOK
<1>1. Init => TypeOK
  <2> SUFFICES ASSUME Init PROVE TypeOK
    OBVIOUS
  <2>1. log \in Seq(Entries)
    BY DEF Init
  <2>2. copy \in Logs
    BY <2>1, LogOfType DEF Init
  <2>3. QED
    BY <2>1, <2>2, OracleHistoryAssumption DEF Init, TypeOK, Logs
<1>2. QED
  BY <1>1, TypeStep, PTL DEF Spec

-------------------------------------------------------------------------------
(***************************************************************************)
(* Growth.  Appending an entry keeps what was announced and attested, so   *)
(* each group of the monitor only grows, and its fault with it.            *)
(***************************************************************************)
Before == LogOf(log)

After == LogOf(log')

LEMMA ObservedGrows ==
  ASSUME TypeOK, Observe
  PROVE  Announced(Before) \subseteq Announced(After) /\ Attested(Before) \subseteq Attested(After)
<1>1. /\ Before.entries = log /\ After.entries = log'
  BY DEF Before, After, LogOf
<1>2. \A i \in DOMAIN log : i \in DOMAIN log' /\ log'[i] = log[i]
  BY ObserveLog DEF TypeOK
<1>3. QED
  BY <1>1, <1>2 DEF Announced, Attested, Payload, TypeAt

LEMMA NonceReuseGrows ==
  ASSUME NEW l, NEW m, Announced(l) \subseteq Announced(m), NEW f \in NonceReuses(l)
  PROVE  \E g \in NonceReuses(m) : Grew(f, g)
<1>1. PICK a \in Announced(l) :
        /\ Several(EventsOf(SameNonce(l, a)))
        /\ f = Fault("nonce_reuse_across_events", a,
                      EventsOf(SameNonce(l, a)), DigestsOf(SameNonce(l, a)), {})
  BY DEF NonceReuses
<1>2. SameNonce(l, a) \subseteq SameNonce(m, a)
  BY DEF SameNonce
<1>3. /\ EventsOf(SameNonce(l, a)) \subseteq EventsOf(SameNonce(m, a))
      /\ DigestsOf(SameNonce(l, a)) \subseteq DigestsOf(SameNonce(m, a))
  BY <1>2 DEF EventsOf, DigestsOf
<1> DEFINE g == Fault("nonce_reuse_across_events", a,
                      EventsOf(SameNonce(m, a)), DigestsOf(SameNonce(m, a)), {})
<1>4. g \in NonceReuses(m)
  BY <1>1, <1>3 DEF NonceReuses, Several
<1>5. Grew(f, g)
  BY <1>1, <1>3 DEF Grew, Fault
<1>6. QED
  BY <1>4, <1>5

LEMMA InconsistentRootGrows ==
  ASSUME NEW l, NEW m, Announced(l) \subseteq Announced(m), NEW f \in InconsistentRoots(l)
  PROVE  \E g \in InconsistentRoots(m) : Grew(f, g)
<1>1. PICK a \in Announced(l) :
        /\ Several(DigestsOf(SameEventNonce(l, a)))
        /\ f = Fault("inconsistent_announcement_root", a,
                      {a.event}, DigestsOf(SameEventNonce(l, a)), {})
  BY DEF InconsistentRoots
<1>2. SameEventNonce(l, a) \subseteq SameEventNonce(m, a)
  BY DEF SameNonce, SameEventNonce
<1>3. DigestsOf(SameEventNonce(l, a)) \subseteq DigestsOf(SameEventNonce(m, a))
  BY <1>2 DEF DigestsOf
<1> DEFINE g == Fault("inconsistent_announcement_root", a,
                      {a.event}, DigestsOf(SameEventNonce(m, a)), {})
<1>4. g \in InconsistentRoots(m)
  BY <1>1, <1>3 DEF InconsistentRoots, Several
<1>5. Grew(f, g)
  BY <1>1, <1>3 DEF Grew, Fault
<1>6. QED
  BY <1>4, <1>5

LEMMA AnnouncementKnown ==
  ASSUME NEW l, Verifies(l), NEW t \in Attested(l)
  PROVE  AnnouncementOf(l, t) \in Announced(l) /\ AnnouncementOf(l, t).digest = t.digest
<1>1. \E a \in Announced(l) : a.digest = t.digest
  BY AttestedVerify, AttestationBinds
<1>2. QED
  BY <1>1 DEF AnnouncementOf

LEMMA MultipleAttestationsGrow ==
  ASSUME NEW l, NEW m, Verifies(l), Verifies(m),
         Announced(l) \subseteq Announced(m), Attested(l) \subseteq Attested(m),
         NEW f \in MultipleAttestations(l)
  PROVE  \E g \in MultipleAttestations(m) : Grew(f, g)
<1>1. PICK t \in Attested(l) :
        /\ Several(OutcomesOf(SameDigest(l, t)))
        /\ f = Fault("multiple_attestations_for_event", AnnouncementOf(l, t),
                      EventsOf(SameDigest(l, t)), {t.digest}, OutcomesOf(SameDigest(l, t)))
  BY DEF MultipleAttestations
<1>2. SameDigest(l, t) \subseteq SameDigest(m, t)
  BY DEF SameDigest
<1>3. /\ EventsOf(SameDigest(l, t)) \subseteq EventsOf(SameDigest(m, t))
      /\ OutcomesOf(SameDigest(l, t)) \subseteq OutcomesOf(SameDigest(m, t))
  BY <1>2 DEF EventsOf, OutcomesOf
<1> DEFINE g == Fault("multiple_attestations_for_event", AnnouncementOf(m, t),
                      EventsOf(SameDigest(m, t)), {t.digest}, OutcomesOf(SameDigest(m, t)))
<1>4. g \in MultipleAttestations(m)
  BY <1>1, <1>3 DEF MultipleAttestations, Several
<1>5. AnnouncementOf(l, t).key = AnnouncementOf(m, t).key
      /\ AnnouncementOf(l, t).nonce = AnnouncementOf(m, t).nonce
  <2>1. AnnouncementOf(l, t) \in Announced(m) /\ AnnouncementOf(m, t) \in Announced(m)
        /\ AnnouncementOf(l, t).digest = AnnouncementOf(m, t).digest
    BY AnnouncementKnown
  <2>2. QED
    BY <2>1, AnnouncedVerify, DigestsBind
<1>6. Grew(f, g)
  BY <1>1, <1>3, <1>5 DEF Grew, Fault
<1>7. QED
  BY <1>4, <1>6

\* FaultsPersist, for any publications and any length of the log.
THEOREM FaultsStay == Spec => FaultsPersist
<1>1. TypeOK /\ [Next]_vars =>
        [Verifies(After) => \A f \in Faults(Before) : \E g \in Faults(After) : Grew(f, g)]_log
  <2> SUFFICES ASSUME TypeOK, [Next]_vars, log' # log, Verifies(After), NEW f \in Faults(Before)
               PROVE  \E g \in Faults(After) : Grew(f, g)
    OBVIOUS
  <2>1. Observe
    BY DEF vars, Next, Drop, Truncate, Swap, Rewrite, Relink, Reroot, Change
  <2>2. Announced(Before) \subseteq Announced(After) /\ Attested(Before) \subseteq Attested(After)
    BY <2>1, ObservedGrows
  <2>3. Verifies(Before)
    BY DEF Faults
  <2>4. f \in NonceReuses(Before) \/ f \in InconsistentRoots(Before) \/ f \in MultipleAttestations(Before)
    BY <2>3 DEF Faults
  <2>5. \E g \in NonceReuses(After) \cup InconsistentRoots(After) \cup MultipleAttestations(After) :
          Grew(f, g)
    BY <2>2, <2>3, <2>4, NonceReuseGrows, InconsistentRootGrows, MultipleAttestationsGrow
  <2>6. QED
    BY <2>5 DEF Faults
<1>2. QED
  BY <1>1, TypeCorrect, PTL DEF Spec, FaultsPersist, Before, After

-------------------------------------------------------------------------------
(***************************************************************************)
(* Induction over the entries of a log, by the entry at which a claim      *)
(* would fail first.                                                       *)
(***************************************************************************)
LessThan == {ss \in Nat \X Nat : ss[1] < ss[2]}

LEMMA LeastElement ==
  ASSUME NEW T, T \subseteq Nat, T # {}
  PROVE  \E x \in T : \A y \in T : x <= y
<1>1. IsWellFoundedOn(LessThan, Nat)
  BY NatLessThanWellFounded DEF OpToRel, LessThan
<1>2. PICK x \in T : \A y \in T : <<y, x>> \notin LessThan
  BY <1>1, WFMin
<1>3. ASSUME NEW y \in T PROVE x <= y
  <2>1. <<y, x>> \notin {ss \in Nat \X Nat : ss[1] < ss[2]}
    BY <1>2 DEF LessThan
  <2>2. QED
    BY <2>1
<1>4. QED
  BY <1>3

LEMMA PositionInduction ==
  ASSUME NEW n \in Nat, NEW T, \A k \in 1 .. n : (k = 1 \/ k - 1 \in T) => k \in T
  PROVE  \A k \in 1 .. n : k \in T
<1>1. ASSUME (1 .. n) \ T # {}
      PROVE  FALSE
  <2>1. PICK W : W = (1 .. n) \ T
    OBVIOUS
  <2>2. W \subseteq Nat /\ W # {}
    BY <1>1, <2>1
  <2>3. PICK k \in W : \A y \in W : k <= y
    BY <2>2, LeastElement
  <2>4. k \in 1 .. n /\ k \notin T
    BY <2>1
  <2>5. k # 1 => k - 1 \in 1 .. n /\ k - 1 \notin W
    BY <2>3, <2>4
  <2>6. QED
    BY <2>1, <2>4, <2>5
<1>2. QED
  BY <1>1

(***************************************************************************)
(* A chain of entries: each is linked to the one before it, and has the    *)
(* hash of its link and content.                                           *)
(***************************************************************************)
Chained(entries) ==
  \A i \in DOMAIN entries :
    /\ entries[i].previous = IF i = 1 THEN ZeroHash ELSE entries[i - 1].hash
    /\ entries[i].hash = EntryHash(entries[i].previous, entries[i].content)

LEMMA EntryParts ==
  ASSUME NEW e \in Entries
  PROVE  /\ e.content \in Contents /\ e.previous \in Hashes /\ e.hash \in Hashes
         /\ e = [content |-> e.content, previous |-> e.previous, hash |-> e.hash]
BY DEF Entries

LEMMA LastHashIs ==
  ASSUME NEW entries \in Seq(Entries)
  PROVE  LastHash(entries) = IF Len(entries) = 0 THEN ZeroHash ELSE entries[Len(entries)].hash
BY DEF LastHash, Last

LEMMA HashBinds ==
  ASSUME NEW p \in Hashes, NEW x \in Contents, NEW q \in Hashes, NEW y \in Contents,
         EntryHash(p, x) = EntryHash(q, y)
  PROVE  p = q /\ x = y
<1>1. p \in Seq(Contents) /\ q \in Seq(Contents) /\ Append(p, x) = Append(q, y)
  BY DEF EntryHash, Hashes
<1>2. PICK z : z = Append(p, x) /\ z = Append(q, y)
  BY <1>1
<1>3. /\ Len(p) \in Nat /\ Len(z) = Len(p) + 1 /\ z[Len(p) + 1] = x
      /\ \A i \in 1 .. Len(p) : z[i] = p[i]
  BY <1>1, <1>2, AppendProperties, LenProperties
<1>4. /\ Len(q) \in Nat /\ Len(z) = Len(q) + 1 /\ z[Len(q) + 1] = y
      /\ \A i \in 1 .. Len(q) : z[i] = q[i]
  BY <1>1, <1>2, AppendProperties, LenProperties
<1>5. Len(p) = Len(q)
  BY <1>3, <1>4
<1>6. p = q
  BY <1>1, <1>3, <1>4, <1>5, SeqEqual
<1>7. QED
  BY <1>3, <1>4, <1>5, <1>6

\* What the chain says of one of its entries.
LEMMA ChainedEntry ==
  ASSUME NEW c \in Seq(Entries), Chained(c), NEW i \in 1 .. Len(c)
  PROVE  /\ c[i].content \in Contents /\ c[i].previous \in Hashes /\ c[i].hash \in Hashes
         /\ c[i] = [content |-> c[i].content, previous |-> c[i].previous, hash |-> c[i].hash]
         /\ c[i].previous = IF i = 1 THEN ZeroHash ELSE c[i - 1].hash
         /\ c[i].hash = EntryHash(c[i].previous, c[i].content)
<1>1. i \in DOMAIN c /\ c[i] \in Entries
  BY LenProperties
<1>2. QED
  BY <1>1, EntryParts DEF Chained

\* A hash covers as many contents as there are entries up to it.
LEMMA HashLengths ==
  ASSUME NEW c \in Seq(Entries), Chained(c)
  PROVE  \A i \in 1 .. Len(c) : Len(c[i].hash) = i
<1>1. PICK T : T = {k \in 1 .. Len(c) : Len(c[k].hash) = k}
  OBVIOUS
<1>2. ASSUME NEW k \in 1 .. Len(c), k = 1 \/ k - 1 \in T
      PROVE  k \in T
  <2>1. Len(c[k].hash) = Len(c[k].previous) + 1 /\ Len(c[k].previous) \in Nat
    <3>1. /\ c[k].previous \in Seq(Contents) /\ c[k].content \in Contents
          /\ c[k].hash = Append(c[k].previous, c[k].content)
      BY ChainedEntry, Zenon DEF EntryHash, Hashes
    <3>2. PICK previous \in Seq(Contents), content \in Contents :
            /\ previous = c[k].previous /\ content = c[k].content
            /\ c[k].hash = Append(previous, content)
      BY <3>1
    <3>3. QED
      BY <3>2, AppendProperties, LenProperties
  <2>2. Len(c[k].previous) = k - 1
    <3>0. c[k].previous = IF k = 1 THEN ZeroHash ELSE c[k - 1].hash
      BY ChainedEntry, Zenon
    <3>1. CASE k = 1
      <4>1. c[k].previous = <<>>
        BY <3>0, <3>1 DEF ZeroHash
      <4>2. QED
        BY <3>1, <4>1
    <3>2. CASE k # 1
      BY <3>0, <3>2, <1>1, <1>2
    <3>3. QED
      BY <3>1, <3>2
  <2>3. QED
    BY <1>1, <2>1, <2>2
<1>3. \A k \in 1 .. Len(c) : k \in T
  BY <1>2, PositionInduction, LenProperties
<1>4. QED
  BY <1>1, <1>3

\* Chains of one length and one last hash have the same hash everywhere.
LEMMA HashesAgree ==
  ASSUME NEW c \in Seq(Entries), NEW d \in Seq(Entries), Chained(c), Chained(d),
         Len(c) = Len(d), LastHash(c) = LastHash(d)
  PROVE  \A i \in 1 .. Len(c) : c[i].hash = d[i].hash
<1>1. PICK n \in Nat : n = Len(c) /\ n = Len(d)
  BY LenProperties
<1>2. n # 0 => c[n].hash = d[n].hash
  BY <1>1, LastHashIs
\* Counted from the end.
<1>3. PICK T : T = {k \in 1 .. n : c[n - k + 1].hash = d[n - k + 1].hash}
  OBVIOUS
<1>4. ASSUME NEW k \in 1 .. n, k = 1 \/ k - 1 \in T
      PROVE  k \in T
  <2>1. CASE k = 1
    BY <2>1, <1>2, <1>3
  <2>2. CASE k # 1
    <3>1. PICK j \in 1 .. n : j = n - (k - 1) + 1
      BY <2>2
    <3>2. j # 1 /\ j - 1 = n - k + 1
      BY <3>1
    <3>3. c[j].hash = d[j].hash
      BY <1>3, <1>4, <2>2, <3>1
    <3>4. c[j].previous = d[j].previous
      <4>1. /\ c[j].previous \in Hashes /\ c[j].content \in Contents
            /\ d[j].previous \in Hashes /\ d[j].content \in Contents
            /\ c[j].hash = EntryHash(c[j].previous, c[j].content)
            /\ d[j].hash = EntryHash(d[j].previous, d[j].content)
        BY <1>1, ChainedEntry
      <4>2. EntryHash(c[j].previous, c[j].content) = EntryHash(d[j].previous, d[j].content)
        BY <3>3, <4>1, Zenon
      <4>3. PICK p \in Hashes, x \in Contents, q \in Hashes, y \in Contents :
              /\ p = c[j].previous /\ x = c[j].content
              /\ q = d[j].previous /\ y = d[j].content
        BY <4>1
      <4>4. EntryHash(p, x) = EntryHash(q, y)
        BY <4>2, <4>3
      <4>5. QED
        BY <4>3, <4>4, HashBinds
    <3>5. c[j - 1].hash = d[j - 1].hash
      <4>1. /\ c[j].previous = IF j = 1 THEN ZeroHash ELSE c[j - 1].hash
            /\ d[j].previous = IF j = 1 THEN ZeroHash ELSE d[j - 1].hash
        <5>1. j \in 1 .. Len(c) /\ j \in 1 .. Len(d)
          BY <1>1
        <5>2. QED
          BY <5>1, ChainedEntry, Zenon
      <4>2. QED
        BY <3>2, <3>4, <4>1
    <3>6. QED
      BY <1>3, <3>2, <3>5
  <2>3. QED
    BY <2>1, <2>2
<1>5. \A k \in 1 .. n : k \in T
  BY <1>4, PositionInduction
<1>6. ASSUME NEW i \in 1 .. n
      PROVE  c[i].hash = d[i].hash
  <2>1. PICK k \in 1 .. n : n - k + 1 = i
    <3>1. n - i + 1 \in 1 .. n /\ n - (n - i + 1) + 1 = i
      OBVIOUS
    <3>2. QED
      BY <3>1
  <2>2. QED
    BY <1>3, <1>5, <2>1
<1>7. QED
  BY <1>1, <1>6

LEMMA LastHashBinds ==
  ASSUME NEW c \in Seq(Entries), NEW d \in Seq(Entries), Chained(c), Chained(d),
         LastHash(c) = LastHash(d)
  PROVE  c = d
<1>1. Len(c) \in Nat /\ Len(d) \in Nat
  BY LenProperties
<1>2. Len(c) = Len(d)
  <2>1. Len(LastHash(c)) = Len(c)
    BY <1>1, LastHashIs, HashLengths DEF ZeroHash
  <2>2. Len(LastHash(d)) = Len(d)
    BY <1>1, LastHashIs, HashLengths DEF ZeroHash
  <2>3. QED
    BY <2>1, <2>2
<1>3. ASSUME NEW i \in 1 .. Len(c)
      PROVE  c[i] = d[i]
  <2>1. c[i].hash = d[i].hash
    BY <1>2, HashesAgree
  <2>2. i \in 1 .. Len(d)
    BY <1>2
  <2>3. /\ c[i].content \in Contents /\ c[i].previous \in Hashes
        /\ d[i].content \in Contents /\ d[i].previous \in Hashes
        /\ c[i].hash = EntryHash(c[i].previous, c[i].content)
        /\ d[i].hash = EntryHash(d[i].previous, d[i].content)
        /\ c[i] = [content |-> c[i].content, previous |-> c[i].previous, hash |-> c[i].hash]
        /\ d[i] = [content |-> d[i].content, previous |-> d[i].previous, hash |-> d[i].hash]
    BY <2>2, ChainedEntry
  <2>4. c[i].previous = d[i].previous /\ c[i].content = d[i].content
    BY <2>1, <2>3, HashBinds
  <2>5. QED
    BY <2>1, <2>3, <2>4
<1>4. QED
  BY <1>2, <1>3, SeqEqual

(***************************************************************************)
(* The observer's log is a chain, and so is every start of it.             *)
(***************************************************************************)
LEMMA LogIsChained == Spec => []Chained(log)
<1>1. Init => Chained(log)
  BY DEF Init, Chained
<1>2. TypeOK /\ Chained(log) /\ [Next]_vars => Chained(log)'
  <2> SUFFICES ASSUME TypeOK, Chained(log), [Next]_vars PROVE Chained(log')
    BY DEF Chained
  <2>1. CASE Observe
    <3>1. PICK entryType \in EntryTypes, payload \in Payloads :
            log' = Append(log, MakeEntry(log, entryType, payload))
      BY <2>1 DEF Observe
    <3>2. PICK e \in Entries : e = MakeEntry(log, entryType, payload)
      BY MakeEntryType DEF TypeOK
    <3>3. e.previous = LastHash(log) /\ e.hash = EntryHash(e.previous, e.content)
      BY <3>2 DEF MakeEntry
    <3>4. /\ Len(log) \in Nat /\ DOMAIN log = 1 .. Len(log) /\ DOMAIN log' = 1 .. Len(log) + 1
          /\ \A i \in 1 .. Len(log) : log'[i] = log[i]
          /\ log'[Len(log) + 1] = e
      BY <3>1, <3>2 DEF TypeOK
    <3>5. LastHash(log) = IF Len(log) = 0 THEN ZeroHash ELSE log[Len(log)].hash
      BY LastHashIs DEF TypeOK
    <3>6. ASSUME NEW i \in 1 .. Len(log) + 1
          PROVE  /\ log'[i].previous = IF i = 1 THEN ZeroHash ELSE log'[i - 1].hash
                 /\ log'[i].hash = EntryHash(log'[i].previous, log'[i].content)
      <4>1. CASE i \in 1 .. Len(log)
        BY <4>1, <3>4 DEF Chained
      <4>2. CASE i = Len(log) + 1
        BY <4>2, <3>3, <3>4, <3>5
      <4>3. QED
        BY <3>4, <4>1, <4>2
    <3>7. QED
      BY <3>4, <3>6 DEF Chained
  <2>2. CASE UNCHANGED log
    BY <2>2
  <2>3. QED
    BY <2>1, <2>2 DEF vars, Next, Drop, Truncate, Swap, Rewrite, Relink, Reroot, Change
<1>3. QED
  BY <1>1, <1>2, TypeCorrect, PTL DEF Spec

\* Whoever knows a root of the observer holds its entries, or a log that does
\* not verify, whatever was altered and however long the log is.
THEOREM RootsBindLogs == Spec => []TamperEvident
<1>1. TypeOK /\ Chained(log) => TamperEvident
  <2> SUFFICES ASSUME TypeOK, Chained(log), Verifies(copy), NEW n \in 0 .. Len(log),
                      copy.root = LastHash(SubSeq(log, 1, n))
               PROVE  copy.entries = SubSeq(log, 1, n)
    BY DEF TamperEvident
  <2>1. copy.entries \in Seq(Entries) /\ log \in Seq(Entries)
    BY DEF TypeOK
  <2>2. Chained(copy.entries)
    BY DEF Verifies, EntryVerifies, Chained
  <2>3. PICK start : start = SubSeq(log, 1, n)
    OBVIOUS
  <2>4. /\ start \in Seq(Entries) /\ DOMAIN start = 1 .. n
        /\ \A i \in 1 .. n : start[i] = log[i]
    BY <2>1, <2>3
  <2>5. Chained(start)
    <3>1. \A i \in 1 .. n : i \in DOMAIN log /\ (i # 1 => i - 1 \in 1 .. n)
      BY <2>1
    <3>2. QED
      BY <2>4, <3>1 DEF Chained
  <2>6. LastHash(copy.entries) = LastHash(start)
    BY <2>3 DEF Verifies
  <2>7. QED
    BY <2>1, <2>2, <2>3, <2>4, <2>5, <2>6, LastHashBinds
<1>2. QED
  BY <1>1, TypeCorrect, LogIsChained, PTL

-------------------------------------------------------------------------------
(***************************************************************************)
(* Queries over a directory.                                               *)
(***************************************************************************)

\* What one announcement verifies, every other that verifies under its digest
\* does.
LEMMA DigestStandsFor ==
  ASSUME NEW a, NEW b, NEW t, AttestationVerifies(a, t), AnnouncementVerifies(b),
         b.digest = t.digest
  PROVE  AttestationVerifies(b, t)
<1>1. AnnouncementVerifies(a) /\ a.digest = b.digest
  BY DEF AttestationVerifies
<1>2. Digest(a) = Digest(b)
  BY <1>1 DEF AnnouncementVerifies
<1>3. a.event = b.event /\ a.key = b.key /\ a.nonce = b.nonce /\ a.outcomes = b.outcomes
  BY <1>2 DEF Digest
<1>4. QED
  BY <1>1, <1>3 DEF AttestationVerifies

\* A query misses no announcement of the directory that verifies the
\* attestation, and takes none for one that does not, whatever else has its
\* digest.
THEOREM QueriesFindVerifyingAnnouncements == Spec => []QueryFindsVerifyingAnnouncement
<1>1. TypeOK => QueryFindsVerifyingAnnouncement
  <2> DEFINE files == Files(log)
  <2> SUFFICES ASSUME TypeOK, NEW i \in Attestations(files),
                      NEW match \in QueryOracleAttestations(files, files[i].event, files[i].outcome)
               PROVE  TRUE \in match.ok <=>
                        \E j \in QueryOracleAnnouncements(files, files[i].event) :
                          AttestationVerifies(files[j], files[match.file])
    BY DEF QueryFindsVerifyingAnnouncement
  <2>1. PICK f \in Attestations(files) :
          /\ files[f].event = files[i].event
          /\ match = [file |-> f, ok |-> {AttestationVerifies(files[j], files[f]) :
                                            j \in RecordOf(files, files[f].digest)}]
    BY DEF QueryOracleAttestations
  <2>2. DOMAIN files \subseteq Nat
    BY DEF Files, TypeOK
  <2> HIDE DEF files
  <2>3. match.file = f
        /\ (TRUE \in match.ok <=> \E j \in RecordOf(files, files[f].digest) :
                                    AttestationVerifies(files[j], files[f]))
    <3>1. \A j : AttestationVerifies(files[j], files[f]) \in BOOLEAN
      BY DEF AttestationVerifies
    <3>2. QED
      BY <2>1, <3>1
  <2>4. ASSUME NEW j \in RecordOf(files, files[f].digest), AttestationVerifies(files[j], files[f])
        PROVE  j \in QueryOracleAnnouncements(files, files[i].event)
    <3>1. j \in Announcements(files)
      BY DEF RecordOf
    <3>2. files[j].event = files[i].event
      BY <2>1, <2>4 DEF AttestationVerifies
    <3>3. QED
      BY <3>1, <3>2 DEF QueryOracleAnnouncements
  <2>5. ASSUME NEW k \in QueryOracleAnnouncements(files, files[i].event),
               AttestationVerifies(files[k], files[f])
        PROVE  \E j \in RecordOf(files, files[f].digest) :
                 AttestationVerifies(files[j], files[f])
    <3> DEFINE good == {j \in Announcements(files) : files[j].digest = files[f].digest
                                                    /\ AnnouncementVerifies(files[j])}
    <3>1. k \in good
      BY <2>5 DEF QueryOracleAnnouncements, AttestationVerifies
    <3>2. good \subseteq Nat
      BY <2>2 DEF Announcements
    <3>3. PICK j \in good : \A y \in good : j <= y
      BY <3>1, <3>2, LeastElement
    <3>4. j \in RecordOf(files, files[f].digest)
      BY <3>1, <3>3 DEF RecordOf
    <3>5. AttestationVerifies(files[j], files[f])
      BY <2>5, <3>3, DigestStandsFor
    <3>6. QED
      BY <3>4, <3>5
  <2>6. QED
    BY <2>3, <2>4, <2>5
<1>2. QED
  BY <1>1, TypeCorrect, PTL

===============================================================================
