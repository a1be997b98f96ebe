--------------------------- MODULE DatabaseProofs ---------------------------
(***************************************************************************)
(* Theorems about what the database holds, and their proofs: AuditTrail,   *)
(* for any number of threads that log, of entries and of resets, and       *)
(* Migration, for any list of migrations that its assumption admits and    *)
(* any number of processes killed and of rollbacks.                        *)
(***************************************************************************)
EXTENDS AuditTrail, Migration, FiniteSetTheorems, WellFoundedInduction, TLAPS

\* The hashes of the entries in the table, deleted ones and none.
Known == {NoHash} \union deleted \union {audit_logs[i].hash : i \in DOMAIN audit_logs}

\* The strengthening that makes EntriesHangOnEarlierOnes inductive: what a call of log()
\* has read stays a known hash until it inserts, whatever the others do meanwhile.
CallsHoldKnownHashes == \A l \in Loggers : loggers[l].previous_hash \in Known

IInv == TypeOK /\ EntriesHangOnEarlierOnes /\ CallsHoldKnownHashes

-----------------------------------------------------------------------------
(* Type correctness. *)

LEMMA RowsTyped ==
    ASSUME TypeOK, NEW k \in DOMAIN audit_logs
    PROVE  audit_logs[k] \in Entry /\ audit_logs[k].hash \in Hash
<1>1. audit_logs[k] \in Entry
  BY DEF TypeOK
<1> QED
  BY <1>1 DEF Entry

LEMMA LastRowIsARow == ASSUME TypeOK, audit_logs # <<>> PROVE Len(audit_logs) \in DOMAIN audit_logs
<1>1. audit_logs \in Seq(Entry)
  BY DEF TypeOK
<1> QED
  BY <1>1

LEMMA LastHashTyped == ASSUME TypeOK PROVE LastHash \in Hash
<1>1. NoHash \in Hash
  BY DEF Hash
<1> QED
  BY <1>1, RowsTyped, LastRowIsARow DEF LastHash

LEMMA NewEntryTyped ==
    ASSUME TypeOK, NEW l \in Loggers
    PROVE  NewEntry(l) \in Entry
<1>1. loggers[l].previous_hash \in Hash
  BY DEF TypeOK
<1>2. ComputeHash(nextId, TRUE) \in Hash
  BY DEF TypeOK, ComputeHash, Hash
<1> QED
  BY <1>1, <1>2 DEF NewEntry, Entry, TypeOK

LEMMA NextTyped == ASSUME TypeOK, [Next]_vars PROVE TypeOK'
<1>1. ASSUME NEW l \in Loggers, ReadLastHash(l) PROVE TypeOK'
  <2>1. loggers' \in [Loggers -> [pc : {"idle", "insert"}, previous_hash : Hash]]
    BY <1>1, LastHashTyped DEF ReadLastHash, Read, TypeOK
  <2> QED
    BY <1>1, <2>1 DEF ReadLastHash, Read, TypeOK
<1>2. ASSUME NEW l \in Loggers, InsertEntry(l) PROVE TypeOK'
  <2>1. audit_logs' \in Seq(Entry)
    BY <1>2, NewEntryTyped DEF InsertEntry, AppendRow, TypeOK
  <2>2. loggers' \in [Loggers -> [pc : {"idle", "insert"}, previous_hash : Hash]]
    BY <1>2 DEF InsertEntry, AppendRow, TypeOK, Resting, Hash
  <2>3. disturbed' \in [calls : SUBSET Loggers, entries : SUBSET Nat]
    BY <1>2 DEF InsertEntry, AppendRow, TypeOK, Others
  <2> QED
    BY <1>2, <2>1, <2>2, <2>3 DEF InsertEntry, AppendRow, TypeOK
<1>3. ASSUME NEW l \in Loggers, AbandonLog(l) PROVE TypeOK'
  BY <1>3 DEF AbandonLog, TypeOK, Resting, Hash
<1>4. CASE ResetDemoData
  <2>1. {audit_logs[k].hash : k \in DOMAIN audit_logs} \subseteq Hash
    BY RowsTyped
  <2> QED
    BY <1>4, <2>1 DEF ResetDemoData, TypeOK
<1>5. CASE UNCHANGED vars
  BY <1>5 DEF vars, TypeOK
<1> QED
  BY <1>1, <1>2, <1>3, <1>4, <1>5 DEF Next

\* Every reachable state is well typed.
THEOREM TypeCorrect == Spec => []TypeOK
<1>1. Init => TypeOK
  BY DEF Init, TypeOK, Resting, Hash
<1> QED
  BY <1>1, NextTyped, PTL DEF Spec

-----------------------------------------------------------------------------
(* The log is a forest. *)

LEMMA LastHashKnown == ASSUME TypeOK PROVE LastHash \in Known
BY LastRowIsARow DEF LastHash, Known

LEMMA Insertion ==
    ASSUME IInv, NEW l \in Loggers, InsertEntry(l)
    PROVE  EntriesHangOnEarlierOnes' /\ CallsHoldKnownHashes'
<1> DEFINE n == Len(audit_logs)
           e == NewEntry(l)
<1>1. /\ audit_logs' = Append(audit_logs, e)
      /\ deleted' = deleted
      /\ loggers' = [loggers EXCEPT ![l] = Resting]
  BY DEF InsertEntry, AppendRow
<1>2. n \in Nat /\ DOMAIN audit_logs = 1..n /\ DOMAIN audit_logs' = 1..(n + 1)
  BY <1>1 DEF IInv, TypeOK
<1>3. \A i \in 1..n : audit_logs'[i] = audit_logs[i]
  BY <1>1 DEF IInv, TypeOK
<1>4. audit_logs'[n + 1] = e
  BY <1>1 DEF IInv, TypeOK
<1>5. e.previous_hash = loggers[l].previous_hash
  BY DEF NewEntry
<1> HIDE DEF n, e
<1>6. Known \subseteq Known'
  BY <1>1, <1>2, <1>3 DEF Known
<1>7. ASSUME NEW k \in 1..n
      PROVE audit_logs'[k].previous_hash \in
                {NoHash} \union deleted' \union {audit_logs'[i].hash : i \in 1..(k - 1)}
  <2>1. \A i \in 1..(k - 1) : i \in 1..n
    BY <1>2
  <2> QED
    BY <1>1, <1>2, <1>3, <2>1 DEF IInv, EntriesHangOnEarlierOnes
<1>8. audit_logs'[n + 1].previous_hash \in
          {NoHash} \union deleted' \union {audit_logs'[i].hash : i \in 1..((n + 1) - 1)}
  <2>1. 1..((n + 1) - 1) = 1..n
    BY <1>2
  <2>2. e.previous_hash \in Known
    BY <1>5 DEF IInv, CallsHoldKnownHashes
  <2> QED
    BY <1>1, <1>2, <1>3, <1>4, <2>1, <2>2 DEF Known
<1>9. EntriesHangOnEarlierOnes'
  BY <1>2, <1>7, <1>8 DEF EntriesHangOnEarlierOnes
<1>10. CallsHoldKnownHashes'
  <2>1. NoHash \in Known'
    BY DEF Known
  <2> QED
    BY <1>1, <1>6, <2>1 DEF IInv, CallsHoldKnownHashes, TypeOK, Resting
<1> QED
  BY <1>9, <1>10

LEMMA Reset ==
    ASSUME IInv, ResetDemoData PROVE EntriesHangOnEarlierOnes' /\ CallsHoldKnownHashes'
<1>1. EntriesHangOnEarlierOnes'
  BY DEF ResetDemoData, EntriesHangOnEarlierOnes
<1>2. Known \subseteq Known'
  BY DEF ResetDemoData, Known
<1> QED
  BY <1>1, <1>2 DEF ResetDemoData, IInv, CallsHoldKnownHashes

LEMMA Inductive == Spec => []IInv
<1>1. Init => IInv
  BY DEF Init, IInv, TypeOK, Resting, Hash, EntriesHangOnEarlierOnes, CallsHoldKnownHashes, Known
<1>2. IInv /\ [Next]_vars => IInv'
  <2> SUFFICES ASSUME IInv, [Next]_vars PROVE EntriesHangOnEarlierOnes' /\ CallsHoldKnownHashes'
    BY NextTyped DEF IInv
  <2>1. ASSUME NEW l \in Loggers, ReadLastHash(l)
        PROVE  EntriesHangOnEarlierOnes' /\ CallsHoldKnownHashes'
    <3>1. LastHash \in Known /\ Known' = Known
      BY <2>1, LastHashKnown DEF ReadLastHash, Read, Known, IInv
    <3> QED
      BY <2>1, <3>1 DEF ReadLastHash, Read, IInv, TypeOK, EntriesHangOnEarlierOnes, CallsHoldKnownHashes
  <2>2. ASSUME NEW l \in Loggers, AbandonLog(l)
        PROVE  EntriesHangOnEarlierOnes' /\ CallsHoldKnownHashes'
    <3>1. NoHash \in Known /\ Known' = Known
      BY <2>2 DEF AbandonLog, Known
    <3> QED
      BY <2>2, <3>1 DEF AbandonLog, Resting, IInv, TypeOK, EntriesHangOnEarlierOnes, CallsHoldKnownHashes
  <2>3. CASE UNCHANGED vars
    BY <2>3 DEF vars, IInv, EntriesHangOnEarlierOnes, CallsHoldKnownHashes, Known
  <2> QED
    BY <2>1, <2>2, <2>3, Insertion, Reset DEF Next
<1> QED
  BY <1>1, <1>2, PTL DEF Spec

\* Whatever log() calls overlap, fail or are cut off by a reset, every entry hangs on an
\* earlier one, on a deleted one, or on nothing.
THEOREM Forest == Spec => []EntriesHangOnEarlierOnes
BY Inductive, PTL DEF IInv

-----------------------------------------------------------------------------
(* What verify_chain() reports. *)

\* Every row keeps the hash of a dict that had the key "hash".
HashedWith ==
    \A k \in DOMAIN audit_logs : audit_logs[k].hash = ComputeHash(audit_logs[k].id, TRUE)

LEMMA RowsHashedWith == ASSUME TypeOK, HashedWith, [Next]_vars PROVE HashedWith'
<1>1. ASSUME NEW l \in Loggers, InsertEntry(l) PROVE HashedWith'
  <2> DEFINE n == Len(audit_logs)
             e == NewEntry(l)
  <2>1. audit_logs' = Append(audit_logs, e)
    BY <1>1 DEF InsertEntry, AppendRow
  <2>2. e.hash = ComputeHash(e.id, TRUE)
    BY DEF NewEntry, ComputeHash
  <2>3. n \in Nat /\ DOMAIN audit_logs = 1..n /\ DOMAIN audit_logs' = 1..(n + 1)
    BY <2>1 DEF TypeOK
  <2>4. \A i \in 1..n : audit_logs'[i] = audit_logs[i]
    BY <2>1 DEF TypeOK
  <2>5. audit_logs'[n + 1] = e
    BY <2>1 DEF TypeOK
  <2> HIDE DEF n, e
  <2>6. ASSUME NEW k \in 1..(n + 1)
        PROVE  audit_logs'[k].hash = ComputeHash(audit_logs'[k].id, TRUE)
    <3>1. CASE k = n + 1
      BY <3>1, <2>2, <2>5
    <3>2. CASE k \in 1..n
      BY <3>2, <2>3, <2>4 DEF HashedWith
    <3>3. k = n + 1 \/ k \in 1..n
      BY <2>3
    <3> QED
      BY <3>1, <3>2, <3>3
  <2> QED
    BY <2>3, <2>6 DEF HashedWith, ComputeHash
<1>2. ASSUME NEW l \in Loggers, ReadLastHash(l) PROVE HashedWith'
  BY <1>2 DEF ReadLastHash, Read, HashedWith, ComputeHash
<1>3. ASSUME NEW l \in Loggers, AbandonLog(l) PROVE HashedWith'
  BY <1>3 DEF AbandonLog, HashedWith, ComputeHash
<1>4. CASE ResetDemoData
  BY <1>4 DEF ResetDemoData, HashedWith
<1>5. CASE UNCHANGED vars
  BY <1>5 DEF vars, HashedWith, ComputeHash
<1> QED
  BY <1>1, <1>2, <1>3, <1>4, <1>5 DEF Next

\* verify_chain() calls no log that log() has written intact: the rows it reads back have
\* no key "hash", the rows log() hashed had one, so every row of every log is reported as
\* a mismatch, and only the empty log passes.
THEOREM Doubted == Spec => [](Intact(audit_logs) => audit_logs = <<>>)
<1> DEFINE Inv == TypeOK /\ HashedWith
<1>1. Init => Inv
  BY DEF Init, TypeOK, Resting, Hash, HashedWith
<1>2. Inv /\ [Next]_vars => Inv'
  BY NextTyped, RowsHashedWith
<1>3. Inv => (Intact(audit_logs) => audit_logs = <<>>)
  <2> SUFFICES ASSUME Inv, audit_logs # <<>> PROVE HashMismatch(audit_logs) # {}
    BY DEF Intact
  <2>1. 1 \in DOMAIN audit_logs
    BY DEF TypeOK
  <2>2. audit_logs[1].hash # Recomputed(audit_logs[1])
    <3>1. ComputeHash(audit_logs[1].id, TRUE).withHash = TRUE
      BY DEF ComputeHash
    <3>2. ComputeHash(audit_logs[1].id, FALSE).withHash = FALSE
      BY DEF ComputeHash
    <3>3. ComputeHash(audit_logs[1].id, TRUE) # ComputeHash(audit_logs[1].id, FALSE)
      BY <3>1, <3>2
    <3> QED
      BY <2>1, <3>3 DEF HashedWith, Recomputed
  <2> QED
    BY <2>1, <2>2 DEF HashMismatch
<1> QED
  BY <1>1, <1>2, <1>3, PTL DEF Spec

-----------------------------------------------------------------------------
(* Where the chain breaks. *)

\* The strengthening of BreaksAreOverlaps: what a call has read is still the last hash,
\* unless the table changed since.
QuietCallsHoldTheLastHash ==
    \A l \in Loggers :
        loggers[l].pc = "insert" /\ l \notin disturbed.calls => loggers[l].previous_hash = LastHash

BInv == TypeOK /\ QuietCallsHoldTheLastHash /\ BreaksAreOverlaps

\* What an insertion does to the table, row by row.
LEMMA RowAppended ==
    ASSUME TypeOK, NEW l \in Loggers, InsertEntry(l), NEW n, n = Len(audit_logs)
    PROVE  /\ n \in Nat /\ DOMAIN audit_logs = 1..n /\ DOMAIN audit_logs' = 1..(n + 1)
           /\ Len(audit_logs') = n + 1
           /\ \A i \in 1..n : audit_logs'[i] = audit_logs[i]
           /\ audit_logs'[n + 1] = NewEntry(l)
<1>1. audit_logs' = Append(audit_logs, NewEntry(l))
  BY DEF InsertEntry, AppendRow
<1>2. audit_logs \in Seq(Entry) /\ NewEntry(l) \in Entry
  BY NewEntryTyped DEF TypeOK
<1> HIDE DEF Entry
<1> QED
  BY <1>1, <1>2

LEMMA BreaksAfterInsertion ==
    ASSUME BInv, NEW l \in Loggers, InsertEntry(l) PROVE BreaksAreOverlaps'
<1>1. PICK n : n = Len(audit_logs)
  OBVIOUS
<1>2. /\ n \in Nat /\ DOMAIN audit_logs = 1..n /\ DOMAIN audit_logs' = 1..(n + 1)
      /\ \A i \in 1..n : audit_logs'[i] = audit_logs[i]
      /\ audit_logs'[n + 1] = NewEntry(l)
  BY <1>1, RowAppended DEF BInv
<1>3. disturbed.entries \subseteq disturbed'.entries
  BY DEF InsertEntry, AppendRow
<1> SUFFICES ASSUME NEW k \in 1..(n + 1),
                    audit_logs'[k].previous_hash # PreviousHash(audit_logs', k)
             PROVE  audit_logs'[k].id \in disturbed'.entries
  BY <1>2 DEF BreaksAreOverlaps, ChainBreaks
<1>4. CASE k \in 1..n
  <2>1. k = 1 \/ k - 1 \in 1..n
    BY <1>2, <1>4
  <2>2. PreviousHash(audit_logs', k) = PreviousHash(audit_logs, k)
    BY <1>2, <2>1 DEF PreviousHash
  <2>3. k \in ChainBreaks(audit_logs)
    BY <1>2, <1>4, <2>2 DEF ChainBreaks
  <2> QED
    BY <1>2, <1>3, <1>4, <2>3 DEF BInv, BreaksAreOverlaps
<1>5. CASE k = n + 1
  <2>1. PreviousHash(audit_logs', n + 1) = LastHash
    <3>1. CASE n = 0
      <4>1. audit_logs = <<>>
        BY <1>1, <1>2, <3>1, LastRowIsARow DEF BInv
      <4> QED
        BY <3>1, <4>1 DEF PreviousHash, LastHash
    <3>2. CASE n # 0
      <4>1. audit_logs # <<>> /\ n \in 1..n /\ (n + 1) - 1 = n /\ n + 1 # 1
        BY <1>1, <1>2, <3>2
      <4> QED
        BY <1>1, <1>2, <4>1 DEF PreviousHash, LastHash
    <3> QED
      BY <3>1, <3>2
  <2>2. loggers[l].previous_hash # LastHash
    BY <1>2, <1>5, <2>1 DEF NewEntry
  <2>3. l \in disturbed.calls
    BY <2>2 DEF BInv, QuietCallsHoldTheLastHash, InsertEntry, AppendRow
  <2>4. audit_logs'[k].id = nextId
    BY <1>2, <1>5 DEF NewEntry
  <2> QED
    BY <2>3, <2>4 DEF InsertEntry, AppendRow
<1>6. k \in 1..n \/ k = n + 1
  BY <1>2
<1> QED
  BY <1>4, <1>5, <1>6

\* An insertion disturbs the other calls that have read and not yet inserted; its own is over.
LEMMA QuietAfterInsertion ==
    ASSUME BInv, NEW l \in Loggers, InsertEntry(l) PROVE QuietCallsHoldTheLastHash'
<1> SUFFICES ASSUME NEW k \in Loggers, loggers'[k].pc = "insert", k \notin disturbed'.calls
             PROVE  FALSE
  BY DEF QuietCallsHoldTheLastHash
<1>1. k # l /\ loggers[k].pc = "insert"
  BY DEF InsertEntry, BInv, TypeOK, Resting
<1>2. k \in Others(l)
  BY <1>1 DEF Others
<1> QED
  BY <1>2 DEF InsertEntry, AppendRow

LEMMA BreaksInductive == ASSUME BInv, [Next]_vars PROVE BInv'
<1> SUFFICES QuietCallsHoldTheLastHash' /\ BreaksAreOverlaps'
  BY NextTyped DEF BInv
<1>1. ASSUME NEW l \in Loggers, ReadLastHash(l)
      PROVE  QuietCallsHoldTheLastHash' /\ BreaksAreOverlaps'
  <2>1. LastHash' = LastHash /\ disturbed'.entries = disturbed.entries
    BY <1>1 DEF ReadLastHash, Read, LastHash
  <2>2. ASSUME NEW k \in Loggers, loggers'[k].pc = "insert", k \notin disturbed'.calls
        PROVE  loggers'[k].previous_hash = LastHash
    <3>1. CASE k = l
      BY <1>1, <3>1 DEF ReadLastHash, Read, BInv, TypeOK
    <3>2. CASE k # l
      BY <1>1, <2>2, <3>2 DEF ReadLastHash, Read, BInv, TypeOK, QuietCallsHoldTheLastHash
    <3> QED
      BY <3>1, <3>2
  <2>3. BreaksAreOverlaps'
    BY <1>1, <2>1 DEF ReadLastHash, Read, BInv, BreaksAreOverlaps, ChainBreaks, PreviousHash
  <2> QED
    BY <2>1, <2>2, <2>3 DEF QuietCallsHoldTheLastHash
<1>2. ASSUME NEW l \in Loggers, AbandonLog(l)
      PROVE  QuietCallsHoldTheLastHash' /\ BreaksAreOverlaps'
  <2>1. LastHash' = LastHash
    BY <1>2 DEF AbandonLog, LastHash
  <2>2. QuietCallsHoldTheLastHash'
    BY <1>2, <2>1 DEF AbandonLog, BInv, TypeOK, Resting, QuietCallsHoldTheLastHash
  <2>3. BreaksAreOverlaps'
    BY <1>2 DEF AbandonLog, BInv, BreaksAreOverlaps, ChainBreaks, PreviousHash
  <2> QED
    BY <2>2, <2>3
<1>3. CASE ResetDemoData
  <2>1. QuietCallsHoldTheLastHash'
    BY <1>3 DEF ResetDemoData, BInv, TypeOK, QuietCallsHoldTheLastHash
  <2>2. ChainBreaks(audit_logs') = {}
    BY <1>3 DEF ResetDemoData, ChainBreaks
  <2> QED
    BY <2>1, <2>2 DEF BreaksAreOverlaps
<1>4. CASE UNCHANGED vars
  <2>1. LastHash' = LastHash
    BY <1>4 DEF vars, LastHash
  <2> QED
    BY <1>4, <2>1 DEF vars, BInv, QuietCallsHoldTheLastHash, BreaksAreOverlaps, ChainBreaks, PreviousHash
<1> QED
  BY <1>1, <1>2, <1>3, <1>4, QuietAfterInsertion, BreaksAfterInsertion DEF Next

\* verify_chain() finds the chain broken only at an entry whose call of log() overlapped
\* another one or a reset of the demo data.
THEOREM BreaksWhereCallsOverlap == Spec => []BreaksAreOverlaps
<1>1. Init => BInv
  BY DEF Init, BInv, TypeOK, Resting, Hash, QuietCallsHoldTheLastHash, BreaksAreOverlaps, ChainBreaks
<1>2. BInv => BreaksAreOverlaps
  BY DEF BInv
<1> QED
  BY <1>1, <1>2, BreaksInductive, PTL DEF Spec

-----------------------------------------------------------------------------
(* How wide the chain forks. *)

Digest(i) == ComputeHash(i, TRUE)

\* NoHash, or the hash of one of the first n entries ever logged.
Older(hash, n) == hash = NoHash \/ \E i \in Nat : i < n /\ hash = Digest(i)

\* Entries are numbered as they are logged, and hang on older ones.
RowsInOrder ==
    \A k \in DOMAIN audit_logs :
        /\ audit_logs[k].id < nextId
        /\ Older(audit_logs[k].previous_hash, audit_logs[k].id)
        /\ \A i \in DOMAIN audit_logs : i < k => audit_logs[i].id < audit_logs[k].id

CallsHoldOlderHashes == \A l \in Loggers : Older(loggers[l].previous_hash, nextId)

\* The rows that hang on a hash, and the calls that are about to.
Children(h) == {k \in DOMAIN audit_logs : audit_logs[k].previous_hash = h}
Holders(h) == {l \in Loggers : loggers[l].pc = "insert" /\ loggers[l].previous_hash = h}

\* The strengthening of ForksAreNarrow: a call that is about to hang its entry on a row
\* counts like the entry.  A call joins the holders of the last row only, on which no
\* entry hangs yet.
RoomForHolders ==
    \A x \in DOMAIN audit_logs :
        Cardinality(Children(audit_logs[x].hash)) + Cardinality(Holders(audit_logs[x].hash))
            <= Cardinality(Loggers)

FInv == TypeOK /\ HashedWith /\ RowsInOrder /\ CallsHoldOlderHashes /\ RoomForHolders

LEMMA HashInjective ==
    ASSUME NEW i \in Nat, NEW k \in Nat, Digest(i) = Digest(k) PROVE i = k
BY DEF Digest, ComputeHash

LEMMA NoHashIsNoDigest == ASSUME NEW i \in Nat PROVE Digest(i) # NoHash
<1>1. Digest(i) \in [id : Nat, withHash : BOOLEAN]
  BY DEF Digest, ComputeHash
<1> QED
  BY <1>1, AuditAssumption

LEMMA NotOlder ==
    ASSUME NEW n \in Nat, NEW m \in Nat, n <= m, NEW h, Older(h, n)
    PROVE  h # Digest(m)
BY HashInjective, NoHashIsNoDigest DEF Older

LEMMA OlderGrows ==
    ASSUME NEW n \in Nat, NEW m \in Nat, n <= m, NEW h, Older(h, n) PROVE Older(h, m)
BY DEF Older

LEMMA HoldersFinite ==
    ASSUME NEW h
    PROVE  /\ IsFiniteSet(Holders(h)) /\ Cardinality(Holders(h)) \in Nat
           /\ Cardinality(Loggers) \in Nat /\ Cardinality(Holders(h)) <= Cardinality(Loggers)
<1>1. Holders(h) \subseteq Loggers
  BY DEF Holders
<1> QED
  BY <1>1, AuditAssumption, FS_Subset, FS_CardinalityType

LEMMA ChildrenFinite ==
    ASSUME TypeOK, NEW h
    PROVE  IsFiniteSet(Children(h)) /\ Cardinality(Children(h)) \in Nat
<1>1. DOMAIN audit_logs = 1..Len(audit_logs) /\ Len(audit_logs) \in Nat
  BY DEF TypeOK
<1>2. IsFiniteSet(DOMAIN audit_logs)
  BY <1>1, FS_Interval
<1>3. Children(h) \subseteq DOMAIN audit_logs
  BY DEF Children
<1> QED
  BY <1>2, <1>3, FS_Subset, FS_CardinalityType

\* No entry hangs on the last row: it would have to be younger.
LEMMA LastRowIsBare == ASSUME FInv, audit_logs # <<>> PROVE Children(LastHash) = {}
<1>1. PICK n : n = Len(audit_logs)
  OBVIOUS
<1>2. n \in Nat /\ DOMAIN audit_logs = 1..n /\ n \in 1..n
  BY <1>1 DEF FInv, TypeOK
<1>3. LastHash = Digest(audit_logs[n].id) /\ audit_logs[n].id \in Nat
  <2>1. audit_logs[n] \in Entry
    BY <1>2, RowsTyped DEF FInv
  <2> QED
    BY <1>1, <1>2, <2>1 DEF LastHash, FInv, HashedWith, Digest, Entry
<1> SUFFICES ASSUME NEW k \in 1..n PROVE audit_logs[k].previous_hash # LastHash
  BY <1>2 DEF Children
<1>4. audit_logs[k].id \in Nat
  <2>1. audit_logs[k] \in Entry
    BY <1>2, RowsTyped DEF FInv
  <2> QED
    BY <2>1 DEF Entry
<1>5. audit_logs[k].id <= audit_logs[n].id
  <2>1. k = n \/ k < n
    BY <1>2
  <2> QED
    BY <1>2, <1>3, <1>4, <2>1 DEF FInv, RowsInOrder
<1>6. Older(audit_logs[k].previous_hash, audit_logs[k].id)
  BY <1>2 DEF FInv, RowsInOrder
<1> QED
  BY <1>3, <1>4, <1>5, <1>6, NotOlder

\* Two rows have two hashes.
LEMMA RowHashesDiffer ==
    ASSUME FInv, NEW i \in DOMAIN audit_logs, NEW k \in DOMAIN audit_logs,
           audit_logs[i].hash = audit_logs[k].hash
    PROVE  i = k
<1>1. audit_logs[i] \in Entry /\ audit_logs[k] \in Entry
  BY RowsTyped DEF FInv
<1>2. audit_logs[i].id \in Nat /\ audit_logs[k].id \in Nat
  BY <1>1 DEF Entry
<1>3. audit_logs[i].id = audit_logs[k].id
  BY <1>2, HashInjective DEF FInv, HashedWith, Digest
<1>4. i \in Nat /\ k \in Nat
  BY DEF FInv, TypeOK
<1> QED
  BY <1>2, <1>3, <1>4 DEF FInv, RowsInOrder

LEMMA RoomAfterRead ==
    ASSUME FInv, NEW l \in Loggers, ReadLastHash(l) PROVE RoomForHolders'
<1>1. audit_logs' = audit_logs
  BY DEF ReadLastHash, Read
<1>2. loggers[l].pc = "idle"
  BY DEF ReadLastHash, Read
<1>3. \A k \in Loggers : loggers'[k] = IF k = l THEN [pc |-> "insert", previous_hash |-> LastHash]
                                       ELSE loggers[k]
  BY DEF ReadLastHash, Read, FInv, TypeOK
<1> SUFFICES ASSUME NEW x \in DOMAIN audit_logs
             PROVE  Cardinality(Children(audit_logs[x].hash)) + Cardinality(Holders(audit_logs[x].hash)')
                        <= Cardinality(Loggers)
  BY <1>1 DEF RoomForHolders, Children, Holders
<1>4. PICK h : h = audit_logs[x].hash
  OBVIOUS
<1>5. Holders(audit_logs[x].hash)' = {k \in Loggers : loggers'[k].pc = "insert" /\ loggers'[k].previous_hash = h}
  BY <1>1, <1>4 DEF Holders
<1>6. PICK H : H = {k \in Loggers : loggers'[k].pc = "insert" /\ loggers'[k].previous_hash = h}
  OBVIOUS
<1>7. CASE h = LastHash
  <2>1. audit_logs # <<>>
    BY DEF FInv, TypeOK
  <2>2. Cardinality(Children(h)) = 0
    BY <1>7, <2>1, LastRowIsBare, FS_EmptySet
  <2>3. Cardinality(H) <= Cardinality(Loggers) /\ Cardinality(H) \in Nat
    <3>1. H \subseteq Loggers
      BY <1>6
    <3> QED
      BY <3>1, AuditAssumption, FS_Subset, FS_CardinalityType
  <2> QED
    BY <1>4, <1>5, <1>6, <2>2, <2>3
<1>8. CASE h # LastHash
  <2>1. H = Holders(h)
    BY <1>2, <1>3, <1>6, <1>8 DEF Holders
  <2> QED
    BY <1>4, <1>5, <1>6, <2>1 DEF FInv, RoomForHolders
<1> QED
  BY <1>7, <1>8

LEMMA RoomAfterAbandon ==
    ASSUME FInv, NEW l \in Loggers, AbandonLog(l) PROVE RoomForHolders'
<1>1. audit_logs' = audit_logs
  BY DEF AbandonLog
<1>2. \A k \in Loggers : loggers'[k].pc = "insert" => loggers'[k] = loggers[k]
  BY DEF AbandonLog, FInv, TypeOK, Resting
<1> SUFFICES ASSUME NEW x \in DOMAIN audit_logs
             PROVE  Cardinality(Children(audit_logs[x].hash)) + Cardinality(Holders(audit_logs[x].hash)')
                        <= Cardinality(Loggers)
  BY <1>1 DEF RoomForHolders, Children, Holders
<1>3. PICK h : h = audit_logs[x].hash
  OBVIOUS
<1>4. PICK H : H = {k \in Loggers : loggers'[k].pc = "insert" /\ loggers'[k].previous_hash = h}
  OBVIOUS
<1>5. Holders(audit_logs[x].hash)' = H
  BY <1>1, <1>3, <1>4 DEF Holders
<1>6. H \subseteq Holders(h)
  BY <1>2, <1>4 DEF Holders
<1>7. Cardinality(H) \in Nat /\ Cardinality(H) <= Cardinality(Holders(h))
  BY <1>6, HoldersFinite, FS_Subset, FS_CardinalityType
<1>8. Cardinality(Children(h)) + Cardinality(Holders(h)) <= Cardinality(Loggers)
  BY <1>3 DEF FInv, RoomForHolders
<1>9. Cardinality(Children(h)) \in Nat
  BY ChildrenFinite DEF FInv
<1> QED
  BY <1>3, <1>5, <1>7, <1>8, <1>9, HoldersFinite

LEMMA RoomAfterInsertion ==
    ASSUME FInv, NEW l \in Loggers, InsertEntry(l) PROVE RoomForHolders'
<1>1. PICK n : n = Len(audit_logs)
  OBVIOUS
<1>2. /\ n \in Nat /\ DOMAIN audit_logs = 1..n /\ DOMAIN audit_logs' = 1..(n + 1)
      /\ \A i \in 1..n : audit_logs'[i] = audit_logs[i]
      /\ audit_logs'[n + 1] = NewEntry(l)
  BY <1>1, RowAppended DEF FInv
<1>3. PICK p : p = loggers[l].previous_hash
  OBVIOUS
<1>4. audit_logs'[n + 1].previous_hash = p /\ audit_logs'[n + 1].hash = Digest(nextId)
  BY <1>2, <1>3 DEF NewEntry, Digest
<1>5. nextId \in Nat /\ Older(p, nextId)
  BY <1>3 DEF FInv, TypeOK, CallsHoldOlderHashes
<1>6. loggers[l].pc = "insert" /\ \A k \in Loggers : loggers'[k] = IF k = l THEN Resting ELSE loggers[k]
  BY DEF InsertEntry, AppendRow, FInv, TypeOK
<1> SUFFICES ASSUME NEW x \in 1..(n + 1), NEW h, h = audit_logs'[x].hash, NEW C, NEW H,
                    C = {k \in 1..(n + 1) : audit_logs'[k].previous_hash = h},
                    H = {k \in Loggers : loggers'[k].pc = "insert" /\ loggers'[k].previous_hash = h}
             PROVE  Cardinality(C) + Cardinality(H) <= Cardinality(Loggers)
  BY <1>2 DEF RoomForHolders, Children, Holders
<1>7. H = Holders(h) \ {l}
  BY <1>6 DEF Holders, Resting
<1>8. Cardinality(Children(h)) \in Nat /\ IsFiniteSet(Children(h))
  BY ChildrenFinite DEF FInv
<1>9. CASE x \in 1..n
  <2>1. Cardinality(Children(h)) + Cardinality(Holders(h)) <= Cardinality(Loggers)
    BY <1>2, <1>9 DEF FInv, RoomForHolders
  <2>2. CASE p = h
    <3>1. C = Children(h) \union {n + 1} /\ n + 1 \notin Children(h)
      BY <1>2, <1>4, <2>2 DEF Children
    <3>2. Cardinality(C) = Cardinality(Children(h)) + 1
      BY <1>8, <3>1, FS_AddElement
    <3>3. l \in Holders(h)
      BY <1>3, <1>6, <2>2 DEF Holders
    <3>4. Cardinality(H) = Cardinality(Holders(h)) - 1
      BY <1>7, <3>3, HoldersFinite, FS_RemoveElement
    <3> QED
      BY <1>8, <2>1, <3>2, <3>4, HoldersFinite
  <2>3. CASE p # h
    <3>1. C = Children(h)
      BY <1>2, <1>4, <2>3 DEF Children
    <3>2. H = Holders(h)
      BY <1>3, <1>7, <2>3 DEF Holders
    <3> QED
      BY <2>1, <3>1, <3>2
  <2> QED
    BY <2>2, <2>3
<1>10. CASE x = n + 1
  <2>1. h = Digest(nextId)
    BY <1>4, <1>10
  <2>2. p # h
    BY <1>5, <2>1, NotOlder
  <2>3. ASSUME NEW k \in 1..n PROVE audit_logs[k].previous_hash # h
    <3>1. audit_logs[k] \in Entry
      BY <1>2, RowsTyped DEF FInv
    <3>2. audit_logs[k].id \in Nat /\ audit_logs[k].id <= nextId
      BY <1>2, <1>5, <3>1 DEF Entry, FInv, RowsInOrder
    <3>3. Older(audit_logs[k].previous_hash, audit_logs[k].id)
      BY <1>2 DEF FInv, RowsInOrder
    <3> QED
      BY <1>5, <2>1, <3>2, <3>3, NotOlder
  <2>4. C = {}
    BY <1>2, <1>4, <2>2, <2>3
  <2>5. H = {}
    <3>1. \A k \in Loggers : loggers[k].previous_hash # h
      BY <1>5, <2>1, NotOlder DEF FInv, CallsHoldOlderHashes
    <3> QED
      BY <1>7, <3>1 DEF Holders
  <2>6. Cardinality(C) = 0 /\ Cardinality(H) = 0
    BY <2>4, <2>5, FS_EmptySet
  <2>7. Cardinality(Loggers) \in Nat
    BY AuditAssumption, FS_CardinalityType
  <2> QED
    BY <2>6, <2>7
<1>11. x \in 1..n \/ x = n + 1
  BY <1>2
<1> QED
  BY <1>9, <1>10, <1>11

LEMMA OrderAfterInsertion ==
    ASSUME FInv, NEW l \in Loggers, InsertEntry(l) PROVE RowsInOrder' /\ CallsHoldOlderHashes'
<1>1. PICK n : n = Len(audit_logs)
  OBVIOUS
<1>2. /\ n \in Nat /\ DOMAIN audit_logs = 1..n /\ DOMAIN audit_logs' = 1..(n + 1)
      /\ \A i \in 1..n : audit_logs'[i] = audit_logs[i]
      /\ audit_logs'[n + 1] = NewEntry(l)
  BY <1>1, RowAppended DEF FInv
<1>3. nextId \in Nat /\ nextId' = nextId + 1
  BY DEF InsertEntry, AppendRow, FInv, TypeOK
<1>4. audit_logs'[n + 1].id = nextId /\ audit_logs'[n + 1].previous_hash = loggers[l].previous_hash
  BY <1>2 DEF NewEntry
<1>5. \A k \in 1..n : audit_logs[k].id \in Nat /\ audit_logs[k].id < nextId
  <2>1. \A k \in 1..n : audit_logs[k] \in Entry
    BY <1>2, RowsTyped DEF FInv
  <2> QED
    BY <1>2, <2>1 DEF Entry, FInv, RowsInOrder
<1>6. ASSUME NEW k \in 1..(n + 1)
      PROVE  /\ audit_logs'[k].id < nextId'
             /\ Older(audit_logs'[k].previous_hash, audit_logs'[k].id)
             /\ \A i \in 1..(n + 1) : i < k => audit_logs'[i].id < audit_logs'[k].id
  <2>1. CASE k \in 1..n
    <3>1. \A i \in 1..(n + 1) : i < k => i \in 1..n
      BY <1>2, <2>1
    <3>2. /\ Older(audit_logs[k].previous_hash, audit_logs[k].id)
          /\ \A i \in 1..n : i < k => audit_logs[i].id < audit_logs[k].id
      BY <1>2, <2>1 DEF FInv, RowsInOrder
    <3>3. audit_logs'[k] = audit_logs[k] /\ \A i \in 1..n : audit_logs'[i] = audit_logs[i]
      BY <1>2, <2>1
    <3>4. audit_logs[k].id < nextId'
      BY <1>3, <1>5, <2>1
    <3> QED
      BY <3>1, <3>2, <3>3, <3>4
  <2>2. CASE k = n + 1
    <3>1. \A i \in 1..(n + 1) : i < k => i \in 1..n
      BY <1>2, <2>2
    <3>2. Older(loggers[l].previous_hash, nextId)
      BY DEF FInv, CallsHoldOlderHashes
    <3> QED
      BY <1>2, <1>3, <1>4, <1>5, <2>2, <3>1, <3>2
  <2>3. k \in 1..n \/ k = n + 1
    BY <1>2
  <2> QED
    BY <2>1, <2>2, <2>3
<1>7. RowsInOrder'
  BY <1>2, <1>6 DEF RowsInOrder, Older, Digest, ComputeHash
<1>8. ASSUME NEW k \in Loggers PROVE Older(loggers'[k].previous_hash, nextId')
  <2>1. CASE k = l
    BY <2>1 DEF InsertEntry, FInv, TypeOK, Resting, Older
  <2>2. CASE k # l
    <3>1. loggers'[k] = loggers[k]
      BY <2>2 DEF InsertEntry, FInv, TypeOK
    <3>2. Older(loggers[k].previous_hash, nextId)
      BY DEF FInv, CallsHoldOlderHashes
    <3> QED
      BY <1>3, <3>1, <3>2, OlderGrows
  <2> QED
    BY <2>1, <2>2
<1>9. CallsHoldOlderHashes'
  BY <1>8 DEF CallsHoldOlderHashes, Older, Digest, ComputeHash
<1> QED
  BY <1>7, <1>9

\* What a call reads is the hash of an entry already logged.
LEMMA LastHashOlder == ASSUME FInv PROVE Older(LastHash, nextId)
<1>1. CASE audit_logs = <<>>
  BY <1>1 DEF LastHash, Older
<1>2. CASE audit_logs # <<>>
  <2>1. Len(audit_logs) \in DOMAIN audit_logs
    BY <1>2, LastRowIsARow DEF FInv
  <2>2. audit_logs[Len(audit_logs)] \in Entry
    BY <2>1, RowsTyped DEF FInv
  <2>3. audit_logs[Len(audit_logs)].id \in Nat /\ audit_logs[Len(audit_logs)].id < nextId
    BY <2>1, <2>2 DEF Entry, FInv, RowsInOrder
  <2>4. LastHash = Digest(audit_logs[Len(audit_logs)].id)
    BY <1>2, <2>1 DEF LastHash, FInv, HashedWith, Digest
  <2> QED
    BY <2>3, <2>4 DEF Older
<1> QED
  BY <1>1, <1>2

LEMMA OrderAfterOthers ==
    ASSUME FInv, UNCHANGED <<audit_logs, nextId>>,
           \A l \in Loggers : loggers'[l].previous_hash \in {loggers[l].previous_hash, NoHash, LastHash}
    PROVE  RowsInOrder' /\ CallsHoldOlderHashes'
<1>1. RowsInOrder'
  BY DEF FInv, RowsInOrder, Older, Digest, ComputeHash
<1>2. \A l \in Loggers : Older(loggers'[l].previous_hash, nextId)
  <2>1. Older(NoHash, nextId)
    BY DEF Older
  <2> QED
    BY <2>1, LastHashOlder DEF FInv, CallsHoldOlderHashes
<1>3. CallsHoldOlderHashes'
  BY <1>2 DEF CallsHoldOlderHashes, Older, Digest, ComputeHash
<1> QED
  BY <1>1, <1>3

LEMMA ForksInductive == ASSUME FInv, [Next]_vars PROVE FInv'
<1>1. TypeOK' /\ HashedWith'
  BY NextTyped, RowsHashedWith DEF FInv
<1> SUFFICES RowsInOrder' /\ CallsHoldOlderHashes' /\ RoomForHolders'
  BY <1>1 DEF FInv
<1>2. ASSUME NEW l \in Loggers, ReadLastHash(l) PROVE RowsInOrder' /\ CallsHoldOlderHashes'
  <2>1. UNCHANGED <<audit_logs, nextId>>
    BY <1>2 DEF ReadLastHash, Read
  <2>2. \A k \in Loggers : loggers'[k].previous_hash \in {loggers[k].previous_hash, NoHash, LastHash}
    BY <1>2 DEF ReadLastHash, Read, FInv, TypeOK
  <2> QED
    BY <2>1, <2>2, OrderAfterOthers
<1>3. ASSUME NEW l \in Loggers, AbandonLog(l) PROVE RowsInOrder' /\ CallsHoldOlderHashes'
  <2>1. UNCHANGED <<audit_logs, nextId>>
    BY <1>3 DEF AbandonLog
  <2>2. \A k \in Loggers : loggers'[k].previous_hash \in {loggers[k].previous_hash, NoHash, LastHash}
    BY <1>3 DEF AbandonLog, FInv, TypeOK, Resting
  <2> QED
    BY <2>1, <2>2, OrderAfterOthers
<1>4. CASE ResetDemoData
  <2>1. audit_logs' = <<>> /\ loggers' = loggers /\ nextId' = nextId
    BY <1>4 DEF ResetDemoData
  <2> QED
    BY <2>1 DEF FInv, RowsInOrder, CallsHoldOlderHashes, RoomForHolders, Older, Digest, ComputeHash
<1>5. CASE UNCHANGED vars
  <2>1. UNCHANGED <<audit_logs, nextId, loggers>>
    BY <1>5 DEF vars
  <2>2. RowsInOrder' /\ CallsHoldOlderHashes'
    BY <2>1, OrderAfterOthers
  <2>3. RoomForHolders'
    BY <2>1 DEF FInv, RoomForHolders, Children, Holders
  <2> QED
    BY <2>2, <2>3
<1> QED
  BY <1>2, <1>3, <1>4, <1>5, OrderAfterInsertion, RoomAfterRead, RoomAfterAbandon,
     RoomAfterInsertion DEF Next

\* At most as many entries hang on one entry as there are threads that log.
THEOREM NarrowForks == Spec => []ForksAreNarrow
<1>1. Init => FInv
  BY DEF Init, FInv, TypeOK, Resting, Hash, HashedWith, RowsInOrder, CallsHoldOlderHashes,
         RoomForHolders, Older
<1>2. FInv => ForksAreNarrow
  <2> SUFFICES ASSUME FInv, NEW x \in DOMAIN audit_logs
               PROVE  Cardinality(Children(audit_logs[x].hash)) <= Cardinality(Loggers)
    BY DEF ForksAreNarrow, Children
  <2>1. Cardinality(Children(audit_logs[x].hash)) + Cardinality(Holders(audit_logs[x].hash))
            <= Cardinality(Loggers)
    BY DEF FInv, RoomForHolders
  <2>2. Cardinality(Children(audit_logs[x].hash)) \in Nat
    BY ChildrenFinite DEF FInv
  <2> QED
    BY <2>1, <2>2, HoldersFinite
<1> QED
  BY <1>1, <1>2, ForksInductive, PTL DEF Spec

-----------------------------------------------------------------------------
(* The least and the greatest of a set of numbers, and the next migration. *)

LEMMA SmallestNumber ==
    ASSUME NEW S, S # {}, S \subseteq Nat
    PROVE  \E x \in S : \A y \in S : x <= y
<1>1. IsWellFoundedOn(OpToRel(<, Nat), Nat)
  BY NatLessThanWellFounded
<1>2. PICK x \in S : \A y \in S : ~(<<y, x>> \in OpToRel(<, Nat))
  BY <1>1, WFMin
<1>3. \A y \in S : ~(y < x)
  BY <1>2 DEF OpToRel
<1> QED
  BY <1>3

LEMMA GreatestNumber ==
    ASSUME NEW S, IsFiniteSet(S), S # {}, S \subseteq Nat
    PROVE  Max(S) \in S /\ \A y \in S : y <= Max(S)
<1> DEFINE Endless == {T \in SUBSET S : T # {} /\ \A x \in T : \E y \in T : x < y}
<1>1. ASSUME Endless # {} PROVE FALSE
  <2>1. IsWellFoundedOn(StrictSubsetOrdering(S), SUBSET S)
    BY FS_StrictSubsetOrderingWellFounded, FS_FiniteSubsetsOfFinite
  <2>2. PICK T \in Endless : \A U \in Endless : ~(<<U, T>> \in StrictSubsetOrdering(S))
    <3>1. Endless \subseteq SUBSET S
      OBVIOUS
    <3> HIDE DEF Endless
    <3> QED
      BY <1>1, <2>1, <3>1, WFMin
  <2>3. PICK z \in T : TRUE
    OBVIOUS
  <2> DEFINE U == {y \in T : z < y}
  <2>4. U \in SUBSET S /\ U # {} /\ z \in T /\ z \notin U /\ U \subseteq T /\ T \subseteq Nat
    <3>1. T \subseteq S /\ \A x \in T : \E y \in T : x < y
      OBVIOUS
    <3>2. T \subseteq Nat /\ z \in Nat
      BY <2>3, <3>1
    <3>3. ~(z < z)
      BY <3>2
    <3>4. \E y \in T : z < y
      BY <2>3, <3>1
    <3> QED
      BY <2>3, <3>1, <3>2, <3>3, <3>4
  <2>5. ASSUME NEW x \in U PROVE \E y \in U : x < y
    <3>1. PICK y \in T : x < y
      OBVIOUS
    <3>2. z < x /\ x \in Nat /\ y \in Nat /\ z \in Nat
      BY <2>4
    <3> QED
      BY <3>1, <3>2
  <2>6. <<U, T>> \in StrictSubsetOrdering(S)
    BY <2>4 DEF StrictSubsetOrdering
  <2>7. U \in Endless
    BY <2>4, <2>5
  <2> QED
    BY <2>2, <2>6, <2>7
<1>2. S \notin Endless
  BY <1>1
<1>3. PICK x \in S : \A y \in S : ~(x < y)
  BY <1>2
<1>4. \A y \in S : x >= y /\ y <= x
  BY <1>3
<1>5. \E a \in S : \A y \in S : a >= y
  BY <1>4
<1>6. Max(S) \in S /\ \A y \in S : Max(S) >= y
  BY <1>5 DEF Max
<1>7. PICK m : m = Max(S)
  OBVIOUS
<1>8. \A y \in S : y <= m
  BY <1>6, <1>7
<1> QED
  BY <1>6, <1>7, <1>8

LEMMA IndicesFinite == IsFiniteSet(Indices) /\ Indices \subseteq Nat
<1>1. Indices = 1..Len(MIGRATIONS) /\ Len(MIGRATIONS) \in Nat
  BY MigrationAssumption
<1>2. IsFiniteSet(1..Len(MIGRATIONS))
  BY <1>1, FS_Interval
<1> QED
  BY <1>1, <1>2

LEMMA OldestExists ==
    ASSUME todo \subseteq Indices, todo # {}
    PROVE  Oldest \in todo /\ \A j \in todo : SortedBefore(Oldest, j)
<1>1. \A i \in Indices : Version(i) \in Nat /\ i \in Nat
  BY IndicesFinite, MigrationAssumption
<1>2. PICK v \in {Version(i) : i \in todo} : \A w \in {Version(i) : i \in todo} : v <= w
  <2>1. {Version(i) : i \in todo} \subseteq Nat /\ {Version(i) : i \in todo} # {}
    BY <1>1
  <2> QED
    BY <2>1, SmallestNumber
<1>3. PICK i \in {j \in todo : Version(j) = v} : \A k \in {j \in todo : Version(j) = v} : i <= k
  <2>1. {j \in todo : Version(j) = v} \subseteq Nat /\ {j \in todo : Version(j) = v} # {}
    BY <1>1, <1>2
  <2> QED
    BY <2>1, SmallestNumber
<1>4. i \in todo /\ Version(i) = v /\ v \in Nat
  BY <1>1, <1>3
<1>5. ASSUME NEW j \in todo PROVE SortedBefore(i, j)
  <2>1. v <= Version(j) /\ Version(j) \in Nat
    BY <1>1, <1>2
  <2>2. Version(j) = v => i <= j
    BY <1>3
  <2> QED
    BY <1>4, <2>1, <2>2 DEF SortedBefore
<1> QED
  BY <1>4, <1>5 DEF Oldest

LEMMA LastExists ==
    ASSUME todo \subseteq Indices, todo # {}
    PROVE  Last \in todo /\ \A j \in todo : j <= Last
<1>1. IsFiniteSet(todo) /\ todo \subseteq Nat
  BY IndicesFinite, FS_Subset
<1> QED
  BY <1>1, GreatestNumber DEF Last

\* The newest row: no version is above it, and it is a row unless there is none.
LEMMA CurrentIsNewest ==
    ASSUME versions \subseteq {Version(i) : i \in Indices}
    PROVE  /\ Current \in Nat /\ \A v \in versions : v <= Current
           /\ Current \in versions \/ Current = 0
<1> DEFINE All == {0} \union versions
<1>1. \A i \in Indices : Version(i) \in Nat
  BY MigrationAssumption
<1>2. All \subseteq Nat /\ All # {}
  BY <1>1
<1>3. IsFiniteSet({Version(i) : i \in Indices})
  <2> DEFINE f == [i \in Indices |-> Version(i)]
             Vs == {Version(i) : i \in Indices}
  <2>1. f \in [Indices -> Vs] /\ \A v \in Vs : \E i \in Indices : f[i] = v
    OBVIOUS
  <2>2. f \in Surjection(Indices, Vs)
    BY <2>1 DEF Surjection
  <2> HIDE DEF f
  <2> QED
    BY <2>2, IndicesFinite, FS_Surjection
<1>4. IsFiniteSet(All)
  <2>1. IsFiniteSet(versions)
    BY <1>3, FS_Subset
  <2> QED
    BY <2>1, FS_AddElement
<1>5. Max(All) \in All /\ \A v \in All : v <= Max(All)
  <2> HIDE DEF All
  <2> QED
    BY <1>2, <1>4, GreatestNumber
<1> QED
  BY <1>2, <1>5 DEF Current

-----------------------------------------------------------------------------
(* The inductive invariant of the migrations. *)

\* A row stands for every migration up to it that adds something of its own.
OwnAddsBelowARow ==
    \A i \in Indices : AddsAlone(i) /\ (\E v \in versions : Version(i) <= v)
                          => Adds(i) \subseteq schema

\* A start goes through all that no row is above: what is not, or no longer, planned is below one.
PassedIsBelowARow ==
    pc \in {"up", "record"} =>
        \A i \in Indices \ todo : \E v \in versions : Version(i) <= v

\* A rollback has still to undo every migration whose row is above one that it has to undo.
RowsAboveAreUndone ==
    pc \in {"delete", "undo"} =>
        \A k \in todo, v \in versions : Version(k) <= v => \E l \in todo : Version(l) = v

\* Between the script and its row, on the way up and on the way down.
HalfDone ==
    /\ pc = "record" => Adds(Oldest) \subseteq schema
    /\ pc = "undo" => Version(Last) \notin versions

\* From the import on, what is created outside the migrations is there.
Prepared ==
    pc \in {"starting", "up", "record", "serving"} => Ensured \union {Tracking} \subseteq schema

MigrationInv ==
    /\ MigrationTypeOK /\ RecordedMigrationsRan /\ ServedSchemaIsWhole
    /\ OwnAddsBelowARow /\ PassedIsBelowARow /\ RowsAboveAreUndone /\ HalfDone /\ Prepared

\* The facts about the list that the proofs need of one of its entries.
LEMMA IndexTyped ==
    ASSUME NEW i \in Indices
    PROVE  i \in Nat /\ Version(i) \in Nat /\ Version(i) > 0 /\ Adds(i) \subseteq Objects
<1>1. Adds(i) \subseteq Objects
  BY DEF Objects
<1> QED
  BY <1>1, IndicesFinite, MigrationAssumption

LEMMA AddedOnce ==
    ASSUME NEW i \in Indices, NEW j \in Indices, i # j
    PROVE  Adds(i) \intersect Adds(j) = {}
BY MigrationAssumption

LEMMA OwnAddsInOrder ==
    ASSUME NEW i \in Indices, NEW j \in Indices, AddsAlone(i)
    PROVE  /\ j < i => Version(j) < Version(i)
           /\ i < j => Version(i) < Version(j)
           /\ Version(i) = Version(j) => i = j
<1>1. i \in Nat /\ j \in Nat /\ Version(i) \in Nat /\ Version(j) \in Nat
  BY IndexTyped
<1>2. (j < i => Version(j) < Version(i)) /\ (i < j => Version(i) < Version(j))
  BY MigrationAssumption
<1> QED
  BY <1>1, <1>2

LEMMA RowIsAVersion ==
    ASSUME MigrationTypeOK, NEW v \in versions
    PROVE  v \in Nat /\ \E i \in Indices : Version(i) = v
<1>1. PICK i \in Indices : Version(i) = v
  BY DEF MigrationTypeOK
<1> QED
  BY <1>1, IndexTyped

LEMMA InitMigrationInv == MigrationInit => MigrationInv
<1> SUFFICES ASSUME MigrationInit PROVE MigrationInv
  OBVIOUS
<1>1. PICK last \in {0} \union {Version(i) : i \in Indices} :
          /\ versions = {Version(i) : i \in LeftBy(last)}
          /\ schema = (UNION {Adds(i) : i \in LeftBy(last)})
                        \union (IF last = 0 THEN {} ELSE Ensured)
  BY DEF MigrationInit
<1>2. last \in Nat
  BY <1>1, IndexTyped
<1>3. LeftBy(last) \subseteq Indices
  BY DEF LeftBy
<1>4. MigrationTypeOK
  <2>1. schema \subseteq Objects
    <3>1. Ensured \subseteq Objects
      BY DEF Objects
    <3>2. ASSUME NEW x \in schema PROVE x \in Objects
      <4>1. x \in Ensured \/ \E i \in LeftBy(last) : x \in Adds(i)
        BY <1>1
      <4> QED
        BY <1>3, <3>1, <4>1, IndexTyped
    <3> QED
      BY <3>2
  <2>2. versions \subseteq {Version(i) : i \in Indices}
    BY <1>1, <1>3
  <2>3. 0 \in 0..MaxKills /\ 0 \in 0..MaxRollbacks
    BY MigrationAssumption
  <2> QED
    BY <2>1, <2>2, <2>3 DEF MigrationTypeOK, MigrationInit
<1>5. ASSUME NEW i \in Indices, NEW v \in versions, Version(i) <= v
      PROVE  Adds(i) \subseteq schema
  <2>1. PICK j \in LeftBy(last) : v = Version(j)
    BY <1>1
  <2>2. Version(j) <= last /\ Version(j) \in Nat /\ Version(i) \in Nat
    BY <1>3, <2>1, IndexTyped DEF LeftBy
  <2>3. Version(i) <= last
    BY <1>2, <1>5, <2>1, <2>2
  <2> QED
    BY <1>1, <2>3 DEF LeftBy
<1>6. RecordedMigrationsRan
  <2>1. \A i \in Indices : Version(i) \in versions => Version(i) <= Version(i)
    BY IndexTyped
  <2> QED
    BY <1>5, <2>1 DEF RecordedMigrationsRan
<1>7. OwnAddsBelowARow
  BY <1>5 DEF OwnAddsBelowARow
<1> QED
  BY <1>4, <1>6, <1>7
     DEF MigrationInit, MigrationInv, ServedSchemaIsWhole, PassedIsBelowARow,
         RowsAboveAreUndone, HalfDone, Prepared

-----------------------------------------------------------------------------
(* The steps. *)

\* Steps that leave rows and schema alone and rest afterwards: Stop, UpRaises, UndoRaises,
\* EndRollback, Kill.
LEMMA ComeToRestKeeps ==
    ASSUME MigrationInv, Stop \/ UpRaises \/ UndoRaises \/ EndRollback \/ Kill
    PROVE  MigrationInv'
<1>1. schema' = schema /\ versions' = versions /\ pc' = "down" /\ todo' \subseteq Indices
  BY DEF Stop, UpRaises, UndoRaises, EndRollback, Kill, MigrationInv, MigrationTypeOK
<1>2. kills' \in 0..MaxKills /\ rollbacks' \in 0..MaxRollbacks /\ blocked' \in BOOLEAN
  <2>1. kills \in 0..MaxKills /\ rollbacks \in 0..MaxRollbacks /\ blocked \in BOOLEAN
    BY DEF MigrationInv, MigrationTypeOK
  <2>2. Kill => kills' \in 0..MaxKills
    BY <2>1, MigrationAssumption DEF Kill
  <2> QED
    BY <2>1, <2>2 DEF Stop, UpRaises, UndoRaises, EndRollback, Kill
<1>3. MigrationTypeOK'
  BY <1>1, <1>2 DEF MigrationInv, MigrationTypeOK
<1>4. RecordedMigrationsRan' /\ OwnAddsBelowARow'
  BY <1>1 DEF MigrationInv, RecordedMigrationsRan, OwnAddsBelowARow
<1> QED
  BY <1>1, <1>3, <1>4
     DEF MigrationInv, ServedSchemaIsWhole, PassedIsBelowARow, RowsAboveAreUndone, HalfDone,
         Prepared

LEMMA ImportKeeps == ASSUME MigrationInv, Import PROVE MigrationInv'
<1>1. schema \subseteq schema' /\ Ensured \union {Tracking} \subseteq schema'
  BY DEF Import
<1>2. versions' = versions /\ pc' = "starting" /\ todo' = todo /\ blocked' = blocked
      /\ kills' = kills /\ rollbacks' = rollbacks
  BY DEF Import
<1>3. schema' \subseteq Objects
  BY DEF Import, MigrationInv, MigrationTypeOK, Objects
<1>4. MigrationTypeOK'
  BY <1>2, <1>3 DEF MigrationInv, MigrationTypeOK
<1>5. RecordedMigrationsRan'
  BY <1>1, <1>2 DEF MigrationInv, RecordedMigrationsRan
<1>6. OwnAddsBelowARow'
  BY <1>1, <1>2 DEF MigrationInv, OwnAddsBelowARow
<1> QED
  BY <1>1, <1>2, <1>4, <1>5, <1>6
     DEF MigrationInv, ServedSchemaIsWhole, PassedIsBelowARow, RowsAboveAreUndone, HalfDone,
         Prepared

LEMMA PlanKeeps == ASSUME MigrationInv, Plan PROVE MigrationInv'
<1>1. schema' = schema /\ versions' = versions /\ pc = "starting" /\ pc' = "up"
      /\ blocked' = blocked /\ kills' = kills /\ rollbacks' = rollbacks
      /\ todo' = {i \in Indices : Version(i) > Current}
  BY DEF Plan
<1>2. MigrationTypeOK'
  BY <1>1 DEF MigrationInv, MigrationTypeOK
<1>3. PassedIsBelowARow'
  <2>1. versions \subseteq {Version(i) : i \in Indices}
    BY DEF MigrationInv, MigrationTypeOK
  <2>2. Current \in Nat /\ (Current \in versions \/ Current = 0)
    BY <2>1, CurrentIsNewest
  <2>3. ASSUME NEW i \in Indices, i \notin todo' PROVE \E v \in versions' : Version(i) <= v
    <3>1. Version(i) \in Nat /\ Version(i) > 0 /\ ~(Version(i) > Current)
      BY <1>1, <2>3, IndexTyped
    <3>2. Version(i) <= Current /\ Current # 0
      BY <2>2, <3>1
    <3> QED
      BY <1>1, <2>2, <3>2
  <2> QED
    BY <2>3 DEF PassedIsBelowARow
<1>4. RecordedMigrationsRan' /\ OwnAddsBelowARow'
  BY <1>1 DEF MigrationInv, RecordedMigrationsRan, OwnAddsBelowARow
<1> QED
  BY <1>1, <1>2, <1>3, <1>4
     DEF MigrationInv, ServedSchemaIsWhole, RowsAboveAreUndone, HalfDone, Prepared

LEMMA UpKeeps == ASSUME MigrationInv, Up PROVE MigrationInv'
<1>1. schema' = schema \union Adds(Oldest) /\ versions' = versions /\ todo' = todo
      /\ pc = "up" /\ pc' = "record" /\ todo # {}
      /\ blocked' = blocked /\ kills' = kills /\ rollbacks' = rollbacks
  BY DEF Up
<1>2. Oldest \in Indices /\ Oldest' = Oldest
  BY <1>1, OldestExists DEF MigrationInv, MigrationTypeOK, Oldest
<1>3. schema' \subseteq Objects
  BY <1>1, <1>2, IndexTyped DEF MigrationInv, MigrationTypeOK
<1>4. MigrationTypeOK'
  BY <1>1, <1>3 DEF MigrationInv, MigrationTypeOK
<1>5. RecordedMigrationsRan'
  BY <1>1 DEF MigrationInv, RecordedMigrationsRan
<1>6. OwnAddsBelowARow'
  BY <1>1 DEF MigrationInv, OwnAddsBelowARow
<1>7. PassedIsBelowARow'
  BY <1>1 DEF MigrationInv, PassedIsBelowARow
<1>8. HalfDone'
  <2>1. pc' # "undo" /\ Adds(Oldest) \subseteq schema'
    BY <1>1
  <2> QED
    BY <1>1, <1>2, <2>1 DEF HalfDone
<1>9. Prepared'
  BY <1>1 DEF MigrationInv, Prepared
<1> QED
  BY <1>1, <1>4, <1>5, <1>6, <1>7, <1>8, <1>9
     DEF MigrationInv, ServedSchemaIsWhole, RowsAboveAreUndone

\* The row of the oldest migration planned stands for no other that adds something of its own:
\* what comes before it in version is below an older row.
LEMMA RecordKeeps == ASSUME MigrationInv, Record PROVE MigrationInv'
<1> DEFINE o == Oldest
<1>1. schema' = schema /\ versions' = versions \union {Version(o)} /\ todo' = todo \ {o}
      /\ pc = "record" /\ pc' = "up" /\ blocked' = blocked /\ kills' = kills
      /\ rollbacks' = rollbacks
  BY DEF Record
<1>2. o \in todo /\ \A j \in todo : SortedBefore(o, j)
  BY <1>1, OldestExists DEF MigrationInv, MigrationTypeOK
<1>3. todo \subseteq Indices /\ Adds(o) \subseteq schema
  BY <1>1 DEF MigrationInv, MigrationTypeOK, HalfDone
<1> HIDE DEF o
<1>4. MigrationTypeOK'
  BY <1>1, <1>2, <1>3 DEF MigrationInv, MigrationTypeOK
<1>5. RecordedMigrationsRan'
  <2>1. ASSUME NEW i \in Indices, Version(i) \in versions', ~HasTwin(i)
        PROVE  Adds(i) \subseteq schema
    <3>1. CASE Version(i) = Version(o)
      <4>1. i = o
        BY <1>2, <1>3, <2>1, <3>1 DEF HasTwin
      <4> QED
        BY <1>3, <4>1
    <3>2. CASE Version(i) \in versions
      BY <2>1, <3>2 DEF MigrationInv, RecordedMigrationsRan
    <3> QED
      BY <1>1, <2>1, <3>1, <3>2
  <2> QED
    BY <1>1, <2>1 DEF RecordedMigrationsRan
<1>6. OwnAddsBelowARow'
  <2>1. ASSUME NEW i \in Indices, AddsAlone(i), NEW v \in versions', Version(i) <= v
        PROVE  Adds(i) \subseteq schema
    <3>1. CASE \E w \in versions : Version(i) <= w
      BY <2>1, <3>1 DEF MigrationInv, OwnAddsBelowARow
    <3>2. CASE ~\E w \in versions : Version(i) <= w
      <4>1. i \in todo /\ v = Version(o)
        BY <1>1, <2>1, <3>2 DEF MigrationInv, PassedIsBelowARow
      <4>2. o \in Indices /\ Version(o) \in Nat /\ Version(i) \in Nat
        BY <1>2, <1>3, IndexTyped
      <4>3. Version(o) < Version(i) \/ Version(o) = Version(i)
        BY <1>2, <4>1 DEF SortedBefore
      <4>4. Version(i) = Version(o)
        BY <2>1, <4>1, <4>2, <4>3
      <4>5. i = o
        BY <2>1, <4>2, <4>4, OwnAddsInOrder
      <4> QED
        BY <1>3, <4>5
    <3> QED
      BY <3>1, <3>2
  <2> QED
    BY <1>1, <2>1 DEF OwnAddsBelowARow
<1>7. PassedIsBelowARow'
  <2>1. ASSUME NEW i \in Indices, i \notin todo' PROVE \E v \in versions' : Version(i) <= v
    <3>1. CASE i = o
      <4>1. Version(o) \in versions' /\ Version(i) <= Version(o)
        BY <1>1, <3>1, IndexTyped
      <4> QED
        BY <4>1
    <3>2. CASE i \notin todo
      BY <1>1, <3>2 DEF MigrationInv, PassedIsBelowARow
    <3> QED
      BY <1>1, <2>1, <3>1, <3>2
  <2> QED
    BY <2>1 DEF PassedIsBelowARow
<1>8. Prepared'
  BY <1>1 DEF MigrationInv, Prepared
<1> QED
  BY <1>1, <1>4, <1>5, <1>6, <1>7, <1>8
     DEF MigrationInv, ServedSchemaIsWhole, RowsAboveAreUndone, HalfDone

\* With nothing left to do every migration is below a row: what it alone adds is there, and
\* the rest since the import.
LEMMA ServeKeeps == ASSUME MigrationInv, Serve PROVE MigrationInv'
<1>1. UNCHANGED <<schema, versions, todo, blocked, kills, rollbacks>>
      /\ pc = "up" /\ pc' = "serving" /\ todo = {}
  BY DEF Serve
<1>2. Ensured \union {Tracking} \subseteq schema
  BY <1>1 DEF MigrationInv, Prepared
<1>3. ASSUME NEW i \in Indices PROVE Adds(i) \subseteq schema
  <2>1. CASE AddsAlone(i)
    <3>1. \E v \in versions : Version(i) <= v
      BY <1>1 DEF MigrationInv, PassedIsBelowARow
    <3> QED
      BY <2>1, <3>1 DEF MigrationInv, OwnAddsBelowARow
  <2>2. CASE ~AddsAlone(i)
    BY <1>2, <2>2 DEF AddsAlone
  <2> QED
    BY <2>1, <2>2
<1>4. Objects \subseteq schema
  <2>1. UNION {Adds(i) : i \in Indices} \subseteq schema
    BY <1>3
  <2>2. StepColumns \subseteq UNION {Adds(i) : i \in Indices}
    BY MigrationAssumption
  <2> QED
    BY <1>2, <2>1, <2>2 DEF Objects
<1>5. MigrationTypeOK'
  BY <1>1 DEF MigrationInv, MigrationTypeOK
<1>6. RecordedMigrationsRan' /\ OwnAddsBelowARow'
  BY <1>1 DEF MigrationInv, RecordedMigrationsRan, OwnAddsBelowARow
<1>7. ServedSchemaIsWhole'
  <2>1. Objects' = Objects
    BY DEF Objects
  <2> QED
    BY <1>1, <1>4, <2>1 DEF ServedSchemaIsWhole
<1> QED
  BY <1>1, <1>2, <1>5, <1>6, <1>7
     DEF MigrationInv, PassedIsBelowARow, RowsAboveAreUndone, HalfDone, Prepared

LEMMA RollbackKeeps ==
    ASSUME MigrationInv, NEW i0 \in Indices, Rollback(Version(i0) - 1)
    PROVE  MigrationInv'
<1>1. schema' = schema /\ versions' = versions /\ pc' = "delete" /\ blocked' = FALSE
      /\ kills' = kills /\ rollbacks < MaxRollbacks /\ rollbacks' = rollbacks + 1
      /\ todo' = {i \in Indices : Version(i) > Version(i0) - 1}
  BY DEF Rollback
<1>2. MigrationTypeOK'
  <2>1. rollbacks' \in 0..MaxRollbacks
    BY <1>1, MigrationAssumption DEF MigrationInv, MigrationTypeOK
  <2> QED
    BY <1>1, <2>1 DEF MigrationInv, MigrationTypeOK
<1>3. RowsAboveAreUndone'
  <2>1. ASSUME NEW k \in todo', NEW v \in versions, Version(k) <= v
        PROVE  \E l \in todo' : Version(l) = v
    <3>1. PICK l \in Indices : Version(l) = v
      BY RowIsAVersion DEF MigrationInv
    <3>2. k \in Indices /\ Version(k) > Version(i0) - 1
      BY <1>1
    <3>3. Version(k) \in Nat /\ Version(l) \in Nat /\ Version(i0) \in Nat
      BY <3>2, IndexTyped
    <3>4. Version(l) > Version(i0) - 1
      BY <2>1, <3>1, <3>2, <3>3
    <3> QED
      BY <1>1, <3>1, <3>4
  <2> QED
    BY <1>1, <2>1 DEF RowsAboveAreUndone
<1>4. RecordedMigrationsRan' /\ OwnAddsBelowARow'
  BY <1>1 DEF MigrationInv, RecordedMigrationsRan, OwnAddsBelowARow
<1> QED
  BY <1>1, <1>2, <1>3, <1>4
     DEF MigrationInv, ServedSchemaIsWhole, PassedIsBelowARow, HalfDone, Prepared

LEMMA DeleteVersionKeeps == ASSUME MigrationInv, DeleteVersion PROVE MigrationInv'
<1>1. schema' = schema /\ versions' = versions \ {Version(Last)} /\ todo' = todo
      /\ pc = "delete" /\ pc' = "undo" /\ todo # {} /\ blocked' = blocked /\ kills' = kills
      /\ rollbacks' = rollbacks
  BY DEF DeleteVersion
<1>2. MigrationTypeOK'
  BY <1>1 DEF MigrationInv, MigrationTypeOK
<1>3. RecordedMigrationsRan' /\ OwnAddsBelowARow'
  BY <1>1 DEF MigrationInv, RecordedMigrationsRan, OwnAddsBelowARow
<1>4. RowsAboveAreUndone'
  BY <1>1 DEF MigrationInv, RowsAboveAreUndone
<1>5. HalfDone'
  <2>1. Last' = Last
    BY <1>1 DEF Last
  <2>2. Version(Last) \notin versions'
    BY <1>1
  <2> QED
    BY <1>1, <2>1, <2>2 DEF HalfDone
<1> QED
  BY <1>1, <1>2, <1>3, <1>4, <1>5
     DEF MigrationInv, ServedSchemaIsWhole, PassedIsBelowARow, Prepared

\* A row above the one undone belongs to a migration still to undo, which stands before it in
\* the list: the one undone would not add something of its own.
LEMMA UndoKeeps == ASSUME MigrationInv, Undo PROVE MigrationInv'
<1> DEFINE u == Last
<1>1. schema' = schema \ Adds(u) /\ versions' \subseteq versions /\ todo' = todo \ {u}
      /\ pc = "undo" /\ pc' = "delete" /\ blocked' = blocked /\ kills' = kills
      /\ rollbacks' = rollbacks
  BY DEF Undo
<1>2. u \in todo /\ \A j \in todo : j <= u
  BY <1>1, LastExists DEF MigrationInv, MigrationTypeOK
<1>3. todo \subseteq Indices /\ Version(u) \notin versions
  BY <1>1 DEF MigrationInv, MigrationTypeOK, HalfDone
<1> HIDE DEF u
<1>4. MigrationTypeOK'
  BY <1>1, <1>2, <1>3 DEF MigrationInv, MigrationTypeOK
<1>5. ASSUME NEW i \in Indices, i # u, Adds(i) \subseteq schema PROVE Adds(i) \subseteq schema'
  BY <1>1, <1>2, <1>3, <1>5, AddedOnce
<1>6. RecordedMigrationsRan'
  <2>1. ASSUME NEW i \in Indices, Version(i) \in versions', ~HasTwin(i)
        PROVE  Adds(i) \subseteq schema'
    <3>1. i # u /\ Version(i) \in versions
      BY <1>1, <1>3, <2>1
    <3>2. Adds(i) \subseteq schema
      BY <2>1, <3>1 DEF MigrationInv, RecordedMigrationsRan
    <3> QED
      BY <1>5, <3>1, <3>2
  <2> QED
    BY <2>1 DEF RecordedMigrationsRan, HasTwin
<1>7. OwnAddsBelowARow'
  <2>1. ASSUME NEW i \in Indices, AddsAlone(i), NEW v \in versions', Version(i) <= v
        PROVE  Adds(i) \subseteq schema'
    <3>1. v \in versions /\ Adds(i) \subseteq schema
      BY <1>1, <2>1 DEF MigrationInv, OwnAddsBelowARow
    <3>2. ASSUME i = u PROVE FALSE
      <4>1. PICK l \in todo : Version(l) = v
        BY <1>1, <1>2, <2>1, <3>1, <3>2 DEF MigrationInv, RowsAboveAreUndone
      <4>2. l # u
        BY <1>3, <3>1, <4>1
      <4>3. l \in Nat /\ u \in Nat /\ l <= u /\ Version(l) \in Nat /\ Version(u) \in Nat
        BY <1>2, <1>3, IndexTyped
      <4>4. l < u
        BY <4>2, <4>3
      <4>5. Version(l) < Version(u)
        BY <1>3, <2>1, <3>2, <4>4, OwnAddsInOrder
      <4> QED
        BY <2>1, <3>2, <4>1, <4>3, <4>5
    <3> QED
      BY <1>5, <3>1, <3>2
  <2> QED
    BY <2>1 DEF OwnAddsBelowARow, AddsAlone
<1>8. RowsAboveAreUndone'
  <2>1. ASSUME NEW k \in todo', NEW v \in versions', Version(k) <= v
        PROVE  \E l \in todo' : Version(l) = v
    <3>1. k \in todo /\ v \in versions
      BY <1>1
    <3>2. PICK l \in todo : Version(l) = v
      BY <1>1, <2>1, <3>1 DEF MigrationInv, RowsAboveAreUndone
    <3>3. l # u
      BY <1>3, <3>1, <3>2
    <3> QED
      BY <1>1, <3>2, <3>3
  <2> QED
    BY <2>1 DEF RowsAboveAreUndone
<1> QED
  BY <1>1, <1>4, <1>6, <1>7, <1>8
     DEF MigrationInv, ServedSchemaIsWhole, PassedIsBelowARow, HalfDone, Prepared

LEMMA MigrationStep == MigrationInv /\ [MigrationNext]_migrationVars => MigrationInv'
<1> SUFFICES ASSUME MigrationInv, [MigrationNext]_migrationVars PROVE MigrationInv'
  OBVIOUS
<1>1. CASE UNCHANGED migrationVars
  BY <1>1
     DEF migrationVars, MigrationInv, MigrationTypeOK, RecordedMigrationsRan,
         ServedSchemaIsWhole, OwnAddsBelowARow, PassedIsBelowARow, RowsAboveAreUndone,
         HalfDone, Prepared, Oldest, Last, Objects, HasTwin, AddsAlone, SortedBefore
<1>2. CASE Import
  BY <1>2, ImportKeeps
<1>3. CASE Plan
  BY <1>3, PlanKeeps
<1>4. CASE Up
  BY <1>4, UpKeeps
<1>5. CASE Record
  BY <1>5, RecordKeeps
<1>6. CASE Serve
  BY <1>6, ServeKeeps
<1>7. CASE \E i \in Indices : Rollback(Version(i) - 1)
  BY <1>7, RollbackKeeps
<1>8. CASE DeleteVersion
  BY <1>8, DeleteVersionKeeps
<1>9. CASE Undo
  BY <1>9, UndoKeeps
<1>10. CASE Stop \/ UpRaises \/ UndoRaises \/ EndRollback \/ Kill
  BY <1>10, ComeToRestKeeps
<1> QED
  BY <1>1, <1>2, <1>3, <1>4, <1>5, <1>6, <1>7, <1>8, <1>9, <1>10 DEF MigrationNext

LEMMA MigrationInvariant == MigrationSpec => []MigrationInv
BY InitMigrationInv, MigrationStep, PTL DEF MigrationSpec

\* Schema, rows and the migrations still to go through keep their types, whatever was planned
\* and wherever a start or a rollback was cut short (migration.py).
THEOREM SchemaTypeCorrect == MigrationSpec => []MigrationTypeOK
<1>1. MigrationInv => MigrationTypeOK
  BY DEF MigrationInv
<1> QED
  BY <1>1, MigrationInvariant, PTL

\* A recorded version has what its migration added, however often starts and rollbacks were
\* killed between a script and its row (migration.py:71, :97).
THEOREM RecordedRan == MigrationSpec => []RecordedMigrationsRan
<1>1. MigrationInv => RecordedMigrationsRan
  BY DEF MigrationInv
<1> QED
  BY <1>1, MigrationInvariant, PTL

\* No server ever serves with a table or column missing, for any list of migrations in which
\* only those out of order or with a twin repeat what AgentWorkflowDB creates (migration.py:54).
THEOREM ServedWhole == MigrationSpec => []ServedSchemaIsWhole
<1>1. MigrationInv => ServedSchemaIsWhole
  BY DEF MigrationInv
<1> QED
  BY <1>1, MigrationInvariant, PTL
=============================================================================
