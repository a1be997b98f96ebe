----------------------------- MODULE AuditTrail -----------------------------
(***************************************************************************)
(* The hash-chained audit log of audit_trail.py: threads that log an entry *)
(* (read the last hash, hash the new entry, insert it in a transaction of  *)
(* its own), the demo-data reset of seed.py that empties the table, and    *)
(* the verification of the chain.                                          *)
(*                                                                         *)
(* SHA-256 is taken to be injective.  An entry is determined by its uuid,  *)
(* so the hash of an entry is modelled by the uuid and by which keys the   *)
(* hashed dict had.                                                        *)
(***************************************************************************)
EXTENDS Naturals, Sequences, FiniteSets

CONSTANTS
    Loggers,     \* threads that call AuditTrail.log()
    NoHash,      \* the empty previous_hash of a first entry
    MaxEntries,  \* bound: entries ever logged
    MaxResets    \* bound: how often the demo data is reset

\* The threads of a process are finitely many, and the empty previous_hash is no digest.
ASSUME AuditAssumption ==
    /\ {MaxEntries, MaxResets} \subseteq Nat
    /\ IsFiniteSet(Loggers)
    /\ NoHash \notin [id : Nat, withHash : BOOLEAN]

VARIABLES
    audit_logs,  \* the table in rowid order
    loggers,     \* the calls of log() under way
    nextId,      \* the next fresh uuid
    resets,      \* how often the table was emptied
    deleted,     \* history: hashes of deleted entries
    disturbed    \* history: calls during which the table changed, and entries of such calls

vars == <<audit_logs, loggers, nextId, resets, deleted, disturbed>>

\* compute_hash() of an entry: withHash says whether the dict has the key "hash".
ComputeHash(id, withHash) == [id |-> id, withHash |-> withHash]

Hash == [id : Nat, withHash : BOOLEAN] \union {NoHash}
Entry == [id : Nat, previous_hash : Hash, hash : Hash]
Resting == [pc |-> "idle", previous_hash |-> NoHash]

Init ==
    /\ audit_logs = <<>>
    /\ loggers = [l \in Loggers |-> Resting]
    /\ nextId = 0
    /\ resets = 0
    /\ deleted = {}
    /\ disturbed = [calls |-> {}, entries |-> {}]

\* Mutant: the hash of the last row computed anew.
LastRehashed == IF audit_logs = <<>> THEN NoHash
                ELSE ComputeHash(audit_logs[Len(audit_logs)].id, FALSE)

LastHash == IF audit_logs = <<>> THEN NoHash ELSE audit_logs[Len(audit_logs)].hash

Read(l, hash) ==
    /\ loggers[l].pc = "idle"
    /\ loggers' = [loggers EXCEPT ![l] = [pc |-> "insert", previous_hash |-> hash]]
    /\ disturbed' = [disturbed EXCEPT !.calls = @ \ {l}]
    /\ UNCHANGED <<audit_logs, nextId, resets, deleted>>

\* Mutant: every entry starts a chain of its own.
ReadNoHash(l) == Read(l, NoHash)

\* log(): SELECT hash ... ORDER BY rowid DESC LIMIT 1, outside any transaction.
ReadLastHash(l) == Read(l, LastHash)

\* log(): the entry is hashed with "hash": "" in it, then inserted and committed.
NewEntry(l) ==
    [id |-> nextId, previous_hash |-> loggers[l].previous_hash,
     hash |-> ComputeHash(nextId, TRUE)]

Others(l) == {k \in Loggers \ {l} : loggers[k].pc = "insert"}

AppendRow(l) ==
    /\ loggers[l].pc = "insert"
    /\ nextId < MaxEntries
    /\ audit_logs' = Append(audit_logs, NewEntry(l))
    /\ nextId' = nextId + 1
    /\ disturbed' = [calls |-> disturbed.calls \union Others(l),
                     entries |-> IF l \in disturbed.calls THEN disturbed.entries \union {nextId}
                                 ELSE disturbed.entries]
    /\ UNCHANGED <<resets, deleted>>

\* Mutant: the thread goes on inserting with the hash it has read.
InsertAndStay(l) == AppendRow(l) /\ UNCHANGED loggers

InsertEntry(l) ==
    /\ AppendRow(l)
    /\ loggers' = [loggers EXCEPT ![l] = Resting]

\* The transaction raises and rolls back, or the process is killed during the call.
AbandonLog(l) ==
    /\ loggers[l].pc = "insert"
    /\ loggers' = [loggers EXCEPT ![l] = Resting]
    /\ UNCHANGED <<audit_logs, nextId, resets, deleted, disturbed>>

\* seed.py, DELETE FROM audit_logs.
ResetDemoData ==
    /\ resets < MaxResets
    /\ resets' = resets + 1
    /\ deleted' = deleted \union {audit_logs[k].hash : k \in DOMAIN audit_logs}
    /\ audit_logs' = <<>>
    /\ disturbed' = [disturbed EXCEPT !.calls =
                        @ \union {l \in Loggers : loggers[l].pc = "insert"}]
    /\ UNCHANGED <<loggers, nextId>>

Next ==
    \/ \E l \in Loggers : ReadLastHash(l)
    \/ \E l \in Loggers : InsertEntry(l)
    \/ \E l \in Loggers : AbandonLog(l)
    \/ ResetDemoData

Spec == Init /\ [][Next]_vars

-----------------------------------------------------------------------------
(***************************************************************************)
(* verify_chain() over rows in rowid order: the rows it reports as broken. *)
(* A row's "hash" is popped before the row is hashed again.                *)
(* The rows are all of them: verify_chain(agent_id) would take one agent's *)
(* rows and report every link that leads to another's; nothing calls it so. *)
(***************************************************************************)

PreviousHash(rows, k) == IF k = 1 THEN NoHash ELSE rows[k - 1].hash
Recomputed(row) == ComputeHash(row.id, FALSE)

HashMismatch(rows) == {k \in DOMAIN rows : rows[k].hash # Recomputed(rows[k])}
ChainBreaks(rows) == {k \in DOMAIN rows : rows[k].previous_hash # PreviousHash(rows, k)}
Intact(rows) == HashMismatch(rows) = {} /\ ChainBreaks(rows) = {}

-----------------------------------------------------------------------------
(***************************************************************************)
(* Properties.                                                             *)
(***************************************************************************)

\* Rows and calls keep their types (the columns of audit_logs).
TypeOK ==
    /\ audit_logs \in Seq(Entry)
    /\ loggers \in [Loggers -> [pc : {"idle", "insert"}, previous_hash : Hash]]
    /\ nextId \in Nat /\ resets \in Nat
    /\ deleted \subseteq Hash
    /\ disturbed \in [calls : SUBSET Loggers, entries : SUBSET Nat]

\* Whatever calls overlap or fail, an entry hangs on an entry logged before it, on a
\* deleted one, or on nothing: the log is a forest, and no entry names a hash that was
\* rolled back.
EntriesHangOnEarlierOnes ==
    \A k \in DOMAIN audit_logs :
        audit_logs[k].previous_hash \in
            {NoHash} \union deleted \union {audit_logs[i].hash : i \in 1..(k - 1)}

\* The chain forks at most as wide as there are threads logging.
ForksAreNarrow ==
    \A x \in DOMAIN audit_logs :
        Cardinality({k \in DOMAIN audit_logs :
                        audit_logs[k].previous_hash = audit_logs[x].hash}) <= Cardinality(Loggers)

\* verify_chain() reports a broken link only where log() calls overlapped or a reset
\* came in between: entries logged one at a time form one chain.
BreaksAreOverlaps ==
    \A k \in ChainBreaks(audit_logs) : audit_logs[k].id \in disturbed.entries

=============================================================================
