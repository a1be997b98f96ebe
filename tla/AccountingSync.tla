--------------------------- MODULE AccountingSync ---------------------------
(***************************************************************************)
(* One connection to an accounting platform (integrations/sync.py): syncs  *)
(* that fetch what changed in its ledger and write the debtors table,      *)
(* pushes of payments, and the other writers of a debtor's state           *)
(* (portal_api.py, the BPAY handlers of api_server.py).                    *)
(*                                                                         *)
(* The clock advances with each change of the ledger.  An invoice is       *)
(* whether its balance is open, its private note and the time of its last  *)
(* change.  The platform is QuickBooks, which answers with every invoice   *)
(* changed since the time it is given.                                     *)
(* A debtor is pending, or settled: paid or disputed, which collections    *)
(* treat alike.                                                            *)
(***************************************************************************)
EXTENDS Naturals, Sequences, FiniteSets, Functions

CONSTANTS
    Invoices,     \* invoice numbers in the ledger
    Notes,        \* what notes say: "none" is no note, "paid" one with that word, any other is "other"
    Syncs,        \* threads that may run sync_platform() at the same time
    MaxTime,      \* bound: the clock
    MaxFaults     \* bound: syncs that fail, processes killed

ASSUME AccountingSyncAssumption ==
    /\ Notes \subseteq {"none", "paid", "other"}
    /\ MaxTime \in Nat \ {0} /\ MaxFaults \in Nat

VARIABLES
    now,          \* the clock
    ledger,       \* the platform's invoices
    debtors,      \* rows of debtors, oldest first; no index makes them unique
    conn,         \* the row of accounting_connections: is_active, last_sync_at
    sync,         \* the threads
    pushing,      \* is a push about to stamp the connection?
    faults,       \* how many faults have happened
    overlapped,   \* history: have two syncs been under way together?
    slipped,      \* history: invoices whose last change a sync or push stepped over
    pushed        \* history: rows settled when a push made their invoice read as paid, until
                  \* the business changes it

vars == <<now, ledger, debtors, conn, sync, pushing, faults,
          overlapped, slipped, pushed>>

NoItem == [invoice |-> {}, status |-> "none", at |-> 0]
Idle == [pc |-> "idle", since |-> 0, fetched |-> 0, todo |-> {}, item |-> NoItem, row |-> 0]

Init ==
    /\ now = 1
    /\ ledger \in [Invoices -> [open : BOOLEAN, note : Notes, at : {1}]]
    /\ debtors = <<>>
    /\ conn = [active |-> TRUE, since |-> 0]
    /\ sync = [s \in Syncs |-> Idle]
    /\ pushing = FALSE
    /\ faults = 0
    /\ overlapped = FALSE /\ slipped = {} /\ pushed = {}

RowsOf(i) == {d \in DOMAIN debtors : debtors[d].invoice = i}

Fault == faults < MaxFaults /\ faults' = faults + 1

(***************************************************************************)
(* The platform                                                            *)
(***************************************************************************)

\* The business edits an invoice or its note, or records a payment it was told of elsewhere.
Change(i, open, note) ==
    /\ now < MaxTime
    /\ now' = now + 1
    /\ ledger' = [ledger EXCEPT ![i] = [open |-> open, note |-> note, at |-> now']]
    /\ slipped' = slipped \ {i}
    /\ pushed' = pushed \ RowsOf(i)
    /\ UNCHANGED <<debtors, conn, sync, pushing, faults, overlapped>>

(***************************************************************************)
(* sync_platform()                                                         *)
(***************************************************************************)

\* The row is read once; what is written back at the end is this copy.
Begin(s) ==
    /\ sync[s].pc = "idle" /\ conn.active
    /\ sync' = [sync EXCEPT ![s] = [Idle EXCEPT !.pc = "fetch", !.since = conn.since]]
    /\ overlapped' = (overlapped \/ \E q \in Syncs : sync[q].pc # "idle")
    /\ UNCHANGED <<now, ledger, debtors, conn, pushing, faults, slipped, pushed>>

ChangedSince(time) == {i \in Invoices : ledger[i].at > time}

\* _map_status(PrivateNote or Balance): a note hides the balance, whatever it is about.
Status(invoice) ==
    IF invoice.note = "none" THEN IF invoice.open THEN "overdue" ELSE "paid"
    ELSE IF invoice.note = "paid" THEN "paid" ELSE "issued"

\* _normalise_invoice()
Item(i) == [invoice |-> i, status |-> Status(ledger[i]), at |-> ledger[i].at]

\* client.fetch_invoices(connection, since)
Fetch(s) ==
    /\ sync[s].pc = "fetch"
    /\ sync' = [sync EXCEPT
         ![s].pc = "lookup", ![s].fetched = now,
         ![s].todo = {Item(i) : i \in ChangedSince(sync[s].since)}]
    /\ UNCHANGED <<now, ledger, debtors, conn, pushing, faults,
                   overlapped, slipped, pushed>>

Oldest(rows) == CHOOSE d \in rows : \A e \in rows : d <= e

\* Mutant: a debtor is only looked for among those that are still open.
LookupOpen(s, item) ==
    /\ sync[s].pc = "lookup" /\ item \in sync[s].todo
    /\ LET rows == {d \in RowsOf(item.invoice) : debtors[d].state = "pending"} IN
       sync' = [sync EXCEPT ![s].pc = "write", ![s].todo = @ \ {item}, ![s].item = item,
                            ![s].row = IF rows = {} THEN 0 ELSE Oldest(rows)]
    /\ UNCHANGED <<now, ledger, debtors, conn, pushing, faults,
                   overlapped, slipped, pushed>>

\* SELECT id FROM debtors WHERE invoice_number = ? AND business_id = ?, and fetchone()
Lookup(s, item) ==
    /\ sync[s].pc = "lookup" /\ item \in sync[s].todo
    /\ LET rows == RowsOf(item.invoice) IN
       sync' = [sync EXCEPT ![s].pc = "write", ![s].todo = @ \ {item}, ![s].item = item,
                            ![s].row = IF rows = {} THEN 0 ELSE Oldest(rows)]
    /\ UNCHANGED <<now, ledger, debtors, conn, pushing, faults,
                   overlapped, slipped, pushed>>

\* Mutant: the platform's status does not reach the debtor.
StateForUnpaid(status) == "pending"
StateFor(status) == IF status \in {"issued", "overdue"} THEN "pending" ELSE "settled"

\* history: at and late tell which version of the invoice the row was last written from,
\* and whether the ledger had gone on by then.
Synced(item) == [invoice |-> item.invoice, state |-> StateFor(item.status), at |-> item.at,
                 late |-> item.at < ledger[item.invoice].at]

\* _update_debtor_from_invoice() or _create_debtor_from_invoice(), and its commit.  The mapping
\* saved next only lets push_payment() find the connection: without it a push is not taken.
WriteDebtor(s) ==
    /\ sync[s].pc = "write"
    /\ LET item == sync[s].item IN
       /\ debtors' = IF sync[s].row > 0 THEN [debtors EXCEPT ![sync[s].row] = Synced(item)]
                     ELSE Append(debtors, Synced(item))
       /\ slipped' = IF Synced(item).late THEN slipped \union {item.invoice}
                     ELSE slipped \ {item.invoice}
    /\ sync' = [sync EXCEPT ![s].pc = "lookup", ![s].item = NoItem, ![s].row = 0]
    /\ UNCHANGED <<now, ledger, conn, pushing, faults, overlapped, pushed>>

\* last_sync_at is the time of the end; save_connection() writes every column of the copy.
Finish(s) ==
    /\ sync[s].pc = "lookup" /\ sync[s].todo = {}
    /\ conn' = [active |-> TRUE, since |-> now]
    /\ slipped' = slipped \union ChangedSince(sync[s].fetched)
    /\ sync' = [sync EXCEPT ![s] = Idle]
    /\ UNCHANGED <<now, ledger, debtors, pushing, faults, overlapped, pushed>>

\* Mutant: a sync that failed is stamped like one that succeeded.
FailStamped(s) ==
    /\ sync[s].pc # "idle"
    /\ Fault
    /\ conn' = [active |-> TRUE, since |-> now]
    /\ sync' = [sync EXCEPT ![s] = Idle]
    /\ UNCHANGED <<now, ledger, debtors, pushing, overlapped, slipped, pushed>>

\* The call or a statement raised: the copy is saved with its old last_sync_at.
Fail(s) ==
    /\ sync[s].pc # "idle"
    /\ Fault
    /\ conn' = [active |-> TRUE, since |-> sync[s].since]
    /\ sync' = [sync EXCEPT ![s] = Idle]
    /\ UNCHANGED <<now, ledger, debtors, pushing, overlapped, slipped, pushed>>

(***************************************************************************)
(* push_payment()                                                          *)
(***************************************************************************)

\* The platform records the payment, of the whole balance or of a part; its answer may be lost.
PushCall(d, full) ==
    /\ ~pushing /\ conn.active /\ d \in DOMAIN debtors
    /\ now < MaxTime
    /\ now' = now + 1
    /\ LET i == debtors[d].invoice IN
       /\ ledger' = [ledger EXCEPT ![i] = [open |-> @.open /\ ~full, note |-> @.note, at |-> now']]
       /\ slipped' = slipped \ {i}
       /\ pushed' = IF debtors[d].state = "settled" /\ Status(ledger'[i]) = "paid"
                    THEN pushed \union {d} ELSE pushed
    /\ \/ pushing' = TRUE /\ UNCHANGED faults
       \/ pushing' = FALSE /\ Fault
    /\ UNCHANGED <<debtors, conn, sync, overlapped>>

\* After a success last_sync_at is set to now, although nothing was fetched.
PushStamp ==
    /\ pushing
    /\ pushing' = FALSE
    /\ conn' = [conn EXCEPT !.since = now]
    /\ slipped' = slipped \union ChangedSince(conn.since)
    /\ UNCHANGED <<now, ledger, debtors, sync, faults, overlapped, pushed>>

(***************************************************************************)
(* The rest of the server                                                  *)
(***************************************************************************)

\* confirm_bpay_payment(), portal_api.file_dispute(): whatever the state was.
Settle(d) ==
    /\ d \in DOMAIN debtors
    /\ debtors' = [debtors EXCEPT ![d].state = "settled"]
    /\ UNCHANGED <<now, ledger, conn, sync, pushing, faults, overlapped, slipped, pushed>>

\* delete_connection() is a soft delete.
DeleteConnection ==
    /\ conn.active
    /\ conn' = [conn EXCEPT !.active = FALSE]
    /\ UNCHANGED <<now, ledger, debtors, sync, pushing, faults,
                   overlapped, slipped, pushed>>

\* What was under way is forgotten; nothing marks the connection.
Kill ==
    /\ Fault
    /\ sync' = [s \in Syncs |-> Idle]
    /\ pushing' = FALSE
    /\ UNCHANGED <<now, ledger, debtors, conn, overlapped, slipped, pushed>>

SyncStep(s) ==
    \/ Begin(s) \/ Fetch(s)
    \/ \E item \in sync[s].todo : Lookup(s, item)
    \/ WriteDebtor(s) \/ Finish(s) \/ Fail(s)

Next ==
    \/ \E i \in Invoices, open \in BOOLEAN, note \in Notes : Change(i, open, note)
    \/ \E s \in Syncs : SyncStep(s)
    \/ \E d \in DOMAIN debtors : Settle(d) \/ \E full \in BOOLEAN : PushCall(d, full)
    \/ PushStamp \/ DeleteConnection \/ Kill

Spec == Init /\ [][Next]_vars

(***************************************************************************)
(* Properties                                                              *)
(***************************************************************************)

Times == 0..MaxTime
Items == [invoice : Invoices, status : {"issued", "overdue", "paid"}, at : Times]
States == {"pending", "settled"}

\* The type invariant.
TypeOK ==
    /\ pushing \in BOOLEAN /\ overlapped \in BOOLEAN
    /\ now \in Times \ {0} /\ faults \in 0..MaxFaults
    /\ ledger \in [Invoices -> [open : BOOLEAN, note : Notes, at : Times]]
    /\ debtors \in Seq([invoice : Invoices, state : States, at : Times, late : BOOLEAN])
    /\ slipped \subseteq Invoices
    /\ pushed \subseteq DOMAIN debtors
    /\ conn \in [active : BOOLEAN, since : Times]
    /\ sync \in [Syncs -> [pc : {"idle", "fetch", "lookup", "write"}, since : Times,
                           fetched : Times, todo : SUBSET Items, item : Items \union {NoItem},
                           row : Nat]]
    /\ \A s \in Syncs : sync[s].row = 0 \/ sync[s].row \in DOMAIN debtors

\* A row or the next sync has the last change of the invoice.
OnItsWay(i) ==
    \/ \E d \in RowsOf(i) : debtors[d].at = ledger[i].at
    \/ ledger[i].at > conn.since

\* However syncs fail, are killed or overlap, a change of the ledger reaches its debtor unless
\* it was made while a sync or a push was under way that then stamped the connection with its
\* own end (sync.py:215, :285), or was overwritten by a sync that had fetched before it.
OnlySlippedChangesAreMissed == \A i \in Invoices : OnItsWay(i) \/ i \in slipped

\* An invoice has one debtor, unless two syncs looked for it at the same time (sync.py:195).
DuplicatesNeedOverlap == ~overlapped => \A i \in Invoices : Cardinality(RowsOf(i)) <= 1

\* A settled debtor whose payment was pushed, so that its invoice reads as paid, is pending again,
\* and chased, only when a sync wrote what it had fetched before the push (sync.py:393).  A part
\* payment, or a note that hides a balance of zero (quickbooks.py:264), leaves it as it reads.
PushedPaymentHolds == \A d \in pushed : debtors[d].state = "pending" => debtors[d].late
=============================================================================
