------------------------ MODULE AccountingSyncProofs ------------------------
(***************************************************************************)
(* Theorems about AccountingSync for any number of invoices, of syncs at a *)
(* time and of faults, however long the clock runs, and their proofs.      *)
(***************************************************************************)
EXTENDS AccountingSync, FiniteSetTheorems, NaturalsInduction, WellFoundedInduction, TLAPS

Debtor == [invoice : Invoices, state : States, at : Times, late : BOOLEAN]
Thread == [pc : {"idle", "fetch", "lookup", "write"}, since : Times, fetched : Times,
           todo : SUBSET Items, item : Items \union {NoItem}, row : Nat]
LedgerRow == [open : BOOLEAN, note : Notes, at : Times]

\* A sync only writes an item it has looked up.
WritesItems == \A s \in Syncs : sync[s].pc = "write" => sync[s].item \in Items

Typed == TypeOK /\ WritesItems

-----------------------------------------------------------------------------
(* Type correctness. *)

LEMMA Clock == ASSUME TypeOK PROVE now \in Times /\ now \in Nat /\ MaxTime \in Nat /\ 0 \in Times
BY AccountingSyncAssumption DEF TypeOK, Times

LEMMA Components ==
    ASSUME TypeOK
    PROVE  /\ ledger \in [Invoices -> LedgerRow] /\ debtors \in Seq(Debtor)
           /\ sync \in [Syncs -> Thread]
           /\ \A d \in DOMAIN debtors : debtors[d] \in Debtor
           /\ \A s \in Syncs : sync[s] \in Thread
<1>1. ledger \in [Invoices -> LedgerRow] /\ sync \in [Syncs -> Thread]
  BY DEF TypeOK, LedgerRow, Thread
<1>2. debtors \in Seq(Debtor)
  BY DEF TypeOK, Debtor
<1> HIDE DEF Debtor, Thread
<1> QED
  BY <1>1, <1>2

LEMMA IdleTyped == ASSUME TypeOK PROVE Idle \in Thread
BY Clock DEF Idle, Thread, Items, NoItem

\* What an action changes of its own thread, if anything.
LEMMA OneThread ==
    ASSUME TypeOK, NEW s \in Syncs, NEW new \in Thread, sync' = [sync EXCEPT ![s] = new],
           new.row = 0 \/ new.row \in DOMAIN debtors', \A d \in DOMAIN debtors : d \in DOMAIN debtors'
    PROVE  /\ sync' \in [Syncs -> Thread]
           /\ sync'[s] = new /\ \A q \in Syncs \ {s} : sync'[q] = sync[q]
           /\ \A q \in Syncs : sync'[q].row = 0 \/ sync'[q].row \in DOMAIN debtors'
<1> HIDE DEF Thread
<1>1. sync \in [Syncs -> Thread]
  BY Components
<1>2. sync'[s] = new /\ \A q \in Syncs \ {s} : sync'[q] = sync[q]
  BY <1>1
<1>3. \A q \in Syncs : sync[q].row = 0 \/ sync[q].row \in DOMAIN debtors
  BY DEF TypeOK
<1> QED
  BY <1>1, <1>2, <1>3

LEMMA ItemTyped == ASSUME TypeOK, NEW i \in Invoices PROVE Item(i) \in Items
<1>1. ledger[i] \in LedgerRow
  BY Components
<1> QED
  BY <1>1 DEF Item, Items, LedgerRow, Status

LEMMA SyncedTyped ==
    ASSUME TypeOK, NEW item \in Items
    PROVE  /\ Synced(item) \in Debtor
           /\ Synced(item).invoice = item.invoice /\ Synced(item).at = item.at
           /\ Synced(item).state = StateFor(item.status)
           /\ Synced(item).late = (item.at < ledger[item.invoice].at)
BY DEF Synced, Debtor, Items, StateFor, States

LEMMA OldestRow == ASSUME NEW rows, rows # {}, rows \subseteq Nat PROVE Oldest(rows) \in rows
<1> DEFINE Less == {pair \in Nat \X Nat : pair[1] < pair[2]}
<1>1. IsWellFoundedOn(Less, Nat)
  BY NatLessThanWellFounded DEF OpToRel
<1>2. PICK d \in rows : \A e \in rows : ~(<<e, d>> \in Less)
  <2> HIDE DEF Less
  <2> QED
    BY <1>1, WFMin
<1>3. ASSUME NEW e \in rows PROVE d <= e
  <2>1. d \in Nat /\ e \in Nat /\ <<e, d>> \in Nat \X Nat
    OBVIOUS
  <2>2. ~(e < d)
    BY <1>2, <2>1
  <2> QED
    BY <2>1, <2>2
<1> QED
  BY <1>3 DEF Oldest

LEMMA RowsAreRows ==
    ASSUME TypeOK, NEW i
    PROVE  /\ RowsOf(i) \subseteq DOMAIN debtors /\ DOMAIN debtors \subseteq Nat \ {0}
           /\ RowsOf(i) # {} => Oldest(RowsOf(i)) \in RowsOf(i)
<1>1. DOMAIN debtors \subseteq Nat \ {0}
  <2> HIDE DEF Debtor
  <2>1. debtors \in Seq(Debtor)
    BY Components
  <2>2. DOMAIN debtors = 1..Len(debtors) /\ Len(debtors) \in Nat
    BY <2>1
  <2> QED
    BY <2>2
<1>2. RowsOf(i) \subseteq DOMAIN debtors
  BY DEF RowsOf
<1> QED
  BY <1>1, <1>2, OldestRow

\* What the steps of a sync do to its own thread and to the debtors.
LEMMA BeginTyped ==
    ASSUME Typed, NEW s \in Syncs, Begin(s)
    PROVE  \E new \in Thread : /\ sync' = [sync EXCEPT ![s] = new]
                               /\ new.pc = "fetch" /\ new.since = conn.since /\ new.todo = {}
                               /\ new.row = 0
<1>1. conn.since \in Times
  BY DEF Typed, TypeOK
<1> DEFINE new == [Idle EXCEPT !.pc = "fetch", !.since = conn.since]
<1>2. sync' = [sync EXCEPT ![s] = new]
  BY DEF Begin
<1>3. new \in Thread /\ new.pc = "fetch" /\ new.since = conn.since /\ new.todo = {} /\ new.row = 0
  BY <1>1, IdleTyped DEF Idle, Thread, Typed
<1> HIDE DEF new
<1> QED
  BY <1>2, <1>3

LEMMA FetchTyped ==
    ASSUME Typed, NEW s \in Syncs, Fetch(s)
    PROVE  \E new \in Thread : /\ sync' = [sync EXCEPT ![s] = new]
                               /\ new.pc = "lookup" /\ new.since = sync[s].since /\ new.fetched = now
                               /\ new.todo = {Item(i) : i \in ChangedSince(sync[s].since)}
                               /\ new.row = sync[s].row
<1> DEFINE items == {Item(i) : i \in ChangedSince(sync[s].since)}
           new == [sync[s] EXCEPT !.pc = "lookup", !.fetched = now, !.todo = items]
<1>1. items \subseteq Items
  BY ItemTyped DEF ChangedSince, Typed
<1>2. sync[s] \in Thread /\ sync \in [Syncs -> Thread] /\ now \in Times
  BY Components, Clock DEF Typed
<1>3. sync' = [sync EXCEPT ![s].pc = "lookup", ![s].fetched = now, ![s].todo = items]
  BY DEF Fetch
<1> HIDE DEF items
<1>4. sync' = [sync EXCEPT ![s] = new]
  BY <1>2, <1>3 DEF Thread
<1>5. new \in Thread /\ new.pc = "lookup" /\ new.since = sync[s].since /\ new.fetched = now
      /\ new.todo = items /\ new.row = sync[s].row
  BY <1>1, <1>2 DEF Thread
<1> HIDE DEF new
<1> QED
  BY <1>4, <1>5 DEF items

LEMMA LookupTyped ==
    ASSUME Typed, NEW s \in Syncs, NEW item \in sync[s].todo, Lookup(s, item)
    PROVE  /\ item \in Items
           /\ \E new \in Thread : /\ sync' = [sync EXCEPT ![s] = new]
                                  /\ new.pc = "write" /\ new.since = sync[s].since
                                  /\ new.fetched = sync[s].fetched
                                  /\ new.todo = sync[s].todo \ {item} /\ new.item = item
                                  /\ IF RowsOf(item.invoice) = {} THEN new.row = 0
                                     ELSE new.row \in RowsOf(item.invoice)
<1> DEFINE rows == RowsOf(item.invoice)
           row == IF rows = {} THEN 0 ELSE Oldest(rows)
           left == sync[s].todo \ {item}
           new == [sync[s] EXCEPT !.pc = "write", !.todo = left, !.item = item, !.row = row]
<1>1. sync[s] \in Thread /\ sync \in [Syncs -> Thread]
  BY Components DEF Typed
<1>2. item \in Items /\ left \subseteq Items
  BY <1>1 DEF Thread
<1>3. row \in Nat /\ IF rows = {} THEN row = 0 ELSE row \in rows
  BY RowsAreRows DEF Typed
<1>4. sync' = [sync EXCEPT ![s].pc = "write", ![s].todo = left, ![s].item = item, ![s].row = row]
  BY <1>1 DEF Lookup, Thread
<1> HIDE DEF row, left, rows
<1>5. sync' = [sync EXCEPT ![s] = new]
  BY <1>1, <1>4 DEF Thread
<1>6. new \in Thread /\ new.pc = "write" /\ new.since = sync[s].since
      /\ new.fetched = sync[s].fetched /\ new.todo = left /\ new.item = item /\ new.row = row
  BY <1>1, <1>2, <1>3 DEF Thread
<1> HIDE DEF new
<1> QED
  BY <1>2, <1>3, <1>5, <1>6 DEF rows, left

LEMMA WriteTyped ==
    ASSUME Typed, NEW s \in Syncs, WriteDebtor(s)
    PROVE  /\ sync[s].item \in Items
           /\ \E new \in Thread : /\ sync' = [sync EXCEPT ![s] = new]
                                  /\ new.pc = "lookup" /\ new.since = sync[s].since
                                  /\ new.fetched = sync[s].fetched
                                  /\ new.todo = sync[s].todo /\ new.row = 0
           /\ debtors' \in Seq(Debtor)
           /\ \A d \in DOMAIN debtors : d \in DOMAIN debtors'
           /\ \E n \in DOMAIN debtors' :
                 /\ debtors'[n] = Synced(sync[s].item)
                 /\ n = IF sync[s].row > 0 THEN sync[s].row ELSE Len(debtors) + 1
                 /\ \A d \in DOMAIN debtors' \ {n} : d \in DOMAIN debtors /\ debtors'[d] = debtors[d]
<1> DEFINE new == [sync[s] EXCEPT !.pc = "lookup", !.item = NoItem, !.row = 0]
           written == Synced(sync[s].item)
           row == sync[s].row
<1>1. sync[s] \in Thread /\ sync \in [Syncs -> Thread] /\ debtors \in Seq(Debtor)
  BY Components DEF Typed
<1>2. sync[s].item \in Items
  BY DEF Typed, WritesItems, WriteDebtor
<1>3. sync' = [sync EXCEPT ![s] = new]
  <2>1. sync' = [sync EXCEPT ![s].pc = "lookup", ![s].item = NoItem, ![s].row = 0]
    BY DEF WriteDebtor
  <2> QED
    BY <1>1, <2>1 DEF Thread
<1>4. new \in Thread /\ new.pc = "lookup" /\ new.since = sync[s].since
      /\ new.fetched = sync[s].fetched /\ new.todo = sync[s].todo /\ new.row = 0
  BY <1>1 DEF Thread
<1>5. written \in Debtor
  BY <1>2, SyncedTyped DEF Typed
<1>6. debtors' = IF row > 0 THEN [debtors EXCEPT ![row] = written] ELSE Append(debtors, written)
  BY DEF WriteDebtor
<1>7. row = 0 \/ row \in DOMAIN debtors
  BY DEF Typed, TypeOK
<1> HIDE DEF new, written, row, Debtor
<1>8. CASE row > 0
  <2>1. row \in DOMAIN debtors /\ debtors' = [debtors EXCEPT ![row] = written]
    BY <1>6, <1>7, <1>8
  <2>2. debtors' \in Seq(Debtor) /\ DOMAIN debtors' = DOMAIN debtors
    BY <1>1, <1>5, <2>1
  <2>3. debtors'[row] = written /\ \A d \in DOMAIN debtors \ {row} : debtors'[d] = debtors[d]
    BY <1>1, <2>1
  <2> QED
    BY <1>2, <1>3, <1>4, <1>8, <2>1, <2>2, <2>3 DEF written, row
<1>9. CASE ~(row > 0)
  <2> DEFINE n == Len(debtors)
  <2>1. debtors' = Append(debtors, written) /\ n \in Nat /\ DOMAIN debtors = 1..n
    BY <1>1, <1>6, <1>9
  <2>2. debtors' \in Seq(Debtor) /\ DOMAIN debtors' = 1..(n + 1)
    BY <1>1, <1>5, <2>1
  <2>3. debtors'[n + 1] = written /\ \A d \in 1..n : debtors'[d] = debtors[d]
    BY <1>1, <2>1
  <2> HIDE DEF n
  <2>4. \A d \in (1..(n + 1)) \ {n + 1} : d \in 1..n
    BY <2>1
  <2>5. n + 1 \in 1..(n + 1) /\ \A d \in 1..n : d \in 1..(n + 1)
    BY <2>1
  <2>6. \E m \in DOMAIN debtors' :
           /\ debtors'[m] = written
           /\ m = IF row > 0 THEN row ELSE n + 1
           /\ \A d \in DOMAIN debtors' \ {m} : d \in DOMAIN debtors /\ debtors'[d] = debtors[d]
    BY <1>9, <2>1, <2>2, <2>3, <2>4, <2>5
  <2>7. \A d \in DOMAIN debtors : d \in DOMAIN debtors'
    BY <2>1, <2>2, <2>5
  <2> QED
    BY <1>2, <1>3, <1>4, <2>2, <2>6, <2>7 DEF written, row, n
<1> QED
  BY <1>8, <1>9

\* A thread's record of a finished, failed or killed sync.
LEMMA EndTyped ==
    ASSUME Typed, NEW s \in Syncs, sync' = [sync EXCEPT ![s] = Idle], debtors' = debtors
    PROVE  /\ sync' \in [Syncs -> Thread]
           /\ sync'[s] = Idle /\ \A q \in Syncs \ {s} : sync'[q] = sync[q]
           /\ \A q \in Syncs : sync'[q].row = 0 \/ sync'[q].row \in DOMAIN debtors'
           /\ WritesItems'
<1>1. Idle \in Thread /\ Idle.row = 0 /\ Idle.pc = "idle"
  BY IdleTyped DEF Idle, Typed
<1>2. /\ sync' \in [Syncs -> Thread]
      /\ sync'[s] = Idle /\ \A q \in Syncs \ {s} : sync'[q] = sync[q]
      /\ \A q \in Syncs : sync'[q].row = 0 \/ sync'[q].row \in DOMAIN debtors'
  BY <1>1, OneThread DEF Typed
<1> QED
  BY <1>1, <1>2 DEF Typed, WritesItems

LEMMA SyncStepTyped == ASSUME Typed, NEW s \in Syncs, SyncStep(s) PROVE Typed'
<1>1. CASE Begin(s)
  <2>1. PICK new \in Thread : /\ sync' = [sync EXCEPT ![s] = new]
                              /\ new.pc = "fetch" /\ new.row = 0
    BY <1>1, BeginTyped
  <2>2. debtors' = debtors
    BY <1>1 DEF Begin
  <2>3. /\ sync' \in [Syncs -> Thread]
        /\ sync'[s] = new /\ \A q \in Syncs \ {s} : sync'[q] = sync[q]
        /\ \A q \in Syncs : sync'[q].row = 0 \/ sync'[q].row \in DOMAIN debtors'
    BY <2>1, <2>2, OneThread DEF Typed
  <2>4. WritesItems'
    BY <2>1, <2>3 DEF Typed, WritesItems
  <2> QED
    BY <1>1, <2>3, <2>4 DEF Begin, Typed, TypeOK, Thread
<1>2. CASE Fetch(s)
  <2>1. PICK new \in Thread : /\ sync' = [sync EXCEPT ![s] = new]
                              /\ new.pc = "lookup" /\ new.row = sync[s].row
    BY <1>2, FetchTyped
  <2>2. debtors' = debtors /\ (new.row = 0 \/ new.row \in DOMAIN debtors)
    BY <1>2, <2>1 DEF Fetch, Typed, TypeOK
  <2>3. /\ sync' \in [Syncs -> Thread]
        /\ sync'[s] = new /\ \A q \in Syncs \ {s} : sync'[q] = sync[q]
        /\ \A q \in Syncs : sync'[q].row = 0 \/ sync'[q].row \in DOMAIN debtors'
    BY <2>1, <2>2, OneThread DEF Typed
  <2>4. WritesItems'
    BY <2>1, <2>3 DEF Typed, WritesItems
  <2> QED
    BY <1>2, <2>3, <2>4 DEF Fetch, Typed, TypeOK, Thread
<1>3. ASSUME NEW item \in sync[s].todo, Lookup(s, item) PROVE Typed'
  <2>1. item \in Items
    BY <1>3, LookupTyped
  <2>2. PICK new \in Thread : /\ sync' = [sync EXCEPT ![s] = new]
                              /\ new.pc = "write" /\ new.item = item
                              /\ IF RowsOf(item.invoice) = {} THEN new.row = 0
                                 ELSE new.row \in RowsOf(item.invoice)
    BY <1>3, LookupTyped
  <2>3. debtors' = debtors /\ (new.row = 0 \/ new.row \in DOMAIN debtors)
    BY <1>3, <2>2 DEF Lookup, RowsOf
  <2>4. /\ sync' \in [Syncs -> Thread]
        /\ sync'[s] = new /\ \A q \in Syncs \ {s} : sync'[q] = sync[q]
        /\ \A q \in Syncs : sync'[q].row = 0 \/ sync'[q].row \in DOMAIN debtors'
    BY <2>2, <2>3, OneThread DEF Typed
  <2>5. WritesItems'
    BY <2>1, <2>2, <2>4 DEF Typed, WritesItems
  <2> QED
    BY <1>3, <2>4, <2>5 DEF Lookup, Typed, TypeOK, Thread
<1>4. CASE WriteDebtor(s)
  <2>1. /\ sync[s].item \in Items /\ debtors' \in Seq(Debtor)
        /\ \A d \in DOMAIN debtors : d \in DOMAIN debtors'
    BY <1>4, WriteTyped
  <2>2. PICK new \in Thread : sync' = [sync EXCEPT ![s] = new] /\ new.pc = "lookup" /\ new.row = 0
    BY <1>4, WriteTyped
  <2>3. /\ sync' \in [Syncs -> Thread]
        /\ sync'[s] = new /\ \A q \in Syncs \ {s} : sync'[q] = sync[q]
        /\ \A q \in Syncs : sync'[q].row = 0 \/ sync'[q].row \in DOMAIN debtors'
    BY <2>1, <2>2, OneThread DEF Typed
  <2>4. WritesItems'
    BY <2>2, <2>3 DEF Typed, WritesItems
  <2>5. sync[s].item.invoice \in Invoices
    BY <2>1 DEF Items
  <2>6. slipped' \subseteq Invoices
    BY <1>4, <2>5 DEF WriteDebtor, Typed, TypeOK
  <2>7. pushed' \subseteq DOMAIN debtors'
    BY <1>4, <2>1 DEF WriteDebtor, Typed, TypeOK
  <2> QED
    BY <1>4, <2>1, <2>3, <2>4, <2>6, <2>7 DEF WriteDebtor, Typed, TypeOK, Thread, Debtor
<1>5. CASE Finish(s)
  <2>1. conn' \in [active : BOOLEAN, since : Times] /\ slipped' \subseteq Invoices
    BY <1>5, Clock DEF Finish, Typed, TypeOK, ChangedSince
  <2>2. sync' = [sync EXCEPT ![s] = Idle] /\ debtors' = debtors
    BY <1>5 DEF Finish
  <2> QED
    BY <1>5, <2>1, <2>2, EndTyped DEF Finish, Typed, TypeOK, Thread
<1>6. CASE Fail(s)
  <2>1. sync[s].since \in Times
    BY Components DEF Typed, Thread
  <2>2. conn' \in [active : BOOLEAN, since : Times] /\ faults' \in 0..MaxFaults
    BY <1>6, <2>1, AccountingSyncAssumption DEF Fail, Fault, Typed, TypeOK
  <2>3. sync' = [sync EXCEPT ![s] = Idle] /\ debtors' = debtors
    BY <1>6 DEF Fail
  <2> QED
    BY <1>6, <2>2, <2>3, EndTyped DEF Fail, Typed, TypeOK, Thread
<1> QED
  BY <1>1, <1>2, <1>3, <1>4, <1>5, <1>6 DEF SyncStep

LEMMA NextTyped == ASSUME Typed, [Next]_vars PROVE Typed'
<1>1. ASSUME NEW i \in Invoices, NEW open \in BOOLEAN, NEW note \in Notes, Change(i, open, note) PROVE Typed'
  <2>1. now' \in Times \ {0}
    BY <1>1, Clock DEF Change, Times, Typed
  <2>2. ledger' \in [Invoices -> [open : BOOLEAN, note : Notes, at : Times]]
    BY <1>1, <2>1 DEF Change, Typed, TypeOK
  <2> QED
    BY <1>1, <2>1, <2>2 DEF Change, Typed, TypeOK, WritesItems
<1>2. ASSUME NEW d \in DOMAIN debtors, NEW full \in BOOLEAN, PushCall(d, full) PROVE Typed'
  <2>1. debtors[d].invoice \in Invoices
    BY Components DEF Typed, Debtor
  <2>2. now' \in Times \ {0}
    BY <1>2, Clock DEF PushCall, Times, Typed
  <2>3. ledger' \in [Invoices -> [open : BOOLEAN, note : Notes, at : Times]]
    BY <1>2, <2>1, <2>2 DEF PushCall, Typed, TypeOK
  <2>4. faults' \in 0..MaxFaults
    BY <1>2, AccountingSyncAssumption DEF PushCall, Fault, Typed, TypeOK
  <2> QED
    BY <1>2, <2>2, <2>3, <2>4 DEF PushCall, Typed, TypeOK, WritesItems
<1>3. ASSUME NEW d \in DOMAIN debtors, Settle(d) PROVE Typed'
  <2>1. debtors \in Seq(Debtor) /\ debtors[d] \in Debtor
    BY Components DEF Typed
  <2>2. [debtors[d] EXCEPT !.state = "settled"] \in Debtor
    BY <2>1 DEF Debtor, States
  <2>3. debtors' = [debtors EXCEPT ![d] = [debtors[d] EXCEPT !.state = "settled"]]
    BY <1>3 DEF Settle
  <2>4. debtors' \in Seq(Debtor) /\ DOMAIN debtors' = DOMAIN debtors
    <3> HIDE DEF Debtor
    <3> QED
      BY <2>1, <2>2, <2>3
  <2> QED
    BY <1>3, <2>4 DEF Settle, Typed, TypeOK, WritesItems, Debtor
<1>4. CASE PushStamp
  BY <1>4, Clock DEF PushStamp, Typed, TypeOK, WritesItems, ChangedSince
<1>5. CASE DeleteConnection
  BY <1>5 DEF DeleteConnection, Typed, TypeOK, WritesItems
<1>6. CASE Kill
  <2>1. sync' \in [Syncs -> Thread] /\ \A s \in Syncs : sync'[s] = Idle
    BY <1>6, IdleTyped DEF Kill, Typed
  <2>2. Idle.row = 0 /\ Idle.pc = "idle"
    BY DEF Idle
  <2>3. WritesItems' /\ \A s \in Syncs : sync'[s].row = 0
    BY <2>1, <2>2 DEF WritesItems
  <2>4. faults' \in 0..MaxFaults
    BY <1>6, AccountingSyncAssumption DEF Kill, Fault, Typed, TypeOK
  <2>5. TypeOK'
    BY <1>6, <2>1, <2>3, <2>4 DEF Kill, Typed, TypeOK, Thread
  <2> QED
    BY <2>3, <2>5 DEF Typed
<1>7. CASE UNCHANGED vars
  BY <1>7 DEF vars, Typed, TypeOK, WritesItems
<1> QED
  BY <1>1, <1>2, <1>3, <1>4, <1>5, <1>6, <1>7, SyncStepTyped DEF Next

LEMMA InitTyped == Init => Typed
<1> SUFFICES ASSUME Init PROVE Typed
  OBVIOUS
<1>1. {0, 1} \subseteq Times
  BY AccountingSyncAssumption DEF Times
<1>2. Idle \in Thread /\ Idle.row = 0 /\ Idle.pc = "idle"
  BY <1>1 DEF Idle, Thread, Items, NoItem
<1>3. sync \in [Syncs -> Thread] /\ \A s \in Syncs : sync[s].row = 0 /\ sync[s].pc = "idle"
  <2> HIDE DEF Thread, Idle
  <2> QED
    BY <1>2 DEF Init
<1>4. debtors \in Seq(Debtor)
  <2> HIDE DEF Debtor
  <2> QED
    BY DEF Init
<1>5. ledger \in [Invoices -> [open : BOOLEAN, note : Notes, at : Times]]
  BY <1>1 DEF Init
<1>6. conn \in [active : BOOLEAN, since : Times] /\ now \in Times \ {0} /\ faults \in 0..MaxFaults
  BY <1>1, AccountingSyncAssumption DEF Init
<1>7. pushing = FALSE /\ overlapped = FALSE /\ slipped = {} /\ pushed = {}
  BY DEF Init
<1>8. TypeOK
  BY <1>3, <1>4, <1>5, <1>6, <1>7 DEF TypeOK, Thread, Debtor
<1>9. WritesItems
  BY <1>3 DEF WritesItems
<1> QED
  BY <1>8, <1>9 DEF Typed

\* Every reachable state is well typed.
THEOREM TypeCorrect == Spec => []TypeOK
<1>1. Typed => TypeOK
  BY DEF Typed
<1> QED
  BY <1>1, InitTyped, NextTyped, PTL DEF Spec

-----------------------------------------------------------------------------
(* What a sync carries is never newer than the ledger. *)

\* An item is an old version of its invoice, or the present one.
Known(item) ==
    /\ item.at <= ledger[item.invoice].at
    /\ item.at = ledger[item.invoice].at => item = Item(item.invoice)

Ages ==
    /\ \A i \in Invoices : ledger[i].at <= now
    /\ conn.since <= now
    /\ \A s \in Syncs : sync[s].since <= now /\ sync[s].fetched <= now

Carries ==
    \A s \in Syncs :
        /\ sync[s].pc \in {"idle", "fetch"} => sync[s].todo = {}
        /\ \A item \in sync[s].todo : Known(item)
        /\ sync[s].pc = "write" =>
              /\ Known(sync[s].item)
              /\ sync[s].row > 0 => debtors[sync[s].row].invoice = sync[s].item.invoice

Base == Typed /\ Ages /\ Carries

LEMMA Numbers ==
    ASSUME Typed
    PROVE  /\ now \in Nat /\ conn.since \in Nat
           /\ \A i \in Invoices : ledger[i].at \in Nat
           /\ \A s \in Syncs : sync[s].since \in Nat /\ sync[s].fetched \in Nat
           /\ \A item \in Items : item.at \in Nat /\ item.invoice \in Invoices
           /\ \A s \in Syncs : sync[s].todo \subseteq Items
           /\ \A s \in Syncs : sync[s].pc = "write" => sync[s].item \in Items
<1>1. Times \subseteq Nat
  BY AccountingSyncAssumption DEF Times
<1>2. now \in Nat /\ conn.since \in Nat /\ \A i \in Invoices : ledger[i].at \in Nat
  BY <1>1 DEF Typed, TypeOK
<1>3. \A s \in Syncs : sync[s].since \in Nat /\ sync[s].fetched \in Nat /\ sync[s].todo \subseteq Items
  BY <1>1, Components DEF Typed, Thread
<1>4. \A item \in Items : item.at \in Nat /\ item.invoice \in Invoices
  BY <1>1 DEF Items
<1> QED
  BY <1>2, <1>3, <1>4 DEF Typed, WritesItems

LEMMA FreshItem ==
    ASSUME Typed, NEW i \in Invoices
    PROVE  Known(Item(i)) /\ Item(i).invoice = i /\ Item(i).at = ledger[i].at
<1>1. Item(i).invoice = i /\ Item(i).at = ledger[i].at
  BY DEF Item
<1> QED
  BY <1>1, Numbers DEF Known

\* Nothing that writes debtors changes whose a row is.
LEMMA InvoicesStay ==
    ASSUME Base, [Next]_vars
    PROVE  \A d \in DOMAIN debtors : d \in DOMAIN debtors' /\ debtors'[d].invoice = debtors[d].invoice
<1>1. ASSUME NEW s \in Syncs, WriteDebtor(s)
      PROVE  \A d \in DOMAIN debtors : d \in DOMAIN debtors' /\ debtors'[d].invoice = debtors[d].invoice
  <2>1. \A d \in DOMAIN debtors : d \in DOMAIN debtors'
    BY <1>1, WriteTyped DEF Base
  <2>2. PICK n \in DOMAIN debtors' :
                 /\ debtors'[n] = Synced(sync[s].item)
                 /\ n = IF sync[s].row > 0 THEN sync[s].row ELSE Len(debtors) + 1
                 /\ \A d \in DOMAIN debtors' \ {n} : d \in DOMAIN debtors /\ debtors'[d] = debtors[d]
    BY <1>1, WriteTyped DEF Base
  <2>3. debtors'[n].invoice = sync[s].item.invoice
    BY <1>1, <2>2, WriteTyped, SyncedTyped DEF Base, Typed
  <2>4. CASE sync[s].row > 0
    <3>1. n = sync[s].row /\ debtors[n].invoice = sync[s].item.invoice
      BY <1>1, <2>2, <2>4 DEF WriteDebtor, Base, Carries
    <3> QED
      BY <2>1, <2>2, <2>3, <3>1
  <2>5. CASE ~(sync[s].row > 0)
    <3>1. n \notin DOMAIN debtors
      <4> HIDE DEF Debtor
      <4>1. debtors \in Seq(Debtor)
        BY Components DEF Base, Typed
      <4>2. Len(debtors) \in Nat /\ DOMAIN debtors = 1..Len(debtors)
        BY <4>1
      <4> QED
        BY <2>2, <2>5, <4>2
    <3> QED
      BY <2>1, <2>2, <3>1
  <2> QED
    BY <2>4, <2>5
<1>2. ASSUME NEW e \in DOMAIN debtors, Settle(e)
      PROVE  \A d \in DOMAIN debtors : d \in DOMAIN debtors' /\ debtors'[d].invoice = debtors[d].invoice
  <2>1. debtors' = [debtors EXCEPT ![e].state = "settled"]
    BY <1>2 DEF Settle
  <2>2. debtors[e] \in Debtor
    BY Components DEF Base, Typed
  <2> QED
    BY <2>1, <2>2 DEF Debtor
<1>3. CASE debtors' = debtors
  BY <1>3
<1> QED
  BY <1>1, <1>2, <1>3 DEF Next, SyncStep, Change, Begin, Fetch, Lookup, Finish, Fail, PushCall,
                          PushStamp, DeleteConnection, Kill, vars

\* The steps of a sync.
LEMMA CarryStep == ASSUME Base, NEW s \in Syncs, SyncStep(s) PROVE Ages' /\ Carries'
<1>0. Typed /\ Typed'
  BY SyncStepTyped DEF Base
<1>1. \A d \in DOMAIN debtors : debtors'[d].invoice = debtors[d].invoice
  BY InvoicesStay DEF Next
<1>2. \A q \in Syncs : sync[q].row > 0 => sync[q].row \in DOMAIN debtors
  BY <1>0 DEF Typed, TypeOK
<1>3. ledger' = ledger /\ now' = now
  BY DEF SyncStep, Begin, Fetch, Lookup, WriteDebtor, Finish, Fail
<1>4. \A item : Known(item)' <=> Known(item)
  BY <1>3 DEF Known, Item
<1>5. ASSUME NEW new, sync' = [sync EXCEPT ![s] = new], conn'.since <= now,
             new.since <= now, new.fetched <= now,
             new.pc \in {"idle", "fetch"} => new.todo = {},
             \A item \in new.todo : Known(item),
             new.pc = "write" => /\ Known(new.item)
                                 /\ new.row > 0 => debtors'[new.row].invoice = new.item.invoice
      PROVE  Ages' /\ Carries'
  <2>1. sync'[s] = new /\ \A q \in Syncs \ {s} : sync'[q] = sync[q]
    BY <1>0, <1>5 DEF Typed, TypeOK
  <2>2. Ages'
    BY <1>3, <1>5, <2>1 DEF Base, Ages
  <2>3. ASSUME NEW q \in Syncs
        PROVE  /\ sync'[q].pc \in {"idle", "fetch"} => sync'[q].todo = {}
               /\ \A item \in sync'[q].todo : Known(item)
               /\ sync'[q].pc = "write" =>
                    /\ Known(sync'[q].item)
                    /\ sync'[q].row > 0 => debtors'[sync'[q].row].invoice = sync'[q].item.invoice
    <3>1. CASE q = s
      BY <1>5, <2>1, <3>1
    <3>2. CASE q # s
      BY <1>1, <1>2, <2>1, <3>2 DEF Base, Carries
    <3> QED
      BY <3>1, <3>2
  <2> QED
    BY <1>4, <2>2, <2>3 DEF Carries
<1>6. /\ conn.since <= now /\ sync[s].since <= now /\ sync[s].fetched <= now
      /\ \A item \in sync[s].todo : Known(item)
  BY DEF Base, Ages, Carries
<1>7. CASE Begin(s)
  <2> DEFINE new == [Idle EXCEPT !.pc = "fetch", !.since = conn.since]
  <2>1. sync' = [sync EXCEPT ![s] = new] /\ conn' = conn
    BY <1>7 DEF Begin
  <2>2. new.pc = "fetch" /\ new.since = conn.since /\ new.fetched = 0 /\ new.todo = {}
    BY DEF Idle
  <2>3. 0 <= now
    BY <1>0, Numbers
  <2> HIDE DEF new
  <2> QED
    BY <1>5, <1>6, <2>1, <2>2, <2>3
<1>8. CASE Fetch(s)
  <2>1. PICK new \in Thread :
              /\ sync' = [sync EXCEPT ![s] = new]
              /\ new.pc = "lookup" /\ new.since = sync[s].since /\ new.fetched = now
              /\ new.todo = {Item(i) : i \in ChangedSince(sync[s].since)}
    BY <1>0, <1>8, FetchTyped
  <2>2. \A item \in new.todo : Known(item)
    BY <1>0, <2>1, FreshItem DEF ChangedSince
  <2>3. conn' = conn
    BY <1>8 DEF Fetch
  <2>4. now <= now
    BY <1>0, Numbers
  <2> QED
    BY <1>5, <1>6, <2>1, <2>2, <2>3, <2>4
<1>9. ASSUME NEW item \in sync[s].todo, Lookup(s, item) PROVE Ages' /\ Carries'
  <2>1. PICK new \in Thread :
              /\ sync' = [sync EXCEPT ![s] = new]
              /\ new.pc = "write" /\ new.since = sync[s].since
              /\ new.fetched = sync[s].fetched
              /\ new.todo = sync[s].todo \ {item} /\ new.item = item
              /\ IF RowsOf(item.invoice) = {} THEN new.row = 0
                 ELSE new.row \in RowsOf(item.invoice)
    BY <1>0, <1>9, LookupTyped
  <2>2. conn' = conn /\ debtors' = debtors
    BY <1>9 DEF Lookup
  <2>3. new.row > 0 => debtors[new.row].invoice = item.invoice
    BY <2>1 DEF RowsOf
  <2> QED
    BY <1>5, <1>6, <2>1, <2>2, <2>3
<1>10. CASE WriteDebtor(s)
  <2>1. PICK new \in Thread :
              /\ sync' = [sync EXCEPT ![s] = new]
              /\ new.pc = "lookup" /\ new.since = sync[s].since
              /\ new.fetched = sync[s].fetched
              /\ new.todo = sync[s].todo
    BY <1>0, <1>10, WriteTyped
  <2>2. conn' = conn
    BY <1>10 DEF WriteDebtor
  <2> QED
    BY <1>5, <1>6, <2>1, <2>2
<1>11. CASE Finish(s)
  <2>1. sync' = [sync EXCEPT ![s] = Idle] /\ conn'.since = now
    BY <1>11 DEF Finish
  <2>2. Idle.pc = "idle" /\ Idle.since = 0 /\ Idle.fetched = 0 /\ Idle.todo = {}
    BY DEF Idle
  <2>3. 0 <= now /\ now <= now
    BY <1>0, Numbers
  <2> QED
    BY <1>5, <1>6, <2>1, <2>2, <2>3
<1>12. CASE Fail(s)
  <2>1. sync' = [sync EXCEPT ![s] = Idle] /\ conn'.since = sync[s].since
    BY <1>12 DEF Fail
  <2>2. Idle.pc = "idle" /\ Idle.since = 0 /\ Idle.fetched = 0 /\ Idle.todo = {}
    BY DEF Idle
  <2>3. 0 <= now /\ now <= now
    BY <1>0, Numbers
  <2> QED
    BY <1>5, <1>6, <2>1, <2>2, <2>3
<1> QED
  BY <1>7, <1>8, <1>9, <1>10, <1>11, <1>12 DEF SyncStep

\* A change of the ledger is newer than everything that was fetched or stamped before.
LEMMA LedgerMoves ==
    ASSUME Base, NEW i \in Invoices, NEW open, NEW note,
           now' = now + 1, ledger' = [ledger EXCEPT ![i] = [open |-> open, note |-> note, at |-> now']]
    PROVE  /\ ledger'[i] = [open |-> open, note |-> note, at |-> now + 1] /\ ledger'[i].at = now + 1
           /\ \A j \in Invoices \ {i} : ledger'[j] = ledger[j]
           /\ \A item \in Items : Known(item) => Known(item)' /\ item.at < now + 1
<1>1. Typed
  BY DEF Base
<1>2. /\ ledger'[i] = [open |-> open, note |-> note, at |-> now + 1] /\ ledger'[i].at = now + 1
      /\ \A j \in Invoices \ {i} : ledger'[j] = ledger[j]
  BY <1>1 DEF Typed, TypeOK
<1>3. ASSUME NEW item \in Items, Known(item) PROVE Known(item)' /\ item.at < now + 1
  <2>1. item.invoice \in Invoices /\ item.at \in Nat /\ ledger[item.invoice].at \in Nat /\ now \in Nat
    BY <1>1, Numbers
  <2>2. item.at <= now
    BY <1>3, <2>1 DEF Known, Base, Ages
  <2>3. CASE item.invoice = i
    BY <1>2, <2>1, <2>2, <2>3 DEF Known
  <2>4. CASE item.invoice # i
    BY <1>2, <1>3, <2>1, <2>2, <2>4 DEF Known, Item
  <2> QED
    BY <2>3, <2>4
<1> QED
  BY <1>2, <1>3

LEMMA CarryLedger ==
    ASSUME Base, NEW i \in Invoices, NEW open, NEW note,
           now' = now + 1, ledger' = [ledger EXCEPT ![i] = [open |-> open, note |-> note, at |-> now']],
           sync' = sync, conn' = conn, debtors' = debtors
    PROVE  Ages' /\ Carries'
<1>1. Typed
  BY DEF Base
<1>2. Ages'
  BY <1>1, LedgerMoves, Numbers DEF Base, Ages
<1>3. Carries'
  <2>1. \A s \in Syncs : \A item \in sync[s].todo : item \in Items /\ Known(item)
    BY <1>1, Numbers DEF Base, Carries
  <2>2. \A s \in Syncs : sync[s].pc = "write" => sync[s].item \in Items /\ Known(sync[s].item)
    BY <1>1, Numbers DEF Base, Carries
  <2> QED
    BY <2>1, <2>2, LedgerMoves DEF Base, Carries
<1> QED
  BY <1>2, <1>3

LEMMA BaseNext == ASSUME Base, [Next]_vars PROVE Base'
<1>0. Typed /\ Typed'
  BY NextTyped DEF Base
<1> SUFFICES Ages' /\ Carries'
  BY <1>0 DEF Base
<1>1. ASSUME NEW i \in Invoices, NEW open \in BOOLEAN, NEW note \in Notes, Change(i, open, note)
      PROVE  Ages' /\ Carries'
  BY <1>1, CarryLedger DEF Change
<1>2. ASSUME NEW d \in DOMAIN debtors, NEW full \in BOOLEAN, PushCall(d, full) PROVE Ages' /\ Carries'
  <2>1. debtors[d].invoice \in Invoices
    BY <1>0, Components DEF Typed, Debtor
  <2> QED
    BY <1>2, <2>1, CarryLedger DEF PushCall
<1>3. ASSUME NEW d \in DOMAIN debtors, Settle(d) PROVE Ages' /\ Carries'
  <2>1. \A e \in DOMAIN debtors : debtors'[e].invoice = debtors[e].invoice
    BY InvoicesStay, <1>3 DEF Next
  <2>2. ledger' = ledger /\ sync' = sync /\ conn' = conn /\ now' = now
    BY <1>3 DEF Settle
  <2>3. \A item : Known(item)' <=> Known(item)
    BY <2>2 DEF Known, Item
  <2>4. \A s \in Syncs : sync[s].row > 0 => sync[s].row \in DOMAIN debtors
    BY <1>0 DEF Typed, TypeOK
  <2> QED
    BY <2>1, <2>2, <2>3, <2>4 DEF Base, Ages, Carries
<1>4. ASSUME UNCHANGED <<ledger, now, sync, debtors>>, conn'.since \in {conn.since, now}
      PROVE  Ages' /\ Carries'
  <2>1. \A item : Known(item)' <=> Known(item)
    BY <1>4 DEF Known, Item
  <2>2. conn'.since <= now
    BY <1>0, <1>4, Numbers DEF Base, Ages
  <2> QED
    BY <1>4, <2>1, <2>2 DEF Base, Ages, Carries
<1>5. CASE PushStamp
  <2>1. conn'.since = now
    BY <1>0, <1>5 DEF PushStamp, Typed, TypeOK
  <2> QED
    BY <1>4, <1>5, <2>1 DEF PushStamp
<1>6. CASE DeleteConnection
  <2>1. conn'.since = conn.since
    BY <1>0, <1>6 DEF DeleteConnection, Typed, TypeOK
  <2> QED
    BY <1>4, <1>6, <2>1 DEF DeleteConnection
<1>7. CASE Kill
  <2>1. Idle.pc = "idle" /\ Idle.since = 0 /\ Idle.fetched = 0 /\ Idle.todo = {}
    BY DEF Idle
  <2>2. \A s \in Syncs : sync'[s] = Idle
    BY <1>7 DEF Kill
  <2>3. ledger' = ledger /\ conn' = conn /\ now' = now /\ 0 <= now
    BY <1>0, <1>7, Numbers DEF Kill
  <2> QED
    BY <2>1, <2>2, <2>3 DEF Base, Ages, Carries
<1>8. CASE UNCHANGED vars
  BY <1>4, <1>8 DEF vars
<1> QED
  BY <1>1, <1>2, <1>3, <1>5, <1>6, <1>7, <1>8, CarryStep DEF Next

LEMMA BaseInit == Init => Base
<1> SUFFICES ASSUME Init PROVE Ages /\ Carries
  BY InitTyped DEF Base
<1>1. Idle.pc = "idle" /\ Idle.since = 0 /\ Idle.fetched = 0 /\ Idle.todo = {}
  BY DEF Idle
<1>2. \A s \in Syncs : sync[s] = Idle
  BY DEF Init
<1>3. Ages
  BY <1>1, <1>2 DEF Init, Ages
<1>4. Carries
  BY <1>1, <1>2 DEF Carries
<1> QED
  BY <1>3, <1>4

-----------------------------------------------------------------------------
(* Pushed payments. *)

\* A row that was settled when its payment was pushed belongs to a paid invoice.
PushInv ==
    /\ Base
    /\ \A d \in pushed : Status(ledger[debtors[d].invoice]) = "paid"
    /\ PushedPaymentHolds

LEMMA PushLedger ==
    ASSUME PushInv, NEW i \in Invoices, NEW open \in BOOLEAN, NEW note \in Notes,
           now' = now + 1, ledger' = [ledger EXCEPT ![i] = [open |-> open, note |-> note, at |-> now']],
           debtors' = debtors, NEW kept \in SUBSET pushed,
           \A d \in kept : debtors[d].invoice = i => Status(ledger'[i]) = "paid",
           \A d \in pushed' \ kept : /\ d \in DOMAIN debtors /\ debtors[d].state = "settled"
                                     /\ debtors[d].invoice = i /\ Status(ledger'[i]) = "paid"
    PROVE  /\ \A d \in pushed' : Status(ledger'[debtors'[d].invoice]) = "paid"
           /\ PushedPaymentHolds'
<1>1. \A j \in Invoices \ {i} : ledger'[j] = ledger[j]
  BY LedgerMoves DEF PushInv
<1>2. \A d \in pushed : d \in DOMAIN debtors /\ debtors[d].invoice \in Invoices
  BY Components DEF PushInv, Base, Typed, TypeOK, Debtor
<1>3. \A d \in pushed' : Status(ledger'[debtors'[d].invoice]) = "paid"
  BY <1>1, <1>2 DEF PushInv
<1>4. ASSUME NEW d \in pushed', debtors'[d].state = "pending" PROVE debtors'[d].late
  <2>1. d \in kept
    BY <1>4
  <2> QED
    BY <1>4, <2>1 DEF PushInv, PushedPaymentHolds
<1> QED
  BY <1>3, <1>4 DEF PushedPaymentHolds

LEMMA PushWrite ==
    ASSUME PushInv, NEW s \in Syncs, WriteDebtor(s)
    PROVE  /\ \A d \in pushed' : Status(ledger'[debtors'[d].invoice]) = "paid"
           /\ PushedPaymentHolds'
<1> DEFINE item == sync[s].item
<1>0. Base /\ Typed
  BY DEF PushInv, Base
<1>1. ledger' = ledger /\ pushed' = pushed
  BY DEF WriteDebtor
<1>2. \A d \in DOMAIN debtors : debtors'[d].invoice = debtors[d].invoice
  BY <1>0, InvoicesStay DEF Next, SyncStep
<1>3. pushed \subseteq DOMAIN debtors
  BY <1>0 DEF Typed, TypeOK
<1>4. PICK n \in DOMAIN debtors' :
         /\ debtors'[n] = Synced(item)
         /\ \A d \in DOMAIN debtors' \ {n} : debtors'[d] = debtors[d]
  BY <1>0, WriteTyped
<1>5. item \in Items /\ \A d \in DOMAIN debtors : d \in DOMAIN debtors'
  BY <1>0, WriteTyped
<1>6. Known(item)
  BY <1>0 DEF WriteDebtor, Base, Carries
<1>7. /\ Synced(item).invoice = item.invoice
      /\ Synced(item).state = StateFor(item.status)
      /\ Synced(item).late = (item.at < ledger[item.invoice].at)
  BY <1>0, <1>5, SyncedTyped DEF Typed
<1>8. item.at \in Nat /\ item.invoice \in Invoices /\ ledger[item.invoice].at \in Nat
  BY <1>0, <1>5, Numbers
<1> HIDE DEF item
<1>9. \A d \in pushed' : Status(ledger'[debtors'[d].invoice]) = "paid"
  BY <1>1, <1>2, <1>3 DEF PushInv
<1>10. ASSUME NEW d \in pushed', debtors'[d].state = "pending" PROVE debtors'[d].late
  <2>1. CASE d = n
    <3>1. Status(ledger[item.invoice]) = "paid"
      BY <1>1, <1>4, <1>7, <1>9, <2>1
    <3>2. item.status # "paid"
      BY <1>4, <1>7, <1>10, <2>1 DEF StateFor
    <3>3. item # Item(item.invoice)
      BY <3>1, <3>2 DEF Item
    <3>4. item.at < ledger[item.invoice].at
      BY <1>6, <1>8, <3>3 DEF Known
    <3> QED
      BY <1>4, <1>7, <2>1, <3>4
  <2>2. CASE d # n
    BY <1>1, <1>3, <1>4, <1>5, <1>10, <2>2 DEF PushInv, PushedPaymentHolds
  <2> QED
    BY <2>1, <2>2
<1> QED
  BY <1>9, <1>10 DEF PushedPaymentHolds

LEMMA PushNext == ASSUME PushInv, [Next]_vars PROVE PushInv'
<1>0. Base /\ Base' /\ Typed
  BY BaseNext DEF PushInv, Base
<1> SUFFICES /\ \A d \in pushed' : Status(ledger'[debtors'[d].invoice]) = "paid"
             /\ PushedPaymentHolds'
  BY <1>0 DEF PushInv
<1> DEFINE Goal == /\ \A d \in pushed' : Status(ledger'[debtors'[d].invoice]) = "paid"
                   /\ PushedPaymentHolds'
<1>1. ASSUME NEW i \in Invoices, NEW open \in BOOLEAN, NEW note \in Notes, Change(i, open, note) PROVE Goal
  <2>1. pushed' = pushed \ RowsOf(i) /\ pushed' \in SUBSET pushed
    BY <1>1 DEF Change
  <2>2. \A d \in pushed' : debtors[d].invoice # i
    BY <1>0, <2>1 DEF RowsOf, Typed, TypeOK
  <2>3. /\ now' = now + 1 /\ ledger' = [ledger EXCEPT ![i] = [open |-> open, note |-> note, at |-> now']]
        /\ debtors' = debtors
    BY <1>1 DEF Change
  <2>4. PICK kept \in SUBSET pushed : kept = pushed'
    BY <2>1
  <2>5. /\ \A d \in kept : debtors[d].invoice = i => Status(ledger'[i]) = "paid"
        /\ \A d \in pushed' \ kept : FALSE
    BY <2>2, <2>4
  <2> QED
    BY <2>3, <2>5, PushLedger
<1>2. ASSUME NEW d \in DOMAIN debtors, NEW full \in BOOLEAN, PushCall(d, full) PROVE Goal
  <2> DEFINE i == debtors[d].invoice
  <2>1. i \in Invoices
    BY <1>0, Components DEF Typed, Debtor
  <2>2. /\ now' = now + 1 /\ debtors' = debtors
        /\ ledger' = [ledger EXCEPT ![i] = [open |-> ledger[i].open /\ ~full, note |-> ledger[i].note,
                                            at |-> now']]
        /\ pushed' = IF debtors[d].state = "settled" /\ Status(ledger'[i]) = "paid"
                     THEN pushed \union {d} ELSE pushed
    BY <1>2 DEF PushCall
  <2>3. ledger[i].open \in BOOLEAN /\ ledger[i].note \in Notes
    BY <1>0, <2>1, Components DEF Typed, LedgerRow
  <2>4. \A e \in pushed' \ pushed : e = d /\ debtors[d].state = "settled" /\ Status(ledger'[i]) = "paid"
    BY <2>2
  <2>5. /\ pushed \in SUBSET pushed
        /\ \A e \in pushed' \ pushed : /\ e \in DOMAIN debtors /\ debtors[e].state = "settled"
                                       /\ debtors[e].invoice = i /\ Status(ledger'[i]) = "paid"
    BY <2>4
  <2>6. \A e \in pushed : debtors[e].invoice = i => Status(ledger'[i]) = "paid"
    <3>1. ledger'[i] = [open |-> ledger[i].open /\ ~full, note |-> ledger[i].note, at |-> now']
      BY <1>0, <2>1, <2>2, Components DEF Typed
    <3>2. Status(ledger[i]) = "paid" => Status(ledger'[i]) = "paid"
      BY <2>3, <3>1 DEF Status
    <3> QED
      BY <3>2 DEF PushInv
  <2> HIDE DEF i
  <2>7. PICK open \in BOOLEAN, note \in Notes :
           open = (ledger[i].open /\ ~full) /\ note = ledger[i].note
    BY <2>3
  <2>8. ledger' = [ledger EXCEPT ![i] = [open |-> open, note |-> note, at |-> now']]
    BY <2>2, <2>7
  <2> QED
    BY <2>1, <2>2, <2>5, <2>6, <2>8, PushLedger
<1>3. ASSUME NEW e \in DOMAIN debtors, Settle(e) PROVE Goal
  <2>1. debtors' = [debtors EXCEPT ![e].state = "settled"] /\ pushed' = pushed /\ ledger' = ledger
    BY <1>3 DEF Settle
  <2>2. \A d \in DOMAIN debtors : debtors[d] \in Debtor
    BY <1>0, Components DEF Typed
  <2>3. pushed \subseteq DOMAIN debtors
    BY <1>0 DEF Typed, TypeOK
  <2>4. \A d \in DOMAIN debtors :
            /\ debtors'[d].invoice = debtors[d].invoice /\ debtors'[d].late = debtors[d].late
            /\ debtors'[d].state \in {debtors[d].state, "settled"}
    BY <2>1, <2>2 DEF Debtor
  <2>5. \A d \in pushed' : Status(ledger'[debtors'[d].invoice]) = "paid"
    BY <2>1, <2>3, <2>4 DEF PushInv
  <2>6. ASSUME NEW d \in pushed', debtors'[d].state = "pending" PROVE debtors'[d].late
    <3>1. debtors[d].state = "pending"
      BY <2>1, <2>3, <2>4, <2>6
    <3> QED
      BY <2>1, <2>3, <2>4, <3>1 DEF PushInv, PushedPaymentHolds
  <2> QED
    BY <2>5, <2>6 DEF PushedPaymentHolds
<1>4. ASSUME UNCHANGED <<ledger, debtors, pushed>> PROVE Goal
  BY <1>4 DEF PushInv, PushedPaymentHolds
<1>5. ASSUME NEW s \in Syncs, SyncStep(s) PROVE Goal
  BY <1>4, <1>5, PushWrite DEF SyncStep, Begin, Fetch, Lookup, Finish, Fail
<1>6. PushStamp \/ DeleteConnection \/ Kill \/ UNCHANGED vars => Goal
  BY <1>4 DEF PushStamp, DeleteConnection, Kill, vars
<1> HIDE DEF Goal
<1>7. Goal
  BY <1>1, <1>2, <1>3, <1>5, <1>6 DEF Next
<1> QED
  BY <1>7 DEF Goal

\* For any number of invoices, syncs and faults, any notes and any payments: a settled debtor whose
\* payment was pushed, so that its invoice reads as paid, is pending again only when a sync wrote
\* what it had fetched before the push.
THEOREM PushedPaymentsHold == Spec => []PushedPaymentHolds
<1>1. Init => PushInv
  BY BaseInit DEF Init, PushInv, PushedPaymentHolds
<1>2. PushInv => PushedPaymentHolds
  BY DEF PushInv
<1> QED
  BY <1>1, <1>2, PushNext, PTL DEF Spec

-----------------------------------------------------------------------------
(* Changes that are missed. *)

\* The invoice has a row of its last change, or one was stepped over.
Covered(i) ==
    \/ \E d \in RowsOf(i) : debtors[d].at = ledger[i].at
    \/ i \in slipped

\* What is not covered is newer than the connection's stamp and than what any sync under way
\* has begun from, so that a failed sync, which writes its old stamp back, loses nothing ...
UncoveredIsNew ==
    \A i \in Invoices : Covered(i) \/
        /\ ledger[i].at > conn.since
        /\ \A s \in Syncs : sync[s].pc # "idle" => ledger[i].at > sync[s].since

\* ... and what a sync has fetched it still holds, or it is covered.
FetchedIsHeld ==
    \A s \in Syncs : sync[s].pc \in {"lookup", "write"} =>
        \A i \in Invoices : sync[s].since < ledger[i].at /\ ledger[i].at <= sync[s].fetched =>
            \/ Item(i) \in sync[s].todo
            \/ sync[s].pc = "write" /\ sync[s].item = Item(i)
            \/ Covered(i)

MissInv == Base /\ UncoveredIsNew /\ FetchedIsHeld

\* Writing a debtor covers its invoice and uncovers none.
LEMMA WriteCovers ==
    ASSUME Base, NEW s \in Syncs, WriteDebtor(s)
    PROVE  \A i \in Invoices : i = sync[s].item.invoice \/ Covered(i) => Covered(i)'
<1>0. Typed
  BY DEF Base
<1>4. PICK item \in Items : item = sync[s].item
  BY <1>0, WriteTyped
<1>13. PICK j \in Invoices : j = item.invoice
  BY <1>4 DEF Items
<1>1. ledger' = ledger /\ sync'[s].pc = "lookup"
  BY <1>0 DEF WriteDebtor, Typed, TypeOK
<1>2. \A d \in DOMAIN debtors : d \in DOMAIN debtors' /\ debtors'[d].invoice = debtors[d].invoice
  BY InvoicesStay DEF Next, SyncStep
<1>3. PICK n \in DOMAIN debtors' :
         /\ debtors'[n] = Synced(item)
         /\ \A d \in DOMAIN debtors' \ {n} : debtors'[d] = debtors[d]
  BY <1>0, <1>4, WriteTyped
<1>5. Known(item)
  BY <1>4 DEF WriteDebtor, Base, Carries
<1>6. /\ Synced(item).invoice = j /\ Synced(item).at = item.at
      /\ Synced(item).late = (item.at < ledger[j].at)
  BY <1>0, <1>4, <1>13, SyncedTyped DEF Typed
<1>7. item.at \in Nat /\ j \in Invoices /\ ledger[j].at \in Nat
  BY <1>0, <1>4, Numbers DEF Items
<1>8. slipped' = IF Synced(item).late THEN slipped \union {j} ELSE slipped \ {j}
  BY <1>4, <1>13 DEF WriteDebtor
<1>9. item.at < ledger[j].at \/ item.at = ledger[j].at
  BY <1>5, <1>7, <1>13 DEF Known
<1>10. n \in RowsOf(j)' /\ debtors'[n].at = item.at
  <2>1. n \in DOMAIN debtors' /\ debtors'[n].invoice = j /\ debtors'[n].at = item.at
    BY <1>3, <1>6
  <2> QED
    BY <2>1 DEF RowsOf
<1>11. Covered(j)'
  BY <1>1, <1>6, <1>8, <1>9, <1>10 DEF Covered
<1>12. ASSUME NEW i \in Invoices, i # j, Covered(i) PROVE Covered(i)'
  <2>1. CASE i \in slipped
    BY <1>8, <1>12, <2>1 DEF Covered
  <2>2. ASSUME NEW d \in RowsOf(i), debtors[d].at = ledger[i].at PROVE Covered(i)'
    <3>1. d \in DOMAIN debtors /\ d \in DOMAIN debtors' /\ debtors'[d].invoice = i
      BY <1>2 DEF RowsOf
    <3>2. d # n
      BY <1>3, <1>6, <1>12, <3>1
    <3>3. debtors'[d] = debtors[d] /\ d \in RowsOf(i)'
      BY <1>3, <3>1, <3>2 DEF RowsOf
    <3> QED
      BY <1>1, <2>2, <3>3 DEF Covered
  <2> QED
    BY <1>12, <2>1, <2>2 DEF Covered
<1> QED
  BY <1>4, <1>11, <1>12, <1>13

LEMMA MissStep == ASSUME MissInv, NEW s \in Syncs, SyncStep(s) PROVE UncoveredIsNew' /\ FetchedIsHeld'
<1>0. Base /\ Typed
  BY DEF MissInv, Base
<1>1. ledger' = ledger /\ now' = now /\ \A i : Item(i)' = Item(i)
  BY DEF SyncStep, Begin, Fetch, Lookup, WriteDebtor, Finish, Fail, Item
\* What is to be shown of the thread that moves.
<1>2. ASSUME NEW new, sync' = [sync EXCEPT ![s] = new],
             \A i \in Invoices : Covered(i) => Covered(i)',
             \A i \in Invoices : Covered(i)' \/
                /\ ledger[i].at > conn'.since
                /\ new.pc # "idle" => ledger[i].at > new.since,
             new.pc \in {"lookup", "write"} =>
                \A i \in Invoices : new.since < ledger[i].at /\ ledger[i].at <= new.fetched =>
                    \/ Item(i) \in new.todo
                    \/ new.pc = "write" /\ new.item = Item(i)
                    \/ Covered(i)'
      PROVE  UncoveredIsNew' /\ FetchedIsHeld'
  <2>1. sync'[s] = new /\ \A q \in Syncs \ {s} : sync'[q] = sync[q]
    BY <1>0, <1>2 DEF Typed, TypeOK
  <2>2. ASSUME NEW i \in Invoices
        PROVE  Covered(i)' \/
                /\ ledger'[i].at > conn'.since
                /\ \A q \in Syncs : sync'[q].pc # "idle" => ledger'[i].at > sync'[q].since
    BY <1>1, <1>2, <2>1 DEF MissInv, UncoveredIsNew
  <2>3. ASSUME NEW q \in Syncs, sync'[q].pc \in {"lookup", "write"}, NEW i \in Invoices,
               sync'[q].since < ledger'[i].at, ledger'[i].at <= sync'[q].fetched
        PROVE  \/ Item(i)' \in sync'[q].todo
               \/ sync'[q].pc = "write" /\ sync'[q].item = Item(i)'
               \/ Covered(i)'
    <3>1. CASE q = s
      BY <1>1, <1>2, <2>1, <2>3, <3>1
    <3>2. CASE q # s
      BY <1>1, <1>2, <2>1, <2>3, <3>2 DEF MissInv, FetchedIsHeld
    <3> QED
      BY <3>1, <3>2
  <2> QED
    BY <2>2, <2>3 DEF UncoveredIsNew, FetchedIsHeld
<1>3. ASSUME NEW i \in Invoices, UNCHANGED <<debtors, slipped>> PROVE Covered(i) <=> Covered(i)'
  BY <1>1, <1>3 DEF Covered, RowsOf
<1>4. \A i \in Invoices : Covered(i) \/
        /\ ledger[i].at > conn.since
        /\ sync[s].pc # "idle" => ledger[i].at > sync[s].since
  BY DEF MissInv, UncoveredIsNew
<1>5. sync[s].pc \in {"lookup", "write"} =>
        \A i \in Invoices : sync[s].since < ledger[i].at /\ ledger[i].at <= sync[s].fetched =>
            \/ Item(i) \in sync[s].todo
            \/ sync[s].pc = "write" /\ sync[s].item = Item(i)
            \/ Covered(i)
  BY DEF MissInv, FetchedIsHeld
<1>6. CASE Begin(s)
  <2>1. PICK new \in Thread : /\ sync' = [sync EXCEPT ![s] = new]
                              /\ new.pc = "fetch" /\ new.since = conn.since
    BY <1>0, <1>6, BeginTyped
  <2>2. UNCHANGED <<debtors, slipped>> /\ conn' = conn
    BY <1>6 DEF Begin
  <2> QED
    BY <1>2, <1>3, <1>4, <2>1, <2>2
<1>7. CASE Fetch(s)
  <2>1. PICK new \in Thread :
              /\ sync' = [sync EXCEPT ![s] = new]
              /\ new.pc = "lookup" /\ new.since = sync[s].since /\ new.fetched = now
              /\ new.todo = {Item(i) : i \in ChangedSince(sync[s].since)}
    BY <1>0, <1>7, FetchTyped
  <2>2. UNCHANGED <<debtors, slipped>> /\ conn' = conn /\ sync[s].pc = "fetch"
    BY <1>7 DEF Fetch
  <2>3. ASSUME NEW i \in Invoices, new.since < ledger[i].at PROVE Item(i) \in new.todo
    <3>1. ledger[i].at > sync[s].since
      BY <1>0, <2>1, <2>3, Numbers
    <3> QED
      BY <2>1, <3>1 DEF ChangedSince
  <2> QED
    BY <1>2, <1>3, <1>4, <2>1, <2>2, <2>3
<1>8. ASSUME NEW item \in sync[s].todo, Lookup(s, item) PROVE UncoveredIsNew' /\ FetchedIsHeld'
  <2>1. PICK new \in Thread :
              /\ sync' = [sync EXCEPT ![s] = new]
              /\ new.pc = "write" /\ new.since = sync[s].since
              /\ new.fetched = sync[s].fetched
              /\ new.todo = sync[s].todo \ {item} /\ new.item = item
    BY <1>0, <1>8, LookupTyped
  <2>2. UNCHANGED <<debtors, slipped>> /\ conn' = conn /\ sync[s].pc = "lookup"
    BY <1>8 DEF Lookup
  <2>3. ASSUME NEW i \in Invoices, new.since < ledger[i].at, ledger[i].at <= new.fetched
        PROVE  Item(i) \in new.todo \/ new.item = Item(i) \/ Covered(i)'
    BY <1>3, <1>5, <2>1, <2>2, <2>3
  <2> QED
    BY <1>2, <1>3, <1>4, <2>1, <2>2, <2>3
<1>9. CASE WriteDebtor(s)
  <2>1. PICK new \in Thread :
              /\ sync' = [sync EXCEPT ![s] = new]
              /\ new.pc = "lookup" /\ new.since = sync[s].since
              /\ new.fetched = sync[s].fetched
              /\ new.todo = sync[s].todo
    BY <1>0, <1>9, WriteTyped
  <2>2. conn' = conn /\ sync[s].pc = "write"
    BY <1>9 DEF WriteDebtor
  <2>3. \A i \in Invoices : i = sync[s].item.invoice \/ Covered(i) => Covered(i)'
    BY <1>0, <1>9, WriteCovers
  <2>4. ASSUME NEW i \in Invoices, new.since < ledger[i].at, ledger[i].at <= new.fetched
        PROVE  Item(i) \in new.todo \/ Covered(i)'
    <3>1. CASE sync[s].item = Item(i)
      <4>1. i = sync[s].item.invoice
        BY <3>1 DEF Item
      <4> QED
        BY <2>3, <4>1
    <3>2. CASE sync[s].item # Item(i)
      BY <1>5, <2>1, <2>2, <2>3, <2>4, <3>2
    <3> QED
      BY <3>1, <3>2
  <2> QED
    BY <1>2, <1>4, <2>1, <2>2, <2>3, <2>4
<1>10. CASE Finish(s)
  <2>1. sync' = [sync EXCEPT ![s] = Idle] /\ debtors' = debtors /\ Idle.pc = "idle"
    BY <1>10 DEF Finish, Idle
  <2>2. /\ sync[s].pc = "lookup" /\ sync[s].todo = {}
        /\ slipped' = slipped \union ChangedSince(sync[s].fetched)
    BY <1>10 DEF Finish
  <2>3. \A i \in Invoices : Covered(i) => Covered(i)'
    BY <1>1, <2>1, <2>2 DEF Covered, RowsOf
  <2>4. ASSUME NEW i \in Invoices PROVE Covered(i)'
    <3>1. ledger[i].at \in Nat /\ sync[s].fetched \in Nat /\ sync[s].since \in Nat
      BY <1>0, Numbers
    <3>2. CASE Covered(i)
      BY <2>3, <3>2
    <3>3. CASE ~Covered(i) /\ ledger[i].at > sync[s].fetched
      BY <2>2, <3>3 DEF Covered, ChangedSince
    <3>4. CASE ~Covered(i) /\ ~(ledger[i].at > sync[s].fetched)
      <4>1. sync[s].since < ledger[i].at /\ ledger[i].at <= sync[s].fetched
        BY <1>4, <2>2, <3>1, <3>4
      <4> QED
        BY <1>5, <2>2, <3>4, <4>1
    <3> QED
      BY <3>2, <3>3, <3>4
  <2> QED
    BY <1>2, <2>1, <2>3, <2>4
<1>11. CASE Fail(s)
  <2>1. /\ sync' = [sync EXCEPT ![s] = Idle] /\ Idle.pc = "idle"
        /\ conn'.since = sync[s].since /\ sync[s].pc # "idle"
    BY <1>11 DEF Fail, Idle
  <2>2. UNCHANGED <<debtors, slipped>>
    BY <1>11 DEF Fail
  <2> QED
    BY <1>2, <1>3, <1>4, <2>1, <2>2
<1> QED
  BY <1>6, <1>7, <1>8, <1>9, <1>10, <1>11 DEF SyncStep

LEMMA MissLedger ==
    ASSUME MissInv, NEW i \in Invoices, NEW open, NEW note,
           now' = now + 1, ledger' = [ledger EXCEPT ![i] = [open |-> open, note |-> note, at |-> now']],
           slipped' = slipped \ {i}, sync' = sync, conn' = conn, debtors' = debtors
    PROVE  UncoveredIsNew' /\ FetchedIsHeld'
<1>0. Base /\ Typed
  BY DEF MissInv, Base
<1>1. ledger'[i].at = now + 1 /\ \A j \in Invoices \ {i} : ledger'[j] = ledger[j]
  BY <1>0, LedgerMoves
<1>2. \A j \in Invoices \ {i} : Item(j)' = Item(j) /\ (Covered(j) => Covered(j)')
  BY <1>1 DEF Item, Covered, RowsOf
<1>3. /\ now + 1 > conn.since
      /\ \A s \in Syncs : now + 1 > sync[s].since /\ ~(now + 1 <= sync[s].fetched)
  BY <1>0, Numbers DEF Base, Ages
<1>4. UncoveredIsNew'
  <2> SUFFICES ASSUME NEW j \in Invoices
               PROVE  Covered(j)' \/
                        /\ ledger'[j].at > conn'.since
                        /\ \A s \in Syncs : sync'[s].pc # "idle" => ledger'[j].at > sync'[s].since
    BY DEF UncoveredIsNew
  <2>1. CASE j = i
    BY <1>1, <1>3, <2>1
  <2>2. CASE j # i
    BY <1>1, <1>2, <2>2 DEF MissInv, UncoveredIsNew
  <2> QED
    BY <2>1, <2>2
<1>5. FetchedIsHeld'
  <2> SUFFICES ASSUME NEW s \in Syncs, sync[s].pc \in {"lookup", "write"}, NEW j \in Invoices,
                      sync[s].since < ledger'[j].at, ledger'[j].at <= sync[s].fetched
               PROVE  \/ Item(j)' \in sync[s].todo
                      \/ sync[s].pc = "write" /\ sync[s].item = Item(j)'
                      \/ Covered(j)'
    BY DEF FetchedIsHeld
  <2>1. j # i
    BY <1>1, <1>3
  <2> QED
    BY <1>1, <1>2, <2>1 DEF MissInv, FetchedIsHeld
<1> QED
  BY <1>4, <1>5

LEMMA MissNext == ASSUME MissInv, [Next]_vars PROVE MissInv'
<1>0. Base /\ Base' /\ Typed
  BY BaseNext DEF MissInv, Base
<1> SUFFICES UncoveredIsNew' /\ FetchedIsHeld'
  BY <1>0 DEF MissInv
<1>1. ASSUME NEW i \in Invoices, NEW open \in BOOLEAN, NEW note \in Notes, Change(i, open, note)
      PROVE  UncoveredIsNew' /\ FetchedIsHeld'
  BY <1>1, MissLedger DEF Change
<1>2. ASSUME NEW d \in DOMAIN debtors, NEW full \in BOOLEAN, PushCall(d, full)
      PROVE  UncoveredIsNew' /\ FetchedIsHeld'
  <2>1. debtors[d].invoice \in Invoices
    BY <1>0, Components DEF Typed, Debtor
  <2> QED
    BY <1>2, <2>1, MissLedger DEF PushCall
<1>3. ASSUME ledger' = ledger, \A i \in Invoices : Covered(i) => Covered(i)',
             sync' = sync \/ \A s \in Syncs : sync'[s].pc = "idle",
             \A i \in Invoices : Covered(i)' \/ ledger[i].at > conn'.since
      PROVE  UncoveredIsNew' /\ FetchedIsHeld'
  <2>1. \A i : Item(i)' = Item(i)
    BY <1>3 DEF Item
  <2>2. UncoveredIsNew'
    BY <1>3 DEF MissInv, UncoveredIsNew
  <2>3. FetchedIsHeld'
    BY <1>3, <2>1 DEF MissInv, FetchedIsHeld
  <2> QED
    BY <2>2, <2>3
<1>4. \A i \in Invoices : Covered(i) \/ ledger[i].at > conn.since
  BY DEF MissInv, UncoveredIsNew
<1>5. ASSUME NEW e \in DOMAIN debtors, Settle(e) PROVE UncoveredIsNew' /\ FetchedIsHeld'
  <2>1. debtors' = [debtors EXCEPT ![e].state = "settled"] /\ debtors[e] \in Debtor
    BY <1>0, <1>5, Components DEF Settle, Typed
  <2>2. /\ DOMAIN debtors' = DOMAIN debtors
        /\ \A d \in DOMAIN debtors :
              debtors'[d].invoice = debtors[d].invoice /\ debtors'[d].at = debtors[d].at
    BY <2>1 DEF Debtor
  <2>3. ledger' = ledger /\ slipped' = slipped /\ sync' = sync /\ conn' = conn
    BY <1>5 DEF Settle
  <2>4. \A i \in Invoices : Covered(i) => Covered(i)'
    BY <2>2, <2>3 DEF Covered, RowsOf
  <2> QED
    BY <1>3, <1>4, <2>3, <2>4
<1>6. CASE PushStamp
  <2>1. /\ ledger' = ledger /\ debtors' = debtors /\ sync' = sync
        /\ slipped' = slipped \union ChangedSince(conn.since)
    BY <1>6 DEF PushStamp
  <2>2. \A i \in Invoices : Covered(i)'
    BY <1>4, <2>1 DEF Covered, RowsOf, ChangedSince
  <2> QED
    BY <1>3, <2>1, <2>2
<1>7. ASSUME UNCHANGED <<ledger, debtors, slipped>>, conn'.since = conn.since,
             sync' = sync \/ \A s \in Syncs : sync'[s].pc = "idle"
      PROVE  UncoveredIsNew' /\ FetchedIsHeld'
  <2>1. \A i \in Invoices : Covered(i) => Covered(i)'
    BY <1>7 DEF Covered, RowsOf
  <2> QED
    BY <1>3, <1>4, <1>7, <2>1
<1>8. CASE DeleteConnection
  <2>1. conn'.since = conn.since
    BY <1>0, <1>8 DEF DeleteConnection, Typed, TypeOK
  <2> QED
    BY <1>7, <1>8, <2>1 DEF DeleteConnection
<1>9. CASE Kill
  BY <1>7, <1>9 DEF Kill, Idle
<1>10. CASE UNCHANGED vars
  BY <1>7, <1>10 DEF vars
<1> QED
  BY <1>1, <1>2, <1>5, <1>6, <1>8, <1>9, <1>10, MissStep DEF Next

\* For any number of invoices, syncs and faults: a row or the next sync has every change of the
\* ledger that no sync or push has stepped over.
THEOREM ChangesArrive == Spec => []OnlySlippedChangesAreMissed
<1>1. Init => MissInv
  <2> SUFFICES ASSUME Init PROVE UncoveredIsNew /\ FetchedIsHeld
    BY BaseInit DEF MissInv
  <2>1. \A s \in Syncs : sync[s].pc = "idle"
    BY DEF Init, Idle
  <2>2. \A i \in Invoices : ledger[i].at > conn.since
    BY DEF Init
  <2> QED
    BY <2>1, <2>2 DEF UncoveredIsNew, FetchedIsHeld
<1>2. MissInv => OnlySlippedChangesAreMissed
  BY DEF MissInv, UncoveredIsNew, OnlySlippedChangesAreMissed, OnItsWay, Covered
<1> QED
  BY <1>1, <1>2, MissNext, PTL DEF Spec

-----------------------------------------------------------------------------
(* Two debtors of one invoice. *)

Unique == \A d, e \in DOMAIN debtors : debtors[d].invoice = debtors[e].invoice => d = e

\* Only one sync is under way, and an invoice it has found no row of has none.
OneSync == \A s, q \in Syncs : sync[s].pc # "idle" /\ sync[q].pc # "idle" => s = q
LookedWell ==
    \A s \in Syncs : sync[s].pc = "write" /\ sync[s].row = 0 =>
        \A d \in DOMAIN debtors : debtors[d].invoice # sync[s].item.invoice

DupInv == Base /\ (~overlapped => Unique /\ OneSync /\ LookedWell)

\* A step that adds no row and changes no invoice's number.
LEMMA DupRows ==
    ASSUME DupInv, Base', ~overlapped,
           DOMAIN debtors' = DOMAIN debtors,
           \A d \in DOMAIN debtors : debtors'[d].invoice = debtors[d].invoice
    PROVE  /\ Unique'
           /\ sync' = sync \/ (\A s \in Syncs : sync'[s].pc = "idle") => OneSync' /\ LookedWell'
<1>1. Unique'
  BY DEF DupInv, Unique
<1>2. CASE sync' = sync
  BY <1>1, <1>2 DEF DupInv, OneSync, LookedWell
<1>3. CASE \A s \in Syncs : sync'[s].pc = "idle"
  BY <1>1, <1>3 DEF OneSync, LookedWell
<1> QED
  BY <1>1, <1>2, <1>3

LEMMA DupSync ==
    ASSUME DupInv, NEW s \in Syncs, SyncStep(s), ~overlapped'
    PROVE  Unique' /\ OneSync' /\ LookedWell'
<1>0. Base /\ Typed
  BY DEF DupInv, Base
<1>1. ~overlapped
  BY DEF SyncStep, Begin, Fetch, Lookup, WriteDebtor, Finish, Fail
<1>2. Unique /\ OneSync /\ LookedWell
  BY <1>1 DEF DupInv
\* What is to be shown of the thread that moves.
<1>3. ASSUME NEW new, sync' = [sync EXCEPT ![s] = new], debtors' = debtors,
             new.pc # "idle" => \A q \in Syncs \ {s} : sync[q].pc = "idle",
             new.pc = "write" /\ new.row = 0 =>
                \A d \in DOMAIN debtors : debtors[d].invoice # new.item.invoice
      PROVE  Unique' /\ OneSync' /\ LookedWell'
  <2>1. sync'[s] = new /\ \A q \in Syncs \ {s} : sync'[q] = sync[q]
    BY <1>0, <1>3 DEF Typed, TypeOK
  <2>2. Unique'
    BY <1>2, <1>3 DEF Unique
  <2>3. OneSync'
    BY <1>2, <1>3, <2>1 DEF OneSync
  <2>4. LookedWell'
    BY <1>2, <1>3, <2>1 DEF LookedWell
  <2> QED
    BY <2>2, <2>3, <2>4
<1>4. sync[s].pc # "idle" => \A q \in Syncs \ {s} : sync[q].pc = "idle"
  BY <1>2 DEF OneSync
<1>5. CASE Begin(s)
  <2>1. PICK new \in Thread : sync' = [sync EXCEPT ![s] = new] /\ new.pc = "fetch"
    BY <1>0, <1>5, BeginTyped
  <2>2. debtors' = debtors /\ \A q \in Syncs : sync[q].pc = "idle"
    BY <1>5 DEF Begin
  <2> QED
    BY <1>3, <2>1, <2>2
<1>6. CASE Fetch(s)
  <2>1. PICK new \in Thread : sync' = [sync EXCEPT ![s] = new] /\ new.pc = "lookup"
    BY <1>0, <1>6, FetchTyped
  <2>2. debtors' = debtors /\ sync[s].pc = "fetch"
    BY <1>6 DEF Fetch
  <2> QED
    BY <1>3, <1>4, <2>1, <2>2
<1>7. ASSUME NEW item \in sync[s].todo, Lookup(s, item)
      PROVE  Unique' /\ OneSync' /\ LookedWell'
  <2>1. PICK new \in Thread :
              /\ sync' = [sync EXCEPT ![s] = new]
              /\ new.pc = "write" /\ new.item = item
              /\ IF RowsOf(item.invoice) = {} THEN new.row = 0
                 ELSE new.row \in RowsOf(item.invoice)
    BY <1>0, <1>7, LookupTyped
  <2>2. debtors' = debtors /\ sync[s].pc = "lookup"
    BY <1>7 DEF Lookup
  <2>3. \A d \in DOMAIN debtors : d \in Nat \ {0}
    BY <1>0, Components DEF Typed
  <2>4. ASSUME new.row = 0, NEW d \in DOMAIN debtors PROVE debtors[d].invoice # new.item.invoice
    BY <2>1, <2>3, <2>4 DEF RowsOf
  <2> QED
    BY <1>3, <1>4, <2>1, <2>2, <2>4
<1>8. CASE WriteDebtor(s)
  <2>1. PICK new \in Thread : sync' = [sync EXCEPT ![s] = new] /\ new.pc = "lookup"
    BY <1>0, <1>8, WriteTyped
  <2>2. PICK item \in Items : item = sync[s].item
    BY <1>0, <1>8, WriteTyped
  <2>3. PICK n \in DOMAIN debtors' :
              /\ debtors'[n] = Synced(item)
              /\ n = IF sync[s].row > 0 THEN sync[s].row ELSE Len(debtors) + 1
              /\ \A d \in DOMAIN debtors' \ {n} : d \in DOMAIN debtors /\ debtors'[d] = debtors[d]
    BY <1>0, <1>8, <2>2, WriteTyped
  <2>4. debtors'[n].invoice = item.invoice
    BY <2>3 DEF Synced
  <2>5. sync[s].pc = "write" /\ sync[s].row \in Nat
    BY <1>0, <1>8 DEF WriteDebtor, Typed, TypeOK
  \* Another row of the invoice would be another row found, or found though there was none.
  <2>6. ASSUME NEW d \in DOMAIN debtors' \ {n} PROVE debtors'[d].invoice # item.invoice
    <3>1. d \in DOMAIN debtors /\ debtors'[d] = debtors[d]
      BY <2>3, <2>6
    <3>2. CASE sync[s].row = 0
      BY <1>2, <2>2, <2>5, <3>1, <3>2 DEF LookedWell
    <3>3. CASE sync[s].row > 0
      <4>1. n = sync[s].row /\ n \in DOMAIN debtors /\ debtors[n].invoice = item.invoice
        BY <1>0, <2>2, <2>3, <2>5, <3>3 DEF Base, Carries, Typed, TypeOK
      <4> QED
        BY <1>2, <2>6, <3>1, <4>1 DEF Unique
    <3> QED
      BY <2>5, <3>2, <3>3
  <2>7. \A d \in DOMAIN debtors' \ {n} : d \in DOMAIN debtors /\ debtors'[d].invoice = debtors[d].invoice
    BY <2>3
  <2>8. ASSUME NEW d \in DOMAIN debtors', NEW e \in DOMAIN debtors',
               debtors'[d].invoice = debtors'[e].invoice
        PROVE  d = e
    <3>1. CASE d = n \/ e = n
      BY <2>4, <2>6, <2>8, <3>1
    <3>2. CASE d # n /\ e # n
      BY <1>2, <2>7, <2>8, <3>2 DEF Unique
    <3> QED
      BY <3>1, <3>2
  <2>9. Unique'
    BY <2>8 DEF Unique
  <2>10. sync'[s].pc = "lookup" /\ \A q \in Syncs \ {s} : sync'[q].pc = "idle"
    BY <1>0, <1>4, <2>1, <2>5 DEF Typed, TypeOK
  <2>11. OneSync' /\ LookedWell'
    BY <2>10 DEF OneSync, LookedWell
  <2> QED
    BY <2>9, <2>11
<1>9. CASE Finish(s) \/ Fail(s)
  <2>1. sync' = [sync EXCEPT ![s] = Idle] /\ debtors' = debtors /\ Idle.pc = "idle"
    BY <1>9 DEF Finish, Fail, Idle
  <2> QED
    BY <1>3, <2>1
<1> QED
  BY <1>5, <1>6, <1>7, <1>8, <1>9 DEF SyncStep

LEMMA DupNext == ASSUME DupInv, [Next]_vars PROVE DupInv'
<1>0. Base /\ Base' /\ Typed
  BY BaseNext DEF DupInv, Base
<1> SUFFICES ASSUME ~overlapped' PROVE Unique' /\ OneSync' /\ LookedWell'
  BY <1>0 DEF DupInv
<1>1. ASSUME NEW s \in Syncs, SyncStep(s) PROVE Unique' /\ OneSync' /\ LookedWell'
  BY <1>1, DupSync
<1>2. ASSUME overlapped' = overlapped, debtors' = debtors,
             sync' = sync \/ \A s \in Syncs : sync'[s].pc = "idle"
      PROVE  Unique' /\ OneSync' /\ LookedWell'
  BY <1>0, <1>2, DupRows
<1>3. ASSUME NEW d \in DOMAIN debtors, Settle(d) PROVE Unique' /\ OneSync' /\ LookedWell'
  <2>1. debtors' = [debtors EXCEPT ![d].state = "settled"] /\ debtors[d] \in Debtor
    BY <1>0, <1>3, Components DEF Settle, Typed
  <2>2. /\ DOMAIN debtors' = DOMAIN debtors
        /\ \A e \in DOMAIN debtors : debtors'[e].invoice = debtors[e].invoice
    BY <2>1 DEF Debtor
  <2>3. overlapped' = overlapped /\ sync' = sync
    BY <1>3 DEF Settle
  <2> QED
    BY <1>0, <2>2, <2>3, DupRows
<1>4. CASE (\E i \in Invoices, open \in BOOLEAN, note \in Notes : Change(i, open, note))
           \/ (\E d \in DOMAIN debtors, full \in BOOLEAN : PushCall(d, full))
           \/ PushStamp \/ DeleteConnection \/ UNCHANGED vars
  BY <1>2, <1>4 DEF Change, PushCall, PushStamp, DeleteConnection, vars
<1>5. CASE Kill
  BY <1>2, <1>5 DEF Kill, Idle
<1> QED
  BY <1>1, <1>3, <1>4, <1>5 DEF Next

\* For any number of invoices, syncs and faults: an invoice has two debtors only when two syncs
\* have been under way together.
THEOREM DuplicatesOverlap == Spec => []DuplicatesNeedOverlap
<1>1. Init => DupInv
  <2> SUFFICES ASSUME Init PROVE Unique /\ OneSync /\ LookedWell
    BY BaseInit DEF DupInv
  <2>1. (\A s \in Syncs : sync[s].pc = "idle") /\ debtors = <<>>
    BY DEF Init, Idle
  <2> QED
    BY <2>1 DEF Unique, OneSync, LookedWell
<1>2. DupInv => DuplicatesNeedOverlap
  <2> SUFFICES ASSUME Unique, NEW i \in Invoices PROVE Cardinality(RowsOf(i)) <= 1
    BY DEF DupInv, DuplicatesNeedOverlap
  <2>1. CASE RowsOf(i) = {}
    BY <2>1, FS_EmptySet
  <2>2. ASSUME NEW d \in RowsOf(i) PROVE Cardinality(RowsOf(i)) <= 1
    <3>1. RowsOf(i) = {d}
      BY <2>2 DEF RowsOf, Unique
    <3>2. Cardinality({d}) = 1
      BY FS_Singleton
    <3> QED
      BY <3>1, <3>2
  <2> QED
    BY <2>1, <2>2
<1> QED
  BY <1>1, <1>2, DupNext, PTL DEF Spec

=============================================================================
