-------------------------- MODULE MCAccountingSync --------------------------
\* Two syncs over one invoice with any note, one fault, and two moments for events of the
\* ledger after the first.
EXTENDS AccountingSync, TLC

CONSTANTS i1, s1, s2

MCInvoices == {i1}
MCNotes == {"none", "paid", "other"}
MCSyncs == {s1, s2}
Symmetric == Permutations(MCSyncs)
=============================================================================
