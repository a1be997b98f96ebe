SPECIFICATION Spec
CONSTANTS
    i1 = i1
    s1 = s1
    s2 = s2
    Invoices <- MCInvoices
    Notes <- MCNotes
    Syncs <- MCSyncs
    MaxTime = 3
    MaxFaults = 1
SYMMETRY Symmetric
INVARIANTS
    OnlySlippedChangesAreMissed
    DuplicatesNeedOverlap
    PushedPaymentHolds
CHECK_DEADLOCK FALSE
