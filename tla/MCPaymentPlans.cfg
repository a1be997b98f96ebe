SPECIFICATION Spec
CONSTANTS
    p1 = p1
    p2 = p2
    d1 = d1
    t1 = t1
    t2 = t2
    c1 = c1
    NoPlan = NoPlan
    Plans <- MCPlans
    Debtors <- MCDebtors
    Payers <- MCPayers
    Checkers <- MCCheckers
    Amounts <- MCAmounts
    Counts <- MCCounts
    Payments <- MCPayments
    Interval = 1
    Grace = 0
    MaxTime = 2
    MaxPayments = 2
SYMMETRY Symmetric
INVARIANTS
    ReceiptsAreCredited
    PaidPlanIsCompleted
CHECK_DEADLOCK FALSE
