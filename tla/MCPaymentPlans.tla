--------------------------- MODULE MCPaymentPlans ---------------------------
\* Two plans of one debtor, two payments at a time and one check over three days.
EXTENDS PaymentPlans, TLC

CONSTANTS p1, p2, d1, t1, t2, c1

MCPlans == {p1, p2}
MCDebtors == {d1}
MCPayers == {t1, t2}
MCCheckers == {c1}
MCAmounts == {3}
MCCounts == {1, 2}
MCPayments == {1, 3}
Symmetric == Permutations(MCPlans) \union Permutations(MCPayers)
=============================================================================
