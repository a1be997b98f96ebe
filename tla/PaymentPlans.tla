---------------------------- MODULE PaymentPlans ----------------------------
(***************************************************************************)
(* Instalment plans (payment_plans.py): one PaymentPlanNegotiator holds    *)
(* them in memory, and the server's request threads accept plans, record   *)
(* payments and look for overdue instalments in it, without a lock.        *)
(*                                                                         *)
(* Time is counted in days from the first plan; a step is one read or      *)
(* write of a plan.                                                        *)
(***************************************************************************)
EXTENDS Naturals, Sequences, Functions, FiniteSetsExt

CONSTANTS
    Plans,         \* plan ids
    Debtors,
    Payers,        \* threads in record_payment()
    Checkers,      \* threads in check_overdue()
    NoPlan,        \* a thread that serves no plan
    Amounts,       \* what a plan may be about, in cents
    Counts,        \* how many instalments may be agreed
    Payments,      \* what may be paid, in cents
    Interval,      \* days between instalments
    Grace,         \* grace_days
    MaxTime,       \* bound: days
    MaxPayments    \* bound: payments taken

ASSUME PaymentPlansAssumption ==
    /\ NoPlan \notin Plans
    /\ Amounts \subseteq Nat
    /\ Counts \subseteq Nat \ {0}
    /\ Payments \subseteq Nat \ {0}
    /\ {Interval, Grace, MaxTime, MaxPayments} \subseteq Nat

VARIABLES
    plans,       \* _plans: the plans accepted so far
    order,       \* the order in which _plans iterates
    now,         \* the day
    payer,       \* the threads that record a payment
    checker,     \* the threads that look for overdue instalments
    received,    \* history: cents paid on each plan
    taken,       \* history: how many payments each plan took
    crowded,     \* history: plans that took two payments at the same time
    raced        \* history: plans judged while they took a payment

vars == <<plans, order, now, payer, checker, received, taken, crowded, raced>>
history == <<received, taken, crowded, raced>>

IdlePayer == [plan |-> NoPlan, unpaid |-> {}, left |-> 0]
IdleChecker == [pc |-> "idle", todo |-> {}, today |-> 0, next |-> 1, overdue |-> 0]

Init ==
    /\ plans = <<>>
    /\ order = <<>>
    /\ now = 0
    /\ payer = [t \in Payers |-> IdlePayer]
    /\ checker = [c \in Checkers |-> IdleChecker]
    /\ received = [p \in Plans |-> 0] /\ taken = [p \in Plans |-> 0]
    /\ crowded = {} /\ raced = {}

Accepted == DOMAIN plans
Active(p) == plans[p].status = "active"
Instalments(p) == DOMAIN plans[p].instalments
FullyPaid(p) == \A k \in Instalments(p) : plans[p].instalments[k].paid
PaidCents(p) == SumFunction([k \in Instalments(p) |-> plans[p].instalments[k].paid_cents])
BeingPaid(p) == \E t \in Payers : payer[t].plan = p

\* The plan a check has come to: todo holds positions in the order.
Visited(c) == order[Min(checker[c].todo)]
BeingJudged(p) == \E c \in Checkers : checker[c].pc = "look" /\ Visited(c) = p

(***************************************************************************)
(* accept_plan()                                                           *)
(***************************************************************************)

\* The first instalments take a cent each of the remainder.
Schedule(amount, n) ==
    [k \in 1..n |-> [cents |-> amount \div n + (IF k <= amount % n THEN 1 ELSE 0),
                     due |-> now + Interval * k, paid |-> FALSE, paid_cents |-> 0]]

AcceptPlan(p, debtor, amount, n) ==
    /\ p \notin Accepted
    /\ plans' = [q \in Accepted \union {p} |->
                   IF q = p THEN [debtor |-> debtor, total |-> amount, status |-> "active",
                                  instalments |-> Schedule(amount, n)]
                   ELSE plans[q]]
    /\ order' = Append(order, p)
    /\ UNCHANGED <<now, payer, checker, history>>

(***************************************************************************)
(* record_payment()                                                        *)
(***************************************************************************)

Unpaid(p) == {k \in Instalments(p) : ~plans[p].instalments[k].paid}

\* The status is checked and the unpaid instalments are listed; without one the call raises.
BeginPayment(t, p, cents) ==
    /\ payer[t] = IdlePayer
    /\ p \in Accepted /\ Active(p) /\ ~FullyPaid(p)
    /\ taken[p] < MaxPayments
    /\ payer' = [payer EXCEPT ![t] = [plan |-> p, unpaid |-> Unpaid(p), left |-> cents]]
    /\ received' = [received EXCEPT ![p] = @ + cents]
    /\ taken' = [taken EXCEPT ![p] = @ + 1]
    /\ crowded' = IF BeingPaid(p) THEN crowded \union {p} ELSE crowded
    /\ raced' = IF BeingJudged(p) THEN raced \union {p} ELSE raced
    /\ UNCHANGED <<plans, order, now, checker>>

\* Mutant: a payment settles one instalment only.
MarkOne(t) ==
    /\ payer[t].left > 0 /\ payer[t].unpaid # {}
    /\ LET p == payer[t].plan
           k == Min(payer[t].unpaid)
           due == plans[p].instalments[k].cents IN
       /\ plans' = [plans EXCEPT
            ![p].instalments[k] = [@ EXCEPT !.paid = TRUE, !.paid_cents = due]]
       /\ payer' = [payer EXCEPT ![t].unpaid = @ \ {k}, ![t].left = 0]
    /\ UNCHANGED <<order, now, checker, history>>

\* An instalment counts as paid in full as soon as a cent is left for it.
MarkPaid(t) ==
    /\ payer[t].left > 0 /\ payer[t].unpaid # {}
    /\ LET p == payer[t].plan
           k == Min(payer[t].unpaid)
           due == plans[p].instalments[k].cents IN
       /\ plans' = [plans EXCEPT
            ![p].instalments[k] = [@ EXCEPT !.paid = TRUE, !.paid_cents = due]]
       /\ payer' = [payer EXCEPT ![t].unpaid = @ \ {k},
                                 ![t].left = IF @ < due THEN 0 ELSE @ - due]
    /\ UNCHANGED <<order, now, checker, history>>

\* A plan whose instalments are all paid is completed, whatever its status is by now.
EndPayment(t) ==
    /\ payer[t].plan # NoPlan
    /\ payer[t].left = 0 \/ payer[t].unpaid = {}
    /\ LET p == payer[t].plan IN
       plans' = IF FullyPaid(p) THEN [plans EXCEPT ![p].status = "completed"] ELSE plans
    /\ payer' = [payer EXCEPT ![t] = IdlePayer]
    /\ UNCHANGED <<order, now, checker, history>>

(***************************************************************************)
(* check_overdue()                                                         *)
(***************************************************************************)

\* Of all debtors, or of one.
BeginCheck(c, debtors) ==
    /\ checker[c].pc = "idle"
    /\ checker' = [checker EXCEPT
         ![c].pc = "visit", ![c].today = now,
         ![c].todo = {k \in DOMAIN order : plans[order[k]].debtor \in debtors}]
    /\ UNCHANGED <<plans, order, now, payer, history>>

\* Mutant: a plan's status is not looked at.
VisitAny(c) ==
    /\ checker[c].pc = "visit" /\ checker[c].todo # {}
    /\ LET p == Visited(c) IN
       /\ checker' = [checker EXCEPT ![c].pc = "look", ![c].next = 1]
       /\ raced' = IF BeingPaid(p) THEN raced \union {p} ELSE raced
    /\ UNCHANGED <<plans, order, now, payer, received, taken, crowded>>

\* A plan that is not active is passed over.
Visit(c) ==
    /\ checker[c].pc = "visit" /\ checker[c].todo # {}
    /\ LET p == Visited(c) IN
       /\ checker' = IF Active(p) THEN [checker EXCEPT ![c].pc = "look", ![c].next = 1]
                     ELSE [checker EXCEPT ![c].todo = @ \ {Min(@)}]
       /\ raced' = IF Active(p) /\ BeingPaid(p) THEN raced \union {p} ELSE raced
    /\ UNCHANGED <<plans, order, now, payer, received, taken, crowded>>

\* now > grace_end compares the time with a midnight: the day itself is already late.
Late(c, instalment) == ~instalment.paid /\ checker[c].today >= instalment.due + Grace

\* The list of overdue instalments goes on from one plan to the next.
Look(c) ==
    /\ checker[c].pc = "look"
    /\ LET p == Visited(c)
           k == checker[c].next IN
       /\ k \in Instalments(p)
       /\ checker' = [checker EXCEPT
            ![c].next = k + 1,
            ![c].overdue = @ + IF Late(c, plans[p].instalments[k]) THEN 1 ELSE 0]
    /\ UNCHANGED <<plans, order, now, payer, history>>

\* "Auto-default": the status is written whatever it is by now.
Judge(c) ==
    /\ checker[c].pc = "look"
    /\ LET p == Visited(c) IN
       /\ checker[c].next \notin Instalments(p)
       /\ plans' = IF checker[c].overdue >= Len(plans[p].instalments)
                   THEN [plans EXCEPT ![p].status = "defaulted"] ELSE plans
    /\ checker' = [checker EXCEPT ![c].pc = "visit", ![c].todo = @ \ {Min(@)}]
    /\ UNCHANGED <<order, now, payer, history>>

EndCheck(c) ==
    /\ checker[c].pc = "visit" /\ checker[c].todo = {}
    /\ checker' = [checker EXCEPT ![c] = IdleChecker]
    /\ UNCHANGED <<plans, order, now, payer, history>>

Tick ==
    /\ now < MaxTime
    /\ now' = now + 1
    /\ UNCHANGED <<plans, order, payer, checker, history>>

Next ==
    \/ \E p \in Plans, debtor \in Debtors, amount \in Amounts, n \in Counts :
          AcceptPlan(p, debtor, amount, n)
    \/ \E t \in Payers : \/ \E p \in Plans, cents \in Payments : BeginPayment(t, p, cents)
                         \/ MarkPaid(t) \/ EndPayment(t)
    \/ \E c \in Checkers : \/ \E debtors \in {Debtors} \union {{d} : d \in Debtors} :
                                 BeginCheck(c, debtors)
                           \/ Visit(c) \/ Look(c) \/ Judge(c) \/ EndCheck(c)
    \/ Tick

Spec == Init /\ [][Next]_vars

(***************************************************************************)
(* Properties                                                              *)
(***************************************************************************)

Statuses == {"active", "completed", "defaulted"}
Instalment == [cents : Nat, due : Nat, paid : BOOLEAN, paid_cents : Nat]
Plan == [debtor : Debtors, total : Nat, status : Statuses, instalments : Seq(Instalment)]

\* The type invariant.
TypeOK ==
    /\ Accepted \subseteq Plans
    /\ plans \in [Accepted -> Plan]
    /\ order \in Seq(Accepted)
    /\ now \in 0..MaxTime
    /\ payer \in [Payers -> [plan : Accepted \union {NoPlan}, unpaid : SUBSET (Nat \ {0}), left : Nat]]
    /\ \A t \in Payers : payer[t].plan # NoPlan => payer[t].unpaid \subseteq Instalments(payer[t].plan)
    /\ checker \in [Checkers -> [pc : {"idle", "visit", "look"}, todo : SUBSET DOMAIN order,
                                 today : 0..MaxTime, next : Nat \ {0}, overdue : Nat]]
    /\ \A c \in Checkers : checker[c].pc = "look" => checker[c].todo # {}
    /\ received \in [Plans -> Nat] /\ taken \in [Plans -> 0..MaxPayments]
    /\ crowded \subseteq Plans /\ raced \subseteq Plans

Largest(p) == Max({plans[p].instalments[k].cents : k \in Instalments(p)} \union {1})

\* Between payments, a plan that took them one by one credits what it received, up to its
\* total, and never more than the rest of one instalment per payment beyond it: two payments
\* that list the same unpaid instalments are credited once (payment_plans.py:207, :219).
ReceiptsAreCredited ==
    \A p \in Accepted \ crowded : ~BeingPaid(p) =>
        /\ PaidCents(p) >= received[p] \/ PaidCents(p) = plans[p].total
        /\ PaidCents(p) <= received[p] + taken[p] * (Largest(p) - 1)

\* A completed plan is paid, and a paid plan is completed: it can only be defaulted by a check
\* that met it while it was being paid (payment_plans.py:222, :260).
PaidPlanIsCompleted ==
    \A p \in Accepted :
        /\ plans[p].status = "completed" => FullyPaid(p)
        /\ FullyPaid(p) /\ ~BeingPaid(p) => plans[p].status = "completed" \/ p \in raced
=============================================================================
