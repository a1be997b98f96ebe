------------------------- MODULE PaymentPlansProofs -------------------------
(***************************************************************************)
(* Theorems about PaymentPlans for any plans, amounts, payments and        *)
(* request threads, and their proofs.                                      *)
(***************************************************************************)
EXTENDS PaymentPlans, FiniteSetTheorems, NaturalsInduction, WellFoundedInduction, TLAPS

Payer == [plan : Accepted \union {NoPlan}, unpaid : SUBSET (Nat \ {0}), left : Nat]
Checker == [pc : {"idle", "visit", "look"}, todo : SUBSET DOMAIN order,
            today : 0..MaxTime, next : Nat \ {0}, overdue : Nat]

\* A thread that serves no plan is as it was at the start.
IdleIsIdle == \A t \in Payers : payer[t].plan = NoPlan => payer[t].left = 0 /\ payer[t].unpaid = {}

Typed == TypeOK /\ IdleIsIdle

-----------------------------------------------------------------------------
(* Sets of positions, plans and records. *)

LEMMA SmallestNumber ==
    ASSUME NEW S, S # {}, S \subseteq Nat PROVE \E k \in S : \A l \in S : k <= l
<1> DEFINE Less == {pair \in Nat \X Nat : pair[1] < pair[2]}
<1>1. IsWellFoundedOn(Less, Nat)
  BY NatLessThanWellFounded DEF OpToRel
<1>2. PICK k \in S : \A l \in S : ~(<<l, k>> \in Less)
  <2> HIDE DEF Less
  <2> QED
    BY <1>1, WFMin
<1>3. ASSUME NEW l \in S PROVE k <= l
  <2>1. k \in Nat /\ l \in Nat /\ <<l, k>> \in Nat \X Nat
    OBVIOUS
  <2>2. ~(l < k)
    BY <1>2, <2>1
  <2> QED
    BY <2>1, <2>2
<1> QED
  BY <1>3

LEMMA LeastExists == ASSUME NEW S, S # {}, S \subseteq Nat PROVE Min(S) \in S
BY SmallestNumber DEF Min

LEMMA Parts ==
    ASSUME TypeOK
    PROVE  /\ \A p \in Accepted : plans[p] \in Plan
           /\ \A p \in Accepted : plans[p].instalments \in Seq(Instalment)
           /\ \A t \in Payers : payer[t] \in Payer
           /\ \A c \in Checkers : checker[c] \in Checker
           /\ payer \in [Payers -> Payer] /\ checker \in [Checkers -> Checker]
<1>1. /\ plans \in [Accepted -> Plan] /\ payer \in [Payers -> Payer]
      /\ checker \in [Checkers -> Checker]
  BY DEF TypeOK, Payer, Checker
<1>2. \A p \in Plan : p.instalments \in Seq(Instalment)
  <2> HIDE DEF Instalment
  <2> QED
    BY DEF Plan
<1> HIDE DEF Plan, Payer, Checker
<1> QED
  BY <1>1, <1>2

LEMMA Order ==
    ASSUME TypeOK
    PROVE  /\ order \in Seq(Accepted) /\ DOMAIN order = 1..Len(order) /\ DOMAIN order \subseteq Nat
           /\ \A k \in DOMAIN order : order[k] \in Accepted
<1>1. order \in Seq(Accepted)
  BY DEF TypeOK
<1> HIDE DEF Accepted
<1> QED
  BY <1>1

LEMMA Visiting ==
    ASSUME TypeOK, NEW c \in Checkers, checker[c].todo # {}
    PROVE  Visited(c) \in Accepted /\ Min(checker[c].todo) \in checker[c].todo
<1>1. checker[c].todo \subseteq DOMAIN order
  BY Parts DEF Checker
<1>2. Min(checker[c].todo) \in checker[c].todo
  BY <1>1, LeastExists, Order
<1> QED
  BY <1>1, <1>2, Order DEF Visited

\* One plan's new record.
LEMMA OnePlan ==
    ASSUME TypeOK, NEW p \in Accepted, NEW new \in Plan, plans' = [plans EXCEPT ![p] = new]
    PROVE  /\ Accepted' = Accepted /\ plans' \in [Accepted -> Plan]
           /\ plans'[p] = new /\ \A q \in Accepted \ {p} : plans'[q] = plans[q]
<1> HIDE DEF Plan
<1> QED
  BY DEF TypeOK, Accepted

LEMMA NewStatus ==
    ASSUME TypeOK, NEW p \in Accepted, NEW status \in Statuses,
           plans' = [plans EXCEPT ![p].status = status]
    PROVE  /\ Accepted' = Accepted /\ plans' \in [Accepted -> Plan]
           /\ plans'[p].status = status /\ plans'[p].instalments = plans[p].instalments
           /\ plans'[p].total = plans[p].total
           /\ \A q \in Accepted \ {p} : plans'[q] = plans[q]
<1> DEFINE new == [plans[p] EXCEPT !.status = status]
<1>1. /\ new \in Plan /\ new.status = status /\ new.instalments = plans[p].instalments
      /\ new.total = plans[p].total
  BY Parts DEF Plan
<1>2. plans' = [plans EXCEPT ![p] = new]
  OBVIOUS
<1> HIDE DEF new
<1> QED
  BY <1>1, <1>2, OnePlan

\* A step marks instalment k of plan p as paid, with due, and changes no other instalment.
MarkedAs(p, k, due) ==
    /\ Accepted' = Accepted /\ plans' \in [Accepted -> Plan]
    /\ plans'[p].status = plans[p].status /\ plans'[p].total = plans[p].total
    /\ DOMAIN plans'[p].instalments = Instalments(p)
    /\ plans'[p].instalments[k].paid
    /\ plans'[p].instalments[k].paid_cents = due /\ plans'[p].instalments[k].cents = due
    /\ \A j \in Instalments(p) \ {k} : plans'[p].instalments[j] = plans[p].instalments[j]
    /\ \A q \in Accepted \ {p} : plans'[q] = plans[q]

LEMMA Marked ==
    ASSUME TypeOK, NEW p \in Accepted, NEW k \in Instalments(p), NEW due, due = plans[p].instalments[k].cents,
           plans' = [plans EXCEPT ![p].instalments[k] = [@ EXCEPT !.paid = TRUE, !.paid_cents = due]]
    PROVE  due \in Nat /\ MarkedAs(p, k, due)
<1> DEFINE old == plans[p].instalments
           row == [old[k] EXCEPT !.paid = TRUE, !.paid_cents = due]
           all == [old EXCEPT ![k] = row]
           new == [plans[p] EXCEPT !.instalments = all]
<1>1. plans[p] \in Plan /\ old \in Seq(Instalment) /\ k \in DOMAIN old
  BY Parts DEF Instalments
<1>2. old[k] \in Instalment
  <2> HIDE DEF Instalment, old
  <2> QED
    BY <1>1
<1>3. due \in Nat
  BY <1>2 DEF Instalment
<1>4. row \in Instalment /\ row.paid /\ row.paid_cents = due /\ row.cents = due
  BY <1>2, <1>3 DEF Instalment
<1>5. /\ all \in Seq(Instalment) /\ DOMAIN all = DOMAIN old /\ all[k] = row
      /\ \A j \in DOMAIN old : j # k => all[j] = old[j]
  <2> HIDE DEF Instalment, old, row
  <2> QED
    BY <1>1, <1>4
<1>6. /\ new \in Plan /\ new.status = plans[p].status /\ new.instalments = all
      /\ new.total = plans[p].total
  <2> HIDE DEF Instalment, all, old, row
  <2> QED
    BY <1>1, <1>5 DEF Plan
<1>7. plans' = [plans EXCEPT ![p] = new]
  <2> HIDE DEF Instalment
  <2> QED
    BY <1>1
<1> HIDE DEF new, all, row
<1>8. /\ Accepted' = Accepted /\ plans' \in [Accepted -> Plan] /\ plans'[p] = new
      /\ \A q \in Accepted \ {p} : plans'[q] = plans[q]
  BY <1>6, <1>7, OnePlan
<1> QED
  BY <1>3, <1>4, <1>5, <1>6, <1>8 DEF MarkedAs, Instalments, old

-----------------------------------------------------------------------------
(* Type correctness. *)

LEMMA ScheduleTyped ==
    ASSUME TypeOK, NEW amount \in Amounts, NEW n \in Counts
    PROVE  /\ Schedule(amount, n) \in Seq(Instalment) /\ DOMAIN Schedule(amount, n) = 1..n
           /\ 1 \in 1..n /\ \A k \in 1..n : ~Schedule(amount, n)[k].paid
<1>1. amount \in Nat /\ n \in Nat \ {0} /\ Interval \in Nat /\ now \in Nat
  BY PaymentPlansAssumption DEF TypeOK
<1>2. amount \div n \in Nat
  BY <1>1
<1>3. \A k \in 1..n : amount \div n + (IF k <= amount % n THEN 1 ELSE 0) \in Nat
  BY <1>2
<1>4. \A k \in 1..n : now + Interval * k \in Nat
  BY <1>1
<1> DEFINE row(k) == [cents |-> amount \div n + (IF k <= amount % n THEN 1 ELSE 0),
                      due |-> now + Interval * k, paid |-> FALSE, paid_cents |-> 0]
<1>5. \A k \in 1..n : row(k) \in Instalment /\ ~row(k).paid
  BY <1>3, <1>4 DEF Instalment
<1>6. Schedule(amount, n) = [k \in 1..n |-> row(k)]
  BY DEF Schedule
<1> HIDE DEF row, Instalment
<1>7. [k \in 1..n |-> row(k)] \in Seq(Instalment)
  BY <1>1, <1>5
<1> QED
  BY <1>1, <1>5, <1>6, <1>7

LEMMA AcceptTyped ==
    ASSUME Typed, NEW p \in Plans, NEW debtor \in Debtors, NEW amount \in Amounts, NEW n \in Counts,
           AcceptPlan(p, debtor, amount, n)
    PROVE  Typed'
<1>0. TypeOK
  BY DEF Typed
<1> DEFINE new == [debtor |-> debtor, total |-> amount, status |-> "active",
                   instalments |-> Schedule(amount, n)]
<1>1. new \in Plan
  <2>1. amount \in Nat /\ Schedule(amount, n) \in Seq(Instalment)
    BY <1>0, ScheduleTyped, PaymentPlansAssumption
  <2> HIDE DEF Instalment
  <2> QED
    BY <2>1 DEF Plan, Statuses
<1>2. /\ plans' = [q \in Accepted \union {p} |-> IF q = p THEN new ELSE plans[q]]
      /\ order' = Append(order, p) /\ p \notin Accepted
      /\ UNCHANGED <<now, payer, checker, received, taken, crowded, raced>>
  BY DEF AcceptPlan, history
<1> HIDE DEF new
<1>3. Accepted' = Accepted \union {p} /\ \A q \in Accepted : plans'[q] = plans[q]
  BY <1>2 DEF Accepted
<1>4. plans' \in [Accepted' -> Plan] /\ Accepted' \subseteq Plans
  <2> HIDE DEF Plan
  <2>1. \A q \in Accepted : plans[q] \in Plan
    BY <1>0, Parts
  <2>2. Accepted' \subseteq Plans
    BY <1>0, <1>3 DEF TypeOK
  <2>3. plans' \in [Accepted \union {p} -> Plan]
    BY <1>1, <1>2, <2>1
  <2> QED
    BY <1>3, <2>2, <2>3
<1>5. /\ order' \in Seq(Accepted') /\ DOMAIN order \subseteq DOMAIN order'
      /\ \A k \in DOMAIN order : order'[k] = order[k]
  <2> PICK A : A = Accepted'
    OBVIOUS
  <2>1. order \in Seq(A) /\ p \in A
    <3>1. order \in Seq(Accepted) /\ Accepted \subseteq A
      BY <1>0, <1>3, Order
    <3> HIDE DEF Accepted
    <3> QED
      BY <1>3, <3>1
  <2>2. /\ Append(order, p) \in Seq(A) /\ DOMAIN Append(order, p) = 1..(Len(order) + 1)
        /\ DOMAIN order = 1..Len(order) /\ Len(order) \in Nat
        /\ \A k \in 1..Len(order) : Append(order, p)[k] = order[k]
    BY <2>1
  <2>3. 1..Len(order) \subseteq 1..(Len(order) + 1)
    BY <2>2
  <2> QED
    BY <1>2, <2>2, <2>3
<1>6. payer' \in [Payers -> Payer'] /\ checker' \in [Checkers -> Checker']
  <2>1. payer \in [Payers -> Payer] /\ checker \in [Checkers -> Checker]
    BY <1>0, Parts
  <2>2. Payer \subseteq Payer'
    BY <1>3 DEF Payer
  <2>3. Checker \subseteq Checker'
    BY <1>2, <1>5 DEF Checker
  <2> HIDE DEF Payer, Checker
  <2> QED
    BY <1>2, <2>1, <2>2, <2>3
<1>7. \A t \in Payers : payer'[t].plan # NoPlan => payer'[t].unpaid \subseteq Instalments(payer[t].plan)'
  <2> SUFFICES ASSUME NEW t \in Payers, payer[t].plan # NoPlan
               PROVE  payer[t].unpaid \subseteq DOMAIN plans'[payer[t].plan].instalments
    BY <1>2 DEF Instalments
  <2>1. payer[t].plan \in Accepted
    BY <1>0, Parts DEF Payer
  <2> QED
    BY <1>0, <1>3, <2>1 DEF TypeOK, Instalments
<1>8. TypeOK'
  BY <1>0, <1>2, <1>4, <1>5, <1>6, <1>7 DEF TypeOK, Payer, Checker
<1>9. IdleIsIdle'
  BY <1>2 DEF Typed, IdleIsIdle
<1> QED
  BY <1>8, <1>9 DEF Typed

\* What every other action keeps: the plans accepted and how many instalments each has.
PlansKept ==
    /\ Accepted' = Accepted /\ plans' \in [Accepted -> Plan] /\ order' = order
    /\ \A p \in Accepted : Instalments(p)' = Instalments(p)

LEMMA KeepsTypes ==
    ASSUME Typed, PlansKept, now' \in 0..MaxTime,
           payer' \in [Payers -> Payer], checker' \in [Checkers -> Checker],
           \A t \in Payers : payer'[t] = payer[t] \/
              /\ payer'[t].plan # NoPlan => payer'[t].unpaid \subseteq Instalments(payer'[t].plan)
              /\ payer'[t].plan = NoPlan => payer'[t].left = 0 /\ payer'[t].unpaid = {},
           \A c \in Checkers : checker'[c].pc = "look" => checker'[c].todo # {},
           received' \in [Plans -> Nat], taken' \in [Plans -> 0..MaxPayments],
           crowded' \subseteq Plans, raced' \subseteq Plans
    PROVE  Typed'
<1>0. TypeOK
  BY DEF Typed
<1>1. Payer' = Payer /\ Checker' = Checker
  BY DEF PlansKept, Payer, Checker
<1>2. \A t \in Payers : payer'[t].plan # NoPlan => payer'[t].unpaid \subseteq Instalments(payer[t].plan)'
  <2> SUFFICES ASSUME NEW t \in Payers, payer'[t].plan # NoPlan
               PROVE  payer'[t].unpaid \subseteq DOMAIN plans'[payer'[t].plan].instalments
    BY DEF Instalments
  <2>1. payer'[t].plan \in Accepted
    BY DEF Payer
  <2>2. DOMAIN plans'[payer'[t].plan].instalments = Instalments(payer'[t].plan)
    BY <2>1 DEF PlansKept, Instalments
  <2>3. payer'[t].unpaid \subseteq Instalments(payer'[t].plan)
    BY <1>0 DEF TypeOK
  <2> QED
    BY <2>2, <2>3
<1>3. IdleIsIdle'
  BY DEF Typed, IdleIsIdle
<1>4. order' \in Seq(Accepted')
  BY <1>0, Order DEF PlansKept
<1>5. plans' \in [Accepted' -> Plan] /\ Accepted' \subseteq Plans
  BY <1>0 DEF PlansKept, TypeOK
<1>6. TypeOK'
  BY <1>1, <1>2, <1>4, <1>5 DEF TypeOK, Payer, Checker
<1> QED
  BY <1>3, <1>6 DEF Typed

LEMMA Untouched ==
    ASSUME Typed
    PROVE  /\ plans' = plans /\ order' = order => PlansKept
           /\ payer \in [Payers -> Payer] /\ checker \in [Checkers -> Checker]
           /\ \A c \in Checkers : checker[c].pc = "look" => checker[c].todo # {}
           /\ now \in 0..MaxTime /\ received \in [Plans -> Nat] /\ taken \in [Plans -> 0..MaxPayments]
           /\ crowded \subseteq Plans /\ raced \subseteq Plans
<1>1. plans' = plans /\ order' = order => PlansKept
  BY DEF Typed, TypeOK, PlansKept, Accepted, Instalments
<1> QED
  BY <1>1, Parts DEF Typed, TypeOK

LEMMA BeginPaymentTyped ==
    ASSUME Typed, NEW t \in Payers, NEW p \in Plans, NEW cents \in Payments, BeginPayment(t, p, cents)
    PROVE  Typed'
<1>0. TypeOK
  BY DEF Typed
<1> DEFINE new == [plan |-> p, unpaid |-> Unpaid(p), left |-> cents]
<1>1. p \in Accepted /\ cents \in Nat
  BY PaymentPlansAssumption DEF BeginPayment
<1>2. Unpaid(p) \subseteq Instalments(p) /\ Instalments(p) \subseteq Nat \ {0}
  <2>1. plans[p].instalments \in Seq(Instalment)
    BY <1>0, <1>1, Parts
  <2>2. Instalments(p) \subseteq Nat \ {0}
    <3> HIDE DEF Instalment
    <3> QED
      BY <2>1 DEF Instalments
  <2> QED
    BY <2>2 DEF Unpaid
<1>3. new \in Payer /\ new.plan = p /\ new.unpaid = Unpaid(p)
  BY <1>1, <1>2 DEF Payer
<1>4. payer' = [payer EXCEPT ![t] = new] /\ UNCHANGED <<plans, order, now, checker>>
  BY DEF BeginPayment
<1> HIDE DEF new
<1>5. payer' \in [Payers -> Payer] /\ payer'[t] = new /\ \A u \in Payers \ {t} : payer'[u] = payer[u]
  <2> HIDE DEF Payer
  <2> QED
    BY <1>3, <1>4, Untouched
<1>6. p # NoPlan
  BY <1>0, <1>1, PaymentPlansAssumption DEF TypeOK
<1>7. received' \in [Plans -> Nat] /\ taken' \in [Plans -> 0..MaxPayments]
  <2>1. received[p] + cents \in Nat /\ taken[p] + 1 \in 0..MaxPayments
    BY <1>0, <1>1, PaymentPlansAssumption DEF BeginPayment, TypeOK
  <2> QED
    BY <1>0, <2>1 DEF BeginPayment, TypeOK
<1>8. crowded' \subseteq Plans /\ raced' \subseteq Plans
  BY <1>0 DEF BeginPayment, TypeOK
<1> QED
  BY <1>2, <1>3, <1>4, <1>5, <1>6, <1>7, <1>8, KeepsTypes, Untouched

\* MarkPaid() marks an instalment of the plan the thread serves.
Marks(t, p, k, due, new) ==
    /\ p = payer[t].plan /\ k \in payer[t].unpaid /\ payer[t].left > 0
    /\ MarkedAs(p, k, due) /\ due = plans[p].instalments[k].cents
    /\ payer' = [payer EXCEPT ![t] = new]
    /\ new.plan = p /\ new.unpaid = payer[t].unpaid \ {k}
    /\ new.left = IF payer[t].left < due THEN 0 ELSE payer[t].left - due

LEMMA MarkPaidMarks ==
    ASSUME Typed, NEW t \in Payers, MarkPaid(t)
    PROVE  \E p \in Accepted :
              \E k \in Instalments(p), due \in Nat, new \in Payer : Marks(t, p, k, due, new)
<1>0. TypeOK /\ payer[t] \in Payer
  BY Parts DEF Typed
<1>1. payer[t].left > 0 /\ payer[t].unpaid # {}
  BY DEF MarkPaid
<1>2. payer[t].plan # NoPlan
  BY <1>1 DEF Typed, IdleIsIdle
<1>3. PICK p \in Accepted : p = payer[t].plan
  BY <1>0, <1>2 DEF Payer
<1>4. payer[t].unpaid \subseteq Instalments(p) /\ payer[t].unpaid \subseteq Nat
  BY <1>0, <1>2, <1>3 DEF TypeOK, Payer
<1>5. PICK k \in Instalments(p) : k = Min(payer[t].unpaid) /\ k \in payer[t].unpaid
  BY <1>1, <1>4, LeastExists
<1>6. PICK due : due = plans[p].instalments[k].cents
  OBVIOUS
<1>7. plans' = [plans EXCEPT ![p].instalments[k] = [@ EXCEPT !.paid = TRUE, !.paid_cents = due]]
  BY <1>3, <1>5, <1>6 DEF MarkPaid
<1>8. due \in Nat /\ MarkedAs(p, k, due)
  BY <1>0, <1>6, <1>7, Marked
<1>9. payer' = [payer EXCEPT ![t].unpaid = @ \ {k}, ![t].left = IF @ < due THEN 0 ELSE @ - due]
  BY <1>3, <1>5, <1>6 DEF MarkPaid
<1>10. PICK left \in Nat : left = IF payer[t].left < due THEN 0 ELSE payer[t].left - due
  BY <1>0, <1>8 DEF Payer
<1>11. payer' = [payer EXCEPT ![t].unpaid = @ \ {k}, ![t].left = left]
  BY <1>9, <1>10
<1> DEFINE new == [payer[t] EXCEPT !.unpaid = @ \ {k}, !.left = left]
<1>12. new \in Payer /\ new.plan = p /\ new.unpaid = payer[t].unpaid \ {k} /\ new.left = left
  BY <1>0, <1>3 DEF Payer
<1>13. payer' = [payer EXCEPT ![t] = new]
  BY <1>11
<1> HIDE DEF new
<1> QED
  BY <1>1, <1>3, <1>5, <1>6, <1>8, <1>10, <1>12, <1>13 DEF Marks

LEMMA MarkPaidTyped == ASSUME Typed, NEW t \in Payers, MarkPaid(t) PROVE Typed' /\ PlansKept
<1>0. TypeOK /\ payer[t] \in Payer
  BY Parts DEF Typed
<1>1. PICK p \in Accepted : \E k \in Instalments(p), due \in Nat, new \in Payer : Marks(t, p, k, due, new)
  BY MarkPaidMarks
<1>2. PICK k \in Instalments(p), due \in Nat, new \in Payer : Marks(t, p, k, due, new)
  BY <1>1
<1>3. order' = order /\ now' = now /\ checker' = checker /\ UNCHANGED history
  BY DEF MarkPaid
<1>4. PlansKept
  <2>1. /\ Accepted' = Accepted /\ plans' \in [Accepted -> Plan]
        /\ DOMAIN plans'[p].instalments = Instalments(p)
        /\ \A q \in Accepted \ {p} : plans'[q] = plans[q]
    BY <1>2 DEF Marks, MarkedAs
  <2>2. \A q \in Accepted : DOMAIN plans'[q].instalments = Instalments(q)
    BY <2>1 DEF Instalments
  <2> QED
    BY <1>3, <2>1, <2>2 DEF PlansKept, Instalments
<1>5. payer' \in [Payers -> Payer] /\ payer'[t] = new /\ \A u \in Payers \ {t} : payer'[u] = payer[u]
  <2> HIDE DEF Payer
  <2> QED
    BY <1>2, Untouched DEF Marks
<1>6. p # NoPlan /\ payer[t].unpaid \subseteq Instalments(p)
  BY <1>0, <1>2, PaymentPlansAssumption DEF Marks, TypeOK
<1> QED
  BY <1>2, <1>3, <1>4, <1>5, <1>6, KeepsTypes, Untouched DEF Marks, history

LEMMA EndPaymentTyped == ASSUME Typed, NEW t \in Payers, EndPayment(t) PROVE Typed' /\ PlansKept
<1>0. TypeOK
  BY DEF Typed
<1>1. PICK p \in Accepted : p = payer[t].plan
  BY <1>0, Parts DEF EndPayment, Payer
<1>2. PlansKept
  <2>1. CASE plans' = plans
    BY <2>1, Untouched DEF EndPayment
  <2>2. CASE plans' = [plans EXCEPT ![p].status = "completed"]
    <3>1. /\ Accepted' = Accepted /\ plans' \in [Accepted -> Plan]
          /\ \A q \in Accepted : plans'[q].instalments = plans[q].instalments
      BY <1>0, <2>2, NewStatus DEF Statuses
    <3> QED
      BY <3>1 DEF PlansKept, Instalments, EndPayment
  <2> QED
    BY <1>1, <2>1, <2>2 DEF EndPayment
<1>3. IdlePayer \in Payer /\ IdlePayer.plan = NoPlan /\ IdlePayer.left = 0 /\ IdlePayer.unpaid = {}
  BY DEF IdlePayer, Payer
<1>4. /\ payer' \in [Payers -> Payer] /\ payer'[t] = IdlePayer
      /\ \A u \in Payers \ {t} : payer'[u] = payer[u]
  <2> HIDE DEF Payer, IdlePayer
  <2> QED
    BY <1>3, Untouched DEF EndPayment
<1> QED
  BY <1>2, <1>3, <1>4, KeepsTypes, Untouched DEF EndPayment, history

LEMMA CheckerStep ==
    ASSUME Typed, PlansKept, NEW c \in Checkers, NEW new \in Checker,
           new.pc = "look" => new.todo # {},
           checker' = [checker EXCEPT ![c] = new], UNCHANGED <<now, payer, received, taken, crowded>>,
           raced' \subseteq Plans
    PROVE  Typed'
<1>1. /\ checker' \in [Checkers -> Checker] /\ checker'[c] = new
      /\ \A d \in Checkers \ {c} : checker'[d] = checker[d]
  <2> HIDE DEF Checker
  <2> QED
    BY Untouched
<1> QED
  BY <1>1, KeepsTypes, Untouched

LEMMA BeginCheckTyped ==
    ASSUME Typed, NEW c \in Checkers, NEW debtors, BeginCheck(c, debtors)
    PROVE  Typed'
<1>0. TypeOK /\ checker[c] \in Checker /\ now \in 0..MaxTime /\ checker \in [Checkers -> Checker]
  BY Parts, Untouched DEF Typed
<1>1. PICK todo \in SUBSET DOMAIN order :
         checker' = [checker EXCEPT ![c].pc = "visit", ![c].today = now, ![c].todo = todo]
  BY DEF BeginCheck
<1> DEFINE new == [checker[c] EXCEPT !.pc = "visit", !.today = now, !.todo = todo]
<1>2. new \in Checker /\ new.pc = "visit"
  BY <1>0 DEF Checker
<1>3. checker' = [checker EXCEPT ![c] = new]
  BY <1>1
<1>4. UNCHANGED <<plans, order, now, payer, received, taken, crowded, raced>>
  BY DEF BeginCheck, history
<1> HIDE DEF new
<1> QED
  BY <1>2, <1>3, <1>4, CheckerStep, Untouched

LEMMA VisitTyped == ASSUME Typed, NEW c \in Checkers, Visit(c) PROVE Typed'
<1>0. TypeOK /\ checker[c] \in Checker /\ checker \in [Checkers -> Checker] /\ raced \subseteq Plans
  BY Parts, Untouched DEF Typed
<1>1. Visited(c) \in Accepted /\ checker[c].todo # {}
  BY <1>0, Visiting DEF Visit
<1>2. /\ UNCHANGED <<plans, order, now, payer, received, taken, crowded>>
      /\ raced' \subseteq Plans
  BY <1>0, <1>1 DEF Visit, TypeOK
<1>3. PICK new \in Checker : /\ checker' = [checker EXCEPT ![c] = new]
                             /\ new.pc = "look" => new.todo # {}
  <2>1. CASE checker' = [checker EXCEPT ![c].pc = "look", ![c].next = 1]
    <3> DEFINE new == [checker[c] EXCEPT !.pc = "look", !.next = 1]
    <3>1. new \in Checker /\ new.todo = checker[c].todo
      <4>1. 1 \in Nat \ {0} /\ checker[c] \in Checker
        BY <1>0
      <4> QED
        BY <4>1 DEF Checker
    <3>2. checker' = [checker EXCEPT ![c] = new]
      BY <2>1
    <3> HIDE DEF new
    <3> QED
      BY <1>1, <3>1, <3>2
  <2>2. CASE checker' = [checker EXCEPT ![c].todo = @ \ {Min(@)}]
    <3> DEFINE new == [checker[c] EXCEPT !.todo = @ \ {Min(@)}]
    <3>1. new \in Checker /\ new.pc = checker[c].pc
      BY <1>0 DEF Checker
    <3>2. checker' = [checker EXCEPT ![c] = new]
      BY <2>2
    <3>3. checker[c].pc = "visit"
      BY DEF Visit
    <3> HIDE DEF new
    <3> QED
      BY <3>1, <3>2, <3>3
  <2> QED
    BY <2>1, <2>2 DEF Visit
<1> QED
  BY <1>2, <1>3, CheckerStep, Untouched

LEMMA LookTyped == ASSUME Typed, NEW c \in Checkers, Look(c) PROVE Typed'
<1>0. /\ TypeOK /\ checker[c] \in Checker /\ checker \in [Checkers -> Checker]
      /\ checker[c].todo # {}
  BY Parts, Untouched DEF Typed, Look
<1>1. PICK late \in {0, 1} :
         checker' = [checker EXCEPT ![c].next = checker[c].next + 1, ![c].overdue = @ + late]
  BY DEF Look
<1> DEFINE new == [checker[c] EXCEPT !.next = checker[c].next + 1, !.overdue = @ + late]
<1>2. new \in Checker /\ new.todo = checker[c].todo
  <2>1. /\ checker[c].next \in Nat \ {0} /\ checker[c].overdue \in Nat
        /\ checker[c].next + 1 \in Nat \ {0} /\ checker[c].overdue + late \in Nat
    BY <1>0 DEF Checker
  <2> QED
    BY <1>0, <2>1 DEF Checker
<1>3. checker' = [checker EXCEPT ![c] = new]
  BY <1>1
<1>4. UNCHANGED <<plans, order, now, payer, received, taken, crowded, raced>>
  BY DEF Look, history
<1> HIDE DEF new
<1> QED
  BY <1>0, <1>2, <1>3, <1>4, CheckerStep, Untouched

LEMMA JudgeTyped == ASSUME Typed, NEW c \in Checkers, Judge(c) PROVE Typed' /\ PlansKept
<1>0. /\ TypeOK /\ checker[c] \in Checker /\ checker \in [Checkers -> Checker]
      /\ checker[c].todo # {}
  BY Parts, Untouched DEF Typed, Judge
<1>1. Visited(c) \in Accepted
  BY <1>0, Visiting
<1>2. PlansKept
  <2>1. CASE plans' = plans
    BY <2>1, Untouched DEF Judge
  <2>2. CASE plans' = [plans EXCEPT ![Visited(c)].status = "defaulted"]
    <3>1. /\ Accepted' = Accepted /\ plans' \in [Accepted -> Plan]
          /\ \A q \in Accepted : plans'[q].instalments = plans[q].instalments
      BY <1>0, <1>1, <2>2, NewStatus DEF Statuses
    <3> QED
      BY <3>1 DEF PlansKept, Instalments, Judge
  <2> QED
    BY <2>1, <2>2 DEF Judge
<1> DEFINE new == [checker[c] EXCEPT !.pc = "visit", !.todo = @ \ {Min(@)}]
<1>3. new \in Checker /\ new.pc = "visit"
  BY <1>0 DEF Checker
<1>4. checker' = [checker EXCEPT ![c] = new]
  BY DEF Judge
<1>5. UNCHANGED <<now, payer, received, taken, crowded, raced>>
  BY DEF Judge, history
<1> HIDE DEF new
<1> QED
  BY <1>2, <1>3, <1>4, <1>5, CheckerStep, Untouched

LEMMA EndCheckTyped == ASSUME Typed, NEW c \in Checkers, EndCheck(c) PROVE Typed'
<1>1. IdleChecker \in Checker /\ IdleChecker.pc = "idle"
  BY PaymentPlansAssumption DEF IdleChecker, Checker
<1>2. UNCHANGED <<plans, order, now, payer, received, taken, crowded, raced>>
  BY DEF EndCheck, history
<1> HIDE DEF IdleChecker
<1> QED
  BY <1>1, <1>2, CheckerStep, Untouched DEF EndCheck

LEMMA TickTyped == ASSUME Typed, Tick PROVE Typed'
<1>1. now' \in 0..MaxTime
  BY PaymentPlansAssumption DEF Typed, TypeOK, Tick
<1> QED
  BY <1>1, KeepsTypes, Untouched DEF Tick, history

LEMMA InitTyped == Init => Typed
<1> SUFFICES ASSUME Init PROVE Typed
  OBVIOUS
<1>1. /\ Accepted = {} /\ plans \in [Accepted -> Plan] /\ order \in Seq(Accepted)
      /\ DOMAIN order = {}
  BY DEF Init, Accepted
<1>2. payer \in [Payers -> Payer] /\ \A t \in Payers : payer[t] = IdlePayer
  BY DEF Init, Payer, IdlePayer
<1>3. checker \in [Checkers -> Checker] /\ \A c \in Checkers : checker[c].pc = "idle"
  BY PaymentPlansAssumption DEF Init, Checker, IdleChecker
<1>4. now \in 0..MaxTime /\ received \in [Plans -> Nat] /\ taken \in [Plans -> 0..MaxPayments]
  BY PaymentPlansAssumption DEF Init
<1>5. crowded \subseteq Plans /\ raced \subseteq Plans
  BY DEF Init
<1> QED
  BY <1>1, <1>2, <1>3, <1>4, <1>5 DEF Typed, TypeOK, IdleIsIdle, Payer, Checker, IdlePayer

LEMMA StutterTyped == ASSUME Typed, UNCHANGED vars PROVE Typed'
BY KeepsTypes, Untouched DEF vars

\* One step of the plans: every action but AcceptPlan keeps the plans and their instalments.
LEMMA NextTyped == Typed /\ [Next]_vars => Typed'
<1> SUFFICES ASSUME Typed, [Next]_vars PROVE Typed'
  OBVIOUS
<1>1. ASSUME NEW p \in Plans, NEW debtor \in Debtors, NEW amount \in Amounts, NEW n \in Counts,
             AcceptPlan(p, debtor, amount, n)
      PROVE  Typed'
  BY <1>1, AcceptTyped
<1>2. ASSUME NEW t \in Payers, NEW p \in Plans, NEW cents \in Payments, BeginPayment(t, p, cents)
      PROVE  Typed'
  BY <1>2, BeginPaymentTyped
<1>3. ASSUME NEW t \in Payers, MarkPaid(t) \/ EndPayment(t)
      PROVE  Typed'
  BY <1>3, MarkPaidTyped, EndPaymentTyped
<1>4. ASSUME NEW c \in Checkers, NEW debtors, BeginCheck(c, debtors)
      PROVE  Typed'
  BY <1>4, BeginCheckTyped
<1>5. ASSUME NEW c \in Checkers, Visit(c) \/ Look(c) \/ Judge(c) \/ EndCheck(c)
      PROVE  Typed'
  BY <1>5, VisitTyped, LookTyped, JudgeTyped, EndCheckTyped
<1> QED
  BY <1>1, <1>2, <1>3, <1>4, <1>5, TickTyped, StutterTyped DEF Next

\* Every state is of its type: a check looks at a plan only while it has one to come to, and
\* a payment works on instalments of its plan (payment_plans.py:196-226, :238-262).
THEOREM TypeCorrect == Spec => []TypeOK
<1>1. Typed => TypeOK
  BY DEF Typed
<1> QED
  BY <1>1, InitTyped, NextTyped, PTL DEF Spec

-----------------------------------------------------------------------------
(* A paid plan is completed. *)

\* What a check that has come to a plan may rely on: the plan is not paid yet, or a payment
\* met the check.
Watched ==
    /\ \A p \in Accepted : plans[p].status = "completed" => FullyPaid(p)
    /\ \A p \in Accepted : BeingJudged(p) /\ BeingPaid(p) => p \in raced
    /\ \A p \in Accepted : BeingJudged(p) /\ FullyPaid(p) => p \in raced
    /\ \A p \in Accepted : FullyPaid(p) /\ ~BeingPaid(p) => plans[p].status = "completed" \/ p \in raced

PaidInv == Typed /\ Watched

LEMMA StillJudged ==
    ASSUME Typed, \A k \in DOMAIN order : order'[k] = order[k],
           \A c \in Checkers : checker'[c].pc = "look" =>
              checker[c].pc = "look" /\ checker'[c].todo = checker[c].todo
    PROVE  \A p : BeingJudged(p)' => BeingJudged(p) /\ p \in Accepted
<1> SUFFICES ASSUME NEW p, NEW c \in Checkers, checker'[c].pc = "look",
                    order'[Min(checker'[c].todo)] = p
             PROVE  BeingJudged(p) /\ p \in Accepted
  BY DEF BeingJudged, Visited
<1>1. checker[c].pc = "look" /\ checker'[c].todo = checker[c].todo /\ TypeOK
  BY DEF Typed
<1>2. Visited(c) \in Accepted /\ Min(checker[c].todo) \in checker[c].todo
      /\ checker[c].todo \subseteq DOMAIN order
  BY <1>1, Visiting, Untouched, Parts DEF Checker
<1>3. Visited(c) = p
  BY <1>1, <1>2 DEF Visited
<1> QED
  BY <1>1, <1>2, <1>3 DEF BeingJudged

\* Steps that change no instalment and no status.
LEMMA KeepsWatched ==
    ASSUME PaidInv, plans' = plans, payer' = payer, raced' = raced,
           \A k \in DOMAIN order : order'[k] = order[k],
           \A c \in Checkers : checker'[c].pc = "look" =>
              checker[c].pc = "look" /\ checker'[c].todo = checker[c].todo
    PROVE  Watched'
<1>1. \A p \in Accepted : BeingJudged(p)' => BeingJudged(p)
  BY StillJudged DEF PaidInv
<1>2. Accepted' = Accepted /\ \A p \in Accepted : FullyPaid(p)' = FullyPaid(p) /\ BeingPaid(p)' = BeingPaid(p)
  BY DEF Accepted, FullyPaid, Instalments, BeingPaid
<1>3. Watched
  BY DEF PaidInv
<1> QED
  BY <1>1, <1>2, <1>3 DEF Watched

LEMMA AcceptWatched ==
    ASSUME PaidInv, NEW p \in Plans, NEW debtor \in Debtors, NEW amount \in Amounts, NEW n \in Counts,
           AcceptPlan(p, debtor, amount, n)
    PROVE  Watched'
<1>0. Typed /\ TypeOK /\ Watched
  BY DEF PaidInv, Typed
<1>1. /\ order' = Append(order, p) /\ p \notin Accepted
      /\ UNCHANGED <<now, payer, checker, received, taken, crowded, raced>>
  BY DEF AcceptPlan, history
<1>2. \A k \in DOMAIN order : order'[k] = order[k]
  <2>1. order \in Seq(Accepted \union {p})
    BY <1>0, Order
  <2> QED
    BY <1>1, <2>1
<1>3. \A q : BeingJudged(q)' => BeingJudged(q) /\ q \in Accepted
  BY <1>0, <1>1, <1>2, StillJudged
<1>4. Accepted' = Accepted \union {p} /\ \A q \in Accepted : plans'[q] = plans[q]
  BY <1>1 DEF AcceptPlan, Accepted
<1>5. \A q \in Accepted : FullyPaid(q)' = FullyPaid(q) /\ BeingPaid(q)' = BeingPaid(q)
  BY <1>1, <1>4 DEF FullyPaid, Instalments, BeingPaid
<1>6. ~FullyPaid(p)' /\ plans'[p].status = "active"
  <2>1. plans'[p].status = "active" /\ plans'[p].instalments = Schedule(amount, n)
    BY DEF AcceptPlan
  <2>2. DOMAIN Schedule(amount, n) = 1..n /\ 1 \in 1..n /\ ~Schedule(amount, n)[1].paid
    BY <1>0, ScheduleTyped
  <2> QED
    BY <2>1, <2>2 DEF FullyPaid, Instalments
<1>7. ~BeingJudged(p)'
  BY <1>1, <1>3
<1>8. \A q \in Accepted : plans'[q].status = "completed" => FullyPaid(q)'
  BY <1>0, <1>4, <1>5 DEF Watched
<1>9. \A q \in Accepted : BeingJudged(q)' /\ (BeingPaid(q)' \/ FullyPaid(q)') => q \in raced'
  BY <1>0, <1>1, <1>3, <1>5 DEF Watched
<1>10. \A q \in Accepted : FullyPaid(q)' /\ ~BeingPaid(q)' => plans'[q].status = "completed" \/ q \in raced'
  BY <1>0, <1>1, <1>4, <1>5 DEF Watched
<1> QED
  BY <1>4, <1>6, <1>7, <1>8, <1>9, <1>10 DEF Watched

LEMMA BeginPaymentWatched ==
    ASSUME PaidInv, NEW t \in Payers, NEW p \in Plans, NEW cents \in Payments, BeginPayment(t, p, cents)
    PROVE  Watched'
<1>0. Typed /\ Watched /\ payer \in [Payers -> Payer]
  BY Untouched DEF PaidInv
<1>1. /\ UNCHANGED <<plans, order, checker>> /\ raced \subseteq raced'
      /\ BeingJudged(p) => p \in raced'
      /\ ~FullyPaid(p)
      /\ payer' = [payer EXCEPT ![t] = [plan |-> p, unpaid |-> Unpaid(p), left |-> cents]]
  BY DEF BeginPayment
<1>2. /\ Accepted' = Accepted
      /\ \A q \in Accepted : FullyPaid(q)' = FullyPaid(q) /\ BeingJudged(q)' = BeingJudged(q)
  BY <1>1 DEF Accepted, FullyPaid, Instalments, BeingJudged, Visited
<1>3. payer[t].plan = NoPlan
  BY DEF BeginPayment, IdlePayer
<1>4. \A q \in Accepted \ {p} : BeingPaid(q)' = BeingPaid(q)
  <2>1. \A q \in Accepted : q # NoPlan
    BY <1>0, PaymentPlansAssumption DEF Typed, TypeOK
  <2>2. payer'[t].plan = p /\ \A u \in Payers \ {t} : payer'[u] = payer[u]
    BY <1>0, <1>1
  <2> QED
    BY <1>3, <2>1, <2>2 DEF BeingPaid
<1>5. raced' = raced \/ raced' = raced \union {p}
  BY DEF BeginPayment
<1> QED
  BY <1>0, <1>1, <1>2, <1>4, <1>5 DEF Watched

LEMMA MarkPaidWatched == ASSUME PaidInv, NEW t \in Payers, MarkPaid(t) PROVE Watched'
<1>0. Typed /\ TypeOK /\ Watched /\ payer \in [Payers -> Payer]
  BY Untouched DEF PaidInv, Typed
<1>1. PICK p \in Accepted : \E k \in Instalments(p), due \in Nat, new \in Payer : Marks(t, p, k, due, new)
  BY <1>0, MarkPaidMarks
<1>2. PICK k \in Instalments(p), due \in Nat, new \in Payer : Marks(t, p, k, due, new)
  BY <1>1
<1>3. order' = order /\ checker' = checker /\ raced' = raced
  BY DEF MarkPaid, history
<1>4. /\ Accepted' = Accepted
      /\ plans'[p].status = plans[p].status
      /\ DOMAIN plans'[p].instalments = Instalments(p)
      /\ \A j \in Instalments(p) : plans[p].instalments[j].paid => plans'[p].instalments[j].paid
      /\ \A q \in Accepted \ {p} : plans'[q] = plans[q]
  <2>1. MarkedAs(p, k, due)
    BY <1>2 DEF Marks
  <2> QED
    BY <2>1 DEF MarkedAs
<1>5. FullyPaid(p) => FullyPaid(p)'
  BY <1>4 DEF FullyPaid, Instalments
<1>6. \A q \in Accepted \ {p} : FullyPaid(q)' = FullyPaid(q)
  BY <1>4 DEF FullyPaid, Instalments
<1>7. \A q \in Accepted : BeingJudged(q)' = BeingJudged(q)
  BY <1>3 DEF BeingJudged, Visited
<1>8. \A q \in Accepted : BeingPaid(q)' = BeingPaid(q)
  <2>1. payer'[t].plan = payer[t].plan /\ \A u \in Payers \ {t} : payer'[u] = payer[u]
    BY <1>0, <1>2 DEF Marks
  <2> QED
    BY <2>1 DEF BeingPaid
<1>9. BeingPaid(p)
  BY <1>2 DEF Marks, BeingPaid
<1>10. \A q \in Accepted : plans'[q].status = plans[q].status
  BY <1>4
<1> QED
  BY <1>0, <1>3, <1>4, <1>5, <1>6, <1>7, <1>8, <1>9, <1>10 DEF Watched

LEMMA EndPaymentWatched == ASSUME PaidInv, NEW t \in Payers, EndPayment(t) PROVE Watched'
<1>0. Typed /\ TypeOK /\ Watched /\ payer \in [Payers -> Payer]
  BY Untouched DEF PaidInv, Typed
<1>1. PICK p \in Accepted : p = payer[t].plan
  BY <1>0, Parts DEF EndPayment, Payer
<1>2. order' = order /\ checker' = checker /\ raced' = raced
  BY DEF EndPayment, history
<1>3. /\ Accepted' = Accepted
      /\ \A q \in Accepted : plans'[q].instalments = plans[q].instalments
      /\ \A q \in Accepted \ {p} : plans'[q] = plans[q]
      /\ IF FullyPaid(p) THEN plans'[p].status = "completed" ELSE plans'[p] = plans[p]
  <2>1. CASE FullyPaid(p)
    <3>1. plans' = [plans EXCEPT ![p].status = "completed"]
      BY <1>1, <2>1 DEF EndPayment
    <3> QED
      BY <1>0, <2>1, <3>1, NewStatus DEF Statuses
  <2>2. CASE ~FullyPaid(p)
    BY <1>1, <2>2 DEF EndPayment, Accepted
  <2> QED
    BY <2>1, <2>2
<1>4. \A q \in Accepted : FullyPaid(q)' = FullyPaid(q) /\ BeingJudged(q)' = BeingJudged(q)
  BY <1>2, <1>3 DEF FullyPaid, Instalments, BeingJudged, Visited
<1>5. \A q \in Accepted \ {p} : BeingPaid(q)' = BeingPaid(q)
  <2>1. \A q \in Accepted : q # NoPlan
    BY <1>0, PaymentPlansAssumption DEF TypeOK
  <2>2. payer'[t].plan = NoPlan /\ \A u \in Payers \ {t} : payer'[u] = payer[u]
    BY <1>0 DEF EndPayment, IdlePayer
  <2> QED
    BY <1>1, <2>1, <2>2 DEF BeingPaid
<1>6. BeingPaid(p)
  BY <1>1 DEF BeingPaid
<1> QED
  BY <1>0, <1>2, <1>3, <1>4, <1>5, <1>6 DEF Watched

LEMMA VisitWatched == ASSUME PaidInv, NEW c \in Checkers, Visit(c) PROVE Watched'
<1>0. Typed /\ TypeOK /\ Watched /\ checker \in [Checkers -> Checker]
  BY Untouched DEF PaidInv, Typed
<1>1. PICK p \in Accepted : p = Visited(c)
  BY <1>0, Visiting DEF Visit
<1>2. UNCHANGED <<plans, order, payer>> /\ checker[c].pc = "visit"
  BY DEF Visit
<1>3. CASE Active(p)
  <2>1. checker' = [checker EXCEPT ![c].pc = "look", ![c].next = 1]
        /\ raced' = IF BeingPaid(p) THEN raced \union {p} ELSE raced
    BY <1>1, <1>3 DEF Visit
  <2>2. \A q \in Accepted \ {p} : BeingJudged(q)' => BeingJudged(q)
    <3>1. checker'[c].todo = checker[c].todo /\ \A d \in Checkers \ {c} : checker'[d] = checker[d]
      BY <1>0, <2>1 DEF Checker
    <3>2. Visited(c)' = p
      BY <1>1, <1>2, <3>1 DEF Visited
    <3>3. \A d \in Checkers \ {c} : Visited(d)' = Visited(d)
      BY <1>2, <3>1 DEF Visited
    <3> QED
      BY <3>1, <3>2, <3>3 DEF BeingJudged
  <2>3. /\ Accepted' = Accepted
        /\ \A q \in Accepted : FullyPaid(q)' = FullyPaid(q) /\ BeingPaid(q)' = BeingPaid(q)
    BY <1>2 DEF Accepted, FullyPaid, Instalments, BeingPaid
  <2>4. plans[p].status # "completed"
    BY <1>3 DEF Active
  <2>5. BeingPaid(p) \/ FullyPaid(p) => p \in raced'
    BY <1>0, <2>1, <2>4 DEF Watched
  <2>6. raced \subseteq raced'
    BY <2>1
  <2> QED
    BY <1>0, <1>2, <2>2, <2>3, <2>5, <2>6 DEF Watched
<1>4. CASE ~Active(p)
  <2>1. checker' = [checker EXCEPT ![c].todo = @ \ {Min(@)}] /\ raced' = raced
    BY <1>1, <1>4 DEF Visit
  <2>2. \A d \in Checkers : checker'[d].pc = "look" =>
           checker[d].pc = "look" /\ checker'[d].todo = checker[d].todo
    BY <1>0, <1>2, <2>1 DEF Checker
  <2> QED
    BY <1>2, <2>1, <2>2, KeepsWatched
<1> QED
  BY <1>3, <1>4

LEMMA JudgeWatched == ASSUME PaidInv, NEW c \in Checkers, Judge(c) PROVE Watched'
<1>0. Typed /\ TypeOK /\ Watched /\ checker \in [Checkers -> Checker]
  BY Untouched DEF PaidInv, Typed
<1>1. PICK p \in Accepted : p = Visited(c)
  BY <1>0, Visiting, Untouched DEF Judge
<1>2. UNCHANGED <<order, payer, raced>>
  BY DEF Judge, history
<1>3. BeingJudged(p)
  BY <1>1 DEF Judge, BeingJudged
<1>4. /\ Accepted' = Accepted
      /\ \A q \in Accepted : plans'[q].instalments = plans[q].instalments
      /\ \A q \in Accepted \ {p} : plans'[q] = plans[q]
      /\ plans'[p].status = "defaulted" \/ plans'[p] = plans[p]
  <2>1. CASE plans' = plans
    BY <2>1 DEF Accepted
  <2>2. CASE plans' = [plans EXCEPT ![p].status = "defaulted"]
    BY <1>0, <2>2, NewStatus DEF Statuses
  <2> QED
    BY <1>1, <2>1, <2>2 DEF Judge
<1>5. \A q \in Accepted : FullyPaid(q)' = FullyPaid(q) /\ BeingPaid(q)' = BeingPaid(q)
  BY <1>2, <1>4 DEF FullyPaid, Instalments, BeingPaid
<1>6. \A q \in Accepted : BeingJudged(q)' => BeingJudged(q)
  <2>1. \A d \in Checkers : checker'[d].pc = "look" =>
           checker[d].pc = "look" /\ checker'[d].todo = checker[d].todo
    BY <1>0 DEF Judge, Checker
  <2> QED
    BY <1>0, <1>2, <2>1, StillJudged
<1>7. FullyPaid(p) => p \in raced
  BY <1>0, <1>3 DEF Watched
<1> QED
  BY <1>0, <1>2, <1>4, <1>5, <1>6, <1>7 DEF Watched

LEMMA ChecksWatched ==
    ASSUME PaidInv, NEW c \in Checkers, NEW debtors, BeginCheck(c, debtors) \/ Look(c) \/ EndCheck(c)
    PROVE  Watched'
<1>0. checker \in [Checkers -> Checker]
  BY Untouched DEF PaidInv
<1>1. UNCHANGED <<plans, order, payer, raced>>
  BY DEF BeginCheck, Look, EndCheck, history
<1>2. \A d \in Checkers : checker'[d].pc = "look" =>
         checker[d].pc = "look" /\ checker'[d].todo = checker[d].todo
  BY <1>0 DEF BeginCheck, Look, EndCheck, IdleChecker, Checker
<1> QED
  BY <1>1, <1>2, KeepsWatched

LEMMA InitWatched == Init => Watched
BY DEF Init, Watched, Accepted

LEMMA NextWatched == PaidInv /\ [Next]_vars => PaidInv'
<1> SUFFICES ASSUME PaidInv, [Next]_vars PROVE PaidInv'
  OBVIOUS
<1>1. Typed'
  BY NextTyped DEF PaidInv
<1>2. ASSUME NEW p \in Plans, NEW debtor \in Debtors, NEW amount \in Amounts, NEW n \in Counts,
             AcceptPlan(p, debtor, amount, n)
      PROVE  Watched'
  BY <1>2, AcceptWatched
<1>3. ASSUME NEW t \in Payers, NEW p \in Plans, NEW cents \in Payments, BeginPayment(t, p, cents)
      PROVE  Watched'
  BY <1>3, BeginPaymentWatched
<1>4. ASSUME NEW t \in Payers, MarkPaid(t) \/ EndPayment(t)
      PROVE  Watched'
  BY <1>4, MarkPaidWatched, EndPaymentWatched
<1>5. ASSUME NEW c \in Checkers, NEW debtors, BeginCheck(c, debtors) \/ Look(c) \/ EndCheck(c)
      PROVE  Watched'
  BY <1>5, ChecksWatched
<1>6. ASSUME NEW c \in Checkers, Visit(c) \/ Judge(c)
      PROVE  Watched'
  BY <1>6, VisitWatched, JudgeWatched
<1>7. ASSUME Tick \/ UNCHANGED vars
      PROVE  Watched'
  <2>1. UNCHANGED <<plans, order, payer, checker, raced>>
    BY <1>7 DEF Tick, vars, history
  <2> QED
    BY <2>1, KeepsWatched
<1>8. Watched'
  <2>1. CASE UNCHANGED vars
    BY <1>7, <2>1
  <2>2. CASE Next
    BY <1>2, <1>3, <1>4, <1>5, <1>6, <1>7, <2>2 DEF Next
  <2> QED
    BY <2>1, <2>2
<1> QED
  BY <1>1, <1>8 DEF PaidInv

\* A completed plan is paid in full, and a plan that is paid in full with no payment under way
\* is completed, unless a check met one of its payments (payment_plans.py:222, :260).
THEOREM PaidPlansComplete == Spec => []PaidPlanIsCompleted
<1>1. Init => PaidInv
  BY InitTyped, InitWatched DEF PaidInv
<1>2. PaidInv => PaidPlanIsCompleted
  BY DEF PaidInv, Watched, PaidPlanIsCompleted
<1> QED
  BY <1>1, <1>2, NextWatched, PTL DEF Spec

-----------------------------------------------------------------------------
(* Sums over finite sets.  SumFunctionOnSet is defined by a recursive      *)
(* function over the set's subsets; induction over them is the absence of  *)
(* a smallest counterexample.                                              *)

Sum(f, S) == SumFunctionOnSet(f, S)

\* Its definition unfolded: g sums f over every subset of a set, element by element.
SumStep(f, g, s) ==
    IF s = {} THEN 0 ELSE LET x == CHOOSE x \in s : TRUE IN f[x] + g[s \ {x}]
Sums(f, S, g) == g = [s \in SUBSET S |-> SumStep(f, g, s)]

\* Induction over finite sets: a set of subsets has a smallest one.
LEMMA SmallestSet ==
    ASSUME NEW U, IsFiniteSet(U), NEW T \in SUBSET (SUBSET U), T # {}
    PROVE  \E m \in T : \A s \in T : s \subseteq m => s = m
<1>1. IsWellFoundedOn(StrictSubsetOrdering(U), SUBSET U)
  BY FS_StrictSubsetOrderingWellFounded, FS_FiniteSubsetsOfFinite
<1>2. PICK m \in T : \A s \in T : ~(<<s, m>> \in StrictSubsetOrdering(U))
  BY <1>1, WFMin
<1>3. ASSUME NEW s \in T, s \subseteq m, s # m PROVE FALSE
  <2>1. <<s, m>> \in StrictSubsetOrdering(U)
    BY <1>3 DEF StrictSubsetOrdering
  <2> QED
    BY <1>2, <2>1
<1> QED
  BY <1>3

LEMMA SumUnfolds == ASSUME NEW f, NEW S PROVE Sum(f, S) = (CHOOSE g : Sums(f, S, g))[S]
BY DEF Sum, SumFunctionOnSet, FoldFunctionOnSet, MapThenFoldSet, Sums, SumStep

LEMMA SumsAgree ==
    ASSUME NEW f, NEW S, IsFiniteSet(S), NEW T \in SUBSET S, NEW g, NEW h, Sums(f, T, g), Sums(f, S, h)
    PROVE  \A s \in SUBSET T : g[s] = h[s]
<1> DEFINE Bad == {s \in SUBSET T : g[s] # h[s]}
<1> SUFFICES ASSUME Bad # {} PROVE FALSE
  OBVIOUS
<1>1. IsFiniteSet(T)
  BY FS_Subset
<1>2. PICK m \in Bad : \A s \in Bad : s \subseteq m => s = m
  <2> HIDE DEF Bad
  <2>1. Bad \in SUBSET (SUBSET T)
    BY DEF Bad
  <2> QED
    BY <1>1, <2>1, SmallestSet
<1>3. g[m] = SumStep(f, g, m) /\ h[m] = SumStep(f, h, m)
  BY DEF Sums
<1>4. m # {}
  BY <1>3 DEF SumStep
<1>5. PICK x \in m : x = CHOOSE y \in m : TRUE
  BY <1>4
<1>6. g[m \ {x}] = h[m \ {x}]
  BY <1>2, <1>5
<1> QED
  BY <1>3, <1>4, <1>5, <1>6 DEF SumStep

LEMMA SumsExist == ASSUME NEW f, NEW S, IsFiniteSet(S) PROVE \E g : Sums(f, S, g)
<1> DEFINE Bad == {t \in SUBSET S : ~\E g : Sums(f, t, g)}
<1> SUFFICES ASSUME Bad # {} PROVE FALSE
  OBVIOUS
<1>1. PICK m \in Bad : \A t \in Bad : t \subseteq m => t = m
  <2> HIDE DEF Bad
  <2>1. Bad \in SUBSET (SUBSET S)
    BY DEF Bad
  <2> QED
    BY <2>1, SmallestSet
<1> DEFINE G(t) == CHOOSE g : Sums(f, t, g)
           first(s) == CHOOSE x \in s : TRUE
           sum == [s \in SUBSET m |-> IF s = {} THEN 0
                                      ELSE f[first(s)] + G(s \ {first(s)})[s \ {first(s)}]]
<1>2. ASSUME NEW t \in SUBSET m, t # m PROVE Sums(f, t, G(t))
  BY <1>1, <1>2
<1>3. \A s : s # {} => first(s) \in s
  OBVIOUS
<1> HIDE DEF G, first
<1>4. ASSUME NEW t \in SUBSET m, t # m PROVE sum[t] = G(t)[t]
  <2>1. G(t)[t] = SumStep(f, G(t), t)
    BY <1>2, <1>4 DEF Sums
  <2>2. CASE t = {}
    BY <2>1, <2>2 DEF SumStep
  <2>3. CASE t # {}
    <3>1. PICK u : u = t \ {first(t)}
      OBVIOUS
    <3>2. u \in SUBSET t /\ u \in SUBSET m /\ u # m /\ first(t) \in t
      BY <1>3, <1>4, <2>3, <3>1
    <3>3. Sums(f, u, G(u)) /\ Sums(f, t, G(t)) /\ IsFiniteSet(t)
      BY <1>2, <1>4, <3>2, FS_Subset
    <3>4. G(u)[u] = G(t)[u]
      BY <3>2, <3>3, SumsAgree
    <3>5. G(t)[t] = f[first(t)] + G(t)[u]
      BY <2>1, <2>3, <3>1 DEF SumStep, first
    <3> QED
      BY <2>3, <3>1, <3>4, <3>5
  <2> QED
    BY <2>2, <2>3
<1>5. ASSUME NEW s \in SUBSET m PROVE sum[s] = SumStep(f, sum, s)
  <2>1. CASE s = {}
    BY <2>1 DEF SumStep
  <2>2. CASE s # {}
    <3>1. PICK u : u = s \ {first(s)}
      OBVIOUS
    <3>2. u \in SUBSET m /\ u # m
      BY <1>3, <2>2, <3>1
    <3>3. sum[u] = G(u)[u]
      BY <1>4, <3>2
    <3>4. sum[s] = f[first(s)] + G(u)[u]
      BY <2>2, <3>1
    <3>5. SumStep(f, sum, s) = f[first(s)] + sum[u]
      <4> HIDE DEF sum
      <4> QED
        BY <2>2, <3>1 DEF SumStep, first
    <3> QED
      BY <3>3, <3>4, <3>5
  <2> QED
    BY <2>1, <2>2
<1>6. Sums(f, m, sum)
  <2> DEFINE step == [s \in SUBSET m |-> SumStep(f, sum, s)]
  <2>1. sum = step
    <3> HIDE DEF SumStep
    <3>1. DOMAIN sum = DOMAIN step /\ \A s \in SUBSET m : sum[s] = step[s]
      BY <1>5
    <3> QED
      BY <3>1
  <2> HIDE DEF sum
  <2> QED
    BY <2>1 DEF Sums
<1> QED
  BY <1>6

\* The sum over a finite set, one element after the other.
LEMMA SumFirst ==
    ASSUME NEW f, NEW S, IsFiniteSet(S)
    PROVE  /\ S = {} => Sum(f, S) = 0
           /\ S # {} => \E x \in S : Sum(f, S) = f[x] + Sum(f, S \ {x})
<1> DEFINE G(t) == CHOOSE g : Sums(f, t, g)
<1>1. \A t \in SUBSET S : Sums(f, t, G(t)) /\ Sum(f, t) = G(t)[t]
  BY SumsExist, SumUnfolds, FS_Subset
<1> HIDE DEF G
<1>2. Sum(f, S) = SumStep(f, G(S), S)
  BY <1>1 DEF Sums
<1>3. ASSUME NEW t \in SUBSET S PROVE G(S)[t] = Sum(f, t)
  <2>1. Sums(f, t, G(t)) /\ Sums(f, S, G(S)) /\ t \in SUBSET t
    BY <1>1
  <2>2. G(t)[t] = G(S)[t]
    BY <2>1, SumsAgree
  <2> QED
    BY <1>1, <2>2
<1>4. S = {} => Sum(f, S) = 0
  BY <1>2 DEF SumStep
<1>5. ASSUME S # {} PROVE \E x \in S : Sum(f, S) = f[x] + Sum(f, S \ {x})
  <2>1. PICK x \in S : x = CHOOSE y \in S : TRUE
    BY <1>5
  <2>2. Sum(f, S) = f[x] + G(S)[S \ {x}]
    BY <1>2, <1>5, <2>1 DEF SumStep
  <2> QED
    BY <1>3, <2>2
<1> QED
  BY <1>4, <1>5

LEMMA SumEmpty == ASSUME NEW f PROVE Sum(f, {}) = 0
BY SumFirst, FS_EmptySet

\* In any order.
LEMMA SumAdd ==
    ASSUME NEW f, NEW U, IsFiniteSet(U), \A k \in U : f[k] \in Nat
    PROVE  \A S \in SUBSET U : /\ Sum(f, S) \in Nat
                               /\ \A x \in U \ S : Sum(f, S \union {x}) = f[x] + Sum(f, S)
<1> DEFINE Bad == {S \in SUBSET U : ~(Sum(f, S) \in Nat)}
<1>1. \A S \in SUBSET U : Sum(f, S) \in Nat
  <2> SUFFICES ASSUME Bad # {} PROVE FALSE
    OBVIOUS
  <2>1. PICK m \in Bad : \A t \in Bad : t \subseteq m => t = m
    <3> HIDE DEF Bad
    <3>1. Bad \in SUBSET (SUBSET U)
      BY DEF Bad
    <3> QED
      BY <3>1, SmallestSet
  <2>2. IsFiniteSet(m)
    BY FS_Subset
  <2>3. m # {}
    BY <2>2, SumFirst
  <2>5. PICK x \in m : Sum(f, m) = f[x] + Sum(f, m \ {x})
    BY <2>2, <2>3, SumFirst
  <2>6. Sum(f, m \ {x}) \in Nat
    BY <2>1
  <2> QED
    BY <2>5, <2>6
<1> HIDE DEF Bad
<1> DEFINE Worse == {S \in SUBSET U : \E x \in U \ S : Sum(f, S \union {x}) # f[x] + Sum(f, S)}
<1>2. ASSUME Worse # {} PROVE FALSE
  <2>1. PICK m \in Worse : \A t \in Worse : t \subseteq m => t = m
    <3> HIDE DEF Worse
    <3>1. Worse \in SUBSET (SUBSET U)
      BY DEF Worse
    <3> QED
      BY <1>2, <3>1, SmallestSet
  <2>2. PICK x \in U \ m : Sum(f, m \union {x}) # f[x] + Sum(f, m)
    OBVIOUS
  <2>3. PICK n : n = m \union {x}
    OBVIOUS
  <2>4. IsFiniteSet(n) /\ n # {} /\ n \in SUBSET U
    BY <2>3, FS_Subset
  <2>6. PICK y \in n : Sum(f, n) = f[y] + Sum(f, n \ {y})
    BY <2>4, SumFirst
  <2>7. y # x
    <3> SUFFICES ASSUME y = x PROVE FALSE
      OBVIOUS
    <3>1. n \ {y} = m
      BY <2>3
    <3> QED
      BY <2>2, <2>3, <2>6, <3>1
  <2>8. PICK s : s = m \ {y}
    OBVIOUS
  <2>9. y \in m /\ s \in SUBSET U /\ s \subseteq m /\ s # m
    BY <2>3, <2>7, <2>8
  <2>10. s \notin Worse
    BY <2>1, <2>9
  <2>11. n \ {y} = s \union {x} /\ m = s \union {y} /\ x \in U \ s /\ y \in U \ s
    BY <2>3, <2>7, <2>8, <2>9
  <2>12. Sum(f, n \ {y}) = f[x] + Sum(f, s) /\ Sum(f, m) = f[y] + Sum(f, s)
    BY <2>9, <2>10, <2>11
  <2>13. f[x] \in Nat /\ f[y] \in Nat /\ Sum(f, s) \in Nat
    BY <1>1, <2>9
  <2>14. Sum(f, n) = f[x] + Sum(f, m)
    BY <2>6, <2>12, <2>13
  <2> QED
    BY <2>2, <2>3, <2>14
<1> QED
  BY <1>1, <1>2

\* Equal summands, equal sums.
LEMMA SumSame ==
    ASSUME NEW f, NEW h, NEW U, IsFiniteSet(U), \A k \in U : f[k] \in Nat /\ f[k] = h[k]
    PROVE  Sum(f, U) = Sum(h, U)
<1> DEFINE Bad == {S \in SUBSET U : Sum(f, S) # Sum(h, S)}
<1> SUFFICES ASSUME Bad # {} PROVE FALSE
  OBVIOUS
<1>1. PICK m \in Bad : \A t \in Bad : t \subseteq m => t = m
  <2> HIDE DEF Bad
  <2>1. Bad \in SUBSET (SUBSET U)
    BY DEF Bad
  <2> QED
    BY <2>1, SmallestSet
<1>2. PICK x \in m : TRUE
  BY SumEmpty
<1>3. PICK s \in SUBSET U : s = m \ {x}
  OBVIOUS
<1>4. m = s \union {x} /\ x \in U \ s
  BY <1>3
<1>5. Sum(f, m) = f[x] + Sum(f, s) /\ Sum(h, m) = h[x] + Sum(h, s)
  BY <1>4, SumAdd
<1>6. Sum(f, s) = Sum(h, s)
  BY <1>1, <1>3
<1> QED
  BY <1>5, <1>6

\* One summand replaced.
LEMMA SumChange ==
    ASSUME NEW f, NEW h, NEW U, IsFiniteSet(U), NEW x \in U,
           \A k \in U : f[k] \in Nat /\ h[k] \in Nat, \A k \in U \ {x} : f[k] = h[k]
    PROVE  Sum(h, U) + f[x] = Sum(f, U) + h[x]
<1>1. PICK S \in SUBSET U : S = U \ {x}
  OBVIOUS
<1>2. U = S \union {x} /\ x \in U \ S /\ IsFiniteSet(S)
  BY <1>1, FS_Subset
<1>3. Sum(f, U) = f[x] + Sum(f, S) /\ Sum(h, U) = h[x] + Sum(h, S)
  BY <1>2, SumAdd
<1>4. Sum(f, S) = Sum(h, S)
  BY <1>1, <1>2, SumSame
<1>5. Sum(f, S) \in Nat
  BY SumAdd
<1> QED
  BY <1>3, <1>4, <1>5

\* Nothing but zeros.
LEMMA SumOfNone ==
    ASSUME NEW f, NEW U, IsFiniteSet(U), \A k \in U : f[k] = 0 PROVE Sum(f, U) = 0
<1> DEFINE Bad == {S \in SUBSET U : Sum(f, S) # 0}
<1> SUFFICES ASSUME Bad # {} PROVE FALSE
  OBVIOUS
<1>1. PICK m \in Bad : \A t \in Bad : t \subseteq m => t = m
  <2> HIDE DEF Bad
  <2>1. Bad \in SUBSET (SUBSET U)
    BY DEF Bad
  <2> QED
    BY <2>1, SmallestSet
<1>2. PICK x \in m : TRUE
  BY SumEmpty
<1>3. PICK s \in SUBSET U : s = m \ {x}
  OBVIOUS
<1>4. m = s \union {x} /\ x \in U \ s
  BY <1>3
<1>5. Sum(f, m) = f[x] + Sum(f, s)
  BY <1>4, SumAdd
<1>6. Sum(f, s) = 0
  BY <1>1, <1>3
<1> QED
  BY <1>1, <1>4, <1>5, <1>6

\* Smaller summands, a smaller sum.
LEMMA SumBelow ==
    ASSUME NEW f, NEW h, NEW U, IsFiniteSet(U),
           \A k \in U : f[k] \in Nat /\ h[k] \in Nat /\ f[k] <= h[k]
    PROVE  Sum(f, U) <= Sum(h, U)
<1> DEFINE Bad == {S \in SUBSET U : ~(Sum(f, S) <= Sum(h, S))}
<1> SUFFICES ASSUME Bad # {} PROVE FALSE
  OBVIOUS
<1>1. PICK m \in Bad : \A t \in Bad : t \subseteq m => t = m
  <2> HIDE DEF Bad
  <2>1. Bad \in SUBSET (SUBSET U)
    BY DEF Bad
  <2> QED
    BY <2>1, SmallestSet
<1>2. PICK x \in m : TRUE
  BY SumEmpty
<1>3. PICK s \in SUBSET U : s = m \ {x}
  OBVIOUS
<1>4. m = s \union {x} /\ x \in U \ s
  BY <1>3
<1>5. /\ Sum(f, m) = f[x] + Sum(f, s) /\ Sum(h, m) = h[x] + Sum(h, s)
      /\ Sum(f, s) \in Nat /\ Sum(h, s) \in Nat
  BY <1>4, SumAdd
<1>6. Sum(f, s) <= Sum(h, s)
  BY <1>1, <1>3
<1>7. f[x] \in Nat /\ h[x] \in Nat /\ f[x] <= h[x]
  BY <1>4
<1>8. Sum(f, m) <= Sum(h, m)
  BY <1>5, <1>6, <1>7
<1> QED
  BY <1>1, <1>8

-----------------------------------------------------------------------------
(* The cents of a schedule. *)

Cents(s) == [k \in DOMAIN s |-> s[k].cents]
Credits(s) == [k \in DOMAIN s |-> s[k].paid_cents]
Owed(s) == Sum(Cents(s), DOMAIN s)
Credited(s) == Sum(Credits(s), DOMAIN s)
Dearest(s) == Max({s[k].cents : k \in DOMAIN s} \union {1})

\* An instalment is credited in full or not at all.
Honest(s) == \A k \in DOMAIN s : s[k].paid_cents = IF s[k].paid THEN s[k].cents ELSE 0

\* What induction over the numbers below n needs.
LEMMA FirstFailure ==
    ASSUME NEW n \in Nat, NEW S, S \subseteq 0..n, S # {}, 0 \notin S
    PROVE  \E k \in 0..n : k + 1 \in S /\ k + 1 <= n /\ k \notin S
<1>1. S \subseteq Nat
  OBVIOUS
<1>2. PICK l \in S : \A k \in S : l <= k
  BY <1>1, SmallestNumber
<1>3. l \in 0..n /\ l # 0
  OBVIOUS
<1>4. l - 1 \in 0..n /\ (l - 1) + 1 = l /\ ~(l <= l - 1)
  BY <1>3
<1>5. l - 1 \notin S
  BY <1>2, <1>4
<1>6. l <= n
  BY <1>3
<1> QED
  BY <1>4, <1>5, <1>6

LEMMA GreatestExists ==
    ASSUME NEW n \in Nat, NEW S, S \subseteq 0..n, S # {}
    PROVE  Max(S) \in S /\ \A x \in S : x <= Max(S)
<1> DEFINE D == {n - x : x \in S}
<1>1. D \subseteq Nat /\ D # {}
  <2>1. ASSUME NEW x \in S PROVE n - x \in Nat
    OBVIOUS
  <2>2. PICK x \in S : TRUE
    OBVIOUS
  <2>3. n - x \in D
    BY <2>2
  <2> QED
    BY <2>1, <2>3
<1>2. PICK d \in D : \A e \in D : d <= e
  <2> HIDE DEF D
  <2> QED
    BY <1>1, SmallestNumber
<1>3. PICK x \in S : d = n - x
  OBVIOUS
<1>4. ASSUME NEW y \in S PROVE x >= y
  <2>1. n - x <= n - y /\ x \in 0..n /\ y \in 0..n
    BY <1>2, <1>3
  <2> QED
    BY <2>1
<1>5. Max(S) \in S /\ \A y \in S : Max(S) >= y
  BY <1>4 DEF Max
<1> QED
  BY <1>5

LEMMA Summands ==
    ASSUME NEW s \in Seq(Instalment)
    PROVE  /\ IsFiniteSet(DOMAIN s)
           /\ \A k \in DOMAIN s : s[k] \in Instalment
           /\ \A k \in DOMAIN s : Cents(s)[k] = s[k].cents /\ s[k].cents \in Nat
           /\ \A k \in DOMAIN s : Credits(s)[k] = s[k].paid_cents /\ s[k].paid_cents \in Nat
<1> HIDE DEF Instalment
<1>1. DOMAIN s = 1..Len(s) /\ Len(s) \in Nat /\ \A k \in DOMAIN s : s[k] \in Instalment
  OBVIOUS
<1>2. IsFiniteSet(DOMAIN s)
  BY <1>1, FS_Interval
<1>3. \A k \in DOMAIN s : s[k].cents \in Nat /\ s[k].paid_cents \in Nat
  BY <1>1 DEF Instalment
<1> QED
  BY <1>1, <1>2, <1>3 DEF Cents, Credits

\* What is credited of an honest schedule.
LEMMA CreditBounded ==
    ASSUME NEW s \in Seq(Instalment), Honest(s)
    PROVE  /\ Credited(s) \in Nat /\ Owed(s) \in Nat /\ Credited(s) <= Owed(s)
           /\ (\A k \in DOMAIN s : s[k].paid) => Credited(s) = Owed(s)
           /\ (\A k \in DOMAIN s : ~s[k].paid) => Credited(s) = 0
<1>1. PICK f, h, U : f = Credits(s) /\ h = Cents(s) /\ U = DOMAIN s
  OBVIOUS
<1>2. /\ IsFiniteSet(U)
      /\ \A k \in U : f[k] \in Nat /\ h[k] \in Nat /\ f[k] = IF s[k].paid THEN h[k] ELSE 0
  BY <1>1, Summands DEF Honest
<1>3. Credited(s) = Sum(f, U) /\ Owed(s) = Sum(h, U)
  BY <1>1 DEF Credited, Owed
<1>4. Sum(f, U) \in Nat /\ Sum(h, U) \in Nat
  BY <1>2, SumAdd
<1>5. \A k \in U : f[k] <= h[k]
  BY <1>2
<1>6. Sum(f, U) <= Sum(h, U)
  BY <1>2, <1>5, SumBelow
<1>7. ASSUME \A k \in DOMAIN s : s[k].paid PROVE Sum(f, U) = Sum(h, U)
  BY <1>1, <1>2, <1>7, SumSame
<1>8. ASSUME \A k \in DOMAIN s : ~s[k].paid PROVE Sum(f, U) = 0
  <2>1. \A k \in U : f[k] = 0
    BY <1>1, <1>2, <1>8
  <2> QED
    BY <1>2, <2>1, SumOfNone
<1> QED
  BY <1>3, <1>4, <1>6, <1>7, <1>8

\* An instalment is marked.
LEMMA MarkAdds ==
    ASSUME NEW s \in Seq(Instalment), NEW z \in Seq(Instalment), NEW k \in DOMAIN s, NEW due \in Nat,
           DOMAIN z = DOMAIN s, s[k].cents = due, z[k].cents = due, z[k].paid_cents = due,
           \A j \in DOMAIN s : j # k => z[j] = s[j]
    PROVE  /\ Owed(z) = Owed(s) /\ Dearest(z) = Dearest(s)
           /\ s[k].paid_cents = 0 => Credited(z) = Credited(s) + due
<1>1. PICK U : U = DOMAIN s /\ k \in U
  OBVIOUS
<1>2. PICK f, h, g, e : f = Credits(s) /\ h = Credits(z) /\ g = Cents(s) /\ e = Cents(z)
  OBVIOUS
<1>3. /\ IsFiniteSet(U)
      /\ \A j \in U : /\ f[j] \in Nat /\ h[j] \in Nat /\ g[j] \in Nat /\ e[j] \in Nat
                      /\ f[j] = s[j].paid_cents /\ h[j] = z[j].paid_cents
                      /\ g[j] = s[j].cents /\ e[j] = z[j].cents
  BY <1>1, <1>2, Summands
<1>4. \A j \in U \ {k} : f[j] = h[j]
  BY <1>1, <1>3
<1>5. \A j \in U : e[j] = g[j] /\ z[j].cents = s[j].cents
  BY <1>1, <1>3
<1>6. /\ Credited(s) = Sum(f, U) /\ Credited(z) = Sum(h, U)
      /\ Owed(s) = Sum(g, U) /\ Owed(z) = Sum(e, U)
  BY <1>1, <1>2 DEF Credited, Owed
<1>7. Sum(g, U) = Sum(e, U)
  BY <1>3, <1>5, SumSame
<1>8. Sum(h, U) + f[k] = Sum(f, U) + h[k]
  BY <1>1, <1>3, <1>4, SumChange
<1>9. Sum(f, U) \in Nat /\ Sum(h, U) \in Nat
  BY <1>3, SumAdd
<1>10. s[k].paid_cents = 0 => Sum(h, U) = Sum(f, U) + due
  BY <1>1, <1>3, <1>8, <1>9
<1>11. {z[j].cents : j \in DOMAIN z} = {s[j].cents : j \in DOMAIN s}
  BY <1>1, <1>5
<1>12. Dearest(z) = Dearest(s)
  BY <1>11 DEF Dearest
<1> QED
  BY <1>6, <1>7, <1>10, <1>12

\* No instalment is more than the dearest.
LEMMA DearestBounds ==
    ASSUME NEW s \in Seq(Instalment)
    PROVE  Dearest(s) \in Nat \ {0} /\ \A k \in DOMAIN s : s[k].cents <= Dearest(s)
<1>1. PICK g, U : g = Cents(s) /\ U = DOMAIN s
  OBVIOUS
<1>2. IsFiniteSet(U) /\ \A k \in U : g[k] = s[k].cents /\ g[k] \in Nat
  BY <1>1, Summands
<1>3. PICK n : n = Sum(g, U)
  OBVIOUS
<1>4. n \in Nat /\ \A k \in U : g[k] <= n
  <2>1. ASSUME NEW k \in U PROVE g[k] <= n
    <3>1. PICK S \in SUBSET U : S = U \ {k}
      OBVIOUS
    <3>2. U = S \union {k} /\ k \in U \ S
      BY <3>1
    <3>3. Sum(g, U) = g[k] + Sum(g, S) /\ Sum(g, S) \in Nat
      BY <1>2, <3>2, SumAdd
    <3> QED
      BY <1>2, <1>3, <3>3
  <2> QED
    BY <1>2, <1>3, <2>1, SumAdd
<1> DEFINE C == {s[k].cents : k \in DOMAIN s} \union {1}
<1>5. C \subseteq 0..(n + 1) /\ C # {} /\ 1 \in C /\ n + 1 \in Nat /\ \A k \in DOMAIN s : s[k].cents \in C
  BY <1>1, <1>2, <1>4
<1>6. Dearest(s) = Max(C)
  BY DEF Dearest
<1> HIDE DEF C
<1>7. Max(C) \in C /\ \A x \in C : x <= Max(C)
  BY <1>5, GreatestExists
<1>8. PICK c \in C : c = Max(C) /\ \A x \in C : x <= c
  BY <1>7
<1>9. c \in Nat /\ 1 <= c
  BY <1>5, <1>8
<1>10. Dearest(s) = c
  BY <1>6, <1>8
<1>11. \A k \in DOMAIN s : s[k].cents <= c
  BY <1>5, <1>8
<1> QED
  BY <1>9, <1>10, <1>11

\* The division with its remainder.
LEMMA Division ==
    ASSUME NEW a \in Nat, NEW n \in Nat \ {0}
    PROVE  a = n * (a \div n) + (a % n) /\ a % n < n /\ a % n \in Nat /\ a \div n \in Nat
OBVIOUS

LEMMA Multiple == ASSUME NEW m \in Nat, NEW q \in Nat PROVE (m + 1) * q = m * q + q /\ m * q \in Nat
OBVIOUS

\* A new schedule adds up to the amount, to the cent.
LEMMA ScheduleAdds ==
    ASSUME TypeOK, NEW amount \in Amounts, NEW n \in Counts, NEW s, s = Schedule(amount, n)
    PROVE  /\ s \in Seq(Instalment) /\ Honest(s) /\ Owed(s) = amount
           /\ \A k \in DOMAIN s : ~s[k].paid
<1>1. amount \in Nat /\ n \in Nat \ {0}
  BY PaymentPlansAssumption
<1>2. PICK q \in Nat, r \in Nat : q = amount \div n /\ r = amount % n /\ r < n /\ amount = n * q + r
  BY <1>1, Division
<1>3. s \in Seq(Instalment) /\ DOMAIN s = 1..n /\ \A k \in 1..n : ~s[k].paid
  BY ScheduleTyped
<1>4. \A k \in 1..n : s[k].cents = q + (IF k <= r THEN 1 ELSE 0) /\ s[k].paid_cents = 0
  BY <1>2 DEF Schedule
<1>5. PICK g, U : g = Cents(s) /\ U = 1..n
  OBVIOUS
<1>6. IsFiniteSet(U) /\ \A k \in U : g[k] \in Nat /\ g[k] = q + (IF k <= r THEN 1 ELSE 0)
  BY <1>3, <1>4, <1>5, Summands
<1> DEFINE part(m) == Sum(g, 1..m)
           due(m) == m * q + (IF m <= r THEN m ELSE r)
           Bad == {m \in 0..n : part(m) # due(m)}
<1>7. 0 \notin Bad
  <2>1. 1..0 = {} /\ 0 * q = 0 /\ 0 <= r
    BY <1>2
  <2>2. part(0) = 0 /\ due(0) = 0
    BY <2>1, SumEmpty
  <2> QED
    BY <2>2
<1>8. ASSUME NEW k \in 0..n, k + 1 <= n, k \notin Bad PROVE k + 1 \notin Bad
  <2>1. k \in Nat /\ k + 1 \in U /\ k + 1 \notin 1..k /\ 1..k \in SUBSET U /\ 1..(k + 1) = (1..k) \union {k + 1}
    BY <1>1, <1>5, <1>8
  <2>2. part(k + 1) = g[k + 1] + part(k)
    <3>1. PICK S, x : S = 1..k /\ x = k + 1
      OBVIOUS
    <3>2. S \in SUBSET U /\ x \in U \ S
      BY <2>1, <3>1
    <3>3. Sum(g, S \union {x}) = g[x] + Sum(g, S)
      BY <1>6, <3>2, SumAdd
    <3> QED
      BY <2>1, <3>1, <3>3
  <2>3. part(k) = k * q + (IF k <= r THEN k ELSE r)
    BY <1>8
  <2>4. g[k + 1] = q + (IF k + 1 <= r THEN 1 ELSE 0)
    BY <1>6, <2>1
  <2>5. (k + 1) * q = k * q + q /\ k * q \in Nat
    BY <2>1, Multiple
  <2>6. PICK x, y, v : x = k * q /\ y = part(k) /\ v = (k + 1) * q
    OBVIOUS
  <2>7. PICK w : w = part(k + 1)
    OBVIOUS
  <2>8. w = v + (IF k + 1 <= r THEN k + 1 ELSE r)
    <3> HIDE DEF part
    <3> QED
      BY <2>1, <2>2, <2>3, <2>4, <2>5, <2>6, <2>7
  <2> QED
    BY <2>6, <2>7, <2>8
<1>9. Bad = {}
  <2>1. Bad \subseteq 0..n
    OBVIOUS
  <2> HIDE DEF Bad
  <2> QED
    BY <1>1, <1>7, <1>8, <2>1, FirstFailure
<1>10. part(n) = amount
  <2>1. part(n) = n * q + (IF n <= r THEN n ELSE r)
    BY <1>1, <1>9
  <2> HIDE DEF part
  <2> QED
    BY <1>1, <1>2, <2>1
<1>11. Owed(s) = part(n)
  BY <1>3, <1>5 DEF Owed
<1>12. Honest(s)
  BY <1>3, <1>4 DEF Honest
<1> QED
  BY <1>3, <1>10, <1>11, <1>12

-----------------------------------------------------------------------------
(* What a plan received is credited. *)

\* The numbers of a plan between payments: credited, received, payments taken, the most that
\* one of them can be credited beyond itself, and the total.
Even(c, r, n, over, total) == (c >= r \/ c = total) /\ c <= r + n * over

\* The same while a payment is under way that has some cents left.
Paying(c, r, n, over, total, left) ==
    /\ n > 0 /\ (c + left >= r \/ c = total)
    /\ left > 0 => c + left <= r + (n - 1) * over
    /\ c <= r + n * over

LEMMA PaymentBegins ==
    ASSUME NEW c \in Nat, NEW r \in Nat, NEW n \in Nat, NEW over \in Nat, NEW total \in Nat,
           NEW left \in Nat, Even(c, r, n, over, total)
    PROVE  Paying(c, r + left, n + 1, over, total, left)
<1>1. /\ (n + 1) * over = n * over + over /\ n * over \in Nat /\ (n + 1) - 1 = n
      /\ (n + 1) * over \in Nat
  OBVIOUS
<1>2. PICK x \in Nat, y \in Nat : x = n * over /\ y = (n + 1) * over
  BY <1>1
<1>3. c <= r + x /\ (c >= r \/ c = total) /\ y = x + over
  BY <1>1, <1>2 DEF Even
<1>4. c + left >= r + left \/ c = total
  BY <1>3
<1>5. c + left <= (r + left) + x /\ c <= (r + left) + y
  BY <1>3
<1> QED
  BY <1>1, <1>2, <1>4, <1>5 DEF Paying

LEMMA PaymentMarks ==
    ASSUME NEW c \in Nat, NEW r \in Nat, NEW n \in Nat, NEW over \in Nat, NEW total \in Nat,
           NEW left \in Nat, NEW due \in Nat, NEW rest, rest = IF left < due THEN 0 ELSE left - due,
           Paying(c, r, n, over, total, left), left > 0, due <= over + 1, c + due <= total
    PROVE  Paying(c + due, r, n, over, total, rest)
<1>1. n * over = (n - 1) * over + over /\ (n - 1) * over \in Nat /\ n * over \in Nat
  <2>1. n - 1 \in Nat /\ (n - 1) + 1 = n
    BY DEF Paying
  <2> QED
    BY <2>1, Multiple
<1>2. PICK x \in Nat, y \in Nat : x = (n - 1) * over /\ y = n * over
  BY <1>1
<1>3. n > 0 /\ (c + left >= r \/ c = total) /\ c + left <= r + x /\ y = x + over
  BY <1>1, <1>2 DEF Paying
<1>4. (c + due) + rest >= r \/ c + due = total
  BY <1>3
<1>5. rest > 0 => (c + due) + rest <= r + x
  BY <1>3
<1>6. c + due <= r + y
  BY <1>3
<1> QED
  BY <1>2, <1>3, <1>4, <1>5, <1>6 DEF Paying

LEMMA PaymentEnds ==
    ASSUME NEW c \in Nat, NEW r \in Nat, NEW n \in Nat, NEW over \in Nat, NEW total \in Nat,
           NEW left \in Nat, Paying(c, r, n, over, total, left), left = 0 \/ c = total
    PROVE  Even(c, r, n, over, total)
BY DEF Paying, Even

\* A plan's schedule adds up to its total; a plan that takes its payments one by one has one
\* at a time, which sees all its unpaid instalments, and its numbers agree.
Balanced(p) ==
    LET s == plans[p].instalments
        over == Dearest(s) - 1
    IN  /\ Honest(s) /\ Owed(s) = plans[p].total
        /\ p \notin crowded =>
              /\ \A t, u \in Payers : payer[t].plan = p /\ payer[u].plan = p => t = u
              /\ \A t \in Payers : payer[t].plan = p =>
                    /\ payer[t].unpaid = Unpaid(p)
                    /\ Paying(Credited(s), received[p], taken[p], over, plans[p].total, payer[t].left)
              /\ ~BeingPaid(p) => Even(Credited(s), received[p], taken[p], over, plans[p].total)

CreditInv ==
    /\ Typed
    /\ \A p \in Accepted : Balanced(p)
    /\ \A p \in Plans \ Accepted : received[p] = 0

LEMMA Numbers ==
    ASSUME Typed, NEW p \in Accepted, Balanced(p)
    PROVE  /\ plans[p].instalments \in Seq(Instalment) /\ plans[p].total \in Nat
           /\ Credited(plans[p].instalments) \in Nat
           /\ Credited(plans[p].instalments) <= plans[p].total
           /\ FullyPaid(p) => Credited(plans[p].instalments) = plans[p].total
           /\ Dearest(plans[p].instalments) - 1 \in Nat
           /\ p \in Plans /\ p # NoPlan /\ received[p] \in Nat /\ taken[p] \in Nat
<1>1. plans[p] \in Plan /\ plans[p].instalments \in Seq(Instalment)
  BY Parts DEF Typed
<1>2. PICK s \in Seq(Instalment) : s = plans[p].instalments
  BY <1>1
<1>3. Honest(s) /\ Owed(s) = plans[p].total
  BY <1>2 DEF Balanced
<1>4. Credited(s) \in Nat /\ Credited(s) <= Owed(s) /\ ((\A k \in DOMAIN s : s[k].paid) => Credited(s) = Owed(s))
  BY <1>3, CreditBounded
<1>5. Dearest(s) - 1 \in Nat
  BY DearestBounds
<1>6. plans[p].total \in Nat
  <2> HIDE DEF Instalment
  <2> QED
    BY <1>1 DEF Plan
<1>7. p \in Plans /\ p # NoPlan /\ received[p] \in Nat /\ taken[p] \in Nat
  BY PaymentPlansAssumption DEF Typed, TypeOK
<1>8. FullyPaid(p) => \A k \in DOMAIN s : s[k].paid
  BY <1>2 DEF FullyPaid, Instalments
<1> QED
  BY <1>1, <1>2, <1>3, <1>4, <1>5, <1>6, <1>7, <1>8

\* A step that does not concern the plan.
LEMMA StaysBalanced ==
    ASSUME CreditInv, NEW p \in Accepted,
           plans'[p].instalments = plans[p].instalments, plans'[p].total = plans[p].total,
           p \notin crowded' => p \notin crowded, received'[p] = received[p], taken'[p] = taken[p],
           \A t \in Payers : payer'[t].plan = p \/ payer[t].plan = p => payer'[t] = payer[t]
    PROVE  Balanced(p)'
<1>1. Balanced(p)
  BY DEF CreditInv
<1>2. Unpaid(p)' = Unpaid(p)
  BY DEF Unpaid, Instalments
<1>3. BeingPaid(p)' = BeingPaid(p)
  BY DEF BeingPaid
<1> QED
  BY <1>1, <1>2, <1>3 DEF Balanced

LEMMA AcceptBalanced ==
    ASSUME CreditInv, NEW p \in Plans, NEW debtor \in Debtors, NEW amount \in Amounts, NEW n \in Counts,
           AcceptPlan(p, debtor, amount, n)
    PROVE  CreditInv'
<1>0. Typed /\ TypeOK /\ Typed'
  BY AcceptTyped DEF CreditInv, Typed
<1>1. /\ p \notin Accepted /\ UNCHANGED <<payer, received, taken, crowded>>
      /\ Accepted' = Accepted \union {p} /\ \A q \in Accepted : plans'[q] = plans[q]
  BY DEF AcceptPlan, Accepted, history
<1>2. \A q \in Accepted : Balanced(q)'
  BY <1>1, StaysBalanced
<1>3. PICK s : s = Schedule(amount, n)
  OBVIOUS
<1>4. plans'[p].instalments = s /\ plans'[p].total = amount
  BY <1>3 DEF AcceptPlan
<1>5. s \in Seq(Instalment) /\ Honest(s) /\ Owed(s) = amount /\ Credited(s) = 0
  BY <1>0, <1>3, ScheduleAdds, CreditBounded
<1>6. \A t \in Payers : payer'[t].plan # p
  BY <1>0, <1>1, Parts, PaymentPlansAssumption DEF Payer
<1>7. PICK r, m, over : r = received[p] /\ m = taken[p] /\ over = Dearest(s) - 1
  OBVIOUS
<1>8. Even(0, r, m, over, amount)
  <2>1. r = 0 /\ m \in Nat /\ over \in Nat
    BY <1>0, <1>1, <1>5, <1>7, DearestBounds DEF CreditInv, TypeOK
  <2>2. m * over \in Nat
    BY <2>1
  <2> QED
    BY <2>1, <2>2 DEF Even
<1>9. Balanced(p)'
  BY <1>1, <1>4, <1>5, <1>6, <1>7, <1>8 DEF Balanced
<1> QED
  BY <1>0, <1>1, <1>2, <1>9 DEF CreditInv

LEMMA BeginBalanced ==
    ASSUME CreditInv, NEW t \in Payers, NEW p \in Plans, NEW cents \in Payments, BeginPayment(t, p, cents)
    PROVE  CreditInv'
<1>0. Typed /\ TypeOK /\ Typed' /\ payer \in [Payers -> Payer] /\ cents \in Nat /\ p \in Accepted
  BY BeginPaymentTyped, Untouched, PaymentPlansAssumption DEF CreditInv, Typed, BeginPayment
<1>1. /\ plans' = plans /\ payer[t].plan = NoPlan
      /\ payer' = [payer EXCEPT ![t] = [plan |-> p, unpaid |-> Unpaid(p), left |-> cents]]
      /\ received' = [received EXCEPT ![p] = @ + cents] /\ taken' = [taken EXCEPT ![p] = @ + 1]
      /\ crowded' = IF BeingPaid(p) THEN crowded \union {p} ELSE crowded
  BY DEF BeginPayment, IdlePayer
<1>2. Accepted' = Accepted
  BY <1>1 DEF Accepted
<1>3. /\ payer'[t] = [plan |-> p, unpaid |-> Unpaid(p), left |-> cents]
      /\ \A u \in Payers \ {t} : payer'[u] = payer[u]
  BY <1>0, <1>1
<1>4. /\ received'[p] = received[p] + cents /\ taken'[p] = taken[p] + 1
      /\ \A q \in Plans \ {p} : received'[q] = received[q] /\ taken'[q] = taken[q]
  BY <1>0, <1>1 DEF TypeOK
<1>5. p \in Plans /\ Accepted \subseteq Plans /\ NoPlan \notin Accepted
  BY <1>0, PaymentPlansAssumption DEF TypeOK
<1>6. ASSUME NEW q \in Accepted, q # p PROVE Balanced(q)'
  <2>1. \A u \in Payers : payer'[u].plan = q \/ payer[u].plan = q => payer'[u] = payer[u]
    BY <1>1, <1>3, <1>5, <1>6
  <2>2. q \notin crowded' => q \notin crowded
    BY <1>1
  <2> QED
    BY <1>1, <1>4, <1>5, <1>6, <2>1, <2>2, StaysBalanced
<1>7. Balanced(p)'
  <2>1. PICK s, over, total, c : /\ s = plans[p].instalments /\ over = Dearest(s) - 1 /\ total = plans[p].total
                                 /\ c = Credited(s)
    OBVIOUS
  <2>2. Balanced(p) /\ Honest(s) /\ Owed(s) = total
    BY <1>0, <2>1 DEF CreditInv, Balanced
  <2>3. c \in Nat /\ over \in Nat /\ total \in Nat /\ received[p] \in Nat /\ taken[p] \in Nat
    BY <1>0, <2>1, <2>2, Numbers
  <2>4. ASSUME p \notin crowded'
        PROVE  /\ \A u \in Payers \ {t} : payer'[u].plan # p
               /\ Paying(c, received'[p], taken'[p], over, total, cents)
    <3>1. ~BeingPaid(p) /\ p \notin crowded
      BY <1>1, <2>4
    <3>2. Even(c, received[p], taken[p], over, total)
      BY <2>1, <2>2, <3>1 DEF Balanced
    <3>3. Paying(c, received[p] + cents, taken[p] + 1, over, total, cents)
      BY <1>0, <2>3, <3>2, PaymentBegins
    <3> QED
      BY <1>3, <1>4, <3>1, <3>3 DEF BeingPaid
  <2>5. Unpaid(p)' = Unpaid(p)
    BY <1>1 DEF Unpaid, Instalments
  <2>6. BeingPaid(p)'
    BY <1>3 DEF BeingPaid
  <2> QED
    BY <1>1, <1>3, <2>1, <2>2, <2>4, <2>5, <2>6 DEF Balanced
<1> QED
  BY <1>0, <1>2, <1>4, <1>6, <1>7 DEF CreditInv

LEMMA MarkBalanced == ASSUME CreditInv, NEW t \in Payers, MarkPaid(t) PROVE CreditInv'
<1>0. Typed /\ TypeOK /\ Typed' /\ payer \in [Payers -> Payer]
  BY MarkPaidTyped, Untouched DEF CreditInv, Typed
<1>1. PICK p \in Accepted : \E k \in Instalments(p), due \in Nat, new \in Payer : Marks(t, p, k, due, new)
  BY <1>0, MarkPaidMarks
<1>2. PICK k \in Instalments(p), due \in Nat, new \in Payer : Marks(t, p, k, due, new)
  BY <1>1
<1>3. UNCHANGED <<received, taken, crowded>>
  BY DEF MarkPaid, history
<1>4. /\ Accepted' = Accepted /\ plans'[p].total = plans[p].total
      /\ DOMAIN plans'[p].instalments = Instalments(p)
      /\ plans'[p].instalments[k].paid
      /\ plans'[p].instalments[k].paid_cents = due /\ plans'[p].instalments[k].cents = due
      /\ \A j \in Instalments(p) \ {k} : plans'[p].instalments[j] = plans[p].instalments[j]
      /\ \A q \in Accepted \ {p} : plans'[q] = plans[q]
  <2>1. MarkedAs(p, k, due)
    BY <1>2 DEF Marks
  <2> QED
    BY <2>1 DEF MarkedAs
<1>5. /\ payer'[t] = new /\ \A u \in Payers \ {t} : payer'[u] = payer[u]
      /\ payer[t].plan = p /\ new.plan = p
  BY <1>0, <1>2 DEF Marks
<1>6. ASSUME NEW q \in Accepted, q # p PROVE Balanced(q)'
  BY <1>3, <1>4, <1>5, <1>6, StaysBalanced
<1>7. Balanced(p)'
  <2>1. PICK s, z, over, total, c, left :
           /\ s = plans[p].instalments /\ z = plans'[p].instalments /\ over = Dearest(s) - 1
           /\ total = plans[p].total /\ c = Credited(s) /\ left = payer[t].left
    OBVIOUS
  <2>2. Balanced(p) /\ Honest(s) /\ Owed(s) = total
    BY <1>0, <2>1 DEF CreditInv, Balanced
  <2>3. /\ c \in Nat /\ over \in Nat /\ total \in Nat /\ received[p] \in Nat /\ taken[p] \in Nat
        /\ left \in Nat /\ s \in Seq(Instalment)
    BY <1>0, <2>1, <2>2, Numbers, Parts DEF Payer
  <2>4. z \in Seq(Instalment)
    <3>1. TypeOK' /\ p \in Accepted'
      BY <1>0, <1>4 DEF Typed
    <3>2. plans' \in [Accepted' -> Plan]
      BY <3>1 DEF TypeOK
    <3>3. plans'[p] \in Plan
      <4> HIDE DEF Plan, Accepted
      <4> QED
        BY <3>1, <3>2
    <3> HIDE DEF Instalment
    <3> QED
      BY <2>1, <3>3 DEF Plan
  <2>5. /\ k \in DOMAIN s /\ DOMAIN z = DOMAIN s /\ s[k].cents = due
        /\ z[k].cents = due /\ z[k].paid_cents = due /\ z[k].paid
        /\ \A j \in DOMAIN s : j # k => z[j] = s[j]
    BY <1>2, <1>4, <2>1 DEF Instalments, Marks
  <2>6. Honest(z)
    BY <2>2, <2>5 DEF Honest
  <2>7. /\ Owed(z) = total /\ Dearest(z) - 1 = over
        /\ s[k].paid_cents = 0 => Credited(z) = c + due
    <3>1. /\ Owed(z) = Owed(s) /\ Dearest(z) = Dearest(s)
          /\ s[k].paid_cents = 0 => Credited(z) = Credited(s) + due
      <4> HIDE DEF Instalment
      <4> QED
        BY <2>3, <2>4, <2>5, MarkAdds
    <3> QED
      BY <2>1, <2>2, <3>1
  <2>8. Credited(z) <= total /\ due <= over + 1
    <3>1. Credited(z) <= Owed(z)
      BY <2>4, <2>6, CreditBounded
    <3>2. Dearest(s) \in Nat \ {0} /\ s[k].cents <= Dearest(s)
      BY <2>3, <2>5, DearestBounds
    <3> QED
      BY <2>1, <2>5, <2>7, <3>1, <3>2
  <2>9. ASSUME p \notin crowded
        PROVE  /\ \A u \in Payers \ {t} : payer'[u].plan # p
               /\ new.unpaid = Unpaid(p)'
               /\ Paying(Credited(z), received[p], taken[p], over, total, new.left)
    <3>1. /\ \A u \in Payers : payer[u].plan = p => u = t
          /\ payer[t].unpaid = Unpaid(p)
          /\ Paying(c, received[p], taken[p], over, total, left)
      BY <1>5, <2>1, <2>2, <2>9 DEF Balanced
    <3>2. k \in Unpaid(p) /\ left > 0 /\ new.unpaid = Unpaid(p) \ {k}
          /\ new.left = IF left < due THEN 0 ELSE left - due
      BY <1>2, <2>1, <3>1 DEF Marks
    <3>3. Unpaid(p)' = Unpaid(p) \ {k}
      BY <2>1, <2>5 DEF Unpaid, Instalments
    <3>4. s[k].paid_cents = 0
      BY <2>1, <2>2, <2>5, <3>2 DEF Honest, Unpaid
    <3>5. Paying(c + due, received[p], taken[p], over, total, new.left)
      BY <2>3, <2>7, <2>8, <3>1, <3>2, <3>4, PaymentMarks
    <3> QED
      BY <1>5, <2>7, <3>1, <3>2, <3>3, <3>4, <3>5
  <2>10. BeingPaid(p)'
    BY <1>5 DEF BeingPaid
  <2> QED
    BY <1>3, <1>4, <1>5, <2>1, <2>6, <2>7, <2>9, <2>10 DEF Balanced
<1> QED
  BY <1>0, <1>3, <1>4, <1>6, <1>7 DEF CreditInv

LEMMA EndBalanced == ASSUME CreditInv, NEW t \in Payers, EndPayment(t) PROVE CreditInv'
<1>0. Typed /\ TypeOK /\ Typed' /\ payer \in [Payers -> Payer]
  BY EndPaymentTyped, Untouched DEF CreditInv, Typed
<1>1. PICK p \in Accepted : p = payer[t].plan
  BY <1>0, Parts DEF EndPayment, Payer
<1>2. UNCHANGED <<received, taken, crowded>> /\ (payer[t].left = 0 \/ payer[t].unpaid = {})
  BY DEF EndPayment, history
<1>3. /\ Accepted' = Accepted
      /\ \A q \in Accepted : plans'[q].instalments = plans[q].instalments /\ plans'[q].total = plans[q].total
  <2>1. CASE FullyPaid(p)
    <3>1. plans' = [plans EXCEPT ![p].status = "completed"]
      BY <1>1, <2>1 DEF EndPayment
    <3> QED
      BY <1>0, <3>1, NewStatus DEF Statuses
  <2>2. CASE ~FullyPaid(p)
    BY <1>1, <2>2 DEF EndPayment, Accepted
  <2> QED
    BY <2>1, <2>2
<1>4. p # NoPlan /\ payer'[t].plan = NoPlan /\ \A u \in Payers \ {t} : payer'[u] = payer[u]
  BY <1>0, PaymentPlansAssumption DEF EndPayment, IdlePayer, TypeOK
<1>5. NoPlan \notin Accepted
  BY <1>0, PaymentPlansAssumption DEF TypeOK
<1>6. ASSUME NEW q \in Accepted, q # p PROVE Balanced(q)'
  <2>1. \A u \in Payers : payer'[u].plan = q \/ payer[u].plan = q => payer'[u] = payer[u]
    BY <1>1, <1>4, <1>5, <1>6
  <2> QED
    BY <1>2, <1>3, <2>1, StaysBalanced
<1>7. Balanced(p)'
  <2>1. PICK s, over, total, c : /\ s = plans[p].instalments /\ over = Dearest(s) - 1
                                 /\ total = plans[p].total /\ c = Credited(s)
    OBVIOUS
  <2>2. Balanced(p) /\ Honest(s) /\ Owed(s) = total
    BY <2>1 DEF CreditInv, Balanced
  <2>3. /\ c \in Nat /\ over \in Nat /\ total \in Nat /\ received[p] \in Nat /\ taken[p] \in Nat
        /\ payer[t].left \in Nat /\ (FullyPaid(p) => c = total)
    BY <1>0, <2>1, <2>2, Numbers, Parts DEF Payer
  <2>4. ASSUME p \notin crowded
        PROVE  /\ \A u \in Payers : payer'[u].plan # p
               /\ Even(c, received[p], taken[p], over, total)
    <3>1. /\ \A u \in Payers : payer[u].plan = p => u = t
          /\ payer[t].unpaid = Unpaid(p)
          /\ Paying(c, received[p], taken[p], over, total, payer[t].left)
      BY <1>1, <2>1, <2>2, <2>4 DEF Balanced
    <3>2. payer[t].left = 0 \/ c = total
      BY <1>2, <2>3, <3>1 DEF Unpaid, FullyPaid
    <3>3. Even(c, received[p], taken[p], over, total)
      BY <2>3, <3>1, <3>2, PaymentEnds
    <3> QED
      BY <1>4, <3>1, <3>3
  <2> QED
    BY <1>2, <1>3, <2>1, <2>2, <2>4 DEF Balanced
<1> QED
  BY <1>0, <1>2, <1>3, <1>6, <1>7 DEF CreditInv

LEMMA OthersBalanced ==
    ASSUME CreditInv, Typed', Accepted' = Accepted, UNCHANGED <<payer, received, taken, crowded>>,
           \A q \in Accepted : plans'[q].instalments = plans[q].instalments /\ plans'[q].total = plans[q].total
    PROVE  CreditInv'
<1>1. \A q \in Accepted : Balanced(q)'
  BY StaysBalanced
<1> QED
  BY <1>1 DEF CreditInv

LEMMA JudgeBalanced == ASSUME CreditInv, NEW c \in Checkers, Judge(c) PROVE CreditInv'
<1>0. Typed /\ TypeOK /\ Typed' /\ Visited(c) \in Accepted /\ UNCHANGED <<payer, received, taken, crowded>>
  BY JudgeTyped, Visiting, Untouched DEF CreditInv, Typed, Judge, history
<1>1. CASE plans' = plans
  BY <1>0, <1>1, OthersBalanced DEF Accepted
<1>2. CASE plans' = [plans EXCEPT ![Visited(c)].status = "defaulted"]
  <2>1. /\ Accepted' = Accepted
        /\ \A q \in Accepted : plans'[q].instalments = plans[q].instalments /\ plans'[q].total = plans[q].total
    BY <1>0, <1>2, NewStatus DEF Statuses
  <2> QED
    BY <1>0, <2>1, OthersBalanced
<1> QED
  BY <1>1, <1>2 DEF Judge

LEMMA CreditInit == Init => CreditInv
<1> SUFFICES ASSUME Init PROVE CreditInv
  OBVIOUS
<1>1. Accepted = {} /\ \A p \in Plans : received[p] = 0
  BY DEF Init, Accepted
<1> QED
  BY <1>1, InitTyped DEF CreditInv

LEMMA CreditNext == CreditInv /\ [Next]_vars => CreditInv'
<1> SUFFICES ASSUME CreditInv, [Next]_vars PROVE CreditInv'
  OBVIOUS
<1>1. Typed'
  BY NextTyped DEF CreditInv
<1>2. ASSUME NEW t \in Payers, MarkPaid(t) \/ EndPayment(t) \/ \E p \in Plans, cents \in Payments : BeginPayment(t, p, cents)
      PROVE  CreditInv'
  BY <1>2, BeginBalanced, MarkBalanced, EndBalanced
<1>3. ASSUME NEW c \in Checkers, NEW debtors,
             BeginCheck(c, debtors) \/ Visit(c) \/ Look(c) \/ EndCheck(c)
      PROVE  CreditInv'
  <2>1. plans' = plans /\ UNCHANGED <<payer, received, taken, crowded>>
    BY <1>3 DEF BeginCheck, Visit, Look, EndCheck, history
  <2> QED
    BY <1>1, <2>1, OthersBalanced DEF Accepted
<1>4. ASSUME Tick \/ UNCHANGED vars PROVE CreditInv'
  <2>1. plans' = plans /\ UNCHANGED <<payer, received, taken, crowded>>
    BY <1>4 DEF Tick, vars, history
  <2> QED
    BY <1>1, <2>1, OthersBalanced DEF Accepted
<1> QED
  BY <1>2, <1>3, <1>4, AcceptBalanced, JudgeBalanced DEF Next

\* Between payments, a plan that took its payments one by one credits what it received, up to
\* its total, and at most the rest of one instalment per payment beyond that, for any amounts,
\* numbers of instalments and payments (payment_plans.py:151-157, :207-224).
THEOREM ReceiptsCredited == Spec => []ReceiptsAreCredited
<1>1. CreditInv => ReceiptsAreCredited
  <2> SUFFICES ASSUME CreditInv, NEW p \in Accepted \ crowded, ~BeingPaid(p)
               PROVE  /\ PaidCents(p) >= received[p] \/ PaidCents(p) = plans[p].total
                      /\ PaidCents(p) <= received[p] + taken[p] * (Largest(p) - 1)
    BY DEF ReceiptsAreCredited
  <2>1. PICK s : s = plans[p].instalments
    OBVIOUS
  <2>2. Even(Credited(s), received[p], taken[p], Dearest(s) - 1, plans[p].total)
    BY <2>1 DEF CreditInv, Balanced
  <2>3. PaidCents(p) = Credited(s)
    <3>1. Instalments(p) = DOMAIN s /\ DOMAIN Credits(s) = DOMAIN s
      BY <2>1 DEF Instalments, Credits
    <3>2. PaidCents(p) = SumFunction(Credits(s))
      BY <2>1, <3>1 DEF PaidCents, Credits
    <3> QED
      BY <3>1, <3>2 DEF SumFunction, Credited, Sum
  <2>4. Largest(p) = Dearest(s)
    BY <2>1 DEF Largest, Dearest, Instalments
  <2> QED
    BY <2>2, <2>3, <2>4 DEF Even
<1> QED
  BY <1>1, CreditInit, CreditNext, PTL DEF Spec

=============================================================================
