------------------------- MODULE CollectionsProofs -------------------------
(***************************************************************************)
(* Theorems about Collections for any ladders of rules, any grace periods, *)
(* any number of requests and of days, and their proofs.                   *)
(***************************************************************************)
EXTENDS Collections, WellFoundedInduction, TLAPS

-----------------------------------------------------------------------------
(* The newest pending reply and the latest due rule exist. *)

\* A set of numbers below a bound has a largest one.
LEMMA Largest ==
    ASSUME NEW n \in Nat, NEW S, S \subseteq 0..n, S # {}
    PROVE  \E x \in S : \A y \in S : y <= x
<1> DEFINE D == {n - x : x \in S}
           Less == {pair \in Nat \X Nat : pair[1] < pair[2]}
<1>1. D \subseteq Nat /\ D # {}
  <2>1. ASSUME NEW x \in S PROVE n - x \in Nat
    OBVIOUS
  <2>2. PICK x \in S : TRUE
    OBVIOUS
  <2>3. n - x \in D
    BY <2>2
  <2> QED
    BY <2>1, <2>3
<1>2. IsWellFoundedOn(Less, Nat)
  BY NatLessThanWellFounded DEF OpToRel
<1>3. \E d \in D : \A e \in D : ~(<<e, d>> \in Less)
  <2> HIDE DEF D, Less
  <2> QED
    BY <1>1, <1>2, WFMin
<1>4. PICK d \in D : \A e \in D : ~(e < d)
  BY <1>1, <1>3
<1>5. PICK x \in S : d = n - x
  OBVIOUS
<1>6. ASSUME NEW y \in S PROVE y <= x
  <2>1. ~(n - y < n - x)
    BY <1>4, <1>5
  <2> QED
    BY <2>1
<1> QED
  BY <1>6

LEMMA Upper == ASSUME NEW a \in Nat, NEW b \in Nat PROVE \E c \in Nat : b <= c /\ a <= c
<1>1. a <= b \/ b <= a
  OBVIOUS
<1>2. a <= a /\ b <= b
  OBVIOUS
<1> QED
  BY <1>1, <1>2

LEMMA RepliesTyped ==
    ASSUME TypeOK
    PROVE  /\ replies \in Seq(Reply) /\ Len(replies) \in Nat /\ DOMAIN replies = 1..Len(replies)
           /\ \A k \in DOMAIN replies :
                /\ replies[k] \in Reply
                /\ replies[k].category \in Categories /\ replies[k].at \in Nat
<1>1. replies \in Seq(Reply)
  BY DEF TypeOK
<1>2. /\ Len(replies) \in Nat /\ DOMAIN replies = 1..Len(replies)
      /\ \A k \in DOMAIN replies : replies[k] \in Reply
  BY <1>1
<1> QED
  BY <1>1, <1>2 DEF Reply

\* The stamps of the pending replies are bounded, so one of them is the newest.
LEMMA NewestExists ==
    ASSUME TypeOK, Pending # {}
    PROVE  Newest \in Pending /\ \A j \in Pending : replies[j].at <= replies[Newest].at
<1>0. \A k \in DOMAIN replies : replies[k].at \in Nat
  BY RepliesTyped
<1>1. Pending \subseteq DOMAIN replies
  BY DEF Pending
<1> DEFINE Less == {pair \in Nat \X Nat : pair[1] < pair[2]}
\* Every prefix of the replies has a bound on its stamps.
<1>2. \E b \in Nat : \A j \in DOMAIN replies : replies[j].at <= b
  <2> DEFINE Unbounded == {k \in 0..Len(replies) :
                ~ \E b \in Nat : \A j \in DOMAIN replies : j <= k => replies[j].at <= b}
  <2>1. SUFFICES ASSUME Unbounded # {} PROVE FALSE
    <3>1. Len(replies) \in 0..Len(replies) /\ \A j \in DOMAIN replies : j <= Len(replies)
      BY RepliesTyped
    <3> QED
      BY <2>1, <3>1
  <2>2. Unbounded \subseteq Nat /\ IsWellFoundedOn(Less, Nat)
    BY NatLessThanWellFounded DEF OpToRel
  <2>3. \E k \in Unbounded : \A m \in Unbounded : ~(<<m, k>> \in Less)
    <3> HIDE DEF Unbounded, Less
    <3> QED
      BY <2>1, <2>2, WFMin
  <2>4. PICK k \in Unbounded : \A m \in Unbounded : ~(m < k)
    BY <2>2, <2>3
  <2>5. k # 0
    <3>1. \A j \in DOMAIN replies : ~(j <= 0)
      BY RepliesTyped
    <3> QED
      BY <2>4, <3>1
  <2>6. k \in DOMAIN replies /\ k - 1 \in 0..Len(replies) /\ k - 1 < k
    BY <2>4, <2>5, RepliesTyped
  <2>7. PICK b \in Nat : \A j \in DOMAIN replies : j <= k - 1 => replies[j].at <= b
    BY <2>4, <2>6
  <2>8. PICK c \in Nat : b <= c /\ replies[k].at <= c
    <3>1. PICK a \in Nat : a = replies[k].at
      BY <1>0, <2>6
    <3>2. \E c \in Nat : b <= c /\ a <= c
      BY Upper
    <3> QED
      BY <3>1, <3>2
  <2>9. ASSUME NEW j \in DOMAIN replies, j <= k PROVE replies[j].at <= c
    <3>1. j <= k - 1 \/ j = k
      BY <2>6, <2>9, RepliesTyped
    <3>2. PICK a \in Nat : a = replies[j].at
      BY <1>0
    <3>3. a <= b => a <= c
      BY <2>8
    <3>4. j <= k - 1 => a <= b
      BY <2>7, <3>2
    <3> QED
      BY <2>8, <3>1, <3>2, <3>3, <3>4
  <2> QED
    BY <2>4, <2>9
<1>3. PICK b \in Nat : \A j \in DOMAIN replies : replies[j].at <= b
  BY <1>2
<1> DEFINE S == {replies[k].at : k \in Pending}
<1>4. S \subseteq 0..b /\ S # {}
  BY <1>0, <1>1, <1>3
<1>5. \E x \in S : \A y \in S : y <= x
  BY <1>4, Largest
<1>6. \E k \in Pending : \A j \in Pending : replies[j].at <= replies[k].at
  BY <1>5
<1> QED
  BY <1>6 DEF Newest

LEMMA NewestIsPending == ASSUME TypeOK PROVE NewestPending \in Categories
<1>1. CASE Pending # {}
  <2>1. Newest \in DOMAIN replies
    BY <1>1, NewestExists DEF Pending
  <2> QED
    BY <1>1, <2>1, RepliesTyped DEF NewestPending
<1>2. CASE Pending = {}
  BY <1>2 DEF NewestPending, Categories
<1> QED
  BY <1>1, <1>2

LEMMA NextRuleIsDue ==
    ASSUME TypeOK, NEW d, d.tier \in Tiers, Due(d) # {}
    PROVE  /\ NextRule(d) \in Due(d)
           /\ NextRule(d).day \in Nat
           /\ d.current_step < NextRule(d).day
           /\ NextRule(d).day <= today
<1>1. Due(d) \subseteq [day : Nat \ {0}, human : BOOLEAN]
  BY CollectionsAssumption DEF Due
<1> DEFINE S == {r.day : r \in Due(d)}
<1>2. S \subseteq 0..today /\ S # {} /\ today \in Nat
  BY <1>1 DEF Due, TypeOK
<1>3. \E x \in S : \A y \in S : y <= x
  BY <1>2, Largest
<1>4. \E r \in Due(d) : \A q \in Due(d) : q.day <= r.day
  BY <1>3
<1>5. NextRule(d) \in Due(d)
  BY <1>4 DEF NextRule
<1> QED
  BY <1>1, <1>5 DEF Due

-----------------------------------------------------------------------------
(* Type correctness. *)

Debtor == [state : States, tier : Tiers, days_overdue : Nat,
           current_step : Nat, last_action : Days]

LEMMA TypeOf ==
    ASSUME TypeOK PROVE today \in Nat /\ debtor \in Debtor /\ contacts \in Seq(Contact)
BY DEF TypeOK, Debtor

LEMMA ProcessTyped ==
    ASSUME TypeOK, NEW d \in Debtor, NEW ok \in BOOLEAN PROVE ProcessDebtor(d, ok) \in Debtor
<1>1. d.tier \in Tiers /\ today \in Nat /\ today \in Days
  BY TypeOf DEF Debtor, Days
<1>2. Reviewed(d) \in States
  BY DEF Reviewed, Debtor, States
<1>3. TakesStep(d, ok) => NextRule(d).day \in Nat
  BY <1>1, NextRuleIsDue DEF TakesStep
<1>4. CASE d.state \in Settled
  BY <1>4 DEF ProcessDebtor
<1>5. CASE d.state \notin Settled /\ TakesStep(d, ok)
  BY <1>1, <1>2, <1>3, <1>5 DEF ProcessDebtor, Debtor
<1>6. CASE d.state \notin Settled /\ ~TakesStep(d, ok)
  BY <1>1, <1>2, <1>6 DEF ProcessDebtor, Debtor
<1> QED
  BY <1>4, <1>5, <1>6

LEMMA ContactedTyped ==
    ASSUME TypeOK, NEW d \in Debtor, NEW ok \in BOOLEAN
    PROVE  Contacted(d, ok) \in Seq(Contact)
<1> DEFINE c == [step |-> NextRule(d).day, on |-> today]
<1>1. CASE TakesStep(d, ok)
  <2>1. d.tier \in Tiers /\ Due(d) # {}
    BY <1>1 DEF Debtor, TakesStep
  <2>2. c \in Contact
    BY <2>1, NextRuleIsDue, TypeOf DEF Contact
  <2> HIDE DEF c
  <2>3. Append(contacts, c) \in Seq(Contact)
    BY <2>2, TypeOf
  <2> QED
    BY <1>1, <2>3 DEF Contacted, c
<1>2. CASE ~TakesStep(d, ok)
  BY <1>2, TypeOf DEF Contacted
<1> QED
  BY <1>1, <1>2

LEMMA ReactivatedTyped == ASSUME NEW d \in Debtor PROVE Reactivated(d) \in Debtor
BY DEF Reactivated, Debtor, States

LEMMA StateTyped == ASSUME NEW d \in Debtor, NEW s \in States PROVE [d EXCEPT !.state = s] \in Debtor
BY DEF Debtor

LEMMA IngestedTyped == ASSUME TypeOK, NEW tier \in Tiers PROVE Ingested(tier) \in Debtor
BY TypeOf DEF Ingested, Debtor, States, Days

Pass == [pc : {"idle", "escalate"}, looked : Nat]

LEMMA EngineTyped == ASSUME TypeOK, Engine PROVE TypeOK'
<1>0. today \in Nat /\ debtor \in Debtor /\ contacts \in Seq(Contact)
  BY TypeOf
<1>1. ASSUME NEW ok \in BOOLEAN, ProcessAll(ok) PROVE TypeOK'
  <2>1. debtor' \in Debtor /\ contacts' \in Seq(Contact)
    BY <1>0, <1>1, ProcessTyped, ContactedTyped DEF ProcessAll
  <2>2. fees' \in Seq([days : Nat, on : Nat])
    <3> DEFINE Fee == [days : Nat, on : Nat]
               fee == [days |-> debtor.days_overdue, on |-> today]
    <3>1. fee \in Fee /\ fees \in Seq(Fee)
      BY <1>0 DEF Debtor, TypeOK
    <3>2. fees' = IF ChargesFee THEN Append(fees, fee) ELSE fees
      BY <1>1 DEF ProcessAll
    <3> HIDE DEF Fee, fee
    <3>3. fees' \in Seq(Fee)
      BY <3>1, <3>2
    <3> QED
      BY <3>3 DEF Fee
  <2> QED
    BY <1>1, <2>1, <2>2 DEF ProcessAll, TypeOK, Debtor
<1>2. CASE ReplyIntervenes
  <2>1. Intervention[NewestPending] \in States
    BY <1>2 DEF ReplyIntervenes, Intervention, Acting, Categories, States
  <2>2. debtor' \in Debtor
    BY <1>0, <1>2, <2>1, ReactivatedTyped, StateTyped DEF ReplyIntervenes
  <2> QED
    BY <1>2, <2>2 DEF ReplyIntervenes, TypeOK, Debtor
<1>3. CASE FindNoIntervention
  <2>1. debtor' \in Debtor
    BY <1>0, <1>3, ReactivatedTyped DEF FindNoIntervention
  <2>2. pass' \in Pass
    BY <1>3, RepliesTyped DEF FindNoIntervention, Pass
  <2> QED
    BY <1>3, <2>1, <2>2 DEF FindNoIntervention, TypeOK, Debtor, Pass
<1>4. CASE FileDispute \/ MarkPaid
  <2>1. debtor' \in Debtor
    BY <1>0, <1>4, StateTyped DEF FileDispute, MarkPaid, States
  <2> QED
    BY <1>4, <2>1 DEF FileDispute, MarkPaid, TypeOK, Debtor
<1>5. ASSUME NEW ok \in BOOLEAN, Escalate(ok) PROVE TypeOK'
  <2>1. debtor' \in Debtor /\ contacts' \in Seq(Contact)
    BY <1>0, <1>5, ProcessTyped, ContactedTyped DEF Escalate
  <2>2. pass' \in Pass
    BY <1>5 DEF Escalate, IdlePass, Pass
  <2> QED
    BY <1>5, <2>1, <2>2 DEF Escalate, TypeOK, Debtor, Pass
<1>6. ASSUME NEW tier \in Tiers, IngestAgain(tier) PROVE TypeOK'
  <2>1. debtor' \in Debtor /\ contacts' \in Seq(Contact)
    BY <1>6, IngestedTyped DEF IngestAgain
  <2> QED
    BY <1>6, <2>1 DEF IngestAgain, TypeOK, Debtor
<1> QED
  BY <1>1, <1>2, <1>3, <1>4, <1>5, <1>6 DEF Engine

LEMMA WebTyped == ASSUME TypeOK, Web PROVE TypeOK'
<1> DEFINE Request == [pc : {"idle", "insert", "apply"}, category : Categories, at : Nat]
<1>0. /\ replies \in Seq(Reply) /\ req \in [Requests -> Request] /\ row \in RowStates
      /\ Resting \in Request /\ clock \in Nat
  BY DEF TypeOK, Resting, Categories
<1>1. ASSUME NEW r \in Requests, NEW category \in Categories, ReceiveReply(r, category)
      PROVE  TypeOK'
  <2>1. req' \in [Requests -> Request] /\ clock' \in Nat
    BY <1>0, <1>1 DEF ReceiveReply
  <2> QED
    BY <1>1, <2>1 DEF ReceiveReply, TypeOK
<1>2. ASSUME NEW r \in Requests, ApplyAction(r) PROVE TypeOK'
  <2>1. req' \in [Requests -> Request]
    BY <1>0, <1>2 DEF ApplyAction
  <2>2. row' \in RowStates
    BY <1>0, <1>2 DEF ApplyAction, RowAfter, RowStates
  <2> QED
    BY <1>2, <2>1, <2>2 DEF ApplyAction, TypeOK
<1>3. ASSUME NEW r \in Requests, ApplyRefused(r) \/ PersistRefused(r) PROVE TypeOK'
  <2>1. req' \in [Requests -> Request]
    BY <1>0, <1>3 DEF ApplyRefused, PersistRefused
  <2> QED
    BY <1>3, <2>1 DEF ApplyRefused, PersistRefused, TypeOK
<1>4. ASSUME NEW k \in DOMAIN replies, ResolveReply(k) PROVE TypeOK'
  <2>1. [replies[k] EXCEPT !.resolution = "resolved"] \in Reply
    BY RepliesTyped DEF Reply
  <2>2. replies' \in Seq(Reply)
    BY <1>0, <1>4, <2>1 DEF ResolveReply
  <2> QED
    BY <1>4, <2>2 DEF ResolveReply, TypeOK
<1>5. ASSUME NEW r \in Requests, PersistReply(r) PROVE TypeOK'
  <2>1. req' \in [Requests -> Request]
    BY <1>0, <1>5 DEF PersistReply
  <2>2. [category |-> req[r].category, at |-> req[r].at, resolution |-> "pending"] \in Reply
    BY <1>0 DEF Reply
  <2>3. replies' \in Seq(Reply)
    BY <1>0, <1>5, <2>2 DEF PersistReply
  <2> QED
    BY <1>5, <2>1, <2>3 DEF PersistReply, TypeOK
<1> QED
  BY <1>1, <1>2, <1>3, <1>4, <1>5 DEF Web

LEMMA NextTyped == ASSUME TypeOK, [Next]_vars PROVE TypeOK'
<1>1. CASE Tick
  BY <1>1 DEF Tick, TypeOK
<1>2. CASE UNCHANGED vars
  BY <1>2 DEF vars, TypeOK
<1> QED
  BY <1>1, <1>2, EngineTyped, WebTyped DEF Next

LEMMA InitTyped == Init => TypeOK
<1> SUFFICES ASSUME Init PROVE TypeOK
  OBVIOUS
<1>1. today \in Nat
  BY CollectionsAssumption DEF Init
<1>2. debtor \in Debtor
  BY <1>1 DEF Init, Ingested, Debtor, States, Days
<1>3. req \in [Requests -> [pc : {"idle", "insert", "apply"}, category : Categories, at : Nat]]
  BY DEF Init, Resting, Categories
<1>4. fees \in Seq([days : Nat, on : Nat]) /\ contacts \in Seq(Contact)
  BY DEF Init
<1>5. replies \in Seq(Reply) /\ pass \in Pass
  BY DEF Init, IdlePass, Pass
<1>6. row \in RowStates /\ clock \in Nat /\ passes \in Nat /\ disturbed \in BOOLEAN
  BY DEF Init, RowStates, Days
<1> QED
  BY <1>1, <1>2, <1>3, <1>4, <1>5, <1>6 DEF TypeOK, Debtor, Pass

\* Every reachable state is well typed.
THEOREM TypeCorrect == Spec => []TypeOK
BY InitTyped, NextTyped, PTL DEF Spec

-----------------------------------------------------------------------------
(* What a pass does to contacts and to the debtor. *)

\* Either the contacts stay, or one is added at a later step that is due.
LEMMA ContactIsLater ==
    ASSUME TypeOK, RemindersClimb, NEW ok \in BOOLEAN,
           debtor' = ProcessDebtor(debtor, ok), contacts' = Contacted(debtor, ok)
    PROVE  RemindersClimb'
<1>0. today \in Nat /\ debtor \in Debtor /\ contacts \in Seq(Contact)
  BY TypeOf
<1>1. CASE ~TakesStep(debtor, ok)
  <2>1. contacts' = contacts
    BY <1>1 DEF Contacted
  <2>2. debtor'.current_step = debtor.current_step
    BY <1>0, <1>1 DEF ProcessDebtor, Debtor
  <2> QED
    BY <2>1, <2>2 DEF RemindersClimb, Last
<1>2. CASE TakesStep(debtor, ok)
  <2> DEFINE c == [step |-> NextRule(debtor).day, on |-> today]
             n == Len(contacts)
  <2>1. debtor.tier \in Tiers /\ Due(debtor) # {}
    BY <1>0, <1>2 DEF Debtor, TakesStep
  <2>2. c.step \in Nat /\ debtor.current_step < c.step /\ c.step <= c.on
    BY <2>1, NextRuleIsDue
  <2>3. debtor'.current_step = c.step
    BY <1>0, <1>2 DEF ProcessDebtor, Debtor, TakesStep
  <2>4. contacts' = Append(contacts, c)
    BY <1>2 DEF Contacted
  <2> HIDE DEF c
  <2>5. n \in Nat /\ Len(contacts') = n + 1 /\ DOMAIN contacts = 1..n /\ DOMAIN contacts' = 1..(n + 1)
    BY <1>0, <2>4
  <2>6. \A k \in 1..n : contacts'[k] = contacts[k]
    BY <1>0, <2>4
  <2>7. contacts'[n + 1] = c
    BY <1>0, <2>4
  <2>8. ASSUME NEW k \in 1..n PROVE contacts[k].step < c.step
    <3>1. contacts # <<>> /\ n \in 1..n
      BY <1>0, <2>5
    <3>2. debtor.current_step = contacts[n].step
      BY <3>1 DEF RemindersClimb, Last
    <3>3. contacts[k].step \in Nat /\ contacts[n].step \in Nat
      <4>1. \A i \in 1..n : contacts[i] \in Contact
        BY <1>0, <2>5
      <4> QED
        BY <3>1, <4>1 DEF Contact
    <3>4. k = n \/ k < n
      <4> HIDE DEF n
      <4>1. n \in Nat
        BY <2>5
      <4> QED
        BY <4>1
    <3>5. k < n => contacts[k].step < contacts[n].step
      BY <2>5, <3>1 DEF RemindersClimb
    <3> QED
      BY <2>2, <3>2, <3>3, <3>4, <3>5
  <2>9. \A k \in DOMAIN contacts' : contacts'[k].step <= contacts'[k].on
    <3>1. \A k \in 1..n : contacts[k].step <= contacts[k].on
      BY <2>5 DEF RemindersClimb
    <3>2. \A k \in 1..(n + 1) : k \in 1..n \/ k = n + 1
      BY <2>5
    <3> QED
      BY <2>2, <2>5, <2>6, <2>7, <3>1, <3>2
  <2>10. ASSUME NEW i \in DOMAIN contacts', NEW k \in DOMAIN contacts', i < k
         PROVE  contacts'[i].step < contacts'[k].step
    <3>1. i \in 1..n /\ (k \in 1..n \/ k = n + 1)
      BY <2>5, <2>10
    <3>2. CASE k \in 1..n
      <4>1. contacts[i].step < contacts[k].step
        BY <2>5, <2>10, <3>1, <3>2 DEF RemindersClimb
      <4> QED
        BY <2>6, <3>1, <3>2, <4>1
    <3>3. CASE k = n + 1
      BY <2>6, <2>7, <2>8, <3>1, <3>3
    <3> QED
      BY <3>1, <3>2, <3>3
  <2>11. contacts' # <<>> /\ contacts'[Len(contacts')] = c
    BY <2>5, <2>7
  <2> QED
    BY <2>3, <2>9, <2>10, <2>11 DEF RemindersClimb, Last
<1> QED
  BY <1>1, <1>2

LEMMA ClimbStep == ASSUME TypeOK, RemindersClimb, [Next]_vars PROVE RemindersClimb'
<1>0. debtor \in Debtor
  BY TypeOf
<1>1. ASSUME NEW ok \in BOOLEAN, ProcessAll(ok) PROVE RemindersClimb'
  BY <1>0, <1>1, ContactIsLater DEF ProcessAll
<1>2. ASSUME NEW ok \in BOOLEAN, Escalate(ok) PROVE RemindersClimb'
  BY <1>2, ContactIsLater DEF Escalate
<1>3. ASSUME UNCHANGED contacts, debtor'.current_step = debtor.current_step PROVE RemindersClimb'
  BY <1>3 DEF RemindersClimb, Last
<1>4. CASE ReplyIntervenes \/ FindNoIntervention
  BY <1>0, <1>3, <1>4 DEF ReplyIntervenes, FindNoIntervention, Reactivated, Debtor
<1>5. CASE FileDispute \/ MarkPaid
  BY <1>0, <1>3, <1>5 DEF FileDispute, MarkPaid, Debtor
<1>6. CASE Tick \/ Web \/ UNCHANGED vars
  BY <1>3, <1>6 DEF Tick, Web, ReceiveReply, PersistReply, PersistRefused, ApplyAction, ApplyRefused,
                    ResolveReply, vars
<1>7. ASSUME NEW tier \in Tiers, IngestAgain(tier) PROVE RemindersClimb'
  BY <1>7 DEF IngestAgain, Ingested, RemindersClimb
<1> QED
  BY <1>1, <1>2, <1>4, <1>5, <1>6, <1>7 DEF Next, Engine

\* No step of the ladder is taken twice, out of order, or before its day, and the
\* debtor's current_step is the step of the last contact.
THEOREM Climbing == Spec => []RemindersClimb
<1>1. Init => RemindersClimb
  BY DEF Init, Ingested, RemindersClimb
<1> QED
  BY <1>1, InitTyped, NextTyped, ClimbStep, PTL DEF Spec

-----------------------------------------------------------------------------
(* Replies hold contact, settled debtors are left alone. *)

\* The strengthening: while a pass escalates, what was stored when it looked either does not
\* act or is hidden.  Replies are only added, and a resolved one does not act.
LookedWell ==
    pass.pc = "escalate" =>
        /\ pass.looked <= Len(replies)
        /\ \A k \in DOMAIN replies : Acts(k) => pass.looked < k \/ Hidden(k, pass.looked)

\* What the SELECT found: no pending reply, or a newest one that asks for nothing.
LEMMA LookFinds == ASSUME TypeOK, FindNoIntervention PROVE LookedWell'
<1>1. /\ replies' = replies /\ pass'.pc = "escalate" /\ pass'.looked = Len(replies)
      /\ NewestPending \notin Acting
  BY DEF FindNoIntervention
<1>2. Len(replies) \in Nat /\ DOMAIN replies = 1..Len(replies)
  BY RepliesTyped
<1>3. PICK n \in Nat : n = Len(replies) /\ n = pass'.looked
  BY <1>1, <1>2
<1>4. ASSUME NEW k \in DOMAIN replies, Acts(k) PROVE Hidden(k, n)
  <2>1. k \in Pending
    BY <1>4 DEF Acts
  <2>2. /\ Newest \in Pending /\ replies[k].at <= replies[Newest].at
        /\ replies[Newest].category \notin Acting
    BY <1>1, <2>1, NewestExists DEF NewestPending
  <2>3. Newest \in DOMAIN replies /\ Newest <= n
    BY <1>2, <1>3, <2>2 DEF Pending
  <2> QED
    BY <2>2, <2>3 DEF Hidden
<1>5. ASSUME NEW k \in DOMAIN replies', Acts(k)' PROVE Hidden(k, n)'
  <2>1. k \in DOMAIN replies /\ Acts(k)
    BY <1>1, <1>5 DEF Acts, Pending
  <2>2. Hidden(k, n)
    BY <1>4, <2>1
  <2> QED
    BY <1>1, <2>2 DEF Hidden
<1> QED
  BY <1>1, <1>2, <1>3, <1>5 DEF LookedWell

\* Replies are added behind what was seen, or resolved.
LEMMA LookStays ==
    ASSUME TypeOK, LookedWell, pass' = pass, Len(replies') \in Nat, Len(replies) <= Len(replies'),
           DOMAIN replies' = 1..Len(replies'),
           \A k \in DOMAIN replies :
              /\ replies'[k].category = replies[k].category
              /\ replies'[k].at = replies[k].at
              /\ k \in Pending' => k \in Pending
    PROVE  LookedWell'
<1> SUFFICES ASSUME pass.pc = "escalate" PROVE LookedWell'
  BY DEF LookedWell
<1>1. PICK n \in Nat : n = pass.looked /\ n <= Len(replies)
  BY DEF LookedWell, TypeOK
<1>2. Len(replies) \in Nat /\ DOMAIN replies = 1..Len(replies)
  BY RepliesTyped
<1>3. \A k \in DOMAIN replies : k \in DOMAIN replies'
  BY <1>2
<1>4. ASSUME NEW k \in DOMAIN replies', Acts(k)' PROVE n < k \/ Hidden(k, n)'
  <2>1. CASE k \in DOMAIN replies
    <3>1. Acts(k)
      BY <1>4, <2>1 DEF Acts
    <3>2. n < k \/ Hidden(k, n)
      BY <1>1, <2>1, <3>1 DEF LookedWell
    <3>3. Hidden(k, n) => Hidden(k, n)'
      BY <1>3, <2>1 DEF Hidden
    <3> QED
      BY <3>2, <3>3
  <2>2. CASE k \notin DOMAIN replies
    BY <1>1, <1>2, <2>2
  <2> QED
    BY <2>1, <2>2
<1> QED
  BY <1>1, <1>2, <1>4 DEF LookedWell

LEMMA LookStep == ASSUME TypeOK, LookedWell, [Next]_vars PROVE LookedWell'
<1>0. replies \in Seq(Reply) /\ Len(replies) \in Nat /\ DOMAIN replies = 1..Len(replies)
  BY RepliesTyped
<1>1. ASSUME UNCHANGED <<pass, replies>> PROVE LookedWell'
  BY <1>0, <1>1, LookStays DEF Pending
<1>2. CASE FindNoIntervention
  BY <1>2, LookFinds
<1>3. ASSUME NEW ok \in BOOLEAN, Escalate(ok) PROVE LookedWell'
  BY <1>3 DEF Escalate, IdlePass, LookedWell
<1>4. ASSUME NEW r \in Requests, PersistReply(r) PROVE LookedWell'
  <2>1. PICK new : new = [category |-> req[r].category, at |-> req[r].at, resolution |-> "pending"]
    OBVIOUS
  <2>2. replies' = Append(replies, new) /\ pass' = pass
    BY <1>4, <2>1 DEF PersistReply
  <2>3. /\ Len(replies') = Len(replies) + 1 /\ DOMAIN replies' = 1..(Len(replies) + 1)
        /\ \A k \in DOMAIN replies : replies'[k] = replies[k]
    BY <1>0, <2>2
  <2>4. \A k \in DOMAIN replies : k \in Pending' => k \in Pending
    BY <2>3 DEF Pending
  <2>5. Len(replies') \in Nat /\ Len(replies) <= Len(replies')
    BY <1>0, <2>3
  <2>6. \A k \in DOMAIN replies : replies'[k].category = replies[k].category /\ replies'[k].at = replies[k].at
    BY <2>3
  <2>7. DOMAIN replies' = 1..Len(replies')
    BY <2>3
  <2> QED
    BY <2>2, <2>4, <2>5, <2>6, <2>7, LookStays
<1>5. ASSUME NEW n \in DOMAIN replies, ResolveReply(n) PROVE LookedWell'
  <2>1. PICK new : new = [replies[n] EXCEPT !.resolution = "resolved"]
    OBVIOUS
  <2>2. /\ new.category = replies[n].category /\ new.at = replies[n].at
        /\ new.resolution = "resolved" /\ new \in Reply
    BY <2>1, RepliesTyped DEF Reply
  <2>3. replies' = [replies EXCEPT ![n] = new] /\ pass' = pass
    BY <1>5, <2>1 DEF ResolveReply
  <2>4. /\ Len(replies') = Len(replies) /\ DOMAIN replies' = DOMAIN replies
        /\ \A i \in DOMAIN replies : replies'[i] = IF i = n THEN new ELSE replies[i]
    BY <1>0, <2>2, <2>3
  <2>5. \A k \in DOMAIN replies : k \in Pending' => k \in Pending
    BY <2>2, <2>4 DEF Pending
  <2>6. \A k \in DOMAIN replies : replies'[k].category = replies[k].category /\ replies'[k].at = replies[k].at
    BY <2>2, <2>4
  <2>7. DOMAIN replies' = 1..Len(replies') /\ Len(replies') \in Nat /\ Len(replies) <= Len(replies')
    BY <1>0, <2>4
  <2> QED
    BY <2>3, <2>5, <2>6, <2>7, LookStays
<1>6. CASE \/ \E ok \in BOOLEAN : ProcessAll(ok)
           \/ ReplyIntervenes \/ FileDispute \/ MarkPaid
           \/ \E tier \in Tiers : IngestAgain(tier)
  BY <1>1, <1>6 DEF ProcessAll, ReplyIntervenes, FileDispute, MarkPaid, IngestAgain
<1>7. CASE \/ Tick \/ UNCHANGED vars
           \/ \E r \in Requests, category \in Categories : ReceiveReply(r, category)
           \/ \E r \in Requests : PersistRefused(r) \/ ApplyAction(r) \/ ApplyRefused(r)
  BY <1>1, <1>7 DEF Tick, ReceiveReply, PersistRefused, ApplyAction, ApplyRefused, vars
<1> QED
  BY <1>2, <1>3, <1>4, <1>5, <1>6, <1>7 DEF Next, Engine, Web

\* When a pass that has looked for replies contacts, every acting reply that is pending by
\* then was stored after the look or hidden from it.
THEOREM HeldBack == Spec => PendingReplyHoldsContact
<1>1. Init => LookedWell
  BY DEF Init, IdlePass, LookedWell
<1>2. LookedWell =>
        [pass.pc = "escalate" /\ contacts' # contacts =>
           \A k \in DOMAIN replies : Acts(k) => pass.looked < k \/ Hidden(k, pass.looked)]_vars
  BY DEF LookedWell
<1> QED
  BY <1>1, <1>2, InitTyped, NextTyped, LookStep, PTL DEF Spec, PendingReplyHoldsContact

\* No step but a second ingest_csv() contacts, charges or revives a debtor the engine has
\* down as paid or disputed.
THEOREM LeftAlone == Spec => SettledIsLeftAlone
<1> DEFINE Quiet == debtor.state \in {"paid", "disputed"} =>
                      \/ debtor'.state \in {"paid", "disputed"} /\ UNCHANGED <<contacts, fees>>
                      \/ \E tier \in Tiers : IngestAgain(tier)
<1>1. TypeOK /\ [Next]_vars => [Quiet]_vars
  <2> SUFFICES ASSUME TypeOK, [Next]_vars, debtor.state \in {"paid", "disputed"}
               PROVE  Quiet
    OBVIOUS
  <2>0. debtor \in Debtor
    BY TypeOf
  <2>1. ASSUME NEW ok \in BOOLEAN, ProcessAll(ok) \/ Escalate(ok)
        PROVE  debtor' = debtor /\ UNCHANGED <<contacts, fees>>
    BY <2>1 DEF ProcessAll, Escalate, ProcessDebtor, Contacted, TakesStep, Settled, ChargesFee
  <2>2. ~Eligible(debtor)
    BY DEF Eligible
  <2>3. CASE FileDispute \/ MarkPaid
    BY <2>0, <2>3 DEF FileDispute, MarkPaid, Debtor
  <2>4. CASE Tick \/ Web \/ UNCHANGED vars
    BY <2>4 DEF Tick, Web, ReceiveReply, PersistReply, PersistRefused, ApplyAction, ApplyRefused, ResolveReply, vars
  <2> QED
    BY <2>1, <2>2, <2>3, <2>4 DEF Next, Engine, ReplyIntervenes, FindNoIntervention
<1> QED
  BY <1>1, TypeCorrect, PTL DEF Spec, SettledIsLeftAlone

-----------------------------------------------------------------------------
(* Fees. *)

\* The strengthening for fees: the day count the next fee is based on lies between the
\* last fee's and today.
DayCountLags ==
    /\ debtor.days_overdue <= today
    /\ \A k \in DOMAIN fees : fees[k].days <= debtor.days_overdue

LEMMA DaysAdvance ==
    ASSUME NEW d \in Debtor, NEW ok \in BOOLEAN
    PROVE  ProcessDebtor(d, ok).days_overdue \in {d.days_overdue, today}
BY DEF ProcessDebtor, Debtor

LEMMA FeeStep ==
    ASSUME TypeOK, DayCountLags, FeesLagTheCalendar, [Next]_vars
    PROVE  DayCountLags' /\ FeesLagTheCalendar'
<1>0. today \in Nat /\ debtor \in Debtor /\ fees \in Seq([days : Nat, on : Nat])
  BY TypeOf DEF TypeOK
<1> DEFINE n == Len(fees)
<1>1. debtor.days_overdue \in Nat /\ n \in Nat /\ DOMAIN fees = 1..n
  BY <1>0 DEF Debtor
<1>2. \A k \in 1..n : fees[k].days \in Nat /\ fees[k].on \in Nat
  <2> DEFINE Fee == [days : Nat, on : Nat]
  <2>1. fees \in Seq(Fee)
    BY <1>0
  <2> HIDE DEF Fee
  <2>2. \A k \in 1..n : fees[k] \in Fee
    BY <1>1, <2>1
  <2> QED
    BY <2>2 DEF Fee
<1>3. ASSUME UNCHANGED fees, today' \in Nat, today' >= today,
             debtor'.days_overdue \in {debtor.days_overdue, today}
      PROVE  DayCountLags' /\ FeesLagTheCalendar'
  <2>1. debtor'.days_overdue <= today' /\ debtor.days_overdue <= debtor'.days_overdue
    BY <1>0, <1>1, <1>3 DEF DayCountLags
  <2>2. debtor'.days_overdue \in Nat
    BY <1>0, <1>1, <1>3
  <2>3. \A k \in 1..n : fees[k].days <= debtor'.days_overdue
    BY <1>1, <1>2, <2>1, <2>2 DEF DayCountLags
  <2> QED
    BY <1>1, <1>3, <2>1, <2>3 DEF DayCountLags, FeesLagTheCalendar
<1>4. ASSUME NEW ok \in BOOLEAN, ProcessAll(ok) PROVE DayCountLags' /\ FeesLagTheCalendar'
  <2>1. debtor'.days_overdue \in {debtor.days_overdue, today} /\ today' = today
    BY <1>0, <1>4, DaysAdvance DEF ProcessAll
  <2>2. CASE ~ChargesFee
    BY <1>0, <1>3, <1>4, <2>1, <2>2 DEF ProcessAll
  <2>3. CASE ChargesFee
    <3> DEFINE fee == [days |-> debtor.days_overdue, on |-> today]
    <3>1. fees' = Append(fees, fee)
      BY <1>4, <2>3 DEF ProcessAll
    <3>2. fee.days = debtor.days_overdue /\ fee.on = today
      OBVIOUS
    <3> HIDE DEF fee
    <3>3. DOMAIN fees' = 1..(n + 1) /\ fees'[n + 1] = fee /\ \A k \in 1..n : fees'[k] = fees[k]
      BY <1>0, <3>1
    <3>4. \A k \in 1..(n + 1) : k \in 1..n \/ k = n + 1
      BY <1>1
    <3>5. FeeGrace < fee.days /\ fee.days <= fee.on
      BY <1>0, <1>1, <2>3, <3>2, CollectionsAssumption DEF ChargesFee, DayCountLags
    <3>6. \A k \in 1..n : fees[k].days <= fee.days
      BY <1>1, <3>2 DEF DayCountLags
    <3>7. debtor'.days_overdue <= today' /\ fee.days <= debtor'.days_overdue
      BY <1>0, <1>1, <2>1, <3>2 DEF DayCountLags
    <3>8. debtor'.days_overdue \in Nat
      BY <1>0, <1>1, <2>1
    <3>9. DayCountLags'
      <4>1. \A k \in 1..n : fees[k].days <= debtor'.days_overdue
        BY <1>1, <1>2, <3>2, <3>6, <3>7, <3>8
      <4> QED
        BY <3>3, <3>4, <3>7, <4>1 DEF DayCountLags
    <3>10. \A k \in DOMAIN fees' : FeeGrace < fees'[k].days /\ fees'[k].days <= fees'[k].on
      BY <1>1, <3>3, <3>4, <3>5 DEF FeesLagTheCalendar
    <3>11. ASSUME NEW i \in DOMAIN fees', NEW k \in DOMAIN fees', i < k
           PROVE  fees'[i].days <= fees'[k].days
      <4>1. i \in 1..n /\ (k \in 1..n \/ k = n + 1)
        BY <1>1, <3>3, <3>11
      <4>2. k \in 1..n => fees[i].days <= fees[k].days
        BY <1>1, <3>11, <4>1 DEF FeesLagTheCalendar
      <4> QED
        BY <3>3, <3>6, <4>1, <4>2
    <3> QED
      BY <3>9, <3>10, <3>11 DEF FeesLagTheCalendar
  <2> QED
    BY <2>2, <2>3
<1>5. ASSUME NEW ok \in BOOLEAN, Escalate(ok) PROVE DayCountLags' /\ FeesLagTheCalendar'
  <2>1. debtor'.days_overdue \in {debtor.days_overdue, today}
    BY <1>0, <1>5, DaysAdvance DEF Escalate
  <2> QED
    BY <1>0, <1>3, <1>5, <2>1 DEF Escalate
<1>6. CASE ReplyIntervenes \/ FindNoIntervention
  <2>1. debtor'.days_overdue = debtor.days_overdue
    BY <1>0, <1>6 DEF ReplyIntervenes, FindNoIntervention, Reactivated, Debtor
  <2> QED
    BY <1>0, <1>3, <1>6, <2>1 DEF ReplyIntervenes, FindNoIntervention
<1>7. CASE FileDispute \/ MarkPaid
  <2>1. debtor'.days_overdue = debtor.days_overdue
    BY <1>0, <1>7 DEF FileDispute, MarkPaid, Debtor
  <2> QED
    BY <1>0, <1>3, <1>7, <2>1 DEF FileDispute, MarkPaid
<1>8. CASE Tick
  BY <1>0, <1>3, <1>8 DEF Tick
<1>9. CASE Web \/ UNCHANGED vars
  <2>1. UNCHANGED <<today, debtor, fees>>
    BY <1>9 DEF Web, ReceiveReply, PersistReply, PersistRefused, ApplyAction, ApplyRefused, ResolveReply, vars
  <2> QED
    BY <1>0, <1>3, <2>1
<1>10. ASSUME NEW tier \in Tiers, IngestAgain(tier) PROVE DayCountLags' /\ FeesLagTheCalendar'
  BY <1>0, <1>3, <1>10 DEF IngestAgain, Ingested
<1> QED
  BY <1>4, <1>5, <1>6, <1>7, <1>8, <1>9, <1>10 DEF Next, Engine

\* Fees never run ahead of the calendar, go backwards, or start within the grace period.
THEOREM FeesLag == Spec => []FeesLagTheCalendar
<1>1. Init => DayCountLags /\ FeesLagTheCalendar
  <2> SUFFICES ASSUME Init PROVE DayCountLags /\ FeesLagTheCalendar
    OBVIOUS
  <2>1. today \in Nat /\ debtor.days_overdue = today
    BY CollectionsAssumption DEF Init, Ingested
  <2> QED
    BY <2>1 DEF Init, DayCountLags, FeesLagTheCalendar
<1> QED
  BY <1>1, InitTyped, NextTyped, FeeStep, PTL DEF Spec

-----------------------------------------------------------------------------
(* The row follows the replies. *)

\* s is what the first n replies ask for, one after the other.
AskedBy(n, s) ==
    \/ s = "pending" /\ \A i \in 1..n : i \notin Asking
    \/ \E k \in 1..n : /\ k \in Asking
                      /\ s = RowAfter(replies[k].category, "pending")
                      /\ \A i \in 1..n : k < i => i \notin Asking

\* The strengthening of RowFollowsReplies: while nothing has overlapped or been refused, at
\* most one reply is stored and not yet applied, it is the last one, and the row follows
\* the others.
RowLagsOneReply ==
    ~disturbed =>
        \/ Applying = {} /\ AskedBy(Len(replies), row)
        \/ \E r \in Requests : /\ Applying = {r}
                              /\ replies # <<>>
                              /\ req[r].category = replies[Len(replies)].category
                              /\ AskedBy(Len(replies) - 1, row)

LEMMA RowAfterActs ==
    ASSUME NEW category \in Categories, NEW state \in RowStates
    PROVE  RowAfter(category, state) = IF RowAfter(category, "pending") = "pending" THEN state
                                       ELSE RowAfter(category, "pending")
BY DEF RowAfter, Categories

\* One more reply: the row that follows n replies, once the next is applied, follows n + 1.
LEMMA AskedNext ==
    ASSUME TypeOK, NEW n \in Nat, n + 1 \in DOMAIN replies, NEW s \in RowStates, AskedBy(n, s)
    PROVE  AskedBy(n + 1, RowAfter(replies[n + 1].category, s))
<1>1. replies[n + 1].category \in Categories
  BY RepliesTyped
<1>2. \A i \in 1..(n + 1) : i \in 1..n \/ i = n + 1
  OBVIOUS
<1>3. \A i \in 1..n : i \in 1..(n + 1) /\ i < n + 1
  OBVIOUS
<1>4. n + 1 \in 1..(n + 1)
  OBVIOUS
<1>5. CASE n + 1 \in Asking
  <2>1. RowAfter(replies[n + 1].category, s) = RowAfter(replies[n + 1].category, "pending")
    BY <1>1, <1>5, RowAfterActs DEF Asking
  <2>2. \A i \in 1..(n + 1) : ~(n + 1 < i)
    OBVIOUS
  <2> QED
    BY <1>4, <1>5, <2>1, <2>2 DEF AskedBy
<1>6. CASE n + 1 \notin Asking
  <2>1. RowAfter(replies[n + 1].category, s) = s
    BY <1>1, <1>6, RowAfterActs DEF Asking
  <2>2. CASE s = "pending" /\ \A i \in 1..n : i \notin Asking
    BY <1>2, <1>6, <2>1, <2>2 DEF AskedBy
  <2>3. CASE \E k \in 1..n : /\ k \in Asking
                            /\ s = RowAfter(replies[k].category, "pending")
                            /\ \A i \in 1..n : k < i => i \notin Asking
    <3>1. PICK k \in 1..n : /\ k \in Asking
                           /\ s = RowAfter(replies[k].category, "pending")
                           /\ \A i \in 1..n : k < i => i \notin Asking
      BY <2>3
    <3>2. \A i \in 1..(n + 1) : k < i => i \notin Asking
      BY <1>2, <1>6, <3>1
    <3> QED
      BY <1>3, <2>1, <3>1, <3>2 DEF AskedBy
  <2> QED
    BY <2>2, <2>3 DEF AskedBy
<1> QED
  BY <1>5, <1>6

\* Only the categories of the first n replies matter.
LEMMA AskedStays ==
    ASSUME NEW n \in Nat, NEW s, AskedBy(n, s),
           \A k \in 1..n : /\ k \in DOMAIN replies /\ k \in DOMAIN replies'
                          /\ replies'[k].category = replies[k].category
    PROVE  AskedBy(n, s)'
<1>1. \A k \in 1..n : k \in Asking' <=> k \in Asking
  BY DEF Asking, RowAfter
<1>2. \A k \in 1..n : RowAfter(replies'[k].category, "pending") = RowAfter(replies[k].category, "pending")
  OBVIOUS
<1>3. CASE s = "pending" /\ \A i \in 1..n : i \notin Asking
  BY <1>1, <1>3 DEF AskedBy
<1>4. CASE \E k \in 1..n : /\ k \in Asking
                          /\ s = RowAfter(replies[k].category, "pending")
                          /\ \A i \in 1..n : k < i => i \notin Asking
  BY <1>1, <1>2, <1>4 DEF AskedBy, RowAfter
<1> QED
  BY <1>3, <1>4 DEF AskedBy

LEMMA AskedIsReplay ==
    ASSUME TypeOK, NEW s, AskedBy(Len(replies), s) PROVE s = Replay
<1>1. /\ Len(replies) \in Nat /\ DOMAIN replies = 1..Len(replies)
      /\ Asking \subseteq 1..Len(replies)
  BY DEF TypeOK, Asking
<1>2. CASE s = "pending" /\ \A i \in 1..Len(replies) : i \notin Asking
  BY <1>1, <1>2 DEF Replay
<1>3. ASSUME NEW k \in 1..Len(replies), k \in Asking,
             s = RowAfter(replies[k].category, "pending"),
             \A i \in 1..Len(replies) : k < i => i \notin Asking
      PROVE  s = Replay
  <2>1. \A i \in Asking : k >= i
    BY <1>1, <1>3
  <2>2. PICK x : x = Max(Asking)
    OBVIOUS
  <2>3. x \in Asking /\ x >= k
    BY <1>3, <2>1, <2>2 DEF Max
  <2>4. Max(Asking) = k
    <3>1. k >= x
      BY <2>1, <2>3
    <3>2. x \in Nat /\ k \in Nat
      BY <1>1, <2>3
    <3> QED
      BY <2>2, <2>3, <3>1, <3>2
  <2> QED
    BY <1>3, <2>4 DEF Replay
<1> QED
  BY <1>2, <1>3 DEF AskedBy

\* A step that leaves row, requests and the categories of the replies alone.
LEMMA RowUndisturbed ==
    ASSUME TypeOK, RowLagsOneReply, UNCHANGED <<row, req, disturbed>>,
           Len(replies') = Len(replies), DOMAIN replies' = DOMAIN replies,
           \A k \in DOMAIN replies : replies'[k].category = replies[k].category
    PROVE  RowLagsOneReply'
<1> SUFFICES ASSUME ~disturbed PROVE RowLagsOneReply'
  BY DEF RowLagsOneReply
<1>1. /\ Len(replies) \in Nat /\ DOMAIN replies = 1..Len(replies)
      /\ (replies # <<>> => Len(replies) \in 1..Len(replies) /\ Len(replies) - 1 \in Nat)
  BY DEF TypeOK
<1>2. Applying' = Applying
  BY DEF Applying
<1>3. PICK n : n = Len(replies)
  OBVIOUS
<1>4. PICK s : s = row
  OBVIOUS
<1>5. CASE Applying = {} /\ AskedBy(n, s)
  <2>1. AskedBy(n, s)'
    BY <1>1, <1>3, <1>5, AskedStays
  <2> QED
    BY <1>2, <1>3, <1>4, <1>5, <2>1 DEF RowLagsOneReply
<1>6. ASSUME NEW r \in Requests, Applying = {r}, replies # <<>>,
             req[r].category = replies[n].category, AskedBy(n - 1, s)
      PROVE  RowLagsOneReply'
  <2>1. PICK m \in Nat : m = n - 1
    BY <1>1, <1>3, <1>6
  <2>2. \A k \in 1..m : k \in 1..n
    BY <1>1, <1>3, <2>1
  <2>3. AskedBy(m, s)'
    BY <1>1, <1>3, <1>6, <2>1, <2>2, AskedStays
  <2>4. replies' # <<>> /\ replies'[n].category = replies[n].category
    BY <1>1, <1>3, <1>6
  <2> QED
    BY <1>2, <1>3, <1>4, <1>6, <2>1, <2>3, <2>4 DEF RowLagsOneReply
<1> QED
  BY <1>3, <1>4, <1>5, <1>6 DEF RowLagsOneReply

LEMMA RowPersist ==
    ASSUME TypeOK, RowLagsOneReply, NEW r \in Requests, PersistReply(r)
    PROVE  RowLagsOneReply'
<1> SUFFICES ASSUME ~disturbed' PROVE RowLagsOneReply'
  BY DEF RowLagsOneReply
<1>1. ~disturbed /\ Applying = {} /\ row' = row
  BY DEF PersistReply, TypeOK
<1>2. PICK n : n = Len(replies)
  OBVIOUS
<1>3. PICK s : s = row
  OBVIOUS
<1>4. PICK m : m = [category |-> req[r].category, at |-> req[r].at, resolution |-> "pending"]
  OBVIOUS
<1>5. replies \in Seq(Reply) /\ m \in Reply /\ replies' = Append(replies, m)
  BY <1>4 DEF PersistReply, TypeOK, Reply
<1>6. /\ n \in Nat /\ DOMAIN replies = 1..n /\ DOMAIN replies' = 1..(n + 1) /\ Len(replies') = n + 1
      /\ replies'[n + 1] = m /\ replies' # <<>> /\ (n + 1) - 1 = n
      /\ \A k \in 1..n : replies'[k] = replies[k]
  BY <1>2, <1>5
<1>7. AskedBy(n, s)
  BY <1>1, <1>2, <1>3 DEF RowLagsOneReply
<1>8. AskedBy(n, s)'
  BY <1>6, <1>7, AskedStays
<1>9. Applying' = {r} /\ req'[r].category = m.category
  BY <1>1, <1>4 DEF Applying, PersistReply, TypeOK
<1> QED
  BY <1>1, <1>3, <1>4, <1>6, <1>8, <1>9 DEF RowLagsOneReply

LEMMA RowApply ==
    ASSUME TypeOK, RowLagsOneReply, NEW r \in Requests, ApplyAction(r) PROVE RowLagsOneReply'
<1> SUFFICES ASSUME ~disturbed PROVE RowLagsOneReply'
  BY DEF RowLagsOneReply, ApplyAction
<1>1. r \in Applying
  BY DEF ApplyAction, Applying
<1>2. PICK s \in RowStates : s = row
  BY DEF TypeOK
<1>3. /\ Applying = {r} /\ replies # <<>>
      /\ req[r].category = replies[Len(replies)].category /\ AskedBy(Len(replies) - 1, s)
  BY <1>1, <1>2 DEF RowLagsOneReply
<1>4. PICK n \in Nat : n = Len(replies) - 1 /\ n + 1 = Len(replies) /\ n + 1 \in DOMAIN replies
  <2>1. Len(replies) \in Nat /\ DOMAIN replies = 1..Len(replies) /\ Len(replies) # 0
    BY <1>3 DEF TypeOK
  <2>2. Len(replies) - 1 \in Nat /\ (Len(replies) - 1) + 1 = Len(replies) /\ Len(replies) \in 1..Len(replies)
    BY <2>1
  <2> QED
    BY <2>1, <2>2
<1>5. PICK t : t = RowAfter(req[r].category, s)
  OBVIOUS
<1>6. AskedBy(n + 1, t)
  BY <1>2, <1>3, <1>4, <1>5, AskedNext
<1>7. row' = t /\ replies' = replies
  BY <1>2, <1>5 DEF ApplyAction
<1>8. Applying' = {}
  BY <1>3 DEF ApplyAction, Applying, Resting, TypeOK
<1>9. DOMAIN replies = 1..(n + 1) /\ n + 1 \in Nat
  BY <1>4 DEF TypeOK
<1>10. AskedBy(n + 1, t)'
  BY <1>6, <1>7, <1>9, AskedStays
<1> QED
  BY <1>4, <1>7, <1>8, <1>10 DEF RowLagsOneReply

LEMMA RowInductive == ASSUME TypeOK, RowLagsOneReply, [Next]_vars PROVE RowLagsOneReply'
<1>1. CASE Tick \/ Engine \/ UNCHANGED vars
  <2>1. UNCHANGED <<row, req, disturbed, replies>>
    BY <1>1 DEF Tick, Engine, ProcessAll, ReplyIntervenes, FindNoIntervention, Escalate, FileDispute,
           MarkPaid, IngestAgain, vars
  <2> QED
    BY <2>1, RowUndisturbed
<1>2. ASSUME NEW r \in Requests, ApplyRefused(r) PROVE RowLagsOneReply'
  BY <1>2 DEF ApplyRefused, RowLagsOneReply
<1>3. ASSUME NEW k \in DOMAIN replies, ResolveReply(k) PROVE RowLagsOneReply'
  <2>1. PICK new : new = [replies[k] EXCEPT !.resolution = "resolved"]
    OBVIOUS
  <2>2. new.category = replies[k].category /\ new \in Reply /\ replies \in Seq(Reply)
    BY <2>1, RepliesTyped DEF Reply
  <2>3. replies' = [replies EXCEPT ![k] = new]
    BY <1>3, <2>1 DEF ResolveReply
  <2>4. /\ Len(replies') = Len(replies) /\ DOMAIN replies' = DOMAIN replies
        /\ \A i \in DOMAIN replies : replies'[i] = IF i = k THEN new ELSE replies[i]
    BY <2>2, <2>3
  <2>5. UNCHANGED <<row, req, disturbed>>
    BY <1>3 DEF ResolveReply
  <2> QED
    BY <2>2, <2>4, <2>5, RowUndisturbed
\* A request that has not stored its reply is not applying one.
<1>4. ASSUME NEW r \in Requests, req' = [req EXCEPT ![r] = req'[r]],
             req[r].pc # "apply", req'[r].pc # "apply", UNCHANGED <<row, replies, disturbed>>
      PROVE  RowLagsOneReply'
  <2>1. \A q \in Requests : q # r => req'[q] = req[q]
    BY <1>4 DEF TypeOK
  <2>2. Applying' = Applying /\ r \notin Applying
    BY <1>4, <2>1 DEF Applying
  <2>3. PICK n : n = Len(replies) /\ n = Len(replies')
    BY <1>4
  <2>4. \A m, s : AskedBy(m, s)' <=> AskedBy(m, s)
    BY <1>4 DEF AskedBy, Asking
  <2> QED
    BY <1>4, <2>1, <2>2, <2>4 DEF RowLagsOneReply
<1>5. ASSUME NEW r \in Requests, NEW category \in Categories, ReceiveReply(r, category)
      PROVE  RowLagsOneReply'
  <2>1. req' = [req EXCEPT ![r] = req'[r]] /\ req[r].pc # "apply" /\ req'[r].pc # "apply"
    BY <1>5 DEF ReceiveReply, TypeOK
  <2> QED
    BY <1>4, <1>5, <2>1 DEF ReceiveReply
<1>6. ASSUME NEW r \in Requests, PersistRefused(r) PROVE RowLagsOneReply'
  <2>1. req' = [req EXCEPT ![r] = req'[r]] /\ req[r].pc # "apply" /\ req'[r].pc # "apply"
    BY <1>6 DEF PersistRefused, Resting, TypeOK
  <2> QED
    BY <1>4, <1>6, <2>1 DEF PersistRefused
<1> QED
  BY <1>1, <1>2, <1>3, <1>5, <1>6, RowPersist, RowApply DEF Next, Web

\* Replies ingested one at a time leave the debtor's row in the state that the last of
\* them to ask for one asks for (_apply_action() after _persist_reply()).
THEOREM RowFollows == Spec => []RowFollowsReplies
<1>1. Init => RowLagsOneReply
  BY DEF Init, RowLagsOneReply, Applying, Resting, AskedBy
<1>2. TypeOK /\ RowLagsOneReply => RowFollowsReplies
  BY AskedIsReplay DEF RowLagsOneReply, RowFollowsReplies
<1> QED
  BY <1>1, <1>2, InitTyped, NextTyped, RowInductive, PTL DEF Spec

=============================================================================
