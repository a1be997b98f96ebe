---------------------------- MODULE Collections ----------------------------
(***************************************************************************)
(* One overdue invoice in the debt-management product: the TetherEngine    *)
(* that keeps the debtor in memory and runs escalation passes over it,     *)
(* with late fees (tether_engine.py, escalation_engine.py, late_fees.py),  *)
(* and the web requests that store classified replies and write the        *)
(* debtor's row in the database (reply_pipeline.py).                       *)
(*                                                                         *)
(* Time passes in whole days.  A pass runs in the engine's one thread.  One *)
(* that checks replies is two steps, its SELECT and the escalation after   *)
(* it; a reply is three: its time stamp, its INSERT and the UPDATE of the  *)
(* debtor's row.  Requests interleave with each other and with the pass.   *)
(***************************************************************************)
EXTENDS Naturals, Sequences, FiniteSetsExt, SequencesExt

CONSTANTS
    Tiers,          \* the escalation tiers a debtor may be put in
    Rules,          \* the rules of each tier: their day, and require_human
    NoDay,          \* an empty last_action_at
    PromiseGrace,   \* PROMISE_GRACE_DAYS
    OooRetry,       \* OOO_RETRY_DAYS
    FeeFrom,        \* days_overdue from which a pass assesses a fee
    FeeGrace,       \* grace_period_days of the fee rule
    Requests,       \* request threads
    StartDays,      \* how many days overdue an invoice may be when it is ingested
    MaxDay,         \* bound: the last day
    MaxReplies,     \* bound: replies received
    MaxPasses       \* bound: passes run

ASSUME CollectionsAssumption ==
    /\ NoDay \notin Nat
    /\ {PromiseGrace, OooRetry, FeeFrom, FeeGrace, MaxDay, MaxReplies, MaxPasses} \subseteq Nat
    /\ StartDays \subseteq Nat
    /\ Rules \in [Tiers -> SUBSET [day : Nat \ {0}, human : BOOLEAN]]

VARIABLES
    today,     \* days since the due date
    debtor,    \* the engine's DebtorRecord
    fees,      \* the rows of fee_assessments
    replies,   \* the rows of debtor_replies, in the order of their INSERTs
    row,       \* debtors.state, the database's own copy
    req,       \* the replies being ingested: program counter, category, created_at
    clock,     \* how many replies have been received: the time of the next
    passes,    \* how many passes have run
    pass,      \* the pass under way, and how many replies were stored when it looked
    contacts,  \* communication_log of the debtor's record
    disturbed  \* history: did the writes of two replies overlap, or was one lost

vars == <<today, debtor, fees, replies, row, req, clock, passes, pass, contacts, disturbed>>

Categories == {"dispute", "promise_to_pay", "out_of_office", "query", "other"}
Acting == Categories \ {"other"}
States == {"pending", "active", "paid", "disputed", "manual_review",
           "promise_paused", "ooo_skipped"}
RowStates == {"pending", "active", "disputed", "manual_review"}
Resting == [pc |-> "idle", category |-> "other", at |-> 0]
IdlePass == [pc |-> "idle", looked |-> 0]

\* The record ingest_csv() makes: the invoice may be overdue already, the tier is chosen once.
Ingested(tier) == [state |-> "pending", tier |-> tier, days_overdue |-> today,
                   current_step |-> 0, last_action |-> NoDay]

Init ==
    /\ today \in StartDays
    /\ \E tier \in Tiers : debtor = Ingested(tier)
    /\ fees = <<>>
    /\ replies = <<>>
    /\ row = "pending"
    /\ req = [r \in Requests |-> Resting]
    /\ clock = 0
    /\ passes = 0
    /\ pass = IdlePass
    /\ contacts = <<>>
    /\ disturbed = FALSE

Tick ==
    /\ today < MaxDay
    /\ today' = today + 1
    /\ UNCHANGED <<debtor, fees, replies, row, req, clock, passes, pass, contacts, disturbed>>

(***************************************************************************)
(* EscalationEngine                                                        *)
(***************************************************************************)

\* All that check_reply_intervention() looks at: ORDER BY created_at DESC LIMIT 1.  The
\* stamp is taken before the INSERT, so the newest need not be the row inserted last.
Pending == {k \in DOMAIN replies : replies[k].resolution = "pending"}
Newest == CHOOSE k \in Pending : \A j \in Pending : replies[j].at <= replies[k].at
\* Mutant: the oldest.
OldestPending ==
    IF Pending = {} THEN "other"
    ELSE replies[CHOOSE k \in Pending : \A j \in Pending : replies[k].at <= replies[j].at].category
NewestPending == IF Pending = {} THEN "other" ELSE replies[Newest].category

\* The rules that are due and later than the step the debtor is at.
\* Mutant: the rule that was taken last is due again.
DueAgain(d) == {r \in Rules[d.tier] : d.current_step <= r.day /\ r.day <= today}
Due(d) == {r \in Rules[d.tier] : d.current_step < r.day /\ r.day <= today}
NextRule(d) == CHOOSE r \in Due(d) : \A q \in Due(d) : q.day <= r.day

\* get_next_action() gives these up before it looks at the rules.
\* Mutant: a dispute is forgotten.
SettledPaidOnly == {"paid"}
Settled == {"paid", "disputed"}

\* process_debtor(): the latest due rule, earlier ones are skipped.  require_human puts
\* the debtor under review before the handler runs; a handler that raises takes no step.
TakesStep(d, ok) == d.state \notin Settled /\ Due(d) # {} /\ ok
Reviewed(d) == IF Due(d) # {} /\ NextRule(d).human THEN "manual_review" ELSE d.state
ProcessDebtor(d, ok) ==
    IF d.state \in Settled THEN d
    ELSE [d EXCEPT !.days_overdue = today,
                   !.state = Reviewed(d),
                   !.current_step = IF TakesStep(d, ok) THEN NextRule(d).day ELSE @,
                   !.last_action = IF TakesStep(d, ok) THEN today ELSE @]

Contacted(d, ok) ==
    IF TakesStep(d, ok) THEN Append(contacts, [step |-> NextRule(d).day, on |-> today])
    ELSE contacts

(***************************************************************************)
(* TetherEngine                                                            *)
(***************************************************************************)

\* process_all(): a late fee on days_overdue as the last pass left it, then the
\* escalation.  Only a paid debtor is passed over.
\* Mutant: the last day of grace counts.
ChargesFeeInGrace == debtor.days_overdue >= FeeFrom
                     /\ debtor.state \notin {"disputed", "manual_review"}
ChargesFee == /\ debtor.days_overdue >= FeeFrom
              /\ debtor.state \notin {"disputed", "manual_review"}
              /\ debtor.days_overdue > FeeGrace

ProcessAll(ok) ==
    /\ pass.pc = "idle"
    /\ passes < MaxPasses
    /\ passes' = passes + 1
    /\ debtor.state # "paid"
    /\ fees' = IF ChargesFee THEN Append(fees, [days |-> debtor.days_overdue, on |-> today])
               ELSE fees
    /\ debtor' = ProcessDebtor(debtor, ok)
    /\ contacts' = Contacted(debtor, ok)
    /\ UNCHANGED <<today, replies, row, req, clock, pass, disturbed>>

\* is_eligible_for_escalation(): pauses are counted from the debtor's last action.
Rested(d, days) == d.last_action # NoDay /\ today - d.last_action >= days
Eligible(d) ==
    \/ d.state \in {"pending", "active"}
    \/ d.state = "promise_paused" /\ Rested(d, PromiseGrace)
    \/ d.state = "ooo_skipped" /\ Rested(d, OooRetry)
Reactivated(d) == IF d.state \in {"promise_paused", "ooo_skipped"}
                  THEN [d EXCEPT !.state = "active"] ELSE d

\* check_reply_intervention(): the state a reply puts the debtor in.
Intervention == [dispute |-> "disputed", promise_to_pay |-> "promise_paused",
                 out_of_office |-> "ooo_skipped", query |-> "manual_review"]

\* process_all_with_reply_check() looks for an eligible debtor's newest pending reply.  An
\* intervention sets the state and is all the pass does ...
ReplyIntervenes ==
    /\ pass.pc = "idle"
    /\ passes < MaxPasses
    /\ passes' = passes + 1
    /\ Eligible(debtor)
    /\ NewestPending \in Acting
    /\ debtor' = [Reactivated(debtor) EXCEPT !.state = Intervention[NewestPending]]
    /\ UNCHANGED <<today, fees, replies, row, req, clock, pass, contacts, disturbed>>

\* ... without one the escalation follows, whatever is stored in between.
FindNoIntervention ==
    /\ pass.pc = "idle"
    /\ passes < MaxPasses
    /\ passes' = passes + 1
    /\ Eligible(debtor)
    /\ NewestPending \notin Acting
    /\ debtor' = Reactivated(debtor)
    /\ pass' = [pc |-> "escalate", looked |-> Len(replies)]
    /\ UNCHANGED <<today, fees, replies, row, req, clock, contacts, disturbed>>

Escalate(ok) ==
    /\ pass.pc = "escalate"
    /\ pass' = IdlePass
    /\ debtor' = ProcessDebtor(debtor, ok)
    /\ contacts' = Contacted(debtor, ok)
    /\ UNCHANGED <<today, fees, replies, row, req, clock, passes, disturbed>>

FileDispute ==
    /\ pass.pc = "idle"
    /\ debtor' = [debtor EXCEPT !.state = "disputed"]
    /\ UNCHANGED <<today, fees, replies, row, req, clock, passes, pass, contacts, disturbed>>

MarkPaid ==
    /\ pass.pc = "idle"
    /\ debtor' = [debtor EXCEPT !.state = "paid"]
    /\ UNCHANGED <<today, fees, replies, row, req, clock, passes, pass, contacts, disturbed>>

\* A second ingest_csv() with the invoice's id overwrites the record, whatever it says: the
\* new one has no history.  The amount may have changed, and with it the tier.
IngestAgain(tier) ==
    /\ pass.pc = "idle"
    /\ debtor' = Ingested(tier)
    /\ contacts' = <<>>
    /\ UNCHANGED <<today, fees, replies, row, req, clock, passes, pass, disturbed>>

(***************************************************************************)
(* The requests.                                                           *)
(***************************************************************************)

Applying == {r \in Requests : req[r].pc = "apply"}

\* ReplyPipeline.ingest_reply(): a reply is classified, and _persist_reply() stamps it ...
ReceiveReply(r, category) ==
    /\ req[r].pc = "idle"
    /\ clock < MaxReplies
    /\ clock' = clock + 1
    /\ req' = [req EXCEPT ![r] = [pc |-> "insert", category |-> category, at |-> clock]]
    /\ UNCHANGED <<today, debtor, fees, replies, row, passes, pass, contacts, disturbed>>

\* ... before it commits the row.
PersistReply(r) ==
    /\ req[r].pc = "insert"
    /\ replies' = Append(replies, [category |-> req[r].category, at |-> req[r].at,
                                   resolution |-> "pending"])
    /\ req' = [req EXCEPT ![r].pc = "apply"]
    /\ disturbed' = (disturbed \/ Applying # {})
    /\ UNCHANGED <<today, debtor, fees, row, clock, passes, pass, contacts>>

\* The INSERT raises, or the request dies before it: nothing is stored.
PersistRefused(r) ==
    /\ req[r].pc = "insert"
    /\ req' = [req EXCEPT ![r] = Resting]
    /\ UNCHANGED <<today, debtor, fees, replies, row, clock, passes, pass, contacts, disturbed>>

\* The state _apply_action() writes for a category; the others leave the row alone.
RowAfter(category, state) ==
    CASE category = "dispute" -> "disputed"
      [] category = "promise_to_pay" -> "active"
      [] category = "query" -> "manual_review"
      [] OTHER -> state

\* ... then _apply_action() writes the debtor's row, whatever state it has by now.
\* Mutant: a row that is disputed already is left alone.
ApplyActionUnlessDisputed(r) ==
    /\ req[r].pc = "apply"
    /\ row' = IF row = "disputed" THEN row ELSE RowAfter(req[r].category, row)
    /\ req' = [req EXCEPT ![r] = Resting]
    /\ UNCHANGED <<today, debtor, fees, replies, clock, passes, pass, contacts, disturbed>>
ApplyAction(r) ==
    /\ req[r].pc = "apply"
    /\ row' = RowAfter(req[r].category, row)
    /\ req' = [req EXCEPT ![r] = Resting]
    /\ UNCHANGED <<today, debtor, fees, replies, clock, passes, pass, contacts, disturbed>>

\* The second write raises, or the request dies: the reply is stored, the row unchanged.
ApplyRefused(r) ==
    /\ req[r].pc = "apply"
    /\ req' = [req EXCEPT ![r] = Resting]
    /\ disturbed' = TRUE
    /\ UNCHANGED <<today, debtor, fees, replies, row, clock, passes, pass, contacts>>

\* resolve_reply(), on any reply.
ResolveReply(k) ==
    /\ replies' = [replies EXCEPT ![k].resolution = "resolved"]
    /\ UNCHANGED <<today, debtor, fees, row, req, clock, passes, pass, contacts, disturbed>>

-----------------------------------------------------------------------------

Engine ==
    \/ \E ok \in BOOLEAN : ProcessAll(ok)
    \/ ReplyIntervenes
    \/ FindNoIntervention
    \/ \E ok \in BOOLEAN : Escalate(ok)
    \/ FileDispute
    \/ MarkPaid
    \/ \E tier \in Tiers : IngestAgain(tier)

Web ==
    \/ \E r \in Requests, category \in Categories : ReceiveReply(r, category)
    \/ \E r \in Requests : PersistReply(r)
    \/ \E r \in Requests : PersistRefused(r)
    \/ \E r \in Requests : ApplyAction(r)
    \/ \E r \in Requests : ApplyRefused(r)
    \/ \E k \in DOMAIN replies : ResolveReply(k)

Next == Tick \/ Engine \/ Web

Spec == Init /\ [][Next]_vars

-----------------------------------------------------------------------------
(***************************************************************************)
(* Properties.                                                             *)
(***************************************************************************)

Days == Nat \union {NoDay}
Contact == [step : Nat, on : Nat]
Reply == [category : Categories, at : Nat, resolution : {"pending", "resolved"}]

\* Records and rows keep their types (DebtorRecord, debtors, debtor_replies).
TypeOK ==
    /\ today \in Nat
    /\ debtor \in [state : States, tier : Tiers, days_overdue : Nat,
                   current_step : Nat, last_action : Days]
    /\ fees \in Seq([days : Nat, on : Nat])
    /\ replies \in Seq(Reply)
    /\ row \in RowStates
    /\ req \in [Requests -> [pc : {"idle", "insert", "apply"}, category : Categories, at : Nat]]
    /\ clock \in Nat
    /\ passes \in Nat
    /\ pass \in [pc : {"idle", "escalate"}, looked : Nat]
    /\ contacts \in Seq(Contact)
    /\ disturbed \in BOOLEAN

\* Reminders climb: whatever passes, pauses, reviews and failing handlers do, no step of
\* the ladder is taken twice or out of order by one record, and none before its day.
RemindersClimb ==
    /\ \A k \in DOMAIN contacts : contacts[k].step <= contacts[k].on
    /\ \A i, k \in DOMAIN contacts : i < k => contacts[i].step < contacts[k].step
    /\ debtor.current_step = IF contacts = <<>> THEN 0 ELSE Last(contacts).step

\* When a pass that has looked for replies contacts the debtor, a pending dispute, promise,
\* question or out-of-office note was stored after the pass had looked, or is hidden by a
\* reply as new that asks for nothing (escalation_engine.py:225, :170).
Acts(k) == k \in Pending /\ replies[k].category \in Acting
Hidden(k, looked) ==
    \E j \in DOMAIN replies :
        j <= looked /\ replies[j].category \notin Acting /\ replies[k].at <= replies[j].at
PendingReplyHoldsContact ==
    [][pass.pc = "escalate" /\ contacts' # contacts =>
          \A k \in DOMAIN replies : Acts(k) => pass.looked < k \/ Hidden(k, pass.looked)]_vars

\* Once the engine has a debtor down as paid or disputed, no pass of either kind contacts
\* or charges them again, or takes them out of these states: only a second ingest_csv() does.
SettledIsLeftAlone ==
    [][debtor.state \in {"paid", "disputed"} =>
          \/ debtor'.state \in {"paid", "disputed"} /\ UNCHANGED <<contacts, fees>>
          \/ \E tier \in Tiers : IngestAgain(tier)]_vars

\* Fees are assessed on the day count of the pass before, so they lag behind the
\* calendar: they never run ahead of it, go backwards, or start within the grace period.
FeesLagTheCalendar ==
    /\ \A k \in DOMAIN fees : FeeGrace < fees[k].days /\ fees[k].days <= fees[k].on
    /\ \A i, k \in DOMAIN fees : i < k => fees[i].days <= fees[k].days

\* Replies that were ingested one at a time leave the row in the state that the last of
\* them to ask for one asks for; only an overlap or a refused write makes it differ.
Asking == {k \in DOMAIN replies : RowAfter(replies[k].category, "pending") # "pending"}
Replay == IF Asking = {} THEN "pending" ELSE RowAfter(replies[Max(Asking)].category, "pending")
RowFollowsReplies == ~disturbed /\ Applying = {} => row = Replay

=============================================================================
