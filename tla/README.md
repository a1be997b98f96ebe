# ESAM: models, checks and proofs

ESAM is a FastAPI platform that runs agent workflows over one SQLite database, with two example
products on top: debt collections ("Tether") and an intelligence newsletter. This directory holds
TLA+ models of the parts whose correctness depends on the order of events: background jobs, runs
that pause for a human, the tool step with its sandbox and watchdog, the tables runs share, the audit
chain, the collections engine, payment plans, the accounting sync, and schema migrations. Paths below
are relative to the repository, whose Python code is in `src/`.

## 1. The system

| part | state | operations | hard behaviour |
| --- | --- | --- | --- |
| **Job queue** `job_queue.py` | table `wf_jobs`; worker threads and the `_running` flag in memory | submit, cancel, claim, run, write outcome, start, stop | threads and requests write one row by id; crash orphans rows; refused writes; idempotency keys |
| **Workflow executor** `workflow_executor.py`, `agent_workflow.py`, `routes/escalations.py` | `wf_agent_runs`, `wf_run_step_logs`, `wf_escalations` | execute, pause at a human gate, respond, resume, cancel | an answer races the pause; two answers; a cancellation of a run under way; exceptions inside and outside a step; kill |
| **Audit trail** `audit_trail.py` | `audit_logs`, each row with the hash of the row before | log, verify, demo reset | the last hash is read outside the inserting transaction |
| **Collections** `tether_engine.py`, `escalation_engine.py`, `late_fees.py`, `reply_pipeline.py` | debtors in memory; `fee_assessments`, `debtor_replies`, `debtors` in the database | passes with and without reply check, ingest/resolve reply, dispute, payment | time, pauses, two copies of the debtor's state, two-commit requests |
| **Control** `credential_broker.py`, `policy_engine.py`, `sandbox_router.py`, `observability/watchdog.py` | credentials, accumulated cost, payload files, watches | resolve, check cost, execute in sandbox, watch, report | cost is checked after the call; files and watches are keyed by step, not by run; scp, ssh and kills |
| **Run data** `registry/engine.py`, `prompt_versioning.py`, `stories_engine.py`, `run_memory.py`, `seen_store.py` | editions, prompt versions, stories, key/value rows, seen URLs | next number, record version, track story, set, bulk record | what was read is stale when it is written; a failed INSERT keeps SQLite's write lock |
| **Scheduler** `scheduler/` | `schedules` rows of a database of its own and jobs of the external Hermes CLI | create, pause, delete | two stores, one of which may fail |
| **Migrations** `migration.py` | schema and `schema_versions` | start, up, rollback | the process is killed between a script and its version row; what the import created before |
| **Collections satellites** `payment_plans.py`, `portal_api.py`, `bpay_engine.py`, `integrations/`, `credit_limit.py`, `legal_pathway.py` | plans, payments, ledgers | accept, pay, default, confirm, sync | many writers of `debtors.state`; rounding; double confirmation |
| **Newsletter** `fetcher/`, `parser/`, `stories/`, `quality/`, `delivery/` ... | caches, windows, editions, baselines | fetch, score, compare, deliver | rate windows, caches and SMTP pools under threads |

How they interact: HTTP handlers (`api_server.py`, `routes/`) call the queue and the repositories
on their own threads. The worker threads of the queue call `WorkflowExecutor.execute()`, which calls
the broker, the sandbox and the tools and writes runs and step logs. A `human_escalation` step leaves
a row that another request answers; that request resumes the run on its own thread. Every part writes the same
SQLite file: connections are thread-local (`database.py:860-867`), a statement outside
`transaction()` commits on its own, and a write that waits longer than the busy timeout is refused.
So the unit of interleaving in every model is the committed statement, and what a thread read before
is a local variable that may be stale.

What makes each part correct:

* queue: one holder per job, at most one run per job, an outcome row that is coherent and final, a
  cancelled job that stays cancelled, one live job per key, and every job leaving the queue;
* executor: completed runs are whole and add up, nothing behind an unanswered gate runs unless the gate's own step
  has failed, closed logs are final, an answered run goes on, a cancelled one stays cancelled, every run settles;
* audit trail: every entry hangs on an earlier one, an untouched log verifies;
* collections: reminders climb the ladder once and never early, settled debtors are left alone,
  pending replies hold contact back, pauses last as long as they say, fees follow the calendar;
* tool step: a run that is alone in a step executes its own payload and is watched throughout, files
  are cleaned up, alarms are true;
* run data: numbers without gaps or twins of one writer, counters that count, stories that forget
  nothing, no run that leaves the write lock behind;
* migrations: a recorded version has its objects, a server that serves has the whole schema, starts succeed;
* payment plans: what is received is credited, a paid plan ends as completed;
* accounting sync: every change of the ledger arrives, one debtor per invoice, a pushed payment holds;
* the others: see the hazards and components in `PROJECT.json`.

## 2. The modules

| module | models | correspondence |
| --- | --- | --- |
| `JobLifecycle` | what a job queue promises: new, pending, taken, settled, withdrawn or lost | abstract; no code of its own |
| `JobQueue` | `job_queue.py` | `wf_jobs` is the table; `threads[t].pc` is the place of a thread in `_worker_loop`; `clients` are the requests in `submit`; one action per committed statement, and one for the look at `_running` before a claim |
| `JobQueueProofs` | theorems about `JobQueue` | section 5 |
| `RunLifecycle` | what a run promises: one walk that begins once and ends for good, a row that follows it, answers that may set the row back | abstract; no code of its own |
| `WorkflowRun` | `execute`, `_execute_human_escalation`, `respond_to_escalation`, `resume_from_escalation`, `wf_cancel_run` | `run`, `logs`, `escs` are rows of the three tables; `ex` and `resp[r]` hold the locals of the executing thread and of each request; implements `RunLifecycle` with `Walk` read off the program counter of `execute()` |
| `AuditTrail` | `log`, `verify_chain`, the reset in `seed.py` | `audit_logs` in rowid order; `loggers` are calls between the read and the insert |
| `Collections` | imports, the two kinds of pass, fee assessment, reply ingestion | `debtor` is the engine's record, `row` the database's copy, `contacts` the record's communication log; `pass` is a pass between its SELECT of the newest pending reply and the escalation; `req[r]` is a reply between its time stamp, its INSERT and the update of the row |
| `CollectionsProofs` | theorems about `Collections` | section 5 |
| `StepOrder` | `_topological_sort` and, as its reference, what a sorted order is | pure; a recursive function with a turn per step is the `while` loop, a set of positions is each comprehension and its `Picked` the list |
| `WorkflowRunProofs` | theorems about `WorkflowRun` and `StepOrder` | section 5 |
| `ToolStep` | one `tool_call` step under several runs: `watch_step`/`cancel_watch` and the watchdog's loop, the broker's checks, the local tool loop, `execute_in_sandbox` | `run[r]` holds the locals of a run's thread, `local` and `remote` say whose payload the two files of the step hold, `watched[e]` is the watch in the watchdog of each executor; `ExecutorOf` is any assignment of runs to executors |
| `ToolStepProofs` | theorems about `ToolStep` | section 5 |
| `RunData` | `EditionRegistry.create`, `record_version`, `find_or_create`, `RunMemory.set`, `bulk_record`, the step log's commit behind them | one variable per table; `th[t]` holds what a thread has read, `draft` what the transaction of a batch of URLs has written item by item; `lock` is the thread whose open transaction has SQLite's write lock |
| `RunDataProofs` | theorems about `RunData` | section 5 |
| `AccountingSync` | `sync_platform`, `sync_all`, webhooks, `push_payment`, soft delete, and the BPAY confirmation and portal dispute as other writers of a debtor | `ledger` is the platform (is the balance open, the private note, the time of the last change), `Status` is `_map_status`, `debtors` and `conn` are rows, `sync[s]` is a thread; `Lookup` and `WriteDebtor` are the SELECT and the later write |
| `AccountingSyncProofs` | theorems about `AccountingSync` | section 5 |
| `PaymentPlans` | `accept_plan`, `record_payment`, `check_overdue` | `plans` is the in-memory `_plans`; `payer[t]` and `checker[c]` are threads in the two methods; an action reads or writes one plan |
| `PaymentPlansProofs` | theorems about `PaymentPlans` | section 5 |
| `Migration` | `startup`, `run_pending_migrations`, `rollback`, and what importing the server creates | `schema` is the set of tables and columns, `versions` the rows, `pc` the process, `todo` the entries of the list a start or a rollback has still to go through |
| `DatabaseProofs` | theorems about `AuditTrail` and `Migration` | section 5 |
| `MCJobQueue`, `MCWorkflowRun`, `MCAuditTrail`, `MCCollections`, `MCToolStep`, `MCRunData`, `MCAccountingSync`, `MCPaymentPlans`, `MCMigration` | TLC's constants | |

Abstractions, each named in its module: a run is opaque to the queue (it returns, returns an error,
or raises); a step is what it costs and whether it raises; a hash is injective and is the entry's
identity plus the set of keys that were hashed; a reply is its category; time is whole days. A payload
is the run it belongs to; a file is written, copied or read in one step; a tool is its price. The platform
of `AccountingSync` is QuickBooks, whose clock advances with each change; a debtor is pending, or settled (paid or disputed,
which the collections engine treats alike). A migration is what it adds, what its up needs and its down copies, and whether it looks before
it adds; scripts are not killed in the middle. `MCMigration` has one entry for each shape in the
list of `migration.py`, in the list's order. The refused
write ("database is locked") is an explicit action where the code's error path
changes state, and is bounded. Variables marked *history* are not in the code and no guard reads them.

## 3. The runs

Bounds are constants of the modules (`Max...`). They are chosen so that each interesting pair of
events fits: two threads, two requests, one of each fault.

| run | result | what it shows |
| --- | --- | --- |
| `job_queue` | pass | One `start()` of one thread plus a second one after `stop()`/restart or a kill, two jobs, one refused write: exclusive claims, at most one run, coherent and final outcomes, and the refinement of `JobLifecycle`. Two jobs and two threads are enough for every overlap, since an action touches one job and one thread. |
| `job_queue_live` | pass | `FairSpec`: a queued job is picked up even across a kill, and settled unless the process is killed or a write is refused; keys are duplicated only by a revived job when requests come one at a time. |
| `workflow_run` | pass | `FairSpec` on three graphs (plain, gate with one labelled exit between two steps, gate at the end), two concurrent answers, a cancellation at any moment, one statement that raises, one kill: completed runs are whole and add up, gates give way to an answer or their own failure only, closed logs are final, the run implements `RunLifecycle`, and it completes or comes to wait for a human unless a statement raises or the process is killed. The safety properties are theorems for any graph (section 5); the graphs here are as small as tell a step before, at and behind a gate apart, because liveness rules out symmetry. Its assumptions evaluate the order on all lists of up to four connections of three steps, cycles, repeated connections and those of another agent included: `SortIsSound` compares `TopologicalSort` with `IsSortOf`, `HeldUpByCycles` compares `HeldUp` with reachability from a cycle. Its types are a theorem, no invariant of the run. |
| `workflow_resume` | violation | A gate with two steps behind it, no faults: the answer executes the first step, the second never runs and the run stays `running` for ever (`workflow_executor.py:1611` against `:1528`). |
| `audit_trail` | pass | three threads, five entries, one reset: the log is a forest, forks are no wider than the threads, broken links come from overlaps only |
| `collections` | pass | one debtor on either ladder, ingested on time or late, three passes of either kind with handlers that may raise, a second import, two replies that are stamped, stored, applied and resolved in any order around a pass's look at them. Reminders climb per record: an import starts a new one. The ladders keep the defaults' shape (reminders, then review) with their days drawn together, since only the order of days against steps, pauses and fees matters. |
| `tool_step` | pass | Two runs on the job worker's executor and a resumed one alone on another, as every run of `POST /api/workflow/{agent_id}/run` is (`api_server.py:2285` builds one per request), in the sandbox or not, two tools, one fault (scp, ssh, the file, a kill), a step that may outlast its timeout: only overlapping runs read each other's payload or lose their watch, files are cleaned up, and an alarm means a run that hangs. Three runs give both an overlap on one executor and one across executors. |
| `run_data` | pass | Two runs of two steps and a request, a batch with a new URL and one with a URL twice, recorded item by item, stories with and without a headline and body: editions are numbered in order, twins of a prompt version are of different threads, `hit_count` counts, a story forgets only by an overlap (a first edition without headline and body is counted and leaves no entry), only a request can leave the write lock behind, and runs end even then. |
| `accounting_sync` | pass | One invoice with any note, two overlapping syncs, three moments for changes and pushes of all or part of the balance, one fault: a change is missed only when a sync or push stepped over it, an invoice has two debtors only after an overlap, and a settled debtor *whose invoice reads as paid* after a push is pending again only through a sync that had fetched before the push. The theorems of section 5 drop the bounds, for any number of invoices. |
| `payment_plans` | pass | Two plans of one or two instalments, two requests that pay a third or all of a plan, one check, three days: a plan that takes its payments one by one credits what it receives, and a paid plan is completed unless a check met its payment. |
| `migration` | pass | Databases of every release and none, two kills between any two commits, two rollbacks: a recorded version has its objects, and a server that serves has the whole schema. |
| `migration_start` | violation | a new database cannot be started: migration 8 adds a column which importing the server has created (`migration.py:298`, `agent_workflow.py:80`, against `api_server.py:230`) |

Every property of a passing run has a mutant of the code (`PROJECT.json`, "mutants") that breaks it; the
mutated forms stand before the definitions they replace and are used by nothing else.

Deadlock is not checked: every one of these systems may come to rest (no job, no
request, the last day).

## 4. Fairness

Only what the code's scheduling gives. `JobQueue!FairSpec`: the operating system schedules each
worker thread (`WF(ThreadStep(t))`), and a request that calls `get_worker()` eventually comes, since
clients poll for their job (`WF(GetWorker)`); nobody need ever submit, cancel, stop or start.
`WorkflowRun!FairSpec`: the executing thread and each request under way are scheduled; no human
need ever answer. `RunData!FairSpec`: the thread of each run is scheduled; request threads may
stay idle for ever, also while they hold the write lock, and a run's writes are then refused after the busy timeout.
Weak fairness of a thread as a whole does not choose between raising and returning, so no run is
assumed to succeed. `workflow_resume` fails under `FairSpec`, and not because the system may stop. The other
modules state no liveness: nothing in the code retries a sync, a payment or a tool call, and the server is
started by hand.

## 5. What is proved

TLAPS proves the following for every value of the constants, from the `ASSUME` of the modules only: bounds are
natural numbers, markers such as `NoJob` are outside their sets, there are finitely many threads and requests where a property
counts them (`AuditTrail`, `JobQueue`), the marker for "no hash" is not a digest (`audit_trail.py` uses the empty string, and a digest has 64 characters), and the list of migrations
has the shape `MigrationAssumption` gives it: no two entries add the same object, version 1 and no other creates the table of versions, every column that only a newly created
`wf_steps` has is added by some entry, and an entry that adds something the import does not create as well (`AddsAlone`) stands in version order and shares its
version with none. The list in `migration.py` is like that: the two entries of version 18, and those out of order, only add what the import creates too.

They cover 36 of the 40 properties the passing runs check, among them every invariant and every action property; section 5.2 says what is left.

### 5.1 Theorems and their invariants

`JobQueueProofs`: `TypeCorrect`, `Exclusive`, `AtMostOnce`, `OutcomeCoherent`, `ProgressCoherent`,
`SettledIsFinal`, `DuplicatesAreRevivals`, `Refinement`. None of these is inductive by itself: the worker writes rows without
looking at them, so what protects a row is what the *other* threads may hold. The inductive invariant is
`TypeOK /\ ExclusiveClaim /\ RowInv /\ HolderInv`. `HolderInv` says of each thread what its place
in the loop implies for its row (claimed at least once, not queued or settled, progress counted, not yet
run before `work`); `RowInv` says of each row what its status implies when nobody holds it (a queued row
was never claimed, an outcome is written together with its status). From it each property
follows, and every step is a step of `JobLifecycle` or leaves the phases alone. `DuplicatesAreRevivals` (`DuplicateOnlyByRevival`) has an invariant of its own: a
cancelled row is an acknowledged cancellation, and between the SELECT and the INSERT of the only client no other live job has its key,
unless a worker has revived one. That no second client comes in between is what the premise `Cardinality(Clients) = 1` gives; a thread's
unconditional writes bring a row back to life only if it was cancelled.

`WorkflowRunProofs`: `TypeCorrect`, `ClosedLogsStay`, `CompletedRunsAreWhole`, `GatesHold`, `CostsAreConserved`, `LivesAsPromised` (`ImplementsRunLifecycle`) and
`OrderIsRight`, for any graphs and any number of requests. The invariants build on each other. `LogInv`: the log that `execute()` or a request is about to write is its
own and still open, so no other step closes or reopens it. `WalkInv`: the logs of `execute()` are the positions of
the order it has reached, in that order, only the one under way is open, and a gate it has gone past has failed.
`GateInv`: an answer a request carries is of an escalation that has been responded to, and the step it resumes
is behind that one. `CostInv` is `WalkInv` and the running total: the costs in the logs of `execute()` add up to the local `total_cost` as long as it
runs, because only `execute()` writes its logs, the one under way still says 0, and closing it (with 0 if the step raised) and adding to the total are one
action in every branch. `CostIsConserved` speaks of the logs of `execute()` only: a step that a request resumes writes its cost to a log and never to the run.
`LivesAsPromised` is the refinement, action by action: the walk of `RunLifecycle` is a translation of `execute()`'s program counter, its questions are the
rows of `wf_escalations`. The step that needs an invariant is the resumption, which sets the row to running: `GateInv` says that the escalation it carries is
among those responded to. `TypeOK` of this module is proved only; the run spends its time on the rest.

`OrderIsRight` says of `_topological_sort()` that for any steps and any connections it returns every step once, that a step which is
not held up stands behind all that leads to it, and that the others come last in the order of the table. The invariant of the loop
is `OnWalk`: no step is in the queue or ordered twice, the steps in either are exactly those whose in-degree has reached zero, and all that leads to an
ordered step stands before it. A step joins the queue when the last connection to it is taken off (`FreedIs`), hence once. That the queue
is empty after as many turns as there are steps is a count (`LongEnough`, by the library's facts about injections); that what
remains is what is held up follows both ways: the first member of a held-up set to be ordered would have had another one before it, and what is never ordered waits for
something that is not. The recursion is a function over the number of turns; that it exists, and what holds after each turn, are arguments from a smallest
counterexample (`TurnsExist`, `WalkEnds`), since induction principles are out of reach. The theorem is why `WorkflowRun` may take orders without repetitions.

`DatabaseProofs`, of the audit trail: `TypeCorrect`, `Forest` (`EntriesHangOnEarlierOnes`), `BreaksWhereCallsOverlap` (`BreaksAreOverlaps`), `NarrowForks`
(`ForksAreNarrow`) and `Doubted`. For `Forest` the strengthening is about calls under way: the hash a thread read is that of an entry in
the table or of a deleted one, which a reset or another insert cannot undo. `Doubted` says what
`verify_chain()` makes of a log that only `log()` has written: it finds none intact but the empty one, since the rows it reads back
have no key `hash` and the rows that were hashed had one. `BreaksWhereCallsOverlap` needs that a call nobody has disturbed still holds the
hash of the last row. `NarrowForks` counts: the entries that hang on a row and the calls about to hang theirs on it are together no more
than the threads. A call joins the second group only for the last row, on which no entry hangs yet, because entries hang on older ones
(`RowsInOrder`); that is where the injectivity of the hash comes in.

`DatabaseProofs`, of the migrations: `SchemaTypeCorrect`, `RecordedRan` (`RecordedMigrationsRan`) and `ServedWhole` (`ServedSchemaIsWhole`). Neither of the two is
inductive: a start skips what a row records, and which row speaks for which entry depends on version numbers that the list repeats and does not
sort. The inductive invariant `MigrationInv` adds five parts. `OwnAddsBelowARow`: a row stands for all entries up to its version that add something of their
own; it is what lets a start leave out whatever is at or below the newest row. `PassedIsBelowARow`: a start has still to go through all that no row
is at or above. `RowsAboveAreUndone`: while a rollback deletes, the rows above what it has still to undo belong to entries it has also
still to undo, because it goes through them from the newest. `HalfDone` and `Prepared` hold between a script and its row, and behind the import. A kill keeps
each of them, wherever it strikes. The theorem about a served schema would be false for a list in which an entry that adds something of its own has a twin: a kill between the
two would leave it out for good.

`ToolStepProofs`: `TypeCorrect`, `LoneRunsAreWatched`, `TrueAlarms`, `OwnPayloads`, `CleanUp`. Watches need `WatchInv`: runs of one
executor that are inside together are all marked as sharing, and every watch is that of a run inside. Payloads need `PayloadInv`: the file a
lone run is about to copy or to execute is its own; and `CleanUpInv`: somebody who will remove a file is still there, or
something has gone wrong. The theorems hold for any assignment of runs to executors, one executor per run included. `Leave` takes the statements between the
step and `cancel_watch` (`workflow_executor.py:354-379`) to return: they write to dictionaries of the run and to counters in memory. If one of them raised, the watch would stay.

`RunDataProofs`: `TypeCorrect`, `EditionsInOrder`, `TwinsAreStrangers`, `HitsConserved`, `StoriesRemember`, `LockLeaks`. Numbering needs
`NumbersFit`: the number a thread has read is at most one more than the rows there are by now, its predecessor exists, and it is above every
number the same thread has written; UNIQUE then refuses all but one of the editions. `HitsConserved` needs `DraftsFit`: the lock is with the
thread that has come past its first item, and what its transaction sees is the committed counts plus the items written so far. The look at the first item may be
stale by the time the lock is taken; rows are never deleted, so an item that was found is still there for the UPDATE to add to, and an INSERT that meets a row refuses
the batch before anything is written.
`StoriesRemember` keeps the log of the row apart from its count: a first edition without headline and body is counted and not logged.

`AccountingSyncProofs`: `TypeCorrect`, `PushedPaymentsHold`, `ChangesArrive`, `DuplicatesOverlap`. All rest on `Base`: rows and fetched items are
never newer than the ledger, equally old ones agree with it, and a sync knows the row it writes. `MissInv` follows each change: an invoice whose row is behind is
newer than every time a sync will stamp, is held by a sync that has fetched it, or has been stepped over. `PushInv`: an invoice whose push is
remembered still reads as paid, so what a sync fetched of it is paid, or older than the ledger. `DupInv`: while no two
syncs have overlapped, there is one sync, and what it did not find is still not there.

`PaymentPlansProofs`: `TypeCorrect`, `PaidPlansComplete`, `ReceiptsCredited` (`ReceiptsAreCredited`). For the second, the
invariant `Watched` says what a check that has come to a plan may rely on: the plan is not paid yet, or one of its payments met the check. `ReceiptsCredited` follows a payment through its loop. `Balanced` says of each plan that
its instalments add up to its total (`ScheduleAdds`: the remainder of the division goes to the first ones) and are credited with all or nothing, and, of a
plan whose payments come one by one, that the payment under way lists exactly the unpaid instalments and that credit plus what it has left
agrees with what was received (`Paying`). The three lemmas `PaymentBegins`, `PaymentMarks` and `PaymentEnds` hold the arithmetic of the three steps: the
last instalment a payment marks may be larger than what was left, by less than itself, which is the bound in the property.

`CollectionsProofs`: `TypeCorrect`, `Climbing` (`RemindersClimb`), `HeldBack`
(`PendingReplyHoldsContact`), `LeftAlone` (`SettledIsLeftAlone`), `FeesLag` (`FeesLagTheCalendar`) and `RowFollows` (`RowFollowsReplies`).
`HeldBack` needs `LookedWell`, what a pass may rely on between its look and the escalation: whatever requests stamp, store and resolve meanwhile, a reply that asks for something was stored
after the look or is hidden by one at least as new that asks for nothing.
Types rest on the existence of the latest due rule and of the newest pending reply, that is, of the largest
element of a bounded set of numbers (`Largest`, from the well-foundedness of `<`). `RemindersClimb` carries its own strengthening
(the debtor's step is the last contact's); the fees need `DayCountLags`: the day count the
next fee is based on is between the last fee's and today. `RowFollows` needs `RowLagsOneReply`: as long as nothing has overlapped or been
refused, at most one reply is stored and not yet applied, it is the newest, and the row is in the state that the last reply before it to ask for one
asks for.

Sums. `WorkflowRunProofs` and `PaymentPlansProofs` hold the same lemmas about the sum of a function over a finite set (empty set, one more
element, one changed value, equal functions), so that each can be read alone. The induction principles of the library take an
operator and cannot be used; instead, a fact that holds for the empty set and passes to one more element has no smallest set as a
counterexample (lemma `SmallestSet`, from `WFMin` and the well-foundedness of strict inclusion).

### 5.2 Only model-checked

* Liveness: `QueuedJobIsPickedUp`, `QueuedJobIsSettled`, `RunSettles`, `RunEnds` (the prover does not handle `ENABLED`, hence no fairness).
* `HeldUpByCycles`, that the steps held up are those on a cycle or behind one: reachability is an induction over paths. `OrderIsRight` is about the sets of
  steps that wait for each other, which is what the loop gets stuck on.
* The two violations.

## 6. Not modelled, and why

`PROJECT.json` lists every component with its status. Left out for good: network clients (tools,
connectors, accounting APIs, LLM calls), text (letters, rendering, parsing, classification by regular
expression), floating-point scoring, and seeding. What the models use of them is their possible outcomes. Left
out because production code never calls them: `increment`, `append`, `delete` and `migrate_keys` of `run_memory.py`, `record` of `seen_store.py`,
`sync_all` and `get_cron_status` of the scheduler (so its rows and the Hermes jobs are never reconciled; a schedule that is deleted
while the CLI fails leaves its job behind); the fetcher's rate limiter, because every step builds a `FetcherEngine` of its own
and nothing is shared. `rollback` has no caller either; it is modelled because it is the other half of the version table.

Where the code and its documents disagree, or what a reviewer would ask about, beyond the two findings with a run:

* `job_queue.py:254`: the worker writes rows by id alone, so a job cancelled after its claim is revived and
  completed, although `routes/jobs.py:32` answered that it was cancelled. `JobLifecycle` allows for it.
* `job_queue.py:147`: two concurrent submits with one key both find no live job and both insert one, against `:142-143`.
* `workflow_executor.py:348`: an escalation step that itself raises lets the run go on unanswered, which `README.md:163` of the repository does not say;
  `GateOpensOnlyByAnswerOrFailure` says that this is the only way.
* `workflow_executor.py:382`: a statement outside the step's `try` that raises leaves the run `running` for ever, and a refused write leaves a job `claimed` or `running`
  (`job_queue.py:298`). `RunSettles` and `QueuedJobIsSettled` leave both out.
* `workflow_executor.py:459`: an answer between the escalation's commit and the pause is resumed first, and the run is then set back to waiting. `RunLifecycle` allows it (`Resume` in any walk, then `Pause`) and no more: nothing goes on after the late write.
* `workflow_executor.py:1584`: answering an escalation left by a failed step sets a completed run back to running; in `RunLifecycle` the row may, the walk stays over.
* `workflow_executor.py:603`: steps on a cycle, or behind one, are not refused: they run last, in table order, for every workflow (`OrderIsRight`).
* The resume path calls the tool registry's definition, a dictionary, as a function: a resumed `tool_call` step fails for every tool the registry has.
* `audit_trail.py:221`: see `Doubted`; `:207` promises the contrary. `verify_chain(agent_id)` (`:209-213`) checks the chain of a filtered table; it has no caller and is not modelled.
* `escalation_engine.py:225`: a pass looks for the newest pending reply only, by a stamp taken before the INSERT, and contacts the debtor afterwards: a dispute stored in between, or one
  followed by a reply that asks for nothing, does not hold the contact back.
* `tether_engine.py:96`: a second `ingest_csv` overwrites the debtor's record, and the ladder starts again, also for a paid or disputed debtor.
* `api_server.py:2255`: "Cancel a running agent." (`:2250`) only writes the row. `execute()` never looks at it: the run goes through its remaining steps and `completed`
  (or `running`, or `awaiting_escalation`) is written over `cancelled`; a completed run can be cancelled. `RunLifecycle` has `Cancel` and these writes; no property forbids them. The simulated execution
  (`api_server.py:2143-2246`) writes a run and its logs in one request, on its own, and is not modelled.
* `escalation_engine.py:312`: the grace of a promise is counted from the last reminder, against `:305`, so the next pass may contact the debtor on the same day.
* `credential_broker.py:444`: a row of `wf_steps` has `tools_json` and no `tools`, so the broker resolves nothing, estimates 0 cents, and its hard gate never closes.
* `quickbooks.py:264`: the status is read from the private note or else from the balance, so a note without "paid" or "overdue" makes a paid invoice read as issued, and
  one with "paid" an open one as paid: the next sync makes the debtor pending, or settled. A part payment that is pushed leaves the invoice open, and the next sync makes
  a debtor that was confirmed as paid pending again. `PushedPaymentHolds` is about invoices that read as paid.
* `integrations/sync.py`: `save_connection` writes the whole row a sync has read, which revives a connection deleted meanwhile;
  refreshed OAuth tokens are not saved; the Xero client asks for `AUTHORISED,OVERDUE` only, so that a paid invoice never arrives, and the MYOB client ignores `since`;
  a push repeated after a lost answer creates a second payment.
* `payment_plans.py:236`: the list of overdue instalments is not reset between plans, so that a plan may default because of another's; an
  instalment of no cents is never paid; the portal's total is a rounded instalment times their number.
* `migration.py`: a rollback also undoes migrations above the target that were never applied; the downs that rebuild a table with `CREATE TABLE AS` lose its keys and
  constraints; two migrations have version 18 and share a row, so a process killed between them leaves the second one out until the import creates its table; rolling a blocked new database back to version 6 and starting it again succeeds.
* `routes/` is registered in `main()` only: a server started as `uvicorn api_server:app` has no job or escalation routes.

Smaller observations:

* `tether_engine.py:283` calls `ReplyHandler.ingest_reply`, which does not exist, so `process_reply` always raises; replies arrive through
  `reply_pipeline.py` only, as in `Collections`.
* `late_fees.py:297` passes the parameters of the `UPDATE` in the wrong order, so `update_rule` changes no rule.
* A debtor without any reminder who promises to pay stays `promise_paused` for ever
  (`escalation_engine.py:323`): `last_action_at` is empty.
* `reply_pipeline.py:60` maps "unsubscribe" to `halt_collection`, which `_apply_action` does not carry out.

## 7. Plan

What is left, in order of what it would add:

1. `WorkflowRun` extended by loops and parallel steps, and by `save_run_state` with its versions.
2. `CreditLimits`: approval and balance update as separate calls; `LegalPathway`: the stages of a case.
3. Late-fee and discount arithmetic as functions over integers against a reference definition.
4. `SmtpPool` and the baselines of `quality/` under threads; Xero and MYOB as other platforms of `AccountingSync`.
