------------------------------ MODULE JobQueue ------------------------------
(***************************************************************************)
(* The background job queue of job_queue.py: the wf_jobs table, the HTTP   *)
(* clients that submit and cancel jobs, and the worker threads that poll   *)
(* the table, claim a queued job and run it.                               *)
(*                                                                         *)
(* Every SQL statement that commits on its own is one action.  What a      *)
(* thread remembers between two statements is in its record.  A workflow   *)
(* or an evaluation run is opaque here: it may return a result, return a   *)
(* dict with an "error", or raise.  WorkflowRun.tla models its inside.     *)
(***************************************************************************)
EXTENDS Naturals, FiniteSets

CONSTANTS
    Jobs,          \* uuids a submit may draw
    Keys,          \* idempotency keys the clients use
    NoKey,         \* the empty idempotency key
    Clients,       \* request threads of the web server
    Threads,       \* slots for worker threads, dead ones included
    MaxWorkers,    \* threads one start() spawns
    NoJob,         \* what a thread without a job holds
    MaxTotal,      \* bound: steps of a workflow, items of a dataset
    MaxCrashes,    \* bound: how often the process is killed
    MaxStops,      \* bound: how often stop() is called
    MaxDbErrors    \* bound: writes of a worker that SQLite refuses ("locked")

ASSUME QueueAssumption ==
    /\ NoJob \notin Jobs
    /\ NoKey \notin Keys
    /\ IsFiniteSet(Clients)
    /\ {MaxWorkers, MaxTotal, MaxCrashes, MaxStops, MaxDbErrors} \subseteq Nat

Types == {"workflow_run", "eval_run"}
Terminal == {"completed", "failed", "cancelled"}
Statuses == {"absent", "queued", "claimed", "running"} \union Terminal

VARIABLES
    wf_jobs,   \* the table; a row of status "absent" has not been inserted
    threads,   \* the worker threads: program counter and local variables
    clients,   \* the requests under way: program counter and local variables
    worker,    \* the singleton of the process: does it exist, its _running
    clock,     \* the next created_at
    faults,    \* how many of each bounded fault have happened
    claims,    \* history: how often each job was claimed
    runs,      \* history: how often each job was handed to its executor
    acked      \* history: the jobs a cancel request was told it cancelled

vars == <<wf_jobs, threads, clients, worker, clock, faults, claims, runs, acked>>

Row == [status : Statuses, type : Types, key : Keys \union {NoKey},
        created : Nat, progress : Nat, total : Nat,
        result : BOOLEAN, error : BOOLEAN]

\* A thread holds a job from the claim to its last status write, and none otherwise.
Busy == {"claimed", "running", "work", "finishing", "failing"}
Thread == [pc : {"dead", "poll", "claim"}, job : {NoJob}] \union [pc : Busy, job : Jobs]
Client == [pc : {"idle", "insert"}, key : Keys \union {NoKey}, type : Types, stamp : Nat]

NewRow == [status |-> "absent", type |-> "workflow_run", key |-> NoKey, created |-> 0,
           progress |-> 0, total |-> 0, result |-> FALSE, error |-> FALSE]
Dead == [pc |-> "dead", job |-> NoJob]
Polling == [pc |-> "poll", job |-> NoJob]
Idle == [pc |-> "idle", key |-> NoKey, type |-> "workflow_run", stamp |-> 0]

Init ==
    /\ wf_jobs = [j \in Jobs |-> NewRow]
    /\ threads = [t \in Threads |-> Dead]
    /\ clients = [c \in Clients |-> Idle]
    /\ worker = [exists |-> FALSE, running |-> FALSE]
    /\ clock = 0
    /\ faults = [crash |-> 0, stop |-> 0, db |-> 0]
    /\ claims = [j \in Jobs |-> 0]
    /\ runs = [j \in Jobs |-> 0]
    /\ acked = {}

history == <<claims, runs, acked>>

Live(j) == wf_jobs[j].status \notin Terminal \union {"absent"}
\* Mutants: a poll that also selects claimed rows, rows that were cancelled, or failed ones
\* for another attempt.
QueuedOrClaimed == {j \in Jobs : wf_jobs[j].status \in {"queued", "claimed"}}
QueuedOrFailed == {j \in Jobs : wf_jobs[j].status \in {"queued", "failed"}}
QueuedOrCancelled == {j \in Jobs : wf_jobs[j].status \in {"queued", "cancelled"}}

Queued == {j \in Jobs : wf_jobs[j].status = "queued"}
Held(j) == \E t \in Threads : threads[t].job = j

(***************************************************************************)
(* The worker's life.                                                      *)
(***************************************************************************)

\* start(): spawn MaxWorkers new threads and set _running.
Start ==
    /\ \E S \in SUBSET {t \in Threads : threads[t].pc = "dead"} :
          /\ Cardinality(S) = MaxWorkers
          /\ threads' = [t \in Threads |-> IF t \in S THEN Polling ELSE threads[t]]
    /\ worker' = [exists |-> TRUE, running |-> TRUE]
    /\ UNCHANGED <<wf_jobs, clients, clock, faults, history>>

\* The first request after the process started creates and starts the worker.
GetWorker == ~worker.exists /\ Start

\* start() on a worker that stop() has stopped; on a running one it returns early.
Restart == worker.exists /\ ~worker.running /\ Start

\* stop() only clears the flag: the threads see it when they next reach the loop's head.
Stop ==
    /\ worker.running
    /\ faults.stop < MaxStops
    /\ worker' = [worker EXCEPT !.running = FALSE]
    /\ faults' = [faults EXCEPT !.stop = @ + 1]
    /\ UNCHANGED <<wf_jobs, threads, clients, clock, history>>

\* The process is killed: threads and requests vanish, the table stays as committed.
Crash ==
    /\ faults.crash < MaxCrashes
    /\ faults' = [faults EXCEPT !.crash = @ + 1]
    /\ threads' = [t \in Threads |-> Dead]
    /\ clients' = [c \in Clients |-> Idle]
    /\ worker' = [exists |-> FALSE, running |-> FALSE]
    /\ UNCHANGED <<wf_jobs, clock, history>>

(***************************************************************************)
(* The requests.  Each one has gone through get_worker() first.            *)
(***************************************************************************)

\* submit(), the SELECT: a live job with the same key is returned as it is ...
SubmitFindsExisting(c, k) ==
    /\ worker.exists
    /\ clients[c].pc = "idle"
    /\ k # NoKey
    /\ \E j \in Jobs : Live(j) /\ wf_jobs[j].key = k

\* Mutant: a submit that never looks for an existing job.
SubmitBlindly(c, k, type) ==
    /\ worker.exists
    /\ clients[c].pc = "idle"
    /\ clients' = [clients EXCEPT ![c] = [pc |-> "insert", key |-> k, type |-> type, stamp |-> clock]]
    /\ clock' = clock + 1
    /\ UNCHANGED <<wf_jobs, threads, worker, faults, history>>

\* ... otherwise the request takes created_at and goes on to the INSERT.
SubmitLookup(c, k, type) ==
    /\ worker.exists
    /\ clients[c].pc = "idle"
    /\ ~SubmitFindsExisting(c, k)
    /\ clients' = [clients EXCEPT ![c] = [pc |-> "insert", key |-> k, type |-> type, stamp |-> clock]]
    /\ clock' = clock + 1
    /\ UNCHANGED <<wf_jobs, threads, worker, faults, history>>

\* submit(), the INSERT under a fresh uuid.
SubmitInsert(c, j) ==
    /\ clients[c].pc = "insert"
    /\ wf_jobs[j].status = "absent"
    /\ wf_jobs' = [wf_jobs EXCEPT ![j] =
          [NewRow EXCEPT !.status = "queued", !.type = clients[c].type,
                         !.key = clients[c].key, !.created = clients[c].stamp]]
    /\ clients' = [clients EXCEPT ![c] = Idle]
    /\ UNCHANGED <<threads, worker, clock, faults, history>>

\* Mutant: the UPDATE without its "AND status NOT IN (...)".
CancelAnyJob(j) ==
    /\ worker.exists
    /\ wf_jobs[j].status # "absent"
    /\ wf_jobs' = [wf_jobs EXCEPT ![j].status = "cancelled"]
    /\ acked' = acked \union {j}
    /\ UNCHANGED <<threads, clients, worker, clock, faults, claims, runs>>

\* cancel_job(): one conditional UPDATE; it says TRUE when a row changed.
CancelJob(j) ==
    /\ worker.exists
    /\ Live(j)
    /\ wf_jobs' = [wf_jobs EXCEPT ![j].status = "cancelled"]
    /\ acked' = acked \union {j}
    /\ UNCHANGED <<threads, clients, worker, clock, faults, claims, runs>>

(***************************************************************************)
(* One round of _worker_loop().                                            *)
(***************************************************************************)

Goto(t, pc) == threads' = [threads EXCEPT ![t].pc = pc]
Release(t) == threads' = [threads EXCEPT ![t] = Polling]
JobOf(t) == threads[t].job

LoopExit(t) ==
    /\ threads[t].pc = "poll"
    /\ ~worker.running
    /\ threads' = [threads EXCEPT ![t] = Dead]
    /\ UNCHANGED <<wf_jobs, clients, worker, clock, faults, history>>

\* while self._running: a stop() that comes after this look no longer keeps the thread
\* from claiming once more.
LoopHead(t) ==
    /\ threads[t].pc = "poll"
    /\ worker.running
    /\ threads' = [threads EXCEPT ![t].pc = "claim"]
    /\ UNCHANGED <<wf_jobs, clients, worker, clock, faults, history>>

\* The queued row that ORDER BY created_at ASC LIMIT 1 may return.
Oldest(j) == j \in Queued /\ \A i \in Queued : wf_jobs[j].created <= wf_jobs[i].created

\* _claim_next_job(): SELECT and UPDATE under BEGIN IMMEDIATE, so one step.
ClaimNextJob(t, j) ==
    /\ threads[t].pc = "claim"
    /\ Oldest(j)
    /\ wf_jobs' = [wf_jobs EXCEPT ![j].status = "claimed"]
    /\ threads' = [threads EXCEPT ![t] = [pc |-> "claimed", job |-> j]]
    /\ claims' = [claims EXCEPT ![j] = @ + 1]
    /\ UNCHANGED <<clients, worker, clock, faults, runs, acked>>

\* No row is queued, or SQLite refuses the transaction: the exception is rolled back and
\* reads as "no job" too.  The thread sleeps and goes back to the loop's head.
ClaimNothing(t) ==
    /\ threads[t].pc = "claim"
    /\ \/ Queued = {} /\ faults' = faults
       \/ faults.db < MaxDbErrors /\ faults' = [faults EXCEPT !.db = @ + 1]
    /\ threads' = [threads EXCEPT ![t] = Polling]
    /\ UNCHANGED <<wf_jobs, clients, worker, clock, history>>

\* The first _update_job(): it has no condition on the status it overwrites.
MarkRunning(t) ==
    /\ threads[t].pc = "claimed"
    /\ wf_jobs' = [wf_jobs EXCEPT ![JobOf(t)].status = "running"]
    /\ Goto(t, "running")
    /\ UNCHANGED <<clients, worker, clock, faults, history>>

\* _run_workflow() and _run_eval() up to the run: count, and write 0 of n if n > 0.
BeginRun(t, n) ==
    /\ threads[t].pc = "running"
    /\ wf_jobs' = [wf_jobs EXCEPT ![JobOf(t)].progress = 0,
                                  ![JobOf(t)].total = IF n > 0 THEN n ELSE @]
    /\ Goto(t, "work")
    /\ UNCHANGED <<clients, worker, clock, faults, history>>

\* Mutant: the exception before the run is swallowed, and no "failed" is written.
BeginRaisesSilently(t) ==
    /\ threads[t].pc = "running"
    /\ Release(t)
    /\ UNCHANGED <<wf_jobs, clients, worker, clock, faults, history>>

\* Bad input_json, a refused write, or create_eval_run() raised before the run began.
BeginRaises(t) ==
    /\ threads[t].pc = "running"
    /\ Goto(t, "failing")
    /\ UNCHANGED <<wf_jobs, clients, worker, clock, faults, history>>

\* Mutant: the last _advance_progress() is forgotten.
RunReturnsUncounted(t, ok) ==
    /\ threads[t].pc = "work"
    /\ ok \/ wf_jobs[JobOf(t)].type = "workflow_run"
    /\ runs' = [runs EXCEPT ![JobOf(t)] = @ + 1]
    /\ Goto(t, IF ok THEN "finishing" ELSE "failing")
    /\ UNCHANGED <<wf_jobs, clients, worker, clock, faults, claims, acked>>

\* The run itself.  A workflow that returns, with or without "error", has its
\* progress set to the total; an evaluation never writes it again.
RunReturns(t, ok) ==
    /\ threads[t].pc = "work"
    /\ ok \/ wf_jobs[JobOf(t)].type = "workflow_run"
    /\ runs' = [runs EXCEPT ![JobOf(t)] = @ + 1]
    /\ wf_jobs' = [wf_jobs EXCEPT ![JobOf(t)].progress =
                      IF wf_jobs[JobOf(t)].type = "workflow_run"
                      THEN wf_jobs[JobOf(t)].total ELSE @]
    /\ Goto(t, IF ok THEN "finishing" ELSE "failing")
    /\ UNCHANGED <<clients, worker, clock, faults, claims, acked>>

RunRaises(t) ==
    /\ threads[t].pc = "work"
    /\ runs' = [runs EXCEPT ![JobOf(t)] = @ + 1]
    /\ Goto(t, "failing")
    /\ UNCHANGED <<wf_jobs, clients, worker, clock, faults, claims, acked>>

WriteCompleted(t) ==
    /\ threads[t].pc = "finishing"
    /\ wf_jobs' = [wf_jobs EXCEPT ![JobOf(t)].status = "completed", ![JobOf(t)].result = TRUE]
    /\ Release(t)
    /\ UNCHANGED <<clients, worker, clock, faults, history>>

\* Mutant: the exception ends the thread.
WriteFailedAndDie(t) ==
    /\ threads[t].pc = "failing"
    /\ wf_jobs' = [wf_jobs EXCEPT ![JobOf(t)].status = "failed", ![JobOf(t)].error = TRUE]
    /\ threads' = [threads EXCEPT ![t] = Dead]
    /\ UNCHANGED <<clients, worker, clock, faults, history>>

WriteFailed(t) ==
    /\ threads[t].pc = "failing"
    /\ wf_jobs' = [wf_jobs EXCEPT ![JobOf(t)].status = "failed", ![JobOf(t)].error = TRUE]
    /\ Release(t)
    /\ UNCHANGED <<clients, worker, clock, faults, history>>

\* SQLite refuses one of the three status writes.  Around the "completed" one stands
\* the inner except, which goes on to write "failed"; the other two reach the outer
\* except, which logs, sleeps and polls again: the job keeps the status it had.
WriteRefused(t) ==
    /\ threads[t].pc \in {"claimed", "finishing", "failing"}
    /\ faults.db < MaxDbErrors
    /\ faults' = [faults EXCEPT !.db = @ + 1]
    /\ IF threads[t].pc = "finishing" THEN Goto(t, "failing") ELSE Release(t)
    /\ UNCHANGED <<wf_jobs, clients, worker, clock, history>>

-----------------------------------------------------------------------------

ThreadStep(t) ==
    \/ LoopExit(t)
    \/ LoopHead(t)
    \/ \E j \in Jobs : ClaimNextJob(t, j)
    \/ ClaimNothing(t)
    \/ MarkRunning(t)
    \/ \E n \in 0..MaxTotal : BeginRun(t, n)
    \/ BeginRaises(t)
    \/ \E ok \in BOOLEAN : RunReturns(t, ok)
    \/ RunRaises(t)
    \/ WriteCompleted(t)
    \/ WriteFailed(t)
    \/ WriteRefused(t)

ClientStep ==
    \/ \E c \in Clients, k \in Keys \union {NoKey}, type \in Types : SubmitLookup(c, k, type)
    \/ \E c \in Clients, j \in Jobs : SubmitInsert(c, j)
    \/ \E j \in Jobs : CancelJob(j)

Next ==
    \/ GetWorker
    \/ Restart
    \/ Stop
    \/ Crash
    \/ ClientStep
    \/ \E t \in Threads : ThreadStep(t)

Spec == Init /\ [][Next]_vars

\* The operating system schedules every worker thread, and clients keep polling
\* GET /api/jobs/{id}, so a killed process gets a worker again.  Nobody need ever
\* submit or cancel.
FairSpec == Spec /\ WF_vars(GetWorker) /\ \A t \in Threads : WF_vars(ThreadStep(t))

-----------------------------------------------------------------------------
(***************************************************************************)
(* Properties.                                                             *)
(***************************************************************************)

\* Every variable keeps its type (the schema of wf_jobs, the locals of _worker_loop).
TypeOK ==
    /\ wf_jobs \in [Jobs -> Row]
    /\ threads \in [Threads -> Thread]
    /\ clients \in [Clients -> Client]
    /\ worker \in [exists : BOOLEAN, running : BOOLEAN]
    /\ clock \in Nat
    /\ faults \in [crash : Nat, stop : Nat, db : Nat]
    /\ claims \in [Jobs -> Nat]
    /\ runs \in [Jobs -> Nat]
    /\ acked \subseteq Jobs

\* No two worker threads ever hold the same job, however claims, cancellations,
\* restarts and crashes interleave ("Atomically claim one 'queued' job").
ExclusiveClaim ==
    \A t, u \in Threads : threads[t].job = threads[u].job /\ threads[t].job # NoJob => t = u

\* A job is never handed to the executor a second time: nothing puts a claimed row
\* back to 'queued', not even a restart.
RunAtMostOnce == \A j \in Jobs : runs[j] <= 1

\* What a client reads from GET /api/jobs/{id} is coherent: a result is there exactly
\* when the job completed, an error exactly when it failed, although the worker's
\* writes and cancel_job() race for the row.
OutcomeMatchesStatus ==
    \A j \in Jobs : /\ wf_jobs[j].result <=> wf_jobs[j].status = "completed"
                    /\ wf_jobs[j].error <=> wf_jobs[j].status = "failed"

\* The progress bar never overruns, and a completed workflow shows all of its steps.
ProgressIsSound ==
    \A j \in Jobs :
        /\ wf_jobs[j].progress <= wf_jobs[j].total
        /\ wf_jobs[j].status = "completed" /\ wf_jobs[j].type = "workflow_run"
              => wf_jobs[j].progress = wf_jobs[j].total

\* Once a worker has written 'completed' or 'failed', no write of another thread and
\* no late cancellation touches the row again.
SettledRowIsFinal ==
    [][\A j \in Jobs : wf_jobs[j].status \in {"completed", "failed"}
                          => wf_jobs'[j] = wf_jobs[j]]_vars

\* A queued job is eventually picked up or cancelled, even when the process is killed
\* in between: 'queued' is in the table, not in a thread's memory.
QueuedJobIsPickedUp ==
    \A j \in Jobs : wf_jobs[j].status = "queued" ~> wf_jobs[j].status # "queued"

\* Unless the process is killed or SQLite refuses a write of a worker, every submitted job
\* ends up completed, failed or cancelled.
QueuedJobIsSettled ==
    \A j \in Jobs : wf_jobs[j].status = "queued"
                       ~> wf_jobs[j].status \in Terminal \/ faults.crash + faults.db > 0

\* The queue implements JobLifecycle.
Phase(j) ==
    IF wf_jobs[j].status = "absent" THEN "new"
    ELSE IF wf_jobs[j].status = "queued" THEN "pending"
    ELSE IF Held(j) THEN "taken"
    ELSE IF claims[j] = 0 THEN "withdrawn"
    ELSE IF wf_jobs[j].status \in {"completed", "failed"} THEN "settled"
    ELSE "lost"

Lifecycle == INSTANCE JobLifecycle WITH
    phase <- [j \in Jobs |-> Phase(j)],
    ran <- {j \in Jobs : runs[j] > 0}

\* Every step of threads, requests and crashes is a step of the lifecycle or leaves it
\* alone: in particular a job cancelled while queued is never run, and an orphan of a
\* killed process is never taken again.
ImplementsLifecycle == Lifecycle!Spec

\* While submits are served one at a time, two live jobs share a key only when a worker
\* has brought a cancelled one back to life by its unconditional status write.
DuplicateOnlyByRevival ==
    Cardinality(Clients) = 1 =>
        \A i, j \in Jobs : Live(i) /\ Live(j) /\ wf_jobs[i].key = wf_jobs[j].key
                              /\ wf_jobs[i].key # NoKey /\ i # j => acked \cap {i, j} # {}

=============================================================================
