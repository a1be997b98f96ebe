---------------------------- MODULE WorkflowRun ----------------------------
(***************************************************************************)
(* One run of a workflow in workflow_executor.py: the thread in execute()  *)
(* that walks the steps in topological order and pauses at a               *)
(* human_escalation step, and the HTTP requests that answer an escalation  *)
(* and resume the run (routes/escalations.py, resume_from_escalation) or   *)
(* cancel it (wf_cancel_run).                                              *)
(*                                                                         *)
(* The rows of wf_agent_runs, wf_run_step_logs and wf_escalations are      *)
(* shared; each committed statement is one action.  What a step computes   *)
(* is abstracted to whether it raises and what it costs.                   *)
(***************************************************************************)
EXTENDS Naturals, Sequences, FiniteSetsExt

CONSTANTS
    Steps,         \* step ids
    Actions,       \* what a human may answer: approve, edit, reject
    NoAction,      \* the response_action of a pending escalation
    Unlabelled,    \* the empty label of a connection
    Workflows,     \* the graphs to run: order, human steps, connections
    Responders,    \* requests to /api/escalations/{id}/respond
    MaxCost,       \* bound: cost_cents of one step
    MaxDbErrors,   \* bound: statements outside execute()'s try that raise
    MaxCrashes     \* bound: how often the process is killed

Connection == [from : Steps, to : Steps, label : Actions \union {Unlabelled}]

\* order: what _topological_sort returned; connections: in the order of the table.
ASSUME RunAssumption ==
    /\ NoAction \notin Actions /\ Unlabelled \notin Actions
    /\ {MaxCost, MaxDbErrors, MaxCrashes} \subseteq Nat
    /\ \A w \in Workflows :
          /\ w.order \in Seq(Steps)
          /\ \A i, k \in 1..Len(w.order) : w.order[i] = w.order[k] => i = k
          /\ w.human \subseteq Steps
          /\ w.conns \in Seq(Connection)

VARIABLES
    wf,      \* the workflow that runs
    run,     \* its row in wf_agent_runs
    logs,    \* its rows in wf_run_step_logs, in the order of their creation
    escs,    \* its rows in wf_escalations
    ex,      \* the thread in execute(): program counter and local variables
    resp,    \* the requests: program counter and local variables
    faults   \* how many of each bounded fault have happened

vars == <<wf, run, logs, escs, ex, resp, faults>>

RunStatuses == {"none", "pending", "running", "awaiting_escalation", "completed", "cancelled"}
LogStatuses == {"pending", "awaiting_human", "completed", "failed"}
ExPc == {"create", "mark", "next", "step", "ask", "record", "pause", "done", "raised", "killed"}
RespPc == {"idle", "select", "update", "resume", "log", "step", "record", "done", "killed"}

StartedEx == [pc |-> "create", i |-> 1, log |-> 0, status |-> "completed", cost |-> 0,
              paused |-> FALSE, total |-> 0]
IdleResp == [pc |-> "idle", esc |-> 0, action |-> NoAction, next |-> {}, log |-> 0,
             status |-> "completed", cost |-> 0]

Init ==
    /\ wf \in Workflows
    /\ run = [status |-> "none", cost |-> 0]
    /\ logs = <<>>
    /\ escs = <<>>
    /\ ex = StartedEx
    /\ resp = [r \in Responders |-> IdleResp]
    /\ faults = [db |-> 0, crash |-> 0]

(***************************************************************************)
(* execute()                                                               *)
(***************************************************************************)

NewLog(s, by) == [step |-> s, by |-> by, status |-> "pending", cost |-> 0]

CreateRun ==
    /\ ex.pc = "create"
    /\ run' = [run EXCEPT !.status = "pending"]
    /\ ex' = [ex EXCEPT !.pc = "mark"]
    /\ UNCHANGED <<wf, logs, escs, resp, faults>>

MarkRunning ==
    /\ ex.pc = "mark"
    /\ run' = [run EXCEPT !.status = "running"]
    /\ ex' = [ex EXCEPT !.pc = "next"]
    /\ UNCHANGED <<wf, logs, escs, resp, faults>>

\* The head of the loop: create_step_log() for the next step of the order.
CreateStepLog ==
    /\ ex.pc = "next"
    /\ ex.i <= Len(wf.order)
    /\ logs' = Append(logs, NewLog(wf.order[ex.i], "execute"))
    /\ ex' = [ex EXCEPT !.pc = "step", !.log = Len(logs) + 1]
    /\ UNCHANGED <<wf, run, escs, resp, faults>>

IsHuman(s) == s \in wf.human

\* Mutant: the pc of a returned step skips the update of its log.
StepReturnsUnlogged(cost) ==
    /\ ex.pc = "step"
    /\ ~IsHuman(wf.order[ex.i])
    /\ ex' = [ex EXCEPT !.pc = "next", !.status = "completed", !.cost = cost,
                        !.i = @ + 1, !.total = @ + cost]
    /\ UNCHANGED <<wf, run, logs, escs, resp, faults>>

\* A step of any other type returns a result with a cost; an "error" in it is a result too.
StepReturns(cost) ==
    /\ ex.pc = "step"
    /\ ~IsHuman(wf.order[ex.i])
    /\ ex' = [ex EXCEPT !.pc = "record", !.status = "completed", !.cost = cost, !.paused = FALSE]
    /\ UNCHANGED <<wf, run, logs, escs, resp, faults>>

\* Mutant: the exception of a step is not caught.
StepRaisesOut ==
    /\ ex.pc \in {"step", "ask"}
    /\ ex' = [ex EXCEPT !.pc = "raised"]
    /\ UNCHANGED <<wf, run, logs, escs, resp, faults>>

\* Any exception inside the try: the step fails, and the run goes on.
StepRaises ==
    /\ ex.pc \in {"step", "ask"}
    /\ ex' = [ex EXCEPT !.pc = "record", !.status = "failed", !.cost = 0, !.paused = FALSE]
    /\ UNCHANGED <<wf, run, logs, escs, resp, faults>>

\* _execute_human_escalation(): create_escalation() commits a pending row ...
CreateEscalation ==
    /\ ex.pc = "step"
    /\ IsHuman(wf.order[ex.i])
    /\ escs' = Append(escs, [status |-> "pending", step |-> wf.order[ex.i], action |-> NoAction])
    /\ ex' = [ex EXCEPT !.pc = "ask"]
    /\ UNCHANGED <<wf, run, logs, resp, faults>>

\* ... then the step log says 'awaiting_human', and paused is returned.
AwaitHuman ==
    /\ ex.pc = "ask"
    /\ logs' = [logs EXCEPT ![ex.log].status = "awaiting_human"]
    /\ ex' = [ex EXCEPT !.pc = "record", !.status = "completed", !.cost = 0, !.paused = TRUE]
    /\ UNCHANGED <<wf, run, escs, resp, faults>>

\* Mutants: paused is forgotten, so the loop goes on; or the total is.
RecordStepAndGoOn ==
    /\ ex.pc = "record"
    /\ logs' = [logs EXCEPT ![ex.log].status = ex.status, ![ex.log].cost = ex.cost]
    /\ ex' = [ex EXCEPT !.pc = "next", !.i = @ + 1, !.total = @ + ex.cost]
    /\ UNCHANGED <<wf, run, escs, resp, faults>>
RecordStepUncharged ==
    /\ ex.pc = "record"
    /\ logs' = [logs EXCEPT ![ex.log].status = ex.status, ![ex.log].cost = ex.cost]
    /\ ex' = [ex EXCEPT !.pc = IF ex.paused THEN "pause" ELSE "next", !.i = @ + 1]
    /\ UNCHANGED <<wf, run, escs, resp, faults>>

\* update_step_log() after the try, for every step, whatever status the log has by now.
RecordStep ==
    /\ ex.pc = "record"
    /\ logs' = [logs EXCEPT ![ex.log].status = ex.status, ![ex.log].cost = ex.cost]
    /\ ex' = [ex EXCEPT !.pc = IF ex.paused THEN "pause" ELSE "next",
                        !.i = @ + 1, !.total = @ + ex.cost]
    /\ UNCHANGED <<wf, run, escs, resp, faults>>

\* The early return of a paused run: no totals are written.
Pause ==
    /\ ex.pc = "pause"
    /\ run' = [run EXCEPT !.status = "awaiting_escalation"]
    /\ ex' = [ex EXCEPT !.pc = "done"]
    /\ UNCHANGED <<wf, logs, escs, resp, faults>>

CompleteRun ==
    /\ ex.pc = "next"
    /\ ex.i > Len(wf.order)
    /\ run' = [status |-> "completed", cost |-> ex.total]
    /\ ex' = [ex EXCEPT !.pc = "done"]
    /\ UNCHANGED <<wf, logs, escs, resp, faults>>

\* A statement outside the try raises ("database is locked", a result json.dumps()
\* refuses): the exception leaves execute(), and nobody corrects the run's row.
ExecuteRaises ==
    /\ ex.pc \in {"mark", "next", "record", "pause"}
    /\ faults.db < MaxDbErrors
    /\ faults' = [faults EXCEPT !.db = @ + 1]
    /\ ex' = [ex EXCEPT !.pc = "raised"]
    /\ UNCHANGED <<wf, run, logs, escs, resp>>

Execute ==
    \/ CreateRun
    \/ MarkRunning
    \/ CreateStepLog
    \/ \E cost \in 0..MaxCost : StepReturns(cost)
    \/ StepRaises
    \/ CreateEscalation
    \/ AwaitHuman
    \/ RecordStep
    \/ Pause
    \/ CompleteRun

(***************************************************************************)
(* respond_to_escalation() and resume_from_escalation()                    *)
(***************************************************************************)

\* The handler's own lookup: anything but a pending escalation is refused (404, 400).
FindEscalation(r, e, action) ==
    /\ resp[r].pc = "idle"
    /\ escs[e].status = "pending"
    /\ resp' = [resp EXCEPT ![r] = [IdleResp EXCEPT !.pc = "select", !.esc = e, !.action = action]]
    /\ UNCHANGED <<wf, run, logs, escs, ex, faults>>

\* The SELECT of AgentWorkflowDB.respond_to_escalation(): no pending row is a 409.
SelectPending(r) ==
    /\ resp[r].pc = "select"
    /\ resp' = [resp EXCEPT ![r].pc = IF escs[resp[r].esc].status = "pending"
                                      THEN "update" ELSE "done"]
    /\ UNCHANGED <<wf, run, logs, escs, ex, faults>>

\* Its UPDATE: by id alone.
UpdateEscalation(r) ==
    /\ resp[r].pc = "update"
    /\ escs' = [escs EXCEPT ![resp[r].esc].status = "responded",
                            ![resp[r].esc].action = resp[r].action]
    /\ resp' = [resp EXCEPT ![r].pc = "resume"]
    /\ UNCHANGED <<wf, run, logs, ex, faults>>

\* The connection resume takes: the first that is unlabelled or carries the answer, else
\* the first there is.  (condition_expr is compared like a label.)
Outgoing(s) == {c \in DOMAIN wf.conns : wf.conns[c].from = s}
Matching(s, action) == {c \in Outgoing(s) : wf.conns[c].label \in {Unlabelled, action}}
First(conns) == {c \in conns : \A d \in conns : c <= d}
NextStep(s, action) ==
    {wf.conns[c].to : c \in First(IF Matching(s, action) # {} THEN Matching(s, action)
                                  ELSE Outgoing(s))}

\* resume_from_escalation() reads the answer, picks the next step and marks the run.
ResumeRun(r) ==
    /\ resp[r].pc = "resume"
    /\ run' = [run EXCEPT !.status = "running"]
    /\ LET e == escs[resp[r].esc]
           next == NextStep(e.step, e.action)
       IN resp' = [resp EXCEPT ![r].pc = IF next = {} THEN "done" ELSE "log", ![r].next = next]
    /\ UNCHANGED <<wf, logs, escs, ex, faults>>

\* Mutant: the resumed step writes into the log that is last in the table.
ResumeInLastLog(r) ==
    /\ resp[r].pc = "log"
    /\ logs' = [logs EXCEPT ![Len(logs)] = NewLog(logs[Len(logs)].step, "resume")]
    /\ resp' = [resp EXCEPT ![r].pc = "step", ![r].log = Len(logs)]
    /\ UNCHANGED <<wf, run, escs, ex, faults>>

\* _execute_step(): a log of its own for the one step it runs.
ResumeCreateLog(r) ==
    /\ resp[r].pc = "log"
    /\ \E s \in resp[r].next : logs' = Append(logs, NewLog(s, "resume"))
    /\ resp' = [resp EXCEPT ![r].pc = "step", ![r].log = Len(logs) + 1]
    /\ UNCHANGED <<wf, run, escs, ex, faults>>

\* A human_escalation step is unknown to _execute_step(): an error result, no pause.
ResumeStep(r, status, cost) ==
    /\ resp[r].pc = "step"
    /\ status = "failed" \/ resp[r].next \cap wf.human # {} => cost = 0
    /\ resp' = [resp EXCEPT ![r].pc = "record", ![r].status = status, ![r].cost = cost]
    /\ UNCHANGED <<wf, run, logs, escs, ex, faults>>

\* The log is closed and the request answers; nothing after it touches the run.
ResumeRecord(r) ==
    /\ resp[r].pc = "record"
    /\ logs' = [logs EXCEPT ![resp[r].log].status = resp[r].status,
                            ![resp[r].log].cost = resp[r].cost]
    /\ resp' = [resp EXCEPT ![r].pc = "done"]
    /\ UNCHANGED <<wf, run, escs, ex, faults>>

Respond(r) ==
    \/ SelectPending(r)
    \/ UpdateEscalation(r)
    \/ ResumeRun(r)
    \/ ResumeCreateLog(r)
    \/ \E status \in {"completed", "failed"}, cost \in 0..MaxCost : ResumeStep(r, status, cost)
    \/ ResumeRecord(r)

\* wf_cancel_run() writes the row of a run that exists, whatever it says, and nothing else:
\* the thread in execute() does not look at the row.
CancelRun ==
    /\ run.status # "none"
    /\ run' = [run EXCEPT !.status = "cancelled"]
    /\ UNCHANGED <<wf, logs, escs, ex, resp, faults>>

\* The process is killed; no startup code looks at runs or escalations.
Crash ==
    /\ faults.crash < MaxCrashes
    /\ faults' = [faults EXCEPT !.crash = @ + 1]
    /\ ex' = IF ex.pc \in {"done", "raised"} THEN ex ELSE [ex EXCEPT !.pc = "killed"]
    /\ resp' = [r \in Responders |-> IF resp[r].pc \in {"idle", "done"} THEN resp[r]
                                     ELSE [resp[r] EXCEPT !.pc = "killed"]]
    /\ UNCHANGED <<wf, run, logs, escs>>

-----------------------------------------------------------------------------

Next ==
    \/ Execute
    \/ ExecuteRaises
    \/ \E r \in Responders, e \in DOMAIN escs, action \in Actions : FindEscalation(r, e, action)
    \/ \E r \in Responders : Respond(r)
    \/ CancelRun
    \/ Crash

Spec == Init /\ [][Next]_vars

\* The executing thread and every request under way are scheduled; no human need answer.
FairSpec == Spec /\ WF_vars(Execute) /\ \A r \in Responders : WF_vars(Respond(r))

-----------------------------------------------------------------------------
(***************************************************************************)
(* Properties.                                                             *)
(***************************************************************************)

Log == [step : Steps, by : {"execute", "resume"}, status : LogStatuses, cost : Nat]
Escalation == [status : {"pending", "responded"}, step : Steps, action : Actions \union {NoAction}]

\* Rows and local variables keep their types (the three tables' status columns).
TypeOK ==
    /\ wf \in Workflows
    /\ run \in [status : RunStatuses, cost : Nat]
    /\ logs \in Seq(Log)
    /\ escs \in Seq(Escalation)
    /\ ex \in [pc : ExPc, i : Nat, log : Nat, status : LogStatuses, cost : Nat,
               paused : BOOLEAN, total : Nat]
    /\ resp \in [Responders -> [pc : RespPc, esc : Nat, action : Actions \union {NoAction},
                                next : SUBSET Steps, log : Nat, status : LogStatuses, cost : Nat]]
    /\ faults \in [db : Nat, crash : Nat]

Closed(l) == l.status \in {"completed", "failed"}
LogsBy(who) == {k \in DOMAIN logs : logs[k].by = who}
Positions == DOMAIN wf.order
Logs(k, i) == logs[k].step = wf.order[i]

\* A run that says completed has logged every step of the order once, in that order,
\* and closed each log, although resumed steps log into the same table meanwhile.
CompletedRunIsWhole ==
    run.status = "completed" =>
        /\ \A k \in LogsBy("execute") : Closed(logs[k]) /\ \E i \in Positions : Logs(k, i)
        /\ \A i \in Positions : \E k \in LogsBy("execute") : Logs(k, i)
        /\ \A k, l \in LogsBy("execute"), i, j \in Positions :
              Logs(k, i) /\ Logs(l, j) => (k < l <=> i < j)

Costs == [k \in DOMAIN logs |-> logs[k].cost]

\* total_cost_cents of a completed run is the sum of the logs execute() wrote, whatever
\* resumed steps have added to the table meanwhile; their cost is not in it.
CostIsConserved ==
    run.status = "completed" =>
        run.cost = SumFunctionOnSet(Costs, LogsBy("execute"))

\* The human gate gives way in two cases only: execute() goes past an escalation step
\* when that step itself raised; and a step is resumed only behind an answered escalation.
GateOpensOnlyByAnswerOrFailure ==
    /\ \A k \in LogsBy("execute"), i, h \in Positions :
          Logs(k, i) /\ h < i /\ IsHuman(wf.order[h])
          => \E g \in LogsBy("execute") : Logs(g, h) /\ logs[g].status = "failed"
    /\ \A k \in LogsBy("resume") :
          \E e \in DOMAIN escs :
              /\ escs[e].status = "responded"
              /\ \E c \in DOMAIN wf.conns : wf.conns[c].from = escs[e].step
                                            /\ wf.conns[c].to = logs[k].step

\* A closed step log is never written again, by execute() or by a resuming request.
ClosedLogIsFinal ==
    [][\A k \in DOMAIN logs : Closed(logs[k]) => logs'[k] = logs[k]]_vars

Responded == {e \in DOMAIN escs : escs[e].status = "responded"}

\* The loop of execute() as a walk: a step that has asked and returned paused holds it.
OnHold == ex.pc = "pause" \/ (ex.pc = "record" /\ ex.paused)

Walk ==
    CASE ex.pc = "create"                                -> "new"
      [] ex.pc = "mark"                                  -> "created"
      [] ex.pc \in {"next", "step", "record"} /\ ~OnHold -> "walking"
      [] ex.pc = "ask"                                   -> "asking"
      [] OnHold                                          -> "held"
      [] ex.pc \in {"done", "raised", "killed"}          -> "over"

Lifecycle ==
    INSTANCE RunLifecycle WITH row <- run.status, walk <- Walk, asked <- Len(escs),
                               answered <- Responded

\* Execution, requests and crashes implement the lifecycle of a run: a paused walk never goes
\* on, and what sets a run back to running is an answer, late or not (workflow_executor.py:459,
\* :1584); a cancelled row is written over by either.
ImplementsRunLifecycle == Lifecycle!Spec

\* Without faults, every run that was started completes or comes to wait for a human.
RunSettles ==
    run.status = "pending"
       ~> run.status \in {"completed", "awaiting_escalation"} \/ faults.db + faults.crash > 0

\* workflow_executor.py:1528, "Continues execution from that point": a run that execute()
\* has left and an answer has set back to 'running' completes, unless it is cancelled, a
\* step fails, or a fault happens.
AnsweredRunCompletes ==
    ex.pc = "done" /\ run.status = "running"
       ~> \/ run.status \in {"completed", "cancelled"}
          \/ \E k \in DOMAIN logs : logs[k].status = "failed"
          \/ faults.db + faults.crash > 0

=============================================================================
