------------------------------ MODULE ToolStep ------------------------------
(***************************************************************************)
(* One tool_call step of a workflow, executed by several runs at a time:   *)
(* the step's watch (observability/watchdog.py), the checks of the broker  *)
(* (credential_broker.py), the sandbox with its payload file               *)
(* (sandbox_router.py) and the local tool loop (workflow_executor.py).     *)
(*                                                                         *)
(* The payload's path and the watch's key are the id of the step, not of   *)
(* the run.  A file is written, copied and read in one step each.          *)
(***************************************************************************)
EXTENDS Naturals, FiniteSetsExt

CONSTANTS
    Runs,         \* the runs that come to the step
    NoRun,        \* no file, nothing read
    Resumed,      \* runs that come by resume_from_escalation, without a broker
    Executors,    \* the WorkflowExecutors of the process, each with a watchdog of its own
    ExecutorOf,   \* a run's: the job worker's, one of the routers', or one made for its request
    NoTime,       \* not watched
    Tools,        \* the step's tools_json
    Cost,         \* cost_per_call of a tool, in cents
    Limit,        \* cost_limit_cents of the step; its gate is hard
    HungAfter,    \* the timeout given to watch_step()
    MaxTime,      \* bound: the clock
    MaxFaults     \* bound: scp or ssh fails, or the process is killed

ASSUME ToolStepAssumption ==
    /\ NoRun \notin Runs
    /\ Resumed \subseteq Runs
    /\ ExecutorOf \in [Runs -> Executors]
    /\ NoTime \notin Nat
    /\ IsFiniteSet(Tools)
    /\ Cost \in [Tools -> Nat]
    /\ {Limit, HungAfter, MaxTime, MaxFaults} \subseteq Nat

VARIABLES
    sandboxAll,  \* ESAM_SANDBOX_ALL
    now,         \* the clock
    watched,     \* started_at of the step's watch in each executor's watchdog
    local,       \* whose payload is in the server's file
    remote,      \* whose payload is in the file on the remote host
    run,         \* the runs: program counter, tools to call, result
    faults,      \* how many faults have happened
    alarms       \* history: the moments at which the watchdog reported the step, per executor

vars == <<sandboxAll, now, watched, local, remote, run, faults, alarms>>

Coming == [pc |-> "coming", todo |-> {}, got |-> NoRun, out |-> "none", result |-> "none",
           since |-> 0, shared |-> FALSE, crowded |-> FALSE]

Init ==
    /\ sandboxAll \in BOOLEAN
    /\ now = 0
    /\ watched = [e \in Executors |-> NoTime]
    /\ local = NoRun
    /\ remote = NoRun
    /\ run = [r \in Runs |-> Coming]
    /\ faults = 0
    /\ alarms = [e \in Executors |-> {}]

Inside(r) == run[r].pc \notin {"coming", "left", "killed"}
\* The run's payload has been written and is not yet cleaned up.
InSandbox(r) == run[r].pc \in {"copy", "exec", "unlocal", "unremote"}
Colleagues(r) == {q \in Runs \ {r} : ExecutorOf[q] = ExecutorOf[r]}

Fault == faults < MaxFaults /\ faults' = faults + 1
NoFault == faults' = faults

(***************************************************************************)
(* Entering and leaving the step                                           *)
(***************************************************************************)

\* watch_step() replaces the watch of another run; history: who is in the step together.
Enter(r) ==
    /\ run[r].pc = "coming"
    /\ watched' = [watched EXCEPT ![ExecutorOf[r]] = now]
    /\ LET others == {q \in Colleagues(r) : Inside(q)} IN
       run' = [q \in Runs |->
                 IF q = r THEN [run[r] EXCEPT !.pc = IF r \in Resumed THEN "legacy" ELSE "validate",
                                              !.since = now, !.shared = (others # {})]
                 ELSE IF q \in others THEN [run[q] EXCEPT !.shared = TRUE]
                 ELSE run[q]]
    /\ UNCHANGED <<sandboxAll, now, local, remote, faults, alarms>>

\* Mutant: one watchdog serves the server and the job worker.
LeaveAll(r) ==
    /\ run[r].pc = "leave"
    /\ run' = [run EXCEPT ![r].pc = "left"]
    /\ watched' = [e \in Executors |-> NoTime]
    /\ UNCHANGED <<sandboxAll, now, local, remote, faults, alarms>>

\* cancel_watch(), whether the step returned or raised: what stands in between only writes
\* to dictionaries of the run and counters in memory, and does not raise for this step.
Leave(r) ==
    /\ run[r].pc = "leave"
    /\ run' = [run EXCEPT ![r].pc = "left"]
    /\ watched' = [watched EXCEPT ![ExecutorOf[r]] = NoTime]
    /\ UNCHANGED <<sandboxAll, now, local, remote, faults, alarms>>

\* The resume path calls the registry's definition, which is a dictionary: the step raises
\* for a tool the registry has, and otherwise completes with "tool_not_found".
Legacy(r) ==
    /\ run[r].pc = "legacy"
    /\ \E result \in {"failed", "completed"} :
          run' = [run EXCEPT ![r].pc = "leave", ![r].result = result]
    /\ UNCHANGED <<sandboxAll, now, watched, local, remote, faults, alarms>>

(***************************************************************************)
(* The broker                                                              *)
(***************************************************************************)

\* The broker reads step["tools"], and a row of wf_steps has tools_json only.
StepTools == {}

\* estimate_cost(): what the resolved tools cost.
Estimate == MapThenSumSet(LAMBDA t : Cost[t], StepTools)

\* validate_step_tool_access() and resolve_for_step() have nothing to look at.
Validate(r) ==
    /\ run[r].pc = "validate"
    /\ run' = [run EXCEPT ![r].pc = IF sandboxAll THEN "write" ELSE "tools",
                          ![r].todo = IF sandboxAll THEN {} ELSE Tools]
    /\ UNCHANGED <<sandboxAll, now, watched, local, remote, faults, alarms>>

\* check_cost_limit() raises when the tools have run; what a run accumulates are estimates.
CheckCost(r) ==
    /\ \/ run[r].pc = "tools" /\ run[r].todo = {}
       \/ run[r].pc = "check"
    /\ run' = [run EXCEPT ![r].pc = "leave",
                          ![r].result = IF Estimate <= Limit THEN "completed" ELSE "failed"]
    /\ UNCHANGED <<sandboxAll, now, watched, local, remote, faults, alarms>>

\* A call of execute_tool_call(): it returns, or it raises and its error is the result.
CallTool(r, t) ==
    /\ run[r].pc = "tools" /\ t \in run[r].todo
    /\ run' = [run EXCEPT ![r].todo = @ \ {t}]
    /\ UNCHANGED <<sandboxAll, now, watched, local, remote, faults, alarms>>

(***************************************************************************)
(* execute_in_sandbox()                                                    *)
(***************************************************************************)

\* history: crowded marks the runs that were in the sandbox together.
WriteLocal(r) ==
    /\ run[r].pc = "write"
    /\ local' = r
    /\ LET others == {q \in Runs \ {r} : InSandbox(q)} IN
       run' = [q \in Runs |->
                 IF q = r THEN [run[r] EXCEPT !.pc = "copy", !.crowded = (others # {})]
                 ELSE IF q \in others THEN [run[q] EXCEPT !.crowded = TRUE]
                 ELSE run[q]]
    /\ UNCHANGED <<sandboxAll, now, watched, remote, faults, alarms>>

\* The local file cannot be written: nothing else is tried.
WriteFails(r) ==
    /\ run[r].pc = "write"
    /\ Fault
    /\ run' = [run EXCEPT ![r].pc = "check", ![r].out = "error"]
    /\ UNCHANGED <<sandboxAll, now, watched, local, remote, alarms>>

\* Mutant: a payload that is already on the remote host is not copied again.
CopyOnce(r) ==
    /\ run[r].pc = "copy" /\ local # NoRun
    /\ remote' = IF remote = NoRun THEN local ELSE remote
    /\ run' = [run EXCEPT ![r].pc = "exec"]
    /\ NoFault
    /\ UNCHANGED <<sandboxAll, now, watched, local, alarms>>

\* scp of whatever the local file holds now.
Copy(r) ==
    /\ run[r].pc = "copy" /\ local # NoRun
    /\ remote' = local
    /\ run' = [run EXCEPT ![r].pc = "exec"]
    /\ NoFault
    /\ UNCHANGED <<sandboxAll, now, watched, local, alarms>>

\* Mutant: nothing is cleaned up when scp fails.
CopyFailsDirty(r) ==
    /\ run[r].pc = "copy"
    /\ IF local = NoRun THEN NoFault ELSE Fault
    /\ UNCHANGED remote
    /\ run' = [run EXCEPT ![r].pc = "check", ![r].out = "error"]
    /\ UNCHANGED <<sandboxAll, now, watched, local, alarms>>

\* scp fails: the file is gone, or the host is; a time-out may come after the copy.
CopyFails(r) ==
    /\ run[r].pc = "copy"
    /\ IF local = NoRun THEN NoFault ELSE Fault
    /\ remote' \in {remote, local}
    /\ local' = NoRun
    /\ run' = [run EXCEPT ![r].pc = "check", ![r].out = "error"]
    /\ UNCHANGED <<sandboxAll, now, watched, alarms>>

\* cat | pool.py exec: without a file the output is empty and the result is {}.
Exec(r) ==
    /\ run[r].pc = "exec"
    /\ run' = [run EXCEPT ![r].pc = "unlocal", ![r].got = remote,
                          ![r].out = IF remote = NoRun THEN "empty" ELSE "output"]
    /\ UNCHANGED <<sandboxAll, now, watched, local, remote, faults, alarms>>

\* The time limit of ssh.
ExecFails(r) ==
    /\ run[r].pc = "exec"
    /\ Fault
    /\ run' = [run EXCEPT ![r].pc = "unlocal", ![r].out = "error"]
    /\ UNCHANGED <<sandboxAll, now, watched, local, remote, alarms>>

CleanLocal(r) ==
    /\ run[r].pc = "unlocal"
    /\ local' = NoRun
    /\ run' = [run EXCEPT ![r].pc = "unremote"]
    /\ UNCHANGED <<sandboxAll, now, watched, remote, faults, alarms>>

\* An error of the remote rm is ignored.
CleanRemote(r) ==
    /\ run[r].pc = "unremote"
    /\ \/ remote' = NoRun /\ NoFault
       \/ UNCHANGED remote /\ Fault
    /\ run' = [run EXCEPT ![r].pc = "check"]
    /\ UNCHANGED <<sandboxAll, now, watched, local, alarms>>

(***************************************************************************)
(* The watchdog's thread, the clock, and the end of the process            *)
(***************************************************************************)

\* Mutant: every watched step counts as hung.
HungAlways(e) == watched[e] # NoTime
Hung(e) == watched[e] # NoTime /\ now - watched[e] > HungAfter

\* check_hung_steps()
Report(e) ==
    /\ Hung(e)
    /\ alarms' = [alarms EXCEPT ![e] = @ \union {now}]
    /\ UNCHANGED <<sandboxAll, now, watched, local, remote, run, faults>>

Tick ==
    /\ now < MaxTime
    /\ now' = now + 1
    /\ UNCHANGED <<sandboxAll, watched, local, remote, run, faults, alarms>>

\* Watches live in memory, payload files do not.
Kill ==
    /\ Fault
    /\ watched' = [e \in Executors |-> NoTime]
    /\ run' = [r \in Runs |-> IF Inside(r) THEN [run[r] EXCEPT !.pc = "killed"] ELSE run[r]]
    /\ UNCHANGED <<sandboxAll, now, local, remote, alarms>>

RunStep(r) ==
    \/ Enter(r) \/ Leave(r) \/ Legacy(r) \/ Validate(r) \/ CheckCost(r)
    \/ \E t \in Tools : CallTool(r, t)
    \/ WriteLocal(r) \/ WriteFails(r) \/ Copy(r) \/ CopyFails(r) \/ Exec(r) \/ ExecFails(r)
    \/ CleanLocal(r) \/ CleanRemote(r)

Next ==
    \/ \E r \in Runs : RunStep(r)
    \/ \E e \in Executors : Report(e)
    \/ Tick
    \/ Kill

Spec == Init /\ [][Next]_vars

(***************************************************************************)
(* Properties                                                              *)
(***************************************************************************)

Pcs == {"coming", "legacy", "validate", "tools", "write", "copy", "exec", "unlocal", "unremote",
        "check", "leave", "left", "killed"}
Run == [pc : Pcs, todo : SUBSET Tools, got : Runs \union {NoRun},
        out : {"none", "output", "empty", "error"}, result : {"none", "completed", "failed"},
        since : 0..MaxTime, shared : BOOLEAN, crowded : BOOLEAN]

\* The type invariant.
TypeOK ==
    /\ sandboxAll \in BOOLEAN
    /\ now \in 0..MaxTime
    /\ watched \in [Executors -> 0..MaxTime \union {NoTime}]
    /\ local \in Runs \union {NoRun}
    /\ remote \in Runs \union {NoRun}
    /\ run \in [Runs -> Run]
    /\ faults \in 0..MaxFaults
    /\ alarms \in [Executors -> SUBSET (0..MaxTime)]

\* A run that was alone in the sandbox executed its own payload; only overlapping runs of a
\* step read each other's, or none (sandbox_router.py:139).
LoneRunGetsItsPayload ==
    \A r \in Runs : ~run[r].crowded /\ run[r].out \in {"output", "empty"} => run[r].got = r

\* When nobody is in the sandbox, the local file is gone unless the process was killed, and a
\* file stays on the remote host only after a fault (sandbox_router.py:199).
PayloadsAreCleanedUp ==
    (\A r \in Runs : ~InSandbox(r)) =>
        /\ local # NoRun => \E r \in Runs : run[r].pc = "killed"
        /\ remote # NoRun => faults > 0

\* A run that has shared the step with no other of its executor is watched from its entry to
\* its end; one run's cancel_watch() may end the watch of another's (workflow_executor.py:380).
LoneRunIsWatched ==
    \A r \in Runs : Inside(r) /\ ~run[r].shared => watched[ExecutorOf[r]] = run[r].since

\* The watchdog reports a step only when a run has been in it for longer than its timeout.
AlarmsAreTrue ==
    [][\A e \in Executors : alarms'[e] # alarms[e] =>
          \E r \in Runs : ExecutorOf[r] = e /\ Inside(r) /\ now - run[r].since > HungAfter]_vars

=============================================================================
