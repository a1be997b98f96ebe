-------------------------- MODULE WorkflowRunProofs --------------------------
(***************************************************************************)
(* Theorems about WorkflowRun for any workflow, any number of requests and *)
(* any number of faults, and about the order of any steps; their proofs.   *)
(***************************************************************************)
EXTENDS WorkflowRun, StepOrder, FiniteSetTheorems, WellFoundedInduction, TLAPS

ExRec == [pc : ExPc, i : Nat, log : Nat, status : LogStatuses, cost : Nat,
          paused : BOOLEAN, total : Nat]
RespRec == [pc : RespPc, esc : Nat, action : Actions \union {NoAction},
            next : SUBSET Steps, log : Nat, status : LogStatuses, cost : Nat]

InStep == ex.pc \in {"step", "ask", "record"}

\* The loop's index is a position of the order while a step is under way.
Placed == ex.i \in Nat \ {0} /\ (InStep => ex.i \in Positions)

Typed == TypeOK /\ Placed

-----------------------------------------------------------------------------
(* Rows and records. *)

LEMMA Workflow ==
    ASSUME TypeOK
    PROVE  /\ wf.order \in Seq(Steps) /\ Positions = 1..Len(wf.order) /\ Len(wf.order) \in Nat
           /\ \A i \in Positions : wf.order[i] \in Steps
           /\ \A i, k \in Positions : wf.order[i] = wf.order[k] => i = k
           /\ wf.human \subseteq Steps
           /\ \A c \in DOMAIN wf.conns : c \in Nat /\ wf.conns[c] \in Connection
           /\ DOMAIN wf.conns = 1..Len(wf.conns)
<1>1. wf \in Workflows
  BY DEF TypeOK
<1>2. wf.order \in Seq(Steps) /\ wf.conns \in Seq(Connection)
  BY <1>1, RunAssumption
<1>3. Positions = 1..Len(wf.order) /\ Len(wf.order) \in Nat
  BY <1>2 DEF Positions
<1>4. \A i \in Positions : wf.order[i] \in Steps
  BY <1>2, <1>3
<1>5. \A i, k \in Positions : wf.order[i] = wf.order[k] => i = k
  BY <1>1, <1>3, RunAssumption
<1>6. wf.human \subseteq Steps
  BY <1>1, RunAssumption
<1>7. DOMAIN wf.conns = 1..Len(wf.conns) /\ \A c \in DOMAIN wf.conns : c \in Nat /\ wf.conns[c] \in Connection
  <2> HIDE DEF Connection
  <2> QED
    BY <1>2
<1> QED
  BY <1>2, <1>3, <1>4, <1>5, <1>6, <1>7

LEMMA Rows ==
    ASSUME TypeOK
    PROVE  /\ logs \in Seq(Log) /\ escs \in Seq(Escalation)
           /\ DOMAIN logs = 1..Len(logs) /\ Len(logs) \in Nat
           /\ DOMAIN escs = 1..Len(escs) /\ Len(escs) \in Nat
           /\ \A k \in DOMAIN logs : logs[k] \in Log
           /\ \A e \in DOMAIN escs : escs[e] \in Escalation
<1>1. logs \in Seq(Log) /\ escs \in Seq(Escalation)
  BY DEF TypeOK
<1> HIDE DEF Log, Escalation
<1> QED
  BY <1>1

LEMMA Records ==
    ASSUME TypeOK
    PROVE  ex \in ExRec /\ resp \in [Responders -> RespRec] /\ \A r \in Responders : resp[r] \in RespRec
<1>1. ex \in ExRec /\ resp \in [Responders -> RespRec]
  BY DEF TypeOK, ExRec, RespRec
<1> HIDE DEF ExRec, RespRec
<1> QED
  BY <1>1

LEMMA CancelledRow == ASSUME TypeOK, CancelRun PROVE run'.status = "cancelled"
BY DEF TypeOK, CancelRun

\* create_step_log(): what was there stays, and the new row is the last.
LEMMA LogAppended ==
    ASSUME TypeOK, NEW s \in Steps, NEW by \in {"execute", "resume"},
           logs' = Append(logs, NewLog(s, by))
    PROVE  /\ logs' \in Seq(Log)
           /\ Len(logs) + 1 \in Nat
           /\ DOMAIN logs' = DOMAIN logs \union {Len(logs) + 1}
           /\ \A k \in DOMAIN logs : k < Len(logs) + 1 /\ logs'[k] = logs[k]
           /\ logs'[Len(logs) + 1] = [step |-> s, by |-> by, status |-> "pending", cost |-> 0]
<1> DEFINE row == [step |-> s, by |-> by, status |-> "pending", cost |-> 0]
           n == Len(logs)
<1>1. row \in Log
  BY DEF Log, LogStatuses
<1>2. logs' = Append(logs, row)
  BY DEF NewLog
<1>3. logs \in Seq(Log) /\ n \in Nat /\ DOMAIN logs = 1..n
  BY Rows
<1> HIDE DEF row, Log
<1>4. logs' \in Seq(Log) /\ DOMAIN logs' = 1..(n + 1) /\ logs'[n + 1] = row
  BY <1>1, <1>2, <1>3
<1>5. \A k \in 1..n : logs'[k] = logs[k]
  BY <1>1, <1>2, <1>3
<1> HIDE DEF n
<1>6. n + 1 \in Nat /\ 1..(n + 1) = (1..n) \union {n + 1} /\ \A k \in 1..n : k < n + 1
  BY <1>3
<1> QED
  BY <1>3, <1>4, <1>5, <1>6 DEF row, n

\* update_step_log(): status, and perhaps cost, of one row.
LEMMA LogUpdated ==
    ASSUME TypeOK, NEW k \in Nat, NEW status \in LogStatuses, NEW cost \in Nat,
           \/ logs' = [logs EXCEPT ![k].status = status, ![k].cost = cost]
           \/ logs' = [logs EXCEPT ![k].status = status]
    PROVE  /\ logs' \in Seq(Log) /\ DOMAIN logs' = DOMAIN logs
           /\ \A l \in DOMAIN logs : l # k => logs'[l] = logs[l]
           /\ k \in DOMAIN logs => /\ logs'[k].status = status
                                   /\ logs'[k].step = logs[k].step /\ logs'[k].by = logs[k].by
<1>1. logs \in Seq(Log)
  BY Rows
<1>2. CASE k \in DOMAIN logs
  <2>1. logs[k] \in Log
    BY <1>2, Rows
  <2>2. PICK row : /\ row \in Log /\ row.status = status
                   /\ row.step = logs[k].step /\ row.by = logs[k].by
                   /\ logs' = [logs EXCEPT ![k] = row]
    <3>1. CASE logs' = [logs EXCEPT ![k].status = status, ![k].cost = cost]
      <4>1. [logs[k] EXCEPT !.status = status, !.cost = cost] \in Log
        BY <2>1 DEF Log
      <4>2. logs' = [logs EXCEPT ![k] = [logs[k] EXCEPT !.status = status, !.cost = cost]]
        BY <1>1, <1>2, <3>1
      <4> QED
        BY <2>1, <4>1, <4>2 DEF Log
    <3>2. CASE logs' = [logs EXCEPT ![k].status = status]
      <4>1. [logs[k] EXCEPT !.status = status] \in Log
        BY <2>1 DEF Log
      <4>2. logs' = [logs EXCEPT ![k] = [logs[k] EXCEPT !.status = status]]
        BY <1>1, <1>2, <3>2
      <4> QED
        BY <2>1, <4>1, <4>2 DEF Log
    <3> QED
      BY <3>1, <3>2
  <2> HIDE DEF Log
  <2>3. logs' \in Seq(Log) /\ DOMAIN logs' = DOMAIN logs /\ logs'[k] = row
    BY <1>1, <1>2, <2>2
  <2>4. \A l \in DOMAIN logs : l # k => logs'[l] = logs[l]
    BY <1>1, <2>2
  <2> QED
    BY <2>2, <2>3, <2>4
<1>3. CASE k \notin DOMAIN logs
  <2>1. logs' = logs
    BY <1>1, <1>3
  <2> QED
    BY <1>1, <1>3, <2>1
<1> QED
  BY <1>2, <1>3

\* The one responder that moves.
LEMMA OneResp ==
    ASSUME TypeOK, NEW r \in Responders, NEW new \in RespRec, resp' = [resp EXCEPT ![r] = new]
    PROVE  /\ resp' \in [Responders -> RespRec]
           /\ resp'[r] = new /\ \A q \in Responders \ {r} : resp'[q] = resp[q]
<1> HIDE DEF RespRec
<1> QED
  BY Records

-----------------------------------------------------------------------------
(* What the requests do to their local variables. *)

LEMMA NextStepFollows ==
    ASSUME TypeOK, NEW s, NEW action, NEW t \in NextStep(s, action)
    PROVE  t \in Steps /\ \E c \in DOMAIN wf.conns : wf.conns[c].from = s /\ wf.conns[c].to = t
<1>1. PICK c \in Outgoing(s) : t = wf.conns[c].to
  BY DEF NextStep, First, Matching
<1>2. c \in DOMAIN wf.conns /\ wf.conns[c].from = s /\ wf.conns[c] \in Connection
  BY <1>1, Workflow DEF Outgoing
<1> QED
  BY <1>1, <1>2 DEF Connection

LEMMA FindMoves ==
    ASSUME TypeOK, NEW r \in Responders, NEW e \in DOMAIN escs, NEW action \in Actions,
           FindEscalation(r, e, action)
    PROVE  \E new \in RespRec : resp' = [resp EXCEPT ![r] = new] /\ new.pc = "select" /\ new.esc = e
<1> DEFINE new == [IdleResp EXCEPT !.pc = "select", !.esc = e, !.action = action]
<1>1. e \in Nat
  BY Rows
<1>2. new \in RespRec /\ new.pc = "select" /\ new.esc = e
  BY <1>1 DEF IdleResp, RespRec, RespPc, LogStatuses
<1>3. resp' = [resp EXCEPT ![r] = new]
  BY DEF FindEscalation
<1> QED
  BY <1>2, <1>3

\* A request's step changes only its own record, in the way its action says.
RespMove(r, new) ==
    \/ SelectPending(r) /\ new.pc \in {"update", "done"} /\ new.esc = resp[r].esc
    \/ UpdateEscalation(r) /\ new.pc = "resume" /\ new.esc = resp[r].esc
    \/ /\ ResumeRun(r) /\ new.pc \in {"done", "log"}
       /\ new.next = NextStep(escs[resp[r].esc].step, escs[resp[r].esc].action)
    \/ /\ ResumeCreateLog(r) /\ new.pc = "step" /\ new.log = Len(logs) + 1
       /\ new.next = resp[r].next
    \/ /\ \E status \in {"completed", "failed"}, cost \in 0..MaxCost : ResumeStep(r, status, cost)
       /\ new.pc = "record" /\ new.status \in {"completed", "failed"} /\ new.log = resp[r].log
    \/ ResumeRecord(r) /\ new.pc = "done"

LEMMA RespondMoves ==
    ASSUME TypeOK, NEW r \in Responders, Respond(r)
    PROVE  \E new \in RespRec : resp' = [resp EXCEPT ![r] = new] /\ RespMove(r, new)
<1>1. resp[r] \in RespRec /\ resp \in [Responders -> RespRec]
  BY Records
<1>2. CASE SelectPending(r)
  <2> PICK pc \in {"update", "done"} : resp' = [resp EXCEPT ![r].pc = pc]
    BY <1>2 DEF SelectPending
  <2> DEFINE new == [resp[r] EXCEPT !.pc = pc]
  <2>1. new \in RespRec /\ new.pc = pc /\ new.esc = resp[r].esc
    BY <1>1 DEF RespRec, RespPc
  <2>2. resp' = [resp EXCEPT ![r] = new]
    OBVIOUS
  <2> QED
    BY <1>2, <2>1, <2>2 DEF RespMove
<1>3. CASE UpdateEscalation(r)
  <2> DEFINE new == [resp[r] EXCEPT !.pc = "resume"]
  <2>1. new \in RespRec /\ new.pc = "resume" /\ new.esc = resp[r].esc
    BY <1>1 DEF RespRec, RespPc
  <2>2. resp' = [resp EXCEPT ![r] = new]
    BY <1>3 DEF UpdateEscalation
  <2> QED
    BY <1>3, <2>1, <2>2 DEF RespMove
<1>4. CASE ResumeRun(r)
  <2> PICK next : next = NextStep(escs[resp[r].esc].step, escs[resp[r].esc].action)
    OBVIOUS
  <2> PICK pc \in {"done", "log"} : resp' = [resp EXCEPT ![r].pc = pc, ![r].next = next]
    BY <1>4 DEF ResumeRun
  <2> DEFINE new == [resp[r] EXCEPT !.pc = pc, !.next = next]
  <2>1. next \subseteq Steps
    BY NextStepFollows
  <2>2. new \in RespRec /\ new.pc = pc /\ new.next = next
    BY <1>1, <2>1 DEF RespRec, RespPc
  <2>3. resp' = [resp EXCEPT ![r] = new]
    BY <1>1 DEF RespRec
  <2> QED
    BY <1>4, <2>2, <2>3 DEF RespMove
<1>5. CASE ResumeCreateLog(r)
  <2> DEFINE n == Len(logs) + 1
             new == [resp[r] EXCEPT !.pc = "step", !.log = n]
  <2>1. n \in Nat
    BY Rows
  <2>2. resp' = [resp EXCEPT ![r].pc = "step", ![r].log = n]
    BY <1>5 DEF ResumeCreateLog
  <2> HIDE DEF n
  <2>3. new \in RespRec /\ new.pc = "step" /\ new.log = n /\ new.next = resp[r].next
    BY <1>1, <2>1 DEF RespRec, RespPc
  <2>4. resp' = [resp EXCEPT ![r] = new]
    BY <1>1, <2>2 DEF RespRec
  <2> QED
    BY <1>5, <2>3, <2>4 DEF RespMove, n
<1>6. ASSUME NEW status \in {"completed", "failed"}, NEW cost \in 0..MaxCost,
             ResumeStep(r, status, cost)
      PROVE  \E new \in RespRec : resp' = [resp EXCEPT ![r] = new] /\ RespMove(r, new)
  <2> DEFINE new == [resp[r] EXCEPT !.pc = "record", !.status = status, !.cost = cost]
  <2>1. cost \in Nat
    BY RunAssumption
  <2>2. /\ new \in RespRec /\ new.pc = "record" /\ new.log = resp[r].log
        /\ new.status \in {"completed", "failed"}
    BY <1>1, <2>1 DEF RespRec, RespPc, LogStatuses
  <2>3. resp' = [resp EXCEPT ![r].pc = "record", ![r].status = status, ![r].cost = cost]
    BY <1>6 DEF ResumeStep
  <2>4. resp' = [resp EXCEPT ![r] = new]
    BY <1>1, <2>3 DEF RespRec
  <2> HIDE DEF new
  <2>5. \E st \in {"completed", "failed"}, co \in 0..MaxCost : ResumeStep(r, st, co)
    BY <1>6
  <2> QED
    BY <2>2, <2>4, <2>5 DEF RespMove
<1>7. CASE ResumeRecord(r)
  <2> DEFINE new == [resp[r] EXCEPT !.pc = "done"]
  <2>1. new \in RespRec /\ new.pc = "done"
    BY <1>1 DEF RespRec, RespPc
  <2>2. resp' = [resp EXCEPT ![r] = new]
    BY <1>7 DEF ResumeRecord
  <2> QED
    BY <1>7, <2>1, <2>2 DEF RespMove
<1> QED
  BY <1>2, <1>3, <1>4, <1>5, <1>6, <1>7 DEF Respond

-----------------------------------------------------------------------------
(* Type correctness. *)

LEMMA Replaced ==
    ASSUME NEW S, NEW q \in Seq(S), NEW d \in DOMAIN q, NEW x \in S
    PROVE  /\ [q EXCEPT ![d] = x] \in Seq(S) /\ DOMAIN [q EXCEPT ![d] = x] = DOMAIN q
           /\ [q EXCEPT ![d] = x][d] = x
           /\ \A c \in DOMAIN q : c # d => [q EXCEPT ![d] = x][c] = q[c]
OBVIOUS

LEMMA EscsTyped ==
    ASSUME TypeOK, NEW e \in Nat, NEW action \in Actions \union {NoAction},
           escs' = [escs EXCEPT ![e].status = "responded", ![e].action = action]
    PROVE  /\ escs' \in Seq(Escalation) /\ DOMAIN escs' = DOMAIN escs
           /\ \A d \in DOMAIN escs : escs'[d].step = escs[d].step
                                     /\ (escs[d].status = "responded" => escs'[d].status = "responded")
           /\ \A d \in DOMAIN escs : d # e => escs'[d] = escs[d]
           /\ e \in DOMAIN escs => escs'[e].status = "responded"
<1>1. escs \in Seq(Escalation)
  BY Rows
<1>2. CASE e \in DOMAIN escs
  <2>1. escs[e] \in Escalation
    BY <1>2, Rows
  <2>2. PICK row : /\ row \in Escalation /\ row.status = "responded" /\ row.step = escs[e].step
                   /\ escs' = [escs EXCEPT ![e] = row]
    <3>1. [escs[e] EXCEPT !.status = "responded", !.action = action] \in Escalation
      BY <2>1 DEF Escalation
    <3>2. escs' = [escs EXCEPT ![e] = [escs[e] EXCEPT !.status = "responded", !.action = action]]
      BY <1>1, <1>2
    <3> QED
      BY <2>1, <3>1, <3>2 DEF Escalation
  <2> HIDE DEF Escalation
  <2>3. /\ escs' \in Seq(Escalation) /\ DOMAIN escs' = DOMAIN escs /\ escs'[e] = row
    <3>1. [escs EXCEPT ![e] = row] \in Seq(Escalation) /\ DOMAIN [escs EXCEPT ![e] = row] = DOMAIN escs
          /\ [escs EXCEPT ![e] = row][e] = row
      BY <1>1, <1>2, <2>2, Replaced
    <3> QED
      BY <2>2, <3>1, Zenon
  <2>4. \A d \in DOMAIN escs : d # e => escs'[d] = escs[d]
    BY <1>1, <2>2
  <2>5. \A d \in DOMAIN escs : d = e \/ d # e
    OBVIOUS
  <2> QED
    BY <2>2, <2>3, <2>4, <2>5
<1>3. CASE e \notin DOMAIN escs
  <2>1. escs' = escs
    BY <1>1, <1>3
  <2> QED
    BY <1>1, <1>3, <2>1
<1> QED
  BY <1>2, <1>3

LEMMA EscAsked ==
    ASSUME TypeOK, NEW s \in Steps,
           escs' = Append(escs, [status |-> "pending", step |-> s, action |-> NoAction])
    PROVE  /\ escs' \in Seq(Escalation)
           /\ \A e \in DOMAIN escs : e \in DOMAIN escs' /\ escs'[e] = escs[e]
<1> DEFINE row == [status |-> "pending", step |-> s, action |-> NoAction]
<1>1. row \in Escalation
  BY DEF Escalation
<1>2. escs \in Seq(Escalation) /\ DOMAIN escs = 1..Len(escs) /\ Len(escs) \in Nat
  BY Rows
<1>3. escs' = Append(escs, row)
  OBVIOUS
<1> HIDE DEF row, Escalation
<1>4. escs' \in Seq(Escalation) /\ DOMAIN escs' = 1..(Len(escs) + 1)
  BY <1>1, <1>2, <1>3
<1>5. \A e \in 1..Len(escs) : escs'[e] = escs[e]
  BY <1>1, <1>2, <1>3
<1>6. \A e \in 1..Len(escs) : e \in 1..(Len(escs) + 1)
  BY <1>2
<1> QED
  BY <1>2, <1>4, <1>5, <1>6

LEMMA RespondTyped == ASSUME Typed, NEW r \in Responders, Respond(r) PROVE Typed'
<1>0. TypeOK
  BY DEF Typed
<1>1. ex' = ex /\ wf' = wf /\ faults' = faults
  BY DEF Respond, SelectPending, UpdateEscalation, ResumeRun, ResumeCreateLog, ResumeStep,
         ResumeRecord
<1>2. Placed'
  BY <1>1 DEF Typed, Placed, InStep, Positions
<1>3. PICK new \in RespRec : resp' = [resp EXCEPT ![r] = new] /\ RespMove(r, new)
  BY <1>0, RespondMoves
<1>4. resp' \in [Responders -> RespRec]
  BY <1>0, <1>3, OneResp
<1>5. resp[r] \in RespRec
  BY <1>0, Records
<1>6. run' \in [status : RunStatuses, cost : Nat]
  BY <1>0 DEF TypeOK, RunStatuses, Respond, SelectPending, UpdateEscalation, ResumeRun,
              ResumeCreateLog, ResumeStep, ResumeRecord
<1>7. escs' \in Seq(Escalation)
  <2>1. CASE UpdateEscalation(r)
    <3>1. resp[r].esc \in Nat /\ resp[r].action \in Actions \union {NoAction}
      BY <1>5 DEF RespRec
    <3> QED
      BY <1>0, <2>1, <3>1, EscsTyped DEF UpdateEscalation
  <2>2. CASE escs' = escs
    BY <1>0, <2>2, Rows
  <2> QED
    BY <2>1, <2>2 DEF Respond, SelectPending, ResumeRun, ResumeCreateLog, ResumeStep, ResumeRecord
<1>8. logs' \in Seq(Log)
  <2>1. CASE ResumeCreateLog(r)
    <3>1. PICK s \in resp[r].next : logs' = Append(logs, NewLog(s, "resume"))
      BY <2>1 DEF ResumeCreateLog
    <3>2. s \in Steps
      BY <1>5 DEF RespRec
    <3> QED
      BY <1>0, <3>1, <3>2, LogAppended
  <2>2. CASE ResumeRecord(r)
    <3>1. resp[r].log \in Nat /\ resp[r].status \in LogStatuses /\ resp[r].cost \in Nat
      BY <1>5 DEF RespRec
    <3>2. logs' = [logs EXCEPT ![resp[r].log].status = resp[r].status,
                               ![resp[r].log].cost = resp[r].cost]
      BY <2>2 DEF ResumeRecord
    <3> QED
      BY <1>0, <3>1, <3>2, LogUpdated
  <2>3. CASE logs' = logs
    BY <1>0, <2>3, Rows
  <2> QED
    BY <2>1, <2>2, <2>3 DEF Respond, SelectPending, UpdateEscalation, ResumeRun, ResumeStep
<1>9. TypeOK'
  BY <1>0, <1>1, <1>4, <1>6, <1>7, <1>8 DEF TypeOK, RespRec
<1> QED
  BY <1>2, <1>9 DEF Typed

LEMMA ExecuteTyped == ASSUME Typed, Execute PROVE Typed'
<1>0. TypeOK /\ ex \in ExRec /\ wf' = wf /\ resp' = resp /\ faults' = faults
  BY Records DEF Typed, Execute, CreateRun, MarkRunning, CreateStepLog, StepReturns, StepRaises,
                 CreateEscalation, AwaitHuman, RecordStep, Pause, CompleteRun
<1>1. SUFFICES /\ ex' \in ExRec /\ Placed' /\ run' \in [status : RunStatuses, cost : Nat]
               /\ logs' \in Seq(Log) /\ escs' \in Seq(Escalation)
  BY <1>0 DEF Typed, TypeOK, ExRec
<1>2. run \in [status : RunStatuses, cost : Nat] /\ logs \in Seq(Log) /\ escs \in Seq(Escalation)
  BY <1>0 DEF TypeOK
<1>3. Positions' = Positions /\ Positions = 1..Len(wf.order) /\ Len(wf.order) \in Nat
  BY <1>0, Workflow DEF Positions
<1>4. /\ ex.i \in Nat \ {0} /\ ex.log \in Nat /\ ex.cost \in Nat /\ ex.total \in Nat
      /\ ex.status \in LogStatuses
  BY <1>0 DEF Typed, Placed, ExRec
<1>5. CASE CreateRun \/ MarkRunning \/ Pause \/ CompleteRun
  <2>1. ex' \in ExRec /\ ex'.i = ex.i /\ ex'.pc \notin {"step", "ask", "record"}
    BY <1>0, <1>5 DEF CreateRun, MarkRunning, Pause, CompleteRun, ExRec, ExPc
  <2>2. run' \in [status : RunStatuses, cost : Nat]
    BY <1>2, <1>4, <1>5 DEF CreateRun, MarkRunning, Pause, CompleteRun, RunStatuses
  <2>3. logs' = logs /\ escs' = escs
    BY <1>5 DEF CreateRun, MarkRunning, Pause, CompleteRun
  <2> QED
    BY <1>2, <1>4, <2>1, <2>2, <2>3 DEF Placed, InStep
<1>6. CASE CreateStepLog
  <2> PICK n : n = Len(logs) + 1
    OBVIOUS
  <2>1. ex.i \in Positions /\ wf.order[ex.i] \in Steps
    BY <1>0, <1>3, <1>4, <1>6, Workflow DEF CreateStepLog
  <2>2. logs' \in Seq(Log) /\ n \in Nat
    BY <1>0, <1>6, <2>1, LogAppended DEF CreateStepLog
  <2>3. ex' = [ex EXCEPT !.pc = "step", !.log = n]
    BY <1>6 DEF CreateStepLog
  <2>4. ex' \in ExRec /\ ex'.i = ex.i
    BY <1>0, <2>2, <2>3 DEF ExRec, ExPc
  <2> QED
    BY <1>2, <1>3, <1>4, <1>6, <2>1, <2>2, <2>4 DEF CreateStepLog, Placed
<1>7. ASSUME NEW cost \in 0..MaxCost, StepReturns(cost)
      PROVE  /\ ex' \in ExRec /\ Placed' /\ run' \in [status : RunStatuses, cost : Nat]
             /\ logs' \in Seq(Log) /\ escs' \in Seq(Escalation)
  <2>1. cost \in Nat
    BY RunAssumption
  <2>2. ex' \in ExRec /\ ex'.i = ex.i /\ ex.pc = "step"
    BY <1>0, <1>7, <2>1 DEF StepReturns, ExRec, ExPc, LogStatuses
  <2> QED
    BY <1>2, <1>3, <1>4, <1>7, <2>2 DEF StepReturns, Typed, Placed, InStep
<1>8. CASE StepRaises
  <2>1. ex' \in ExRec /\ ex'.i = ex.i /\ ex.pc \in {"step", "ask"}
    BY <1>0, <1>8 DEF StepRaises, ExRec, ExPc, LogStatuses
  <2> QED
    BY <1>2, <1>3, <1>4, <1>8, <2>1 DEF StepRaises, Typed, Placed, InStep
<1>9. CASE CreateEscalation
  <2>1. ex' \in ExRec /\ ex'.i = ex.i /\ ex.pc = "step"
    BY <1>0, <1>9 DEF CreateEscalation, ExRec, ExPc
  <2>2. ex.i \in Positions /\ wf.order[ex.i] \in Steps
    BY <1>0, <2>1, Workflow DEF Typed, Placed, InStep
  <2>3. escs' \in Seq(Escalation)
    BY <1>0, <1>9, <2>2, EscAsked DEF CreateEscalation
  <2> QED
    BY <1>2, <1>3, <1>4, <1>9, <2>1, <2>2, <2>3 DEF CreateEscalation, Placed
<1>10. CASE AwaitHuman
  <2>1. ex' \in ExRec /\ ex'.i = ex.i /\ ex.pc = "ask"
    BY <1>0, <1>10 DEF AwaitHuman, ExRec, ExPc, LogStatuses
  <2>2. logs' \in Seq(Log)
    BY <1>0, <1>4, <1>10, LogUpdated DEF AwaitHuman, LogStatuses
  <2> QED
    BY <1>2, <1>3, <1>4, <1>10, <2>1, <2>2 DEF AwaitHuman, Typed, Placed, InStep
<1>11. CASE RecordStep
  <2>1. PICK pc \in {"pause", "next"} :
           ex' = [ex EXCEPT !.pc = pc, !.i = @ + 1, !.total = @ + ex.cost]
    BY <1>11 DEF RecordStep
  <2>2. ex.i + 1 \in Nat \ {0} /\ ex.total + ex.cost \in Nat
    BY <1>4
  <2>3. ex' \in ExRec /\ ex'.i = ex.i + 1 /\ ex'.pc = pc
    BY <1>0, <2>1, <2>2 DEF ExRec, ExPc
  <2>4. logs' \in Seq(Log)
    BY <1>0, <1>4, <1>11, LogUpdated DEF RecordStep
  <2> QED
    BY <1>2, <1>11, <2>2, <2>3, <2>4 DEF RecordStep, Placed, InStep
<1> QED
  BY <1>5, <1>6, <1>7, <1>8, <1>9, <1>10, <1>11 DEF Execute

LEMMA NextTyped == ASSUME Typed, [Next]_vars PROVE Typed'
<1>0. TypeOK /\ ex \in ExRec
  BY Records DEF Typed
<1>1. CASE Execute
  BY <1>1, ExecuteTyped
<1>2. ASSUME NEW r \in Responders, Respond(r) PROVE Typed'
  BY <1>2, RespondTyped
<1>3. CASE ExecuteRaises
  <2>1. ex' \in ExRec /\ ex'.i = ex.i /\ ex'.pc = "raised"
    BY <1>0, <1>3 DEF ExecuteRaises, ExRec, ExPc
  <2>2. faults' \in [db : Nat, crash : Nat]
    BY <1>0, <1>3 DEF ExecuteRaises, TypeOK
  <2> QED
    BY <1>0, <1>3, <2>1, <2>2 DEF ExecuteRaises, Typed, TypeOK, ExRec, Placed, InStep
<1>4. ASSUME NEW r \in Responders, NEW e \in DOMAIN escs, NEW action \in Actions,
             FindEscalation(r, e, action)
      PROVE  Typed'
  <2>1. resp' \in [Responders -> RespRec]
    BY <1>0, <1>4, FindMoves, OneResp
  <2> QED
    BY <1>0, <1>4, <2>1 DEF FindEscalation, Typed, TypeOK, RespRec, Placed, InStep, Positions
<1>5. CASE Crash
  <2>1. ex' \in ExRec /\ ex'.i = ex.i /\ ex'.pc \notin {"step", "ask", "record"}
    <3>1. CASE ex.pc \in {"done", "raised"}
      BY <1>0, <1>5, <3>1 DEF Crash
    <3>2. CASE ex.pc \notin {"done", "raised"}
      <4>1. ex' = [ex EXCEPT !.pc = "killed"]
        BY <1>5, <3>2 DEF Crash
      <4> QED
        BY <1>0, <4>1 DEF ExRec, ExPc
    <3> QED
      BY <3>1, <3>2
  <2>2. resp' \in [Responders -> RespRec]
    <3>1. \A r \in Responders : resp[r] \in RespRec /\ [resp[r] EXCEPT !.pc = "killed"] \in RespRec
      BY <1>0, Records DEF RespRec, RespPc
    <3> QED
      BY <1>5, <3>1 DEF Crash
  <2>3. faults' \in [db : Nat, crash : Nat]
    <3>1. faults \in [db : Nat, crash : Nat] /\ faults' = [faults EXCEPT !.crash = @ + 1]
      BY <1>0, <1>5 DEF Crash, TypeOK
    <3>2. faults.crash + 1 \in Nat
      BY <3>1
    <3> QED
      BY <3>1, <3>2
  <2> QED
    BY <1>0, <1>5, <2>1, <2>2, <2>3 DEF Crash, Typed, TypeOK, ExRec, RespRec, Placed, InStep
<1>6. CASE UNCHANGED vars
  BY <1>6 DEF vars, Typed, TypeOK, Placed, InStep, Positions
<1>7. CASE CancelRun
  <2>1. run' \in [status : RunStatuses, cost : Nat]
    BY <1>0, <1>7 DEF CancelRun, TypeOK, RunStatuses
  <2> QED
    BY <1>0, <1>7, <2>1 DEF CancelRun, Typed, TypeOK, Placed, InStep, Positions
<1> QED
  BY <1>1, <1>2, <1>3, <1>4, <1>5, <1>6, <1>7 DEF Next

LEMMA InitTyped == Init => Typed
<1> SUFFICES ASSUME Init PROVE Typed
  OBVIOUS
<1>1. ex \in ExRec /\ Placed
  BY DEF Init, StartedEx, ExRec, ExPc, LogStatuses, Placed, InStep
<1>2. resp \in [Responders -> RespRec]
  BY DEF Init, IdleResp, RespRec, RespPc, LogStatuses
<1>3. logs \in Seq(Log) /\ escs \in Seq(Escalation)
  <2> HIDE DEF Log, Escalation
  <2> QED
    BY DEF Init
<1> QED
  BY <1>1, <1>2, <1>3 DEF Init, Typed, TypeOK, ExRec, RespRec, RunStatuses

\* Rows and local variables keep their types, for any workflow and any number of requests.
THEOREM TypeCorrect == Spec => []TypeOK
<1>1. Typed => TypeOK
  BY DEF Typed
<1> QED
  BY <1>1, InitTyped, NextTyped, PTL DEF Spec

-----------------------------------------------------------------------------
(* A step log is written by its owner only, and not after it is closed. *)

\* A step adds the row n, or sets the status of the row k.
LogAdded(n, s, by) ==
    /\ DOMAIN logs' = DOMAIN logs \union {n} /\ n \notin DOMAIN logs
    /\ \A k \in DOMAIN logs : k < n /\ logs'[k] = logs[k]
    /\ logs'[n].step = s /\ logs'[n].by = by /\ ~Closed(logs'[n])
LogSet(k, status) ==
    /\ DOMAIN logs' = DOMAIN logs
    /\ \A l \in DOMAIN logs : l # k => logs'[l] = logs[l]
    /\ k \in DOMAIN logs =>
          logs'[k].status = status /\ logs'[k].step = logs[k].step /\ logs'[k].by = logs[k].by

LEMMA Added ==
    ASSUME TypeOK, NEW s \in Steps, NEW by \in {"execute", "resume"},
           logs' = Append(logs, NewLog(s, by)), NEW n, n = Len(logs) + 1
    PROVE  LogAdded(n, s, by)
<1>1. /\ DOMAIN logs' = DOMAIN logs \union {n}
      /\ \A k \in DOMAIN logs : k < n /\ logs'[k] = logs[k]
      /\ logs'[n] = [step |-> s, by |-> by, status |-> "pending", cost |-> 0]
  BY LogAppended
<1>2. n \notin DOMAIN logs
  BY Rows
<1>3. ~Closed(logs'[n])
  BY <1>1 DEF Closed
<1> QED
  BY <1>1, <1>2, <1>3 DEF LogAdded

LEMMA ResumeLogs ==
    ASSUME TypeOK, NEW r \in Responders
    PROVE  /\ ResumeCreateLog(r) =>
                \E s \in resp[r].next, n \in {Len(logs) + 1} : LogAdded(n, s, "resume")
           /\ ResumeRecord(r) => LogSet(resp[r].log, resp[r].status)
<1>1. resp[r] \in RespRec
  BY Records
<1>2. ASSUME ResumeCreateLog(r)
      PROVE  \E s \in resp[r].next, n \in {Len(logs) + 1} : LogAdded(n, s, "resume")
  <2>1. PICK s \in resp[r].next : logs' = Append(logs, NewLog(s, "resume"))
    BY <1>2 DEF ResumeCreateLog
  <2>2. s \in Steps
    BY <1>1 DEF RespRec
  <2>3. PICK n : n = Len(logs) + 1
    OBVIOUS
  <2>4. LogAdded(n, s, "resume")
    BY <2>1, <2>2, <2>3, Added
  <2> QED
    BY <2>3, <2>4
<1>3. ASSUME ResumeRecord(r) PROVE LogSet(resp[r].log, resp[r].status)
  <2>1. resp[r].log \in Nat /\ resp[r].status \in LogStatuses /\ resp[r].cost \in Nat
    BY <1>1 DEF RespRec
  <2>2. logs' = [logs EXCEPT ![resp[r].log].status = resp[r].status,
                             ![resp[r].log].cost = resp[r].cost]
    BY <1>3 DEF ResumeRecord
  <2> QED
    BY <2>1, <2>2, LogUpdated DEF LogSet
<1> QED
  BY <1>2, <1>3

LEMMA ExecuteLogs ==
    ASSUME Typed
    PROVE  /\ CreateStepLog => \E n : /\ n = Len(logs) + 1 /\ ex' = [ex EXCEPT !.pc = "step", !.log = n]
                                      /\ ex.i \in Positions /\ LogAdded(n, wf.order[ex.i], "execute")
           /\ RecordStep => LogSet(ex.log, ex.status)
           /\ AwaitHuman => LogSet(ex.log, "awaiting_human")
<1>0. TypeOK /\ ex \in ExRec
  BY Records DEF Typed
<1>1. ex.log \in Nat /\ ex.status \in LogStatuses /\ ex.cost \in Nat
  BY <1>0 DEF ExRec
<1>2. ASSUME CreateStepLog
      PROVE  \E n : /\ n = Len(logs) + 1 /\ ex' = [ex EXCEPT !.pc = "step", !.log = n]
                    /\ ex.i \in Positions /\ LogAdded(n, wf.order[ex.i], "execute")
  <2>1. PICK n : n = Len(logs) + 1
    OBVIOUS
  <2>2. ex.i \in Positions /\ wf.order[ex.i] \in Steps
    BY <1>0, <1>2, Workflow DEF CreateStepLog, Typed, Placed
  <2>3. LogAdded(n, wf.order[ex.i], "execute")
    BY <1>0, <1>2, <2>1, <2>2, Added DEF CreateStepLog
  <2> QED
    BY <1>2, <2>1, <2>2, <2>3 DEF CreateStepLog
<1>3. ASSUME RecordStep PROVE LogSet(ex.log, ex.status)
  BY <1>0, <1>1, <1>3, LogUpdated DEF RecordStep, LogSet
<1>4. ASSUME AwaitHuman PROVE LogSet(ex.log, "awaiting_human")
  BY <1>0, <1>1, <1>4, LogUpdated DEF AwaitHuman, LogSet, LogStatuses
<1> QED
  BY <1>2, <1>3, <1>4

Open(k, who) == k \in DOMAIN logs /\ logs[k].by = who /\ ~Closed(logs[k])

ExOwns ==
    /\ InStep => Open(ex.log, "execute")
    /\ ex.pc = "record" => ex.status \in {"completed", "failed"}

Writing(r) == resp[r].pc \in {"step", "record"}
RespsOwn ==
    /\ \A r \in Responders : Writing(r) => Open(resp[r].log, "resume")
    /\ \A r \in Responders : resp[r].pc = "record" => resp[r].status \in {"completed", "failed"}
    /\ \A r, q \in Responders : Writing(r) /\ Writing(q) /\ resp[r].log = resp[q].log => r = q

LogInv == Typed /\ ExOwns /\ RespsOwn

\* What a step leaves of the logs that were there.
LogsStay ==
    \A k \in DOMAIN logs :
        /\ k \in DOMAIN logs' /\ logs'[k].by = logs[k].by /\ logs'[k].step = logs[k].step
        /\ Closed(logs[k]) => logs'[k] = logs[k]

LEMMA AddedStays ==
    ASSUME NEW n, NEW s, NEW by, LogAdded(n, s, by)
    PROVE  /\ LogsStay
           /\ \A k, who : Open(k, who) => k # n /\ Open(k, who)'
           /\ \A k : k = n => Open(k, by)'
BY DEF LogAdded, LogsStay, Open

LEMMA SetStays ==
    ASSUME NEW k, NEW status, NEW who, Open(k, who), LogSet(k, status)
    PROVE  /\ LogsStay
           /\ \A l, whose : Open(l, whose) /\ l # k => Open(l, whose)'
           /\ status \notin {"completed", "failed"} => Open(k, who)'
<1>1. LogsStay
  BY DEF LogSet, LogsStay, Open
<1>2. \A l, whose : Open(l, whose) /\ l # k => Open(l, whose)'
  BY DEF LogSet, Open
<1>3. status \notin {"completed", "failed"} => Open(k, who)'
  BY DEF LogSet, Open, Closed
<1> QED
  BY <1>1, <1>2, <1>3

LEMMA RespondLogs ==
    ASSUME LogInv, NEW r \in Responders, Respond(r)
    PROVE  LogsStay /\ ExOwns' /\ RespsOwn'
<1>0. TypeOK /\ ex' = ex /\ InStep' = InStep
  BY DEF LogInv, Typed, Respond, SelectPending, UpdateEscalation, ResumeRun, ResumeCreateLog,
         ResumeStep, ResumeRecord, InStep
<1>1. PICK new \in RespRec : resp' = [resp EXCEPT ![r] = new] /\ RespMove(r, new)
  BY <1>0, RespondMoves
<1>2. resp'[r] = new /\ \A q \in Responders \ {r} : resp'[q] = resp[q]
  BY <1>0, <1>1, OneResp
\* What is to be shown of the logs and of the request that moves.
<1>3. ASSUME LogsStay,
             \A q \in Responders \ {r} : \A k : Writing(q) /\ k = resp[q].log => Open(k, "resume")',
             \A k : InStep /\ k = ex.log => Open(k, "execute")',
             new.pc \in {"step", "record"} =>
                Open(new.log, "resume")' /\ \A q \in Responders \ {r} : Writing(q) => resp[q].log # new.log,
             new.pc = "record" => new.status \in {"completed", "failed"}
      PROVE  LogsStay /\ ExOwns' /\ RespsOwn'
  <2>1. ExOwns'
    BY <1>0, <1>3 DEF LogInv, ExOwns
  <2>2. RespsOwn'
    BY <1>2, <1>3 DEF LogInv, RespsOwn, Writing
  <2> QED
    BY <1>3, <2>1, <2>2
<1>4. /\ \A q \in Responders : Writing(q) => Open(resp[q].log, "resume")
      /\ InStep => Open(ex.log, "execute")
      /\ Writing(r) => \A q \in Responders \ {r} : Writing(q) => resp[q].log # resp[r].log
  BY DEF LogInv, ExOwns, RespsOwn
<1>5. CASE logs' = logs
  <2>1. LogsStay /\ \A k, who : Open(k, who)' = Open(k, who)
    BY <1>5 DEF LogsStay, Open
  <2>2. new.pc \in {"step", "record"} =>
            new.pc = "record" /\ Writing(r) /\ new.log = resp[r].log
            /\ new.status \in {"completed", "failed"}
    <3>1. ~ResumeCreateLog(r)
      <4>1. ASSUME ResumeCreateLog(r) PROVE FALSE
        <5>1. PICK s \in resp[r].next, n \in {Len(logs) + 1} : LogAdded(n, s, "resume")
          BY <1>0, <4>1, ResumeLogs
        <5> QED
          BY <1>5, <5>1 DEF LogAdded
      <4> QED
        BY <4>1
    <3> QED
      BY <1>1, <3>1 DEF RespMove, ResumeStep, Writing
  <2> QED
    BY <1>3, <1>4, <2>1, <2>2
<1>6. CASE ResumeCreateLog(r)
  <2>1. PICK s \in resp[r].next, n \in {Len(logs) + 1} : LogAdded(n, s, "resume")
    BY <1>0, <1>6, ResumeLogs
  <2>2. new.pc = "step" /\ new.log = n
    BY <1>1, <1>6, <2>1 DEF RespMove, ResumeCreateLog, SelectPending, UpdateEscalation, ResumeRun,
                            ResumeStep, ResumeRecord
  <2>3. /\ LogsStay /\ \A k, who : Open(k, who) => k # n /\ Open(k, who)'
        /\ \A k : k = n => Open(k, "resume")'
    BY <2>1, AddedStays
  <2> QED
    BY <1>3, <1>4, <2>2, <2>3
<1>7. CASE ResumeRecord(r)
  <2>1. LogSet(resp[r].log, resp[r].status)
    BY <1>0, <1>7, ResumeLogs
  <2>2. PICK k : k = resp[r].log
    OBVIOUS
  <2>3. Writing(r) /\ Open(k, "resume")
    BY <1>4, <1>7, <2>2 DEF ResumeRecord, Writing
  <2>4. LogsStay /\ \A l, whose : Open(l, whose) /\ l # k => Open(l, whose)'
    BY <2>1, <2>2, <2>3, SetStays
  <2>5. InStep => ex.log # k
    BY <1>4, <2>3 DEF Open
  <2>6. new.pc = "done"
    BY <1>1, <1>7 DEF RespMove, ResumeCreateLog, SelectPending, UpdateEscalation, ResumeRun,
                      ResumeStep, ResumeRecord
  <2>7. \A q \in Responders \ {r} : \A l : Writing(q) /\ l = resp[q].log => Open(l, "resume")'
    BY <1>4, <2>2, <2>3, <2>4
  <2>8. \A l : InStep /\ l = ex.log => Open(l, "execute")'
    BY <1>4, <2>4, <2>5
  <2> QED
    BY <1>3, <2>4, <2>6, <2>7, <2>8
<1> QED
  BY <1>5, <1>6, <1>7 DEF Respond, SelectPending, UpdateEscalation, ResumeRun, ResumeStep

LEMMA ExecuteOwns ==
    ASSUME LogInv, Execute
    PROVE  LogsStay /\ ExOwns' /\ RespsOwn'
<1>0. Typed /\ TypeOK /\ resp' = resp /\ ex \in ExRec
  BY Records DEF LogInv, Typed, Execute, CreateRun, MarkRunning, CreateStepLog, StepReturns,
                 StepRaises, CreateEscalation, AwaitHuman, RecordStep, Pause, CompleteRun
<1>1. /\ \A q \in Responders : Writing(q) => Open(resp[q].log, "resume")
      /\ InStep => Open(ex.log, "execute")
  BY DEF LogInv, ExOwns, RespsOwn
<1>2. ASSUME \A k : Open(k, "resume") => Open(k, "resume")' PROVE RespsOwn'
  BY <1>0, <1>1, <1>2 DEF LogInv, RespsOwn, Writing
<1>3. CASE CreateStepLog
  <2>1. PICK n : /\ ex' = [ex EXCEPT !.pc = "step", !.log = n]
                 /\ LogAdded(n, wf.order[ex.i], "execute")
    BY <1>0, <1>3, ExecuteLogs
  <2>2. /\ LogsStay /\ \A k, who : Open(k, who) => k # n /\ Open(k, who)'
        /\ \A k : k = n => Open(k, "execute")'
    BY <2>1, AddedStays
  <2>3. ex'.pc = "step" /\ ex'.log = n
    BY <1>0, <2>1 DEF ExRec
  <2>4. ExOwns'
    BY <2>2, <2>3 DEF ExOwns
  <2> QED
    BY <1>2, <2>2, <2>4
<1>4. CASE AwaitHuman \/ RecordStep
  <2>1. PICK status, k : /\ k = ex.log /\ LogSet(k, status)
                         /\ AwaitHuman => status = "awaiting_human"
    <3>1. CASE AwaitHuman
      BY <1>0, <3>1, ExecuteLogs
    <3>2. CASE RecordStep
      <4>1. ~AwaitHuman
        BY <3>2 DEF RecordStep, AwaitHuman
      <4> QED
        BY <1>0, <3>2, <4>1, ExecuteLogs
    <3> QED
      BY <1>4, <3>1, <3>2
  <2>2. Open(k, "execute")
    BY <1>1, <1>4, <2>1 DEF AwaitHuman, RecordStep, InStep
  <2>3. /\ LogsStay /\ \A l, whose : Open(l, whose) /\ l # k => Open(l, whose)'
        /\ status \notin {"completed", "failed"} => Open(k, "execute")'
    BY <2>1, <2>2, SetStays
  <2>4. \A l : Open(l, "resume") => l # k
    BY <2>2 DEF Open
  <2>5. RespsOwn'
    BY <1>2, <2>3, <2>4
  <2>6. ExOwns'
    <3>1. CASE AwaitHuman
      <4>1. ex'.pc = "record" /\ ex'.log = k /\ ex'.status = "completed"
        BY <1>0, <2>1, <3>1 DEF AwaitHuman, ExRec
      <4>2. Open(k, "execute")'
        BY <2>1, <2>3, <3>1
      <4> QED
        BY <4>1, <4>2 DEF ExOwns
    <3>2. CASE RecordStep
      <4>1. ex'.pc \in {"pause", "next"}
        BY <1>0, <3>2 DEF RecordStep, ExRec
      <4> QED
        BY <4>1 DEF ExOwns, InStep
    <3> QED
      BY <1>4, <3>1, <3>2
  <2> QED
    BY <2>3, <2>5, <2>6
<1>5. CASE logs' = logs
  <2>1. LogsStay /\ \A k, who : Open(k, who)' = Open(k, who)
    BY <1>5 DEF LogsStay, Open
  <2>2. RespsOwn'
    BY <1>2, <2>1
  <2>3. ASSUME ex'.pc \notin {"step", "ask", "record"} PROVE ExOwns'
    BY <2>3 DEF ExOwns, InStep
  <2>4. ASSUME InStep, ex'.log = ex.log,
               ex'.pc = "record" => ex'.status \in {"completed", "failed"}
        PROVE  ExOwns'
    BY <1>1, <2>1, <2>4 DEF ExOwns
  <2>5. CASE CreateRun \/ MarkRunning \/ Pause \/ CompleteRun
    <3>1. ex'.pc \in {"mark", "next", "done"}
      BY <1>0, <2>5 DEF CreateRun, MarkRunning, Pause, CompleteRun, ExRec
    <3> QED
      BY <2>1, <2>2, <2>3, <3>1
  <2>6. ASSUME NEW cost \in 0..MaxCost, StepReturns(cost) PROVE ExOwns'
    <3>1. InStep /\ ex'.log = ex.log /\ ex'.status = "completed"
      BY <1>0, <2>6 DEF StepReturns, ExRec, InStep
    <3> QED
      BY <2>4, <3>1
  <2>7. ASSUME StepRaises PROVE ExOwns'
    <3>1. InStep /\ ex'.log = ex.log /\ ex'.status = "failed"
      BY <1>0, <2>7 DEF StepRaises, ExRec, InStep
    <3> QED
      BY <2>4, <3>1
  <2>8. ASSUME CreateEscalation PROVE ExOwns'
    <3>1. InStep /\ ex'.log = ex.log /\ ex'.pc = "ask"
      BY <1>0, <2>8 DEF CreateEscalation, ExRec, InStep
    <3> QED
      BY <2>4, <3>1
  <2> QED
    BY <1>3, <1>4, <2>1, <2>2, <2>5, <2>6, <2>7, <2>8 DEF Execute
<1> QED
  BY <1>3, <1>4, <1>5 DEF Execute, CreateRun, MarkRunning, StepReturns, StepRaises, CreateEscalation,
                          Pause, CompleteRun

LEMMA LogNext == ASSUME LogInv, [Next]_vars PROVE LogInv' /\ LogsStay
<1>0. Typed' /\ TypeOK /\ ex \in ExRec
  BY NextTyped, Records DEF LogInv, Typed
<1> SUFFICES LogsStay /\ ExOwns' /\ RespsOwn'
  BY <1>0 DEF LogInv
<1>1. CASE Execute
  BY <1>1, ExecuteOwns
<1>2. ASSUME NEW r \in Responders, Respond(r) PROVE LogsStay /\ ExOwns' /\ RespsOwn'
  BY <1>2, RespondLogs
<1>3. ASSUME logs' = logs, \A q \in Responders : resp'[q] = resp[q] \/ resp'[q].pc \notin {"step", "record"},
             ex' = ex \/ ex'.pc \notin {"step", "ask", "record"}
      PROVE  LogsStay /\ ExOwns' /\ RespsOwn'
  <2>1. LogsStay /\ \A k, who : Open(k, who)' = Open(k, who)
    BY <1>3 DEF LogsStay, Open
  <2>2. ExOwns'
    BY <1>3, <2>1 DEF LogInv, ExOwns, InStep
  <2>3. RespsOwn'
    BY <1>3, <2>1 DEF LogInv, RespsOwn, Writing
  <2> QED
    BY <2>1, <2>2, <2>3
<1>4. CASE ExecuteRaises
  <2>1. ex'.pc = "raised" /\ resp' = resp /\ logs' = logs
    BY <1>0, <1>4 DEF ExecuteRaises, ExRec
  <2> QED
    BY <1>3, <2>1
<1>5. ASSUME NEW r \in Responders, NEW e \in DOMAIN escs, NEW action \in Actions,
             FindEscalation(r, e, action)
      PROVE  LogsStay /\ ExOwns' /\ RespsOwn'
  <2>1. PICK new \in RespRec : resp' = [resp EXCEPT ![r] = new] /\ new.pc = "select"
    BY <1>0, <1>5, FindMoves
  <2>2. resp'[r] = new /\ \A q \in Responders \ {r} : resp'[q] = resp[q]
    BY <1>0, <2>1, OneResp
  <2> QED
    BY <1>3, <1>5, <2>1, <2>2 DEF FindEscalation
<1>6. CASE Crash
  <2>1. ex' = ex \/ ex'.pc = "killed"
    BY <1>0, <1>6 DEF Crash, ExRec
  <2>2. \A q \in Responders : resp'[q] = resp[q] \/ resp'[q].pc = "killed"
    <3>1. \A q \in Responders : [resp[q] EXCEPT !.pc = "killed"].pc = "killed"
      BY <1>0, Records DEF RespRec
    <3> QED
      BY <1>6, <3>1 DEF Crash
  <2> QED
    BY <1>3, <1>6, <2>1, <2>2 DEF Crash
<1>7. CASE CancelRun \/ UNCHANGED vars
  BY <1>3, <1>7 DEF CancelRun, vars
<1> QED
  BY <1>1, <1>2, <1>4, <1>5, <1>6, <1>7 DEF Next

LEMMA LogInit == Init => LogInv
<1> SUFFICES ASSUME Init PROVE ExOwns /\ RespsOwn
  BY InitTyped DEF LogInv
<1>1. ex.pc = "create" /\ \A r \in Responders : resp[r].pc = "idle"
  BY DEF Init, StartedEx, IdleResp
<1> QED
  BY <1>1 DEF ExOwns, RespsOwn, InStep, Writing

\* A closed step log is never written again, by execute() or by a resuming request.
THEOREM ClosedLogsStay == Spec => ClosedLogIsFinal
<1>1. LogInv /\ [Next]_vars => [\A k \in DOMAIN logs : Closed(logs[k]) => logs'[k] = logs[k]]_vars
  BY LogNext DEF LogsStay
<1> QED
  BY <1>1, LogInit, LogNext, PTL DEF Spec, ClosedLogIsFinal

-----------------------------------------------------------------------------
(* The walk along the order. *)

Live == ex.pc \notin {"raised", "killed"}
Reached == IF InStep THEN ex.i + 1 ELSE ex.i
Mine == LogsBy("execute")

\* The logs of execute() are the positions before Reached, in their order; only the log of the
\* step under way is open.
Walked ==
    /\ run.status = "completed" => ex.pc = "done" /\ ex.i > Len(wf.order)
    /\ Live =>
          /\ \A k \in Mine : Closed(logs[k]) \/ (InStep /\ k = ex.log)
          /\ \A k \in Mine : \E i \in Positions : i < Reached /\ Logs(k, i)
          /\ \A i \in Positions : i < Reached => \E k \in Mine : Logs(k, i)
          /\ InStep => Logs(ex.log, ex.i)
    /\ \A k, l \in Mine, i, j \in Positions : Logs(k, i) /\ Logs(l, j) => (k < l <=> i < j)

Failed(h) == \E g \in Mine : Logs(g, h) /\ logs[g].status = "failed"
Walking == ex.pc \in {"create", "mark", "next", "step", "ask", "record"}

\* A gate the loop has gone past has failed.
Gated ==
    /\ Walking => \A h \in Positions : h < ex.i /\ IsHuman(wf.order[h]) => Failed(h)
    /\ ex.pc = "record" /\ IsHuman(wf.order[ex.i]) => ex.paused \/ ex.status = "failed"
    /\ \A k \in Mine, i, h \in Positions : Logs(k, i) /\ h < i /\ IsHuman(wf.order[h]) => Failed(h)

WalkInv == LogInv /\ Walked /\ Gated

\* Steps that do not log a new step of the order.
LEMMA WalkKept ==
    ASSUME WalkInv, LogsStay, wf' = wf,
           \A k \in DOMAIN logs' : k \in DOMAIN logs \/ logs'[k].by = "resume",
           run'.status = "completed" => ex'.pc = "done" /\ ex'.i > Len(wf.order),
           Live' => /\ Live /\ Reached' = Reached
                    /\ \A k \in Mine : Closed(logs'[k]) \/ (InStep' /\ k = ex'.log)
                    /\ InStep' => InStep /\ ex'.log = ex.log /\ ex'.i = ex.i,
           Walking' => \A h \in Positions : h < ex'.i /\ IsHuman(wf.order[h]) =>
                          (Walking /\ h < ex.i) \/ \E g \in Mine : Logs(g, h) /\ logs'[g].status = "failed",
           ex'.pc = "record" /\ IsHuman(wf.order[ex'.i]) => ex'.paused \/ ex'.status = "failed"
    PROVE  Walked' /\ Gated'
<1>1. Mine' = Mine
  BY DEF Mine, LogsBy, LogsStay
<1>2. \A k \in Mine : logs'[k].step = logs[k].step /\ (Closed(logs[k]) => logs'[k] = logs[k])
  BY DEF Mine, LogsBy, LogsStay
<1>3. Positions' = Positions /\ Len(wf.order)' = Len(wf.order)
  BY DEF Positions
<1>4. \A k \in Mine : \A i : Logs(k, i)' = Logs(k, i)
  BY <1>2 DEF Logs
<1>5. \A h : IsHuman(wf.order[h])' = IsHuman(wf.order[h])
  BY DEF IsHuman
<1>6. \A h : Failed(h) => Failed(h)'
  <2>1. ASSUME NEW h, NEW g \in Mine, Logs(g, h), logs[g].status = "failed" PROVE Failed(h)'
    BY <1>1, <1>2, <1>4, <2>1 DEF Failed, Closed
  <2> QED
    BY <2>1 DEF Failed
<1>7. InStep => ex.log \in Mine
  BY DEF WalkInv, LogInv, ExOwns, Open, Mine, LogsBy
<1>8. ASSUME Live' PROVE InStep' => Logs(ex.log, ex.i)'
  <2> SUFFICES ASSUME InStep' PROVE logs'[ex'.log].step = wf'.order[ex'.i]
    BY DEF Logs
  <2>1. InStep /\ Live /\ ex'.log = ex.log /\ ex'.i = ex.i
    BY <1>8
  <2>2. logs[ex.log].step = wf.order[ex.i]
    BY <2>1 DEF WalkInv, Walked, Logs
  <2> QED
    BY <1>2, <1>7, <2>1, <2>2
<1>9. Walked'
  <2>1. ASSUME Live'
        PROVE  /\ \A k \in Mine' : Closed(logs'[k]) \/ (InStep' /\ k = ex'.log)
               /\ \A k \in Mine' : \E i \in Positions' : i < Reached' /\ Logs(k, i)'
               /\ \A i \in Positions' : i < Reached' => \E k \in Mine' : Logs(k, i)'
    <3>1. Live /\ Reached' = Reached
      BY <2>1
    <3>2. /\ \A k \in Mine : \E i \in Positions : i < Reached /\ Logs(k, i)
          /\ \A i \in Positions : i < Reached => \E k \in Mine : Logs(k, i)
      BY <3>1 DEF WalkInv, Walked
    <3>3. \A k \in Mine : \E i \in Positions : i < Reached /\ Logs(k, i)'
      BY <1>4, <3>2
    <3>4. \A i \in Positions : i < Reached => \E k \in Mine : Logs(k, i)'
      BY <1>4, <3>2
    <3> QED
      BY <1>1, <1>3, <2>1, <3>1, <3>3, <3>4
  <2>2. \A k, l \in Mine', i, j \in Positions' : Logs(k, i)' /\ Logs(l, j)' => (k < l <=> i < j)
    BY <1>1, <1>3, <1>4 DEF WalkInv, Walked
  <2> QED
    BY <1>3, <1>8, <2>1, <2>2 DEF Walked
<1>10. Gated'
  <2>1. ASSUME Walking', NEW h \in Positions, h < ex'.i, IsHuman(wf.order[h]) PROVE Failed(h)'
    <3>1. CASE Walking /\ h < ex.i
      BY <1>6, <2>1, <3>1 DEF WalkInv, Gated
    <3>2. ASSUME NEW g \in Mine, Logs(g, h), logs'[g].status = "failed" PROVE Failed(h)'
      BY <1>1, <1>4, <3>2 DEF Failed
    <3> QED
      BY <2>1, <3>1, <3>2
  <2>2. \A k \in Mine', i, h \in Positions' :
           Logs(k, i)' /\ h < i /\ IsHuman(wf.order[h])' => Failed(h)'
    BY <1>1, <1>3, <1>4, <1>5, <1>6 DEF WalkInv, Gated
  <2>3. (ex.pc = "record" /\ IsHuman(wf.order[ex.i]) => ex.paused \/ ex.status = "failed")'
    BY DEF IsHuman
  <2> QED
    BY <1>3, <1>5, <2>1, <2>2, <2>3 DEF Gated
<1> QED
  BY <1>9, <1>10

\* The loop logs the next position behind all it has logged.
LEMMA WalkOn == ASSUME WalkInv, CreateStepLog PROVE Walked' /\ Gated'
<1>0. Typed /\ TypeOK /\ ex \in ExRec
  BY Records DEF WalkInv, LogInv, Typed
<1>1. PICK n : /\ n = Len(logs) + 1 /\ ex' = [ex EXCEPT !.pc = "step", !.log = n]
               /\ ex.i \in Positions /\ LogAdded(n, wf.order[ex.i], "execute")
  BY <1>0, ExecuteLogs
<1>2. ex.pc = "next" /\ wf' = wf /\ run' = run
  BY DEF CreateStepLog
<1>3. PICK p \in Positions : p = ex.i
  BY <1>1
<1>4. ex'.pc = "step" /\ ex'.log = n /\ ex'.i = p
  BY <1>0, <1>1, <1>3 DEF ExRec
<1>5. Positions' = Positions /\ Positions \subseteq Nat /\ p \in Nat
  <2>1. Positions' = Positions
    BY <1>2 DEF Positions
  <2>2. Positions = 1..Len(wf.order)
    BY <1>0, Workflow
  <2> QED
    BY <1>3, <2>1, <2>2
<1>6. Live /\ Walking /\ ~InStep /\ Reached = p /\ InStep' /\ Reached' = p + 1
  BY <1>2, <1>3, <1>4 DEF Live, Walking, InStep, Reached
<1>7. /\ Mine' = Mine \union {n} /\ n \notin Mine
      /\ \A k \in Mine : k < n /\ ~(n < k) /\ logs'[k] = logs[k]
  <2>1. \A k \in DOMAIN logs : k \in Nat /\ k < n /\ ~(n < k)
    BY <1>0, <1>1, Rows DEF LogAdded
  <2>2. Mine' = Mine \union {n} /\ n \notin Mine
    BY <1>1 DEF Mine, LogsBy, LogAdded
  <2>3. \A k \in Mine : k < n /\ ~(n < k) /\ logs'[k] = logs[k]
    BY <1>1, <2>1 DEF Mine, LogsBy, LogAdded
  <2> QED
    BY <2>2, <2>3
<1>8. (\A k \in Mine : \A i : Logs(k, i)' = Logs(k, i)) /\ \A i : Logs(n, i)' <=> wf.order[p] = wf.order[i]
  BY <1>1, <1>2, <1>3, <1>7 DEF Logs, LogAdded
<1>9. \A i \in Positions : Logs(n, i)' <=> i = p
  BY <1>0, <1>3, <1>8, Workflow
\* All that was logged lies before p.
<1>10. ASSUME NEW k \in Mine, NEW i \in Positions, Logs(k, i) PROVE i < p
  <2>1. PICK j \in Positions : j < p /\ Logs(k, j)
    BY <1>6 DEF WalkInv, Walked
  <2>2. i = j
    BY <1>0, <1>10, <2>1, Workflow DEF Logs
  <2> QED
    BY <2>1, <2>2
<1>11. \A h : Failed(h) => Failed(h)'
  <2>1. ASSUME NEW h, NEW g \in Mine, Logs(g, h), logs[g].status = "failed" PROVE Failed(h)'
    BY <1>7, <1>8, <2>1 DEF Failed
  <2> QED
    BY <2>1 DEF Failed
<1>12. \A h : IsHuman(wf.order[h])' = IsHuman(wf.order[h])
  BY <1>2 DEF IsHuman
<1>13. Walked'
  <2>1. run'.status = "completed" => ex'.pc = "done" /\ ex'.i > Len(wf'.order)
    BY <1>2 DEF WalkInv, Walked
  <2>2. \A k \in Mine' : Closed(logs'[k]) \/ (InStep' /\ k = ex'.log)
    BY <1>4, <1>6, <1>7 DEF WalkInv, Walked
  <2>3. \A k \in Mine' : \E i \in Positions' : i < Reached' /\ Logs(k, i)'
    <3>1. \A k \in Mine : \E i \in Positions : i < p + 1 /\ Logs(k, i)'
      <4>1. \A k \in Mine : \E i \in Positions : i < p /\ Logs(k, i)
        BY <1>6 DEF WalkInv, Walked
      <4>2. \A i \in Positions : i < p => i < p + 1
        BY <1>5
      <4> QED
        BY <1>8, <4>1, <4>2
    <3>2. p < p + 1 /\ Logs(n, p)'
      BY <1>5, <1>9
    <3> QED
      BY <1>5, <1>6, <1>7, <3>1, <3>2
  <2>4. \A i \in Positions' : i < Reached' => \E k \in Mine' : Logs(k, i)'
    <3> SUFFICES ASSUME NEW i \in Positions, i < p + 1 PROVE \E k \in Mine' : Logs(k, i)'
      BY <1>5, <1>6
    <3>1. CASE i = p
      BY <1>7, <1>9, <3>1
    <3>2. CASE i # p
      <4>1. i < p
        BY <1>5, <3>2
      <4> QED
        BY <1>6, <1>7, <1>8, <4>1 DEF WalkInv, Walked
    <3> QED
      BY <3>1, <3>2
  <2>5. Logs(ex.log, ex.i)'
    BY <1>1, <1>2, <1>3, <1>4 DEF Logs, LogAdded
  <2>6. ASSUME NEW k \in Mine', NEW l \in Mine', NEW i \in Positions, NEW j \in Positions,
               Logs(k, i)', Logs(l, j)'
        PROVE  k < l <=> i < j
    <3>1. CASE k \in Mine /\ l \in Mine
      BY <1>8, <2>6, <3>1 DEF WalkInv, Walked
    <3>2. CASE k \in Mine /\ l = n
      <4>1. i < p /\ j = p /\ k < n
        BY <1>7, <1>8, <1>9, <1>10, <2>6, <3>2
      <4> QED
        BY <3>2, <4>1
    <3>3. CASE k = n /\ l \in Mine
      <4>1. j < p /\ i = p /\ ~(n < l)
        BY <1>7, <1>8, <1>9, <1>10, <2>6, <3>3
      <4>2. ~(p < j)
        BY <1>5, <4>1
      <4> QED
        BY <3>3, <4>1, <4>2
    <3>4. CASE k = n /\ l = n
      <4>1. i = p /\ j = p /\ n \in Nat
        BY <1>0, <1>1, <1>9, <2>6, <3>4, Rows
      <4> QED
        BY <1>5, <3>4, <4>1
    <3> QED
      BY <1>7, <3>1, <3>2, <3>3, <3>4
  <2> QED
    BY <1>5, <2>1, <2>2, <2>3, <2>4, <2>5, <2>6 DEF Walked
<1>14. Gated'
  <2>1. \A h \in Positions : h < p /\ IsHuman(wf.order[h]) => Failed(h)'
    BY <1>3, <1>6, <1>11 DEF WalkInv, Gated
  <2>2. ASSUME NEW k \in Mine', NEW i \in Positions, NEW h \in Positions,
               Logs(k, i)', h < i, IsHuman(wf.order[h])
        PROVE  Failed(h)'
    <3>1. CASE k \in Mine
      BY <1>8, <1>11, <2>2, <3>1 DEF WalkInv, Gated
    <3>2. CASE k = n
      BY <1>9, <2>1, <2>2, <3>2
    <3> QED
      BY <1>7, <3>1, <3>2
  <2> QED
    BY <1>4, <1>5, <1>12, <2>1, <2>2 DEF Gated
<1> QED
  BY <1>13, <1>14

\* A step of the thread that leaves the logs alone.
LEMMA WalkQuiet ==
    ASSUME WalkInv, LogsStay,
           \/ CreateRun \/ MarkRunning \/ Pause \/ CompleteRun \/ StepRaises \/ CreateEscalation
           \/ \E cost \in 0..MaxCost : StepReturns(cost)
    PROVE  Walked' /\ Gated'
<1>0. Typed /\ TypeOK /\ ex \in ExRec /\ wf' = wf /\ logs' = logs
  BY Records DEF WalkInv, LogInv, Typed, CreateRun, MarkRunning, StepReturns, StepRaises,
                 CreateEscalation, Pause, CompleteRun
<1>1. /\ Live => \A k \in Mine : Closed(logs[k]) \/ (InStep /\ k = ex.log)
      /\ run.status = "completed" => ex.pc = "done" /\ ex.i > Len(wf.order)
  BY DEF WalkInv, Walked
<1>2. ASSUME run' = run, InStep, InStep', ex'.log = ex.log, ex'.i = ex.i,
             ex'.pc = "record" /\ IsHuman(wf.order[ex.i]) => ex'.paused \/ ex'.status = "failed"
      PROVE  Walked' /\ Gated'
  <2>1. Live /\ Walking /\ Reached' = Reached
    BY <1>2 DEF InStep, Live, Walking, Reached
  <2> QED
    BY <1>0, <1>1, <1>2, <2>1, WalkKept DEF InStep
<1>3. ASSUME run'.status = "completed" => ex'.pc = "done" /\ ex'.i > Len(wf.order),
             ~InStep, ex'.pc \in {"mark", "next", "done"}, ex'.i = ex.i, Live,
             ex'.pc \in {"mark", "next"} => Walking
      PROVE  Walked' /\ Gated'
  <2>1. ~InStep' /\ Live' /\ Reached' = Reached /\ (Walking' => Walking)
    BY <1>3 DEF InStep, Live, Walking, Reached
  <2> QED
    BY <1>0, <1>1, <1>3, <2>1, WalkKept DEF InStep
<1>4. ASSUME NEW cost \in 0..MaxCost, StepReturns(cost) PROVE Walked' /\ Gated'
  <2>1. InStep /\ InStep' /\ ex'.log = ex.log /\ ex'.i = ex.i /\ ~IsHuman(wf.order[ex.i])
    BY <1>0, <1>4 DEF StepReturns, ExRec, InStep
  <2> QED
    BY <1>2, <1>4, <2>1 DEF StepReturns
<1>5. CASE StepRaises
  <2>1. InStep /\ InStep' /\ ex'.log = ex.log /\ ex'.i = ex.i /\ ex'.status = "failed"
    BY <1>0, <1>5 DEF StepRaises, ExRec, InStep
  <2> QED
    BY <1>2, <1>5, <2>1 DEF StepRaises
<1>6. CASE CreateEscalation
  <2>1. InStep /\ InStep' /\ ex'.log = ex.log /\ ex'.i = ex.i /\ ex'.pc = "ask"
    BY <1>0, <1>6 DEF CreateEscalation, ExRec, InStep
  <2> QED
    BY <1>2, <1>6, <2>1 DEF CreateEscalation
<1>7. CASE CreateRun \/ MarkRunning \/ Pause
  <2>1. /\ ~InStep /\ Live /\ ex'.pc \in {"mark", "next", "done"} /\ ex'.i = ex.i
        /\ ex'.pc \in {"mark", "next"} => Walking
    BY <1>0, <1>7 DEF CreateRun, MarkRunning, Pause, ExRec, InStep, Live, Walking
  <2>2. run'.status # "completed"
    BY <1>0, <1>7 DEF CreateRun, MarkRunning, Pause, TypeOK
  <2> QED
    BY <1>3, <2>1, <2>2
<1>8. CASE CompleteRun
  <2>1. /\ ~InStep /\ Live /\ ex'.pc = "done" /\ ex'.i = ex.i /\ ex.i > Len(wf.order)
    BY <1>0, <1>8 DEF CompleteRun, ExRec, InStep, Live
  <2> QED
    BY <1>3, <2>1
<1> QED
  BY <1>4, <1>5, <1>6, <1>7, <1>8

LEMMA WalkRecords == ASSUME WalkInv, AwaitHuman \/ RecordStep, LogsStay PROVE Walked' /\ Gated'
<1>0. Typed /\ TypeOK /\ ex \in ExRec /\ wf' = wf /\ run' = run
  BY Records DEF WalkInv, LogInv, Typed, AwaitHuman, RecordStep
<1>1. InStep /\ Live /\ Walking /\ Open(ex.log, "execute") /\ Logs(ex.log, ex.i)
  BY DEF WalkInv, LogInv, ExOwns, Walked, AwaitHuman, RecordStep, InStep, Live, Walking
<1>2. PICK l : l = ex.log
  OBVIOUS
<1>3. l \in Mine
  BY <1>1, <1>2 DEF Open, Mine, LogsBy
<1>4. \A k \in Mine : k # l => Closed(logs'[k])
  BY <1>1, <1>2 DEF WalkInv, Walked, LogsStay, Mine, LogsBy
<1>5. run.status # "completed"
  BY <1>1 DEF WalkInv, Walked, InStep
<1>6. CASE AwaitHuman
  <2>1. /\ ex'.pc = "record" /\ ex'.paused /\ ex'.log = l /\ ex'.i = ex.i
    BY <1>0, <1>2, <1>6 DEF AwaitHuman, ExRec
  <2>2. InStep' /\ Reached' = Reached
    BY <1>1, <2>1 DEF InStep, Reached
  <2>3. DOMAIN logs' = DOMAIN logs
    BY <1>0, <1>6, ExecuteLogs DEF LogSet
  <2> QED
    BY <1>0, <1>1, <1>2, <1>4, <1>5, <2>1, <2>2, <2>3, WalkKept
<1>7. CASE RecordStep
  <2>1. PICK pc \in {"pause", "next"} : /\ ex' = [ex EXCEPT !.pc = pc, !.i = @ + 1, !.total = @ + ex.cost]
                                        /\ pc = "next" => ~ex.paused
    BY <1>7 DEF RecordStep
  <2>2. ex'.pc = pc /\ ex'.i = ex.i + 1
    BY <1>0, <2>1 DEF ExRec
  <2>3. ~InStep' /\ Reached' = Reached
    BY <1>1, <2>2 DEF InStep, Reached
  <2>4. LogSet(l, ex.status)
    BY <1>0, <1>2, <1>7, ExecuteLogs
  <2>5. DOMAIN logs' = DOMAIN logs /\ logs'[l].status = ex.status /\ ex.status \in {"completed", "failed"}
    BY <1>3, <1>7, <2>4 DEF LogSet, Mine, LogsBy, RecordStep, WalkInv, LogInv, ExOwns
  <2>6. \A k \in Mine : Closed(logs'[k])
    BY <1>4, <2>5 DEF Closed
  <2>7. ASSUME Walking', NEW h \in Positions, h < ex'.i, IsHuman(wf.order[h])
        PROVE  (Walking /\ h < ex.i) \/ \E g \in Mine : Logs(g, h) /\ logs'[g].status = "failed"
    <3>1. h \in Nat /\ ex.i \in Nat
      <4>1. Positions = 1..Len(wf.order)
        BY <1>0, Workflow
      <4> QED
        BY <1>0, <4>1 DEF ExRec
    <3>2. CASE h = ex.i
      <4>1. ~ex.paused /\ ex.pc = "record"
        BY <1>7, <2>1, <2>2, <2>7 DEF Walking, RecordStep
      <4>2. ex.status = "failed"
        BY <2>7, <3>2, <4>1 DEF WalkInv, Gated
      <4> QED
        BY <1>1, <1>2, <1>3, <2>5, <3>2, <4>2
    <3>3. CASE h # ex.i
      <4>1. h < ex.i
        BY <2>2, <2>7, <3>1, <3>3
      <4> QED
        BY <1>1, <4>1
    <3> QED
      BY <3>2, <3>3
  <2> QED
    BY <1>0, <1>1, <1>5, <2>2, <2>3, <2>5, <2>6, <2>7, WalkKept
<1> QED
  BY <1>6, <1>7

LEMMA WalkNext == ASSUME WalkInv, [Next]_vars PROVE WalkInv'
<1>0. LogInv' /\ LogsStay /\ Typed /\ TypeOK /\ ex \in ExRec
  BY LogNext, Records DEF WalkInv, LogInv, Typed
<1> SUFFICES Walked' /\ Gated'
  BY <1>0 DEF WalkInv
<1>1. CASE Execute
  <2>1. CASE CreateStepLog
    BY <2>1, WalkOn
  <2>2. CASE AwaitHuman \/ RecordStep
    BY <1>0, <2>2, WalkRecords
  <2> QED
    BY <1>0, <1>1, <2>1, <2>2, WalkQuiet DEF Execute
<1>2. ASSUME wf' = wf, run' = run \/ run'.status # "completed",
             \A k \in DOMAIN logs' : k \in DOMAIN logs \/ logs'[k].by = "resume",
             ex' = ex \/ (ex'.pc \in {"raised", "killed"} /\ ex.pc # "done")
      PROVE  Walked' /\ Gated'
  <2>1. /\ run.status = "completed" => ex.pc = "done" /\ ex.i > Len(wf.order)
        /\ Live => \A k \in Mine : Closed(logs[k]) \/ (InStep /\ k = ex.log)
        /\ ex.pc = "record" /\ IsHuman(wf.order[ex.i]) => ex.paused \/ ex.status = "failed"
    BY DEF WalkInv, Walked, Gated
  <2>2. \A k \in Mine : Closed(logs[k]) => Closed(logs'[k])
    BY <1>0 DEF LogsStay, Mine, LogsBy
  <2>3. CASE ex' = ex
    <3>1. Live' = Live /\ Reached' = Reached /\ InStep' = InStep /\ Walking' = Walking
      BY <2>3 DEF Live, Reached, InStep, Walking
    <3> QED
      BY <1>0, <1>2, <2>1, <2>2, <2>3, <3>1, WalkKept
  <2>4. CASE ex'.pc \in {"raised", "killed"} /\ ex.pc # "done"
    <3>1. ~Live' /\ ~Walking' /\ ex'.pc # "record"
      BY <2>4 DEF Live, Walking
    <3> QED
      BY <1>0, <1>2, <2>1, <2>4, <3>1, WalkKept
  <2> QED
    BY <1>2, <2>3, <2>4
<1>3. ASSUME NEW r \in Responders, Respond(r) PROVE Walked' /\ Gated'
  <2>1. \A k \in DOMAIN logs' : k \in DOMAIN logs \/ logs'[k].by = "resume"
    <3>1. CASE ResumeCreateLog(r)
      <4>1. PICK s \in resp[r].next, n \in {Len(logs) + 1} : LogAdded(n, s, "resume")
        BY <1>0, <3>1, ResumeLogs
      <4> QED
        BY <4>1 DEF LogAdded
    <3>2. CASE ResumeRecord(r)
      BY <1>0, <3>2, ResumeLogs DEF LogSet
    <3>3. CASE logs' = logs
      BY <3>3
    <3> QED
      BY <1>3, <3>1, <3>2, <3>3 DEF Respond, SelectPending, UpdateEscalation, ResumeRun, ResumeStep
  <2>2. run' = run \/ run'.status # "completed"
    BY <1>0, <1>3 DEF TypeOK, Respond, SelectPending, UpdateEscalation, ResumeRun, ResumeCreateLog,
                      ResumeStep, ResumeRecord
  <2>3. ex' = ex /\ wf' = wf
    BY <1>3 DEF Respond, SelectPending, UpdateEscalation, ResumeRun, ResumeCreateLog, ResumeStep,
                ResumeRecord
  <2> QED
    BY <1>2, <2>1, <2>2, <2>3
<1>4. ASSUME NEW r \in Responders, NEW e \in DOMAIN escs, NEW action \in Actions,
             FindEscalation(r, e, action)
      PROVE  Walked' /\ Gated'
  BY <1>2, <1>4 DEF FindEscalation
<1>5. CASE ExecuteRaises
  <2>1. ex'.pc = "raised" /\ ex.pc # "done"
    BY <1>0, <1>5 DEF ExecuteRaises, ExRec
  <2> QED
    BY <1>2, <1>5, <2>1 DEF ExecuteRaises
<1>6. CASE Crash
  <2>1. ex' = ex \/ (ex'.pc = "killed" /\ ex.pc # "done")
    BY <1>0, <1>6 DEF Crash, ExRec
  <2> QED
    BY <1>2, <1>6, <2>1 DEF Crash
<1>7. CASE UNCHANGED vars
  BY <1>2, <1>7 DEF vars
<1>8. CASE CancelRun
  <2>1. run'.status = "cancelled"
    BY <1>0, <1>8, CancelledRow
  <2> QED
    BY <1>2, <1>8, <2>1 DEF CancelRun
<1> QED
  BY <1>1, <1>3, <1>4, <1>5, <1>6, <1>7, <1>8 DEF Next

LEMMA WalkInit == Init => WalkInv
<1> SUFFICES ASSUME Init PROVE Walked /\ Gated
  BY LogInit DEF WalkInv
<1>1. ex.pc = "create" /\ ex.i = 1 /\ run.status = "none" /\ Mine = {}
  BY DEF Init, StartedEx, Mine, LogsBy
<1>2. TypeOK
  BY InitTyped DEF Typed
<1>3. Positions = 1..Len(wf.order)
  BY <1>2, Workflow
<1>4. \A i \in Positions : ~(i < 1)
  BY <1>3
<1>5. Walked
  BY <1>1, <1>4 DEF Walked, Reached, InStep
<1>6. Gated
  BY <1>1, <1>4 DEF Gated
<1> QED
  BY <1>5, <1>6

\* A run that says completed has logged every step of its order once, in that order, and closed
\* each log, for any workflow and whatever resumed requests log meanwhile.
THEOREM CompletedRunsAreWhole == Spec => []CompletedRunIsWhole
<1>1. WalkInv => CompletedRunIsWhole
  <2> SUFFICES ASSUME WalkInv, run.status = "completed"
               PROVE  /\ \A k \in Mine : Closed(logs[k]) /\ \E i \in Positions : Logs(k, i)
                      /\ \A i \in Positions : \E k \in Mine : Logs(k, i)
                      /\ \A k, l \in Mine, i, j \in Positions :
                            Logs(k, i) /\ Logs(l, j) => (k < l <=> i < j)
    BY DEF CompletedRunIsWhole, Mine
  <2>1. ex.pc = "done" /\ ex.i > Len(wf.order)
    BY DEF WalkInv, Walked
  <2>2. Live /\ ~InStep /\ Reached = ex.i
    BY <2>1 DEF Live, InStep, Reached
  <2>3. \A i \in Positions : i < ex.i
    <3>1. Positions = 1..Len(wf.order) /\ Len(wf.order) \in Nat /\ ex.i \in Nat
      BY Workflow DEF WalkInv, LogInv, Typed, Placed
    <3> QED
      BY <2>1, <3>1
  <2> QED
    BY <2>2, <2>3 DEF WalkInv, Walked
<1> QED
  BY <1>1, WalkInit, WalkNext, PTL DEF Spec

-----------------------------------------------------------------------------
(* The human gate. *)

\* The step stands behind an answered escalation.
Behind(s) ==
    \E e \in DOMAIN escs :
        /\ escs[e].status = "responded"
        /\ \E c \in DOMAIN wf.conns : wf.conns[c].from = escs[e].step /\ wf.conns[c].to = s

Asked(r) ==
    /\ resp[r].pc \in {"select", "update", "resume"} => resp[r].esc \in DOMAIN escs
    /\ resp[r].pc = "resume" => escs[resp[r].esc].status = "responded"
    /\ resp[r].pc = "log" => \A s \in resp[r].next : Behind(s)

GateInv ==
    /\ WalkInv
    /\ \A r \in Responders : Asked(r)
    /\ \A k \in LogsBy("resume") : Behind(logs[k].step)

EscsStay ==
    \A e \in DOMAIN escs :
        /\ e \in DOMAIN escs' /\ escs'[e].step = escs[e].step
        /\ escs[e].status = "responded" => escs'[e].status = "responded"

LEMMA EscsKept ==
    ASSUME Typed, [Next]_vars
    PROVE  /\ EscsStay /\ wf' = wf
           /\ \A r \in Responders : UpdateEscalation(r) =>
                 (resp[r].esc \in DOMAIN escs => escs'[resp[r].esc].status = "responded")
<1>0. TypeOK
  BY DEF Typed
<1>2. ASSUME NEW r \in Responders, UpdateEscalation(r)
      PROVE  EscsStay /\ wf' = wf /\ (resp[r].esc \in DOMAIN escs => escs'[resp[r].esc].status = "responded")
  <2>1. resp[r].esc \in Nat /\ resp[r].action \in Actions \union {NoAction}
    BY <1>0, Records DEF RespRec
  <2>2. escs' = [escs EXCEPT ![resp[r].esc].status = "responded", ![resp[r].esc].action = resp[r].action]
        /\ wf' = wf
    BY <1>2 DEF UpdateEscalation
  <2> QED
    BY <1>0, <2>1, <2>2, EscsTyped DEF EscsStay
<1>3. CASE CreateEscalation
  <2>1. wf.order[ex.i] \in Steps
    BY <1>0, <1>3, Workflow DEF CreateEscalation, Typed, Placed, InStep
  <2>2. EscsStay
    BY <1>0, <1>3, <2>1, EscAsked DEF CreateEscalation, EscsStay
  <2>3. wf' = wf /\ ex' # ex
    BY <1>0, <1>3, Records DEF CreateEscalation, ExRec
  <2>4. \A r \in Responders : ~UpdateEscalation(r)
    BY <2>3 DEF UpdateEscalation
  <2> QED
    BY <2>2, <2>3, <2>4
<1>4. CASE wf' = wf /\ escs' = escs
  BY <1>2, <1>4 DEF EscsStay
<1> QED
  BY <1>2, <1>3, <1>4 DEF Next, vars, Execute, CreateRun, MarkRunning, CreateStepLog, StepReturns,
       StepRaises, AwaitHuman, RecordStep, Pause, CompleteRun, ExecuteRaises, FindEscalation, Respond,
       SelectPending, ResumeRun, ResumeCreateLog, ResumeStep, ResumeRecord, CancelRun, Crash

LEMMA GateNext == ASSUME GateInv, [Next]_vars PROVE GateInv'
<1>0. WalkInv' /\ LogsStay /\ LogInv /\ Typed /\ TypeOK
  BY WalkNext, LogNext DEF GateInv, WalkInv, LogInv, Typed
<1>1. EscsStay /\ wf' = wf
  BY <1>0, EscsKept
<1>2. \A s : Behind(s) => Behind(s)'
  BY <1>1 DEF Behind, EscsStay
\* What is to be shown of a request that moves, and of a row that is new.
<1>3. ASSUME \A r \in Responders : resp'[r] = resp[r] \/ Asked(r)',
             \A k \in DOMAIN logs' : \A s :
                k \in DOMAIN logs \/ logs'[k].by = "execute" \/ (logs'[k].step = s => Behind(s)')
      PROVE  GateInv'
  <2>1. ASSUME NEW r \in Responders PROVE Asked(r)'
    <3>1. CASE resp'[r] = resp[r]
      BY <1>1, <1>2, <3>1 DEF GateInv, Asked, EscsStay
    <3> QED
      BY <1>3, <3>1
  <2>2. ASSUME NEW k \in LogsBy("resume")' PROVE Behind(logs[k].step)'
    <3>1. k \in DOMAIN logs' /\ logs'[k].by = "resume"
      BY <2>2 DEF LogsBy
    <3>2. CASE k \in DOMAIN logs
      <4>1. logs'[k].step = logs[k].step /\ k \in LogsBy("resume")
        BY <1>0, <3>1, <3>2 DEF LogsStay, LogsBy
      <4>2. PICK s : s = logs[k].step /\ Behind(s)
        BY <4>1 DEF GateInv
      <4>3. Behind(s)' /\ s = logs'[k].step
        BY <1>2, <4>1, <4>2
      <4> QED
        BY <4>3
    <3>3. CASE k \notin DOMAIN logs
      <4>1. PICK s : s = logs'[k].step
        OBVIOUS
      <4>2. Behind(s)'
        BY <1>3, <3>1, <3>3, <4>1
      <4> QED
        BY <4>1, <4>2
    <3> QED
      BY <3>2, <3>3
  <2> QED
    BY <1>0, <2>1, <2>2 DEF GateInv
<1>4. CASE Execute
  <2>1. resp' = resp
    BY <1>4 DEF Execute, CreateRun, MarkRunning, CreateStepLog, StepReturns, StepRaises,
                CreateEscalation, AwaitHuman, RecordStep, Pause, CompleteRun
  <2>2. \A k \in DOMAIN logs' : k \in DOMAIN logs \/ logs'[k].by = "execute"
    <3>1. CASE CreateStepLog
      BY <1>0, <3>1, ExecuteLogs DEF LogAdded
    <3>2. CASE AwaitHuman \/ RecordStep
      BY <1>0, <3>2, ExecuteLogs DEF LogSet
    <3>3. CASE logs' = logs
      BY <3>3
    <3> QED
      BY <1>4, <3>1, <3>2, <3>3 DEF Execute, CreateRun, MarkRunning, StepReturns, StepRaises,
                                    CreateEscalation, Pause, CompleteRun
  <2> QED
    BY <1>3, <2>1, <2>2
<1>5. ASSUME logs' = logs, \A r \in Responders : resp'[r] = resp[r] \/ Asked(r)' PROVE GateInv'
  BY <1>3, <1>5
<1>6. ASSUME NEW r \in Responders, NEW e \in DOMAIN escs, NEW action \in Actions,
             FindEscalation(r, e, action)
      PROVE  GateInv'
  <2>1. PICK new \in RespRec : resp' = [resp EXCEPT ![r] = new] /\ new.pc = "select" /\ new.esc = e
    BY <1>0, <1>6, FindMoves
  <2>2. resp'[r] = new /\ \A q \in Responders \ {r} : resp'[q] = resp[q]
    BY <1>0, <2>1, OneResp
  <2>3. Asked(r)'
    BY <1>1, <2>1, <2>2 DEF Asked, EscsStay
  <2> QED
    BY <1>5, <1>6, <2>2, <2>3 DEF FindEscalation
<1>7. ASSUME NEW r \in Responders, Respond(r) PROVE GateInv'
  <2>0. Asked(r)
    BY DEF GateInv
  <2>1. PICK new \in RespRec : resp' = [resp EXCEPT ![r] = new] /\ RespMove(r, new)
    BY <1>0, <1>7, RespondMoves
  <2>2. resp'[r] = new /\ \A q \in Responders \ {r} : resp'[q] = resp[q]
    BY <1>0, <2>1, OneResp
  <2>3. CASE SelectPending(r) /\ new.pc \in {"update", "done"} /\ new.esc = resp[r].esc
    <3>1. Asked(r)'
      BY <1>1, <2>0, <2>2, <2>3 DEF SelectPending, Asked, EscsStay
    <3> QED
      BY <1>5, <2>2, <2>3, <3>1 DEF SelectPending
  <2>4. CASE UpdateEscalation(r) /\ new.pc = "resume" /\ new.esc = resp[r].esc
    <3>1. resp[r].esc \in DOMAIN escs
      BY <2>0, <2>4 DEF UpdateEscalation, Asked
    <3>2. new.esc \in DOMAIN escs' /\ escs'[new.esc].status = "responded"
      BY <1>0, <1>1, <2>4, <3>1, EscsKept DEF EscsStay
    <3>3. Asked(r)'
      BY <2>2, <2>4, <3>2 DEF Asked
    <3> QED
      BY <1>5, <2>2, <2>4, <3>3 DEF UpdateEscalation
  <2>5. CASE /\ ResumeRun(r) /\ new.pc \in {"done", "log"}
             /\ new.next = NextStep(escs[resp[r].esc].step, escs[resp[r].esc].action)
    <3>1. resp[r].esc \in DOMAIN escs /\ escs[resp[r].esc].status = "responded"
      BY <2>0, <2>5 DEF ResumeRun, Asked
    <3>2. ASSUME NEW s \in new.next PROVE Behind(s)'
      <4>1. \E c \in DOMAIN wf.conns : wf.conns[c].from = escs[resp[r].esc].step /\ wf.conns[c].to = s
        BY <1>0, <2>5, <3>2, NextStepFollows
      <4>2. Behind(s)
        BY <3>1, <4>1 DEF Behind
      <4> QED
        BY <1>2, <4>2
    <3>3. Asked(r)'
      BY <2>2, <2>5, <3>2 DEF Asked
    <3> QED
      BY <1>5, <2>2, <2>5, <3>3 DEF ResumeRun
  <2>6. CASE ResumeCreateLog(r) /\ new.pc = "step"
    <3>1. PICK s \in resp[r].next, n \in {Len(logs) + 1} : LogAdded(n, s, "resume")
      BY <1>0, <2>6, ResumeLogs
    <3>2. Behind(s)'
      BY <1>2, <2>0, <2>6 DEF ResumeCreateLog, Asked
    <3>3. \A k \in DOMAIN logs' : k \in DOMAIN logs \/ logs'[k].step = s
      BY <3>1 DEF LogAdded
    <3>4. Asked(r)'
      BY <2>2, <2>6 DEF Asked
    <3>5. \A k \in DOMAIN logs' : \A t : k \in DOMAIN logs \/ (logs'[k].step = t => Behind(t)')
      BY <3>2, <3>3
    <3> QED
      BY <1>3, <2>2, <3>4, <3>5
  <2>7. CASE new.pc \in {"record", "done"} /\ DOMAIN logs' = DOMAIN logs
    <3>1. Asked(r)'
      BY <2>2, <2>7 DEF Asked
    <3> QED
      BY <1>3, <2>2, <2>7, <3>1
  <2>8. ResumeRecord(r) => DOMAIN logs' = DOMAIN logs
    BY <1>0, ResumeLogs DEF LogSet
  <2> QED
    BY <2>1, <2>3, <2>4, <2>5, <2>6, <2>7, <2>8 DEF RespMove, ResumeStep
<1>8. CASE Crash
  <2>1. \A q \in Responders : resp'[q] = resp[q] \/ resp'[q].pc = "killed"
    <3>1. \A q \in Responders : [resp[q] EXCEPT !.pc = "killed"].pc = "killed"
      BY <1>0, Records DEF RespRec
    <3> QED
      BY <1>8, <3>1 DEF Crash
  <2>2. \A q \in Responders : resp'[q] = resp[q] \/ Asked(q)'
    BY <2>1 DEF Asked
  <2> QED
    BY <1>5, <1>8, <2>2 DEF Crash
<1>9. CASE ExecuteRaises \/ CancelRun \/ UNCHANGED vars
  BY <1>5, <1>9 DEF ExecuteRaises, CancelRun, vars
<1> QED
  BY <1>4, <1>6, <1>7, <1>8, <1>9 DEF Next

LEMMA GateInvariant == Spec => []GateInv
<1>1. Init => GateInv
  <2> SUFFICES ASSUME Init PROVE GateInv
    OBVIOUS
  <2>1. (\A r \in Responders : resp[r].pc = "idle") /\ LogsBy("resume") = {}
    BY DEF Init, IdleResp, LogsBy
  <2> QED
    BY <2>1, WalkInit DEF GateInv, Asked
<1> QED
  BY <1>1, GateNext, PTL DEF Spec

\* The gate gives way only to an answer or to its own failure, for any workflow: execute() goes
\* past an escalation step that raised, a request resumes what stands behind an answered one.
THEOREM GatesHold == Spec => []GateOpensOnlyByAnswerOrFailure
<1>1. GateInv => GateOpensOnlyByAnswerOrFailure
  BY DEF GateInv, WalkInv, Gated, Failed, Mine, Behind, GateOpensOnlyByAnswerOrFailure
<1> QED
  BY <1>1, GateInvariant, PTL

-----------------------------------------------------------------------------
(* Sums over finite sets.  SumFunctionOnSet is defined by a recursive      *)
(* function over the set's subsets; induction over them is the absence of  *)
(* a smallest counterexample.                                              *)

Sum(f, S) == SumFunctionOnSet(f, S)

\* Its definition unfolded: g sums f over every subset of a set, element by element.
SumStep(f, g, s) ==
    IF s = {} THEN 0 ELSE LET x == CHOOSE x \in s : TRUE IN f[x] + g[s \ {x}]
Sums(f, S, g) == g = [s \in SUBSET S |-> SumStep(f, g, s)]

\* Induction over finite sets: a set of subsets has a smallest one.
LEMMA SmallestSet ==
    ASSUME NEW U, IsFiniteSet(U), NEW T \in SUBSET (SUBSET U), T # {}
    PROVE  \E m \in T : \A s \in T : s \subseteq m => s = m
<1>1. IsWellFoundedOn(StrictSubsetOrdering(U), SUBSET U)
  BY FS_StrictSubsetOrderingWellFounded, FS_FiniteSubsetsOfFinite
<1>2. PICK m \in T : \A s \in T : ~(<<s, m>> \in StrictSubsetOrdering(U))
  BY <1>1, WFMin
<1>3. ASSUME NEW s \in T, s \subseteq m, s # m PROVE FALSE
  <2>1. <<s, m>> \in StrictSubsetOrdering(U)
    BY <1>3 DEF StrictSubsetOrdering
  <2> QED
    BY <1>2, <2>1
<1> QED
  BY <1>3

LEMMA SumUnfolds == ASSUME NEW f, NEW S PROVE Sum(f, S) = (CHOOSE g : Sums(f, S, g))[S]
BY DEF Sum, SumFunctionOnSet, FoldFunctionOnSet, MapThenFoldSet, Sums, SumStep

LEMMA SumsAgree ==
    ASSUME NEW f, NEW S, IsFiniteSet(S), NEW T \in SUBSET S, NEW g, NEW h, Sums(f, T, g), Sums(f, S, h)
    PROVE  \A s \in SUBSET T : g[s] = h[s]
<1> DEFINE Bad == {s \in SUBSET T : g[s] # h[s]}
<1> SUFFICES ASSUME Bad # {} PROVE FALSE
  OBVIOUS
<1>1. IsFiniteSet(T)
  BY FS_Subset
<1>2. PICK m \in Bad : \A s \in Bad : s \subseteq m => s = m
  <2> HIDE DEF Bad
  <2>1. Bad \in SUBSET (SUBSET T)
    BY DEF Bad
  <2> QED
    BY <1>1, <2>1, SmallestSet
<1>3. g[m] = SumStep(f, g, m) /\ h[m] = SumStep(f, h, m)
  BY DEF Sums
<1>4. m # {}
  BY <1>3 DEF SumStep
<1>5. PICK x \in m : x = CHOOSE y \in m : TRUE
  BY <1>4
<1>6. g[m \ {x}] = h[m \ {x}]
  BY <1>2, <1>5
<1> QED
  BY <1>3, <1>4, <1>5, <1>6 DEF SumStep

LEMMA SumsExist == ASSUME NEW f, NEW S, IsFiniteSet(S) PROVE \E g : Sums(f, S, g)
<1> DEFINE Bad == {t \in SUBSET S : ~\E g : Sums(f, t, g)}
<1> SUFFICES ASSUME Bad # {} PROVE FALSE
  OBVIOUS
<1>1. PICK m \in Bad : \A t \in Bad : t \subseteq m => t = m
  <2> HIDE DEF Bad
  <2>1. Bad \in SUBSET (SUBSET S)
    BY DEF Bad
  <2> QED
    BY <2>1, SmallestSet
<1> DEFINE G(t) == CHOOSE g : Sums(f, t, g)
           first(s) == CHOOSE x \in s : TRUE
           sum == [s \in SUBSET m |-> IF s = {} THEN 0
                                      ELSE f[first(s)] + G(s \ {first(s)})[s \ {first(s)}]]
<1>2. ASSUME NEW t \in SUBSET m, t # m PROVE Sums(f, t, G(t))
  BY <1>1, <1>2
<1>3. \A s : s # {} => first(s) \in s
  OBVIOUS
<1> HIDE DEF G, first
<1>4. ASSUME NEW t \in SUBSET m, t # m PROVE sum[t] = G(t)[t]
  <2>1. G(t)[t] = SumStep(f, G(t), t)
    BY <1>2, <1>4 DEF Sums
  <2>2. CASE t = {}
    BY <2>1, <2>2 DEF SumStep
  <2>3. CASE t # {}
    <3>1. PICK u : u = t \ {first(t)}
      OBVIOUS
    <3>2. u \in SUBSET t /\ u \in SUBSET m /\ u # m /\ first(t) \in t
      BY <1>3, <1>4, <2>3, <3>1
    <3>3. Sums(f, u, G(u)) /\ Sums(f, t, G(t)) /\ IsFiniteSet(t)
      BY <1>2, <1>4, <3>2, FS_Subset
    <3>4. G(u)[u] = G(t)[u]
      BY <3>2, <3>3, SumsAgree
    <3>5. G(t)[t] = f[first(t)] + G(t)[u]
      BY <2>1, <2>3, <3>1 DEF SumStep, first
    <3> QED
      BY <2>3, <3>1, <3>4, <3>5
  <2> QED
    BY <2>2, <2>3
<1>5. ASSUME NEW s \in SUBSET m PROVE sum[s] = SumStep(f, sum, s)
  <2>1. CASE s = {}
    BY <2>1 DEF SumStep
  <2>2. CASE s # {}
    <3>1. PICK u : u = s \ {first(s)}
      OBVIOUS
    <3>2. u \in SUBSET m /\ u # m
      BY <1>3, <2>2, <3>1
    <3>3. sum[u] = G(u)[u]
      BY <1>4, <3>2
    <3>4. sum[s] = f[first(s)] + G(u)[u]
      BY <2>2, <3>1
    <3>5. SumStep(f, sum, s) = f[first(s)] + sum[u]
      <4> HIDE DEF sum
      <4> QED
        BY <2>2, <3>1 DEF SumStep, first
    <3> QED
      BY <3>3, <3>4, <3>5
  <2> QED
    BY <2>1, <2>2
<1>6. Sums(f, m, sum)
  <2> DEFINE step == [s \in SUBSET m |-> SumStep(f, sum, s)]
  <2>1. sum = step
    <3> HIDE DEF SumStep
    <3>1. DOMAIN sum = DOMAIN step /\ \A s \in SUBSET m : sum[s] = step[s]
      BY <1>5
    <3> QED
      BY <3>1
  <2> HIDE DEF sum
  <2> QED
    BY <2>1 DEF Sums
<1> QED
  BY <1>6

\* The sum over a finite set, one element after the other.
LEMMA SumFirst ==
    ASSUME NEW f, NEW S, IsFiniteSet(S)
    PROVE  /\ S = {} => Sum(f, S) = 0
           /\ S # {} => \E x \in S : Sum(f, S) = f[x] + Sum(f, S \ {x})
<1> DEFINE G(t) == CHOOSE g : Sums(f, t, g)
<1>1. \A t \in SUBSET S : Sums(f, t, G(t)) /\ Sum(f, t) = G(t)[t]
  BY SumsExist, SumUnfolds, FS_Subset
<1> HIDE DEF G
<1>2. Sum(f, S) = SumStep(f, G(S), S)
  BY <1>1 DEF Sums
<1>3. ASSUME NEW t \in SUBSET S PROVE G(S)[t] = Sum(f, t)
  <2>1. Sums(f, t, G(t)) /\ Sums(f, S, G(S)) /\ t \in SUBSET t
    BY <1>1
  <2>2. G(t)[t] = G(S)[t]
    BY <2>1, SumsAgree
  <2> QED
    BY <1>1, <2>2
<1>4. S = {} => Sum(f, S) = 0
  BY <1>2 DEF SumStep
<1>5. ASSUME S # {} PROVE \E x \in S : Sum(f, S) = f[x] + Sum(f, S \ {x})
  <2>1. PICK x \in S : x = CHOOSE y \in S : TRUE
    BY <1>5
  <2>2. Sum(f, S) = f[x] + G(S)[S \ {x}]
    BY <1>2, <1>5, <2>1 DEF SumStep
  <2> QED
    BY <1>3, <2>2
<1> QED
  BY <1>4, <1>5

LEMMA SumEmpty == ASSUME NEW f PROVE Sum(f, {}) = 0
BY SumFirst, FS_EmptySet

\* In any order.
LEMMA SumAdd ==
    ASSUME NEW f, NEW U, IsFiniteSet(U), \A k \in U : f[k] \in Nat
    PROVE  \A S \in SUBSET U : /\ Sum(f, S) \in Nat
                               /\ \A x \in U \ S : Sum(f, S \union {x}) = f[x] + Sum(f, S)
<1> DEFINE Bad == {S \in SUBSET U : ~(Sum(f, S) \in Nat)}
<1>1. \A S \in SUBSET U : Sum(f, S) \in Nat
  <2> SUFFICES ASSUME Bad # {} PROVE FALSE
    OBVIOUS
  <2>1. PICK m \in Bad : \A t \in Bad : t \subseteq m => t = m
    <3> HIDE DEF Bad
    <3>1. Bad \in SUBSET (SUBSET U)
      BY DEF Bad
    <3> QED
      BY <3>1, SmallestSet
  <2>2. IsFiniteSet(m)
    BY FS_Subset
  <2>3. m # {}
    BY <2>2, SumFirst
  <2>5. PICK x \in m : Sum(f, m) = f[x] + Sum(f, m \ {x})
    BY <2>2, <2>3, SumFirst
  <2>6. Sum(f, m \ {x}) \in Nat
    BY <2>1
  <2> QED
    BY <2>5, <2>6
<1> HIDE DEF Bad
<1> DEFINE Worse == {S \in SUBSET U : \E x \in U \ S : Sum(f, S \union {x}) # f[x] + Sum(f, S)}
<1>2. ASSUME Worse # {} PROVE FALSE
  <2>1. PICK m \in Worse : \A t \in Worse : t \subseteq m => t = m
    <3> HIDE DEF Worse
    <3>1. Worse \in SUBSET (SUBSET U)
      BY DEF Worse
    <3> QED
      BY <1>2, <3>1, SmallestSet
  <2>2. PICK x \in U \ m : Sum(f, m \union {x}) # f[x] + Sum(f, m)
    OBVIOUS
  <2>3. PICK n : n = m \union {x}
    OBVIOUS
  <2>4. IsFiniteSet(n) /\ n # {} /\ n \in SUBSET U
    BY <2>3, FS_Subset
  <2>6. PICK y \in n : Sum(f, n) = f[y] + Sum(f, n \ {y})
    BY <2>4, SumFirst
  <2>7. y # x
    <3> SUFFICES ASSUME y = x PROVE FALSE
      OBVIOUS
    <3>1. n \ {y} = m
      BY <2>3
    <3> QED
      BY <2>2, <2>3, <2>6, <3>1
  <2>8. PICK s : s = m \ {y}
    OBVIOUS
  <2>9. y \in m /\ s \in SUBSET U /\ s \subseteq m /\ s # m
    BY <2>3, <2>7, <2>8
  <2>10. s \notin Worse
    BY <2>1, <2>9
  <2>11. n \ {y} = s \union {x} /\ m = s \union {y} /\ x \in U \ s /\ y \in U \ s
    BY <2>3, <2>7, <2>8, <2>9
  <2>12. Sum(f, n \ {y}) = f[x] + Sum(f, s) /\ Sum(f, m) = f[y] + Sum(f, s)
    BY <2>9, <2>10, <2>11
  <2>13. f[x] \in Nat /\ f[y] \in Nat /\ Sum(f, s) \in Nat
    BY <1>1, <2>9
  <2>14. Sum(f, n) = f[x] + Sum(f, m)
    BY <2>6, <2>12, <2>13
  <2> QED
    BY <2>2, <2>3, <2>14
<1> QED
  BY <1>1, <1>2

\* Equal summands, equal sums.
LEMMA SumSame ==
    ASSUME NEW f, NEW h, NEW U, IsFiniteSet(U), \A k \in U : f[k] \in Nat /\ f[k] = h[k]
    PROVE  Sum(f, U) = Sum(h, U)
<1> DEFINE Bad == {S \in SUBSET U : Sum(f, S) # Sum(h, S)}
<1> SUFFICES ASSUME Bad # {} PROVE FALSE
  OBVIOUS
<1>1. PICK m \in Bad : \A t \in Bad : t \subseteq m => t = m
  <2> HIDE DEF Bad
  <2>1. Bad \in SUBSET (SUBSET U)
    BY DEF Bad
  <2> QED
    BY <2>1, SmallestSet
<1>2. PICK x \in m : TRUE
  BY SumEmpty
<1>3. PICK s \in SUBSET U : s = m \ {x}
  OBVIOUS
<1>4. m = s \union {x} /\ x \in U \ s
  BY <1>3
<1>5. Sum(f, m) = f[x] + Sum(f, s) /\ Sum(h, m) = h[x] + Sum(h, s)
  BY <1>4, SumAdd
<1>6. Sum(f, s) = Sum(h, s)
  BY <1>1, <1>3
<1> QED
  BY <1>5, <1>6

\* One summand replaced.
LEMMA SumChange ==
    ASSUME NEW f, NEW h, NEW U, IsFiniteSet(U), NEW x \in U,
           \A k \in U : f[k] \in Nat /\ h[k] \in Nat, \A k \in U \ {x} : f[k] = h[k]
    PROVE  Sum(h, U) + f[x] = Sum(f, U) + h[x]
<1>1. PICK S \in SUBSET U : S = U \ {x}
  OBVIOUS
<1>2. U = S \union {x} /\ x \in U \ S /\ IsFiniteSet(S)
  BY <1>1, FS_Subset
<1>3. Sum(f, U) = f[x] + Sum(f, S) /\ Sum(h, U) = h[x] + Sum(h, S)
  BY <1>2, SumAdd
<1>4. Sum(f, S) = Sum(h, S)
  BY <1>1, <1>2, SumSame
<1>5. Sum(f, S) \in Nat
  BY SumAdd
<1> QED
  BY <1>3, <1>4, <1>5

-----------------------------------------------------------------------------
(* The total of a run. *)

Spent == Sum(Costs, Mine)

\* While execute() lives its total is what its logs cost, and the log of the step under way
\* costs nothing yet; a completed run has that total.
TotalsAgree ==
    /\ Live => Spent = ex.total
    /\ InStep => logs[ex.log].cost = 0
    /\ run.status = "completed" => run.cost = ex.total

CostInv == WalkInv /\ TotalsAgree

\* What update_step_log() leaves in the column cost_cents.
LEMMA CostUpdated ==
    ASSUME TypeOK, NEW k \in DOMAIN logs, NEW status, NEW cost
    PROVE  /\ logs' = [logs EXCEPT ![k].status = status, ![k].cost = cost] => logs'[k].cost = cost
           /\ logs' = [logs EXCEPT ![k].status = status] => logs'[k].cost = logs[k].cost
<1>1. logs \in Seq(Log) /\ logs[k] \in Log
  BY Rows
<1>2. ASSUME logs' = [logs EXCEPT ![k].status = status, ![k].cost = cost] PROVE logs'[k].cost = cost
  <2>1. logs'[k] = [logs[k] EXCEPT !.status = status, !.cost = cost]
    <3> HIDE DEF Log
    <3> QED
      BY <1>1, <1>2
  <2> QED
    BY <1>1, <2>1 DEF Log
<1>3. ASSUME logs' = [logs EXCEPT ![k].status = status] PROVE logs'[k].cost = logs[k].cost
  <2>1. logs'[k] = [logs[k] EXCEPT !.status = status]
    <3> HIDE DEF Log
    <3> QED
      BY <1>1, <1>3
  <2> QED
    BY <1>1, <2>1 DEF Log
<1> QED
  BY <1>2, <1>3

LEMMA CostsTyped ==
    ASSUME TypeOK
    PROVE  /\ IsFiniteSet(Mine)
           /\ \A k \in DOMAIN logs : Costs[k] = logs[k].cost /\ Costs[k] \in Nat
<1>1. IsFiniteSet(DOMAIN logs) /\ Mine \subseteq DOMAIN logs
  BY Rows, FS_Interval DEF Mine, LogsBy
<1>2. \A k \in DOMAIN logs : logs[k].cost \in Nat
  BY Rows DEF Log
<1> QED
  BY <1>1, <1>2, FS_Subset DEF Costs

\* Rows of execute() that cost what they did add up to what they did.
LEMMA SpentStays ==
    ASSUME TypeOK, TypeOK', Mine' = Mine, \A k \in Mine : logs'[k].cost = logs[k].cost
    PROVE  Spent' = Spent
<1>1. PICK f, h, U : f = Costs /\ h = Costs' /\ U = Mine
  OBVIOUS
<1>2. IsFiniteSet(U) /\ \A k \in U : f[k] = logs[k].cost /\ f[k] \in Nat
  BY <1>1, CostsTyped DEF Mine, LogsBy
<1>3. \A k \in U : h[k] = logs'[k].cost
  BY <1>1 DEF Costs, Mine, LogsBy
<1>4. \A k \in U : f[k] \in Nat /\ f[k] = h[k]
  BY <1>1, <1>2, <1>3
<1>5. Sum(f, U) = Sum(h, U)
  BY <1>2, <1>4, SumSame
<1>6. Spent = Sum(f, U) /\ Spent' = Sum(h, U)
  BY <1>1 DEF Spent
<1> QED
  BY <1>5, <1>6

\* A new row costs nothing yet.
LEMMA SpentOnCreate ==
    ASSUME Typed, TypeOK', CreateStepLog
    PROVE  Spent' = Spent /\ InStep' /\ logs'[ex'.log].cost = 0
<1>0. TypeOK /\ ex \in ExRec
  BY Records DEF Typed
<1>1. PICK n : /\ n = Len(logs) + 1 /\ ex' = [ex EXCEPT !.pc = "step", !.log = n]
               /\ ex.i \in Positions /\ LogAdded(n, wf.order[ex.i], "execute")
  BY <1>0, ExecuteLogs
<1>2. logs'[n].cost = 0
  <2>1. wf.order[ex.i] \in Steps /\ logs' = Append(logs, NewLog(wf.order[ex.i], "execute"))
    BY <1>0, <1>1, Workflow DEF CreateStepLog
  <2>2. logs'[Len(logs) + 1].cost = 0
    <3> PICK m : m = Len(logs) + 1
      OBVIOUS
    <3>1. logs'[m] = [step |-> wf.order[ex.i], by |-> "execute", status |-> "pending", cost |-> 0]
      BY <1>0, <2>1, LogAppended
    <3> QED
      BY <3>1
  <2> QED
    BY <1>1, <2>2
<1>3. ex'.pc = "step" /\ ex'.log = n
  BY <1>0, <1>1 DEF ExRec
<1>4. Mine' = Mine \union {n} /\ n \notin Mine /\ \A k \in Mine : logs'[k] = logs[k]
  BY <1>1 DEF LogAdded, Mine, LogsBy
<1>5. PICK f, h, U, V : f = Costs /\ h = Costs' /\ U = Mine /\ V = Mine'
  OBVIOUS
<1>6. IsFiniteSet(U) /\ \A k \in U : f[k] = logs[k].cost /\ f[k] \in Nat
  BY <1>0, <1>5, CostsTyped DEF Mine, LogsBy
<1>7. \A k \in V : h[k] = logs'[k].cost
  BY <1>5 DEF Costs, Mine, LogsBy
<1>8. V = U \union {n} /\ n \in V \ U /\ U \in SUBSET V
  BY <1>4, <1>5
<1>9. /\ \A k \in U : f[k] \in Nat /\ f[k] = h[k]
      /\ h[n] = 0
  BY <1>2, <1>4, <1>5, <1>6, <1>7, <1>8
<1>10. IsFiniteSet(V) /\ \A k \in V : h[k] \in Nat
  BY <1>6, <1>8, <1>9, FS_AddElement
<1>11. Sum(f, U) = Sum(h, U) /\ Sum(h, U) \in Nat /\ Sum(h, V) = h[n] + Sum(h, U)
  <2>1. Sum(f, U) = Sum(h, U)
    BY <1>6, <1>9, SumSame
  <2>2. Sum(h, U) \in Nat /\ Sum(h, U \union {n}) = h[n] + Sum(h, U)
    BY <1>8, <1>10, SumAdd
  <2> QED
    BY <1>8, <2>1, <2>2
<1>12. Spent = Sum(f, U) /\ Spent' = Sum(h, V)
  BY <1>5 DEF Spent
<1>13. Spent' = Spent
  BY <1>9, <1>11, <1>12
<1> QED
  BY <1>2, <1>3, <1>13 DEF InStep

\* A step's cost goes to its row and to the total.
LEMMA SpentOnRecord ==
    ASSUME CostInv, TypeOK', RecordStep
    PROVE  Spent' = Spent + ex.cost /\ Spent \in Nat
<1>0. TypeOK /\ Typed /\ ex \in ExRec /\ Open(ex.log, "execute") /\ logs[ex.log].cost = 0
  BY Records DEF CostInv, TotalsAgree, WalkInv, LogInv, Typed, ExOwns, RecordStep, InStep
<1>1. PICK l, c : l = ex.log /\ c = ex.cost
  OBVIOUS
<1>2. LogSet(l, ex.status) /\ c \in Nat
  BY <1>0, <1>1, ExecuteLogs DEF ExRec
<1>3. l \in Mine /\ l \in DOMAIN logs
  BY <1>0, <1>1 DEF Open, Mine, LogsBy
<1>4. logs'[l].cost = c /\ logs[l].cost = 0
  BY <1>0, <1>1, <1>3, CostUpdated DEF RecordStep
<1>5. Mine' = Mine /\ \A k \in Mine \ {l} : logs'[k] = logs[k]
  BY <1>2, <1>3 DEF LogSet, Mine, LogsBy
<1>6. PICK f, h, U : f = Costs /\ h = Costs' /\ U = Mine
  OBVIOUS
<1>7. IsFiniteSet(U) /\ \A k \in U : f[k] = logs[k].cost /\ f[k] \in Nat
  BY <1>0, <1>6, CostsTyped DEF Mine, LogsBy
<1>8. \A k \in U : h[k] = logs'[k].cost
  BY <1>5, <1>6 DEF Costs, Mine, LogsBy
<1>9. /\ \A k \in U \ {l} : f[k] = h[k]
      /\ f[l] = 0 /\ h[l] = c /\ l \in U
  BY <1>3, <1>4, <1>5, <1>6, <1>7, <1>8
<1>10. \A k \in U : f[k] \in Nat /\ h[k] \in Nat
  BY <1>2, <1>7, <1>9
<1>11. Sum(h, U) + f[l] = Sum(f, U) + h[l]
  BY <1>7, <1>9, <1>10, SumChange
<1>12. Sum(f, U) \in Nat /\ Sum(h, U) \in Nat
  BY <1>7, <1>10, SumAdd
<1>13. Spent = Sum(f, U) /\ Spent' = Sum(h, U)
  BY <1>5, <1>6 DEF Spent
<1>14. Sum(h, U) = Sum(f, U) + c
  BY <1>2, <1>9, <1>11, <1>12
<1> QED
  BY <1>1, <1>12, <1>13, <1>14

\* A request writes rows of its own.
LEMMA RespondSpares ==
    ASSUME LogInv, NEW r \in Responders, Respond(r)
    PROVE  Mine' = Mine /\ \A k \in Mine : logs'[k] = logs[k]
<1>0. TypeOK
  BY DEF LogInv, Typed
<1>1. CASE ResumeCreateLog(r)
  <2>1. PICK s \in resp[r].next, n \in {Len(logs) + 1} : LogAdded(n, s, "resume")
    BY <1>0, <1>1, ResumeLogs
  <2> QED
    BY <2>1 DEF LogAdded, Mine, LogsBy
<1>2. CASE ResumeRecord(r)
  <2>1. LogSet(resp[r].log, resp[r].status)
    BY <1>0, <1>2, ResumeLogs
  <2>2. Open(resp[r].log, "resume")
    BY <1>2 DEF ResumeRecord, LogInv, RespsOwn, Writing
  <2> QED
    BY <2>1, <2>2 DEF LogSet, Open, Mine, LogsBy
<1>3. CASE logs' = logs
  BY <1>3 DEF Mine, LogsBy
<1> QED
  BY <1>1, <1>2, <1>3 DEF Respond, SelectPending, UpdateEscalation, ResumeRun, ResumeStep

\* A step of the thread that leaves the logs and the total alone.
LEMMA SpentQuiet ==
    ASSUME CostInv, TypeOK', Mine' = Mine, \A k \in Mine : logs'[k].cost = logs[k].cost,
           ex'.total = ex.total, Live' => Live, InStep' => InStep /\ ex'.log = ex.log,
           run'.status = "completed" =>
              \/ run'.cost = ex.total
              \/ run.status = "completed" /\ run'.cost = run.cost
    PROVE  TotalsAgree'
<1>1. TypeOK
  BY DEF CostInv, WalkInv, LogInv, Typed
<1>2. Spent' = Spent
  BY <1>1, SpentStays
<1>3. InStep => ex.log \in Mine
  BY DEF CostInv, WalkInv, LogInv, ExOwns, Open, Mine, LogsBy
<1> QED
  BY <1>2, <1>3 DEF CostInv, TotalsAgree

LEMMA CostNext == ASSUME CostInv, [Next]_vars PROVE CostInv'
<1>0. /\ WalkInv' /\ TypeOK' /\ LogInv /\ Typed /\ TypeOK /\ ex \in ExRec
      /\ run.status = "completed" => ex.pc = "done"
  <2>1. WalkInv'
    BY WalkNext DEF CostInv
  <2> QED
    BY <2>1, Records DEF CostInv, WalkInv, Walked, LogInv, Typed
<1> SUFFICES TotalsAgree'
  BY <1>0 DEF CostInv
<1>1. CASE CreateStepLog
  <2>1. Spent' = Spent /\ logs'[ex'.log].cost = 0
    BY <1>0, <1>1, SpentOnCreate
  <2>2. ex'.total = ex.total /\ Live /\ run' = run /\ run.status # "completed"
    BY <1>0, <1>1 DEF CreateStepLog, ExRec, Live
  <2> QED
    BY <2>1, <2>2 DEF CostInv, TotalsAgree
<1>2. CASE RecordStep
  <2>1. Spent' = Spent + ex.cost /\ Spent \in Nat
    BY <1>0, <1>2, SpentOnRecord
  <2>2. PICK pc \in {"pause", "next"} : ex' = [ex EXCEPT !.pc = pc, !.i = @ + 1, !.total = @ + ex.cost]
    BY <1>2 DEF RecordStep
  <2>3. ex'.total = ex.total + ex.cost /\ ~InStep'
    BY <1>0, <2>2 DEF ExRec, InStep
  <2>4. Live /\ run' = run /\ run.status # "completed"
    BY <1>0, <1>2 DEF RecordStep, Live
  <2> QED
    BY <2>1, <2>3, <2>4 DEF CostInv, TotalsAgree
<1>3. CASE AwaitHuman
  <2>1. LogSet(ex.log, "awaiting_human") /\ ex.log \in DOMAIN logs
    BY <1>0, <1>3, ExecuteLogs DEF LogInv, ExOwns, Open, AwaitHuman, InStep
  <2>2. logs'[ex.log].cost = logs[ex.log].cost
    BY <1>0, <1>3, <2>1, CostUpdated DEF AwaitHuman
  <2>3. Mine' = Mine /\ \A k \in Mine : logs'[k].cost = logs[k].cost
    BY <2>1, <2>2 DEF LogSet, Mine, LogsBy
  <2>4. /\ ex'.total = ex.total /\ ex'.log = ex.log /\ Live /\ InStep
        /\ run' = run
    BY <1>0, <1>3 DEF AwaitHuman, ExRec, Live, InStep
  <2> QED
    BY <1>0, <2>3, <2>4, SpentQuiet
\* Every other step leaves the rows of execute() alone.
<1>4. ASSUME Mine' = Mine, \A k \in Mine : logs'[k] = logs[k],
             ex'.total = ex.total, Live' => Live, InStep' => InStep /\ ex'.log = ex.log,
             run' = run \/ run'.status # "completed" \/ run'.cost = ex.total
      PROVE  TotalsAgree'
  BY <1>0, <1>4, SpentQuiet
<1>5. logs' = logs => Mine' = Mine /\ \A k \in Mine : logs'[k] = logs[k]
  BY DEF Mine, LogsBy
<1>6. CASE CreateRun \/ MarkRunning \/ Pause \/ CompleteRun
  <2>1. /\ ex'.total = ex.total /\ Live /\ ~InStep' /\ logs' = logs
        /\ run'.status # "completed" \/ run'.cost = ex.total
    <3>1. run \in [status : RunStatuses, cost : Nat]
      BY <1>0 DEF TypeOK
    <3> QED
      BY <1>0, <1>6, <3>1 DEF CreateRun, MarkRunning, Pause, CompleteRun, ExRec, Live, InStep
  <2> QED
    BY <1>4, <1>5, <2>1
<1>7. CASE StepRaises \/ CreateEscalation \/ \E cost \in 0..MaxCost : StepReturns(cost)
  <2>1. /\ ex'.total = ex.total /\ Live /\ InStep /\ ex'.log = ex.log /\ logs' = logs
        /\ run' = run
    BY <1>0, <1>7 DEF StepRaises, CreateEscalation, StepReturns, ExRec, Live, InStep
  <2> QED
    BY <1>4, <1>5, <2>1
<1>8. ASSUME NEW r \in Responders, Respond(r) PROVE TotalsAgree'
  <2>1. Mine' = Mine /\ \A k \in Mine : logs'[k] = logs[k]
    BY <1>0, <1>8, RespondSpares
  <2>2. run' = run \/ run'.status # "completed"
    BY <1>0, <1>8 DEF TypeOK, Respond, SelectPending, UpdateEscalation, ResumeRun, ResumeCreateLog,
                      ResumeStep, ResumeRecord
  <2>3. ex' = ex
    BY <1>8 DEF Respond, SelectPending, UpdateEscalation, ResumeRun, ResumeCreateLog, ResumeStep,
                ResumeRecord
  <2>4. Live' = Live /\ InStep' = InStep
    BY <2>3 DEF Live, InStep
  <2> QED
    BY <1>4, <2>1, <2>2, <2>3, <2>4
<1>9. ASSUME logs' = logs, run' = run, ex' = ex \/ (ex'.pc \in {"raised", "killed"} /\ ex'.total = ex.total)
      PROVE  TotalsAgree'
  <2>1. ex'.total = ex.total /\ (Live' => Live) /\ (InStep' => InStep /\ ex'.log = ex.log)
    BY <1>9 DEF Live, InStep
  <2> QED
    BY <1>4, <1>5, <1>9, <2>1
<1>10. CASE ExecuteRaises \/ Crash
  <2>1. ex' = ex \/ (ex'.pc \in {"raised", "killed"} /\ ex'.total = ex.total)
    BY <1>0, <1>10 DEF ExecuteRaises, Crash, ExRec
  <2> QED
    BY <1>9, <1>10, <2>1 DEF ExecuteRaises, Crash
<1>11. ASSUME NEW r \in Responders, NEW e \in DOMAIN escs, NEW action \in Actions,
              FindEscalation(r, e, action)
       PROVE  TotalsAgree'
  BY <1>9, <1>11 DEF FindEscalation
<1>12. CASE UNCHANGED vars
  BY <1>9, <1>12 DEF vars
<1>13. CASE CancelRun
  <2>1. run'.status = "cancelled"
    BY <1>0, <1>13, CancelledRow
  <2>2. logs' = logs /\ ex' = ex
    BY <1>13 DEF CancelRun
  <2>3. Mine' = Mine /\ Live' = Live /\ InStep' = InStep
    BY <2>2 DEF Mine, LogsBy, Live, InStep
  <2> QED
    BY <1>0, <2>1, <2>2, <2>3, SpentQuiet
<1> QED
  BY <1>1, <1>2, <1>3, <1>6, <1>7, <1>8, <1>10, <1>11, <1>12, <1>13 DEF Next, Execute

LEMMA CostInit == Init => CostInv
<1> SUFFICES ASSUME Init PROVE CostInv
  OBVIOUS
<1>1. /\ ex.pc = "create" /\ ex.total = 0 /\ run.status = "none" /\ Mine = {}
  BY DEF Init, StartedEx, Mine, LogsBy
<1>2. Spent = 0
  BY <1>1, SumEmpty DEF Spent
<1> QED
  BY <1>1, <1>2, WalkInit DEF CostInv, TotalsAgree, InStep

\* The total of a completed run is what the steps of execute() cost, for any workflow, any
\* costs and whatever requests resume the run before or after it completes.
THEOREM CostsAreConserved == Spec => []CostIsConserved
<1>1. CostInv => CostIsConserved
  BY DEF CostInv, TotalsAgree, CostIsConserved, Spent, Sum, Mine, WalkInv, Walked, Live
<1> QED
  BY <1>1, CostInit, CostNext, PTL DEF Spec

-----------------------------------------------------------------------------
(* The lifecycle of a run. *)

\* Where execute() is, the abstract walk is.
WalkFits ==
    /\ ex.pc = "create" => Walk = "new"
    /\ ex.pc = "mark" => Walk = "created"
    /\ ex.pc \in {"next", "step"} => Walk = "walking"
    /\ ex.pc = "record" /\ ~ex.paused => Walk = "walking"
    /\ ex.pc = "ask" => Walk = "asking"
    /\ ex.pc = "record" /\ ex.paused => Walk = "held"
    /\ ex.pc = "pause" => Walk = "held"
    /\ ex.pc \in {"done", "raised", "killed"} => Walk = "over"
    /\ Walk = "over" => ex.pc \in {"done", "raised", "killed"}

LEMMA WalkIs == TypeOK => WalkFits
<1> SUFFICES ASSUME TypeOK PROVE WalkFits
  OBVIOUS
<1>1. ex.pc \in ExPc /\ ex.paused \in BOOLEAN
  BY Records DEF ExRec
<1> QED
  BY <1>1 DEF WalkFits, Walk, OnHold, ExPc

LEMMA WalkWillBe == TypeOK' => WalkFits'
<1> SUFFICES ASSUME TypeOK' PROVE WalkFits'
  OBVIOUS
<1>1. ex'.pc \in ExPc /\ ex'.paused \in BOOLEAN
  BY DEF TypeOK
<1> QED
  BY <1>1 DEF WalkFits, Walk, OnHold, ExPc

LEMMA RunRow == ASSUME TypeOK PROVE run \in [status : RunStatuses, cost : Nat]
BY DEF TypeOK

\* A step that asks nothing and answers nothing leaves the questions as they are.
LEMMA SameQuestions == ASSUME escs' = escs PROVE Len(escs)' = Len(escs) /\ Responded' = Responded
BY DEF Responded

\* create_escalation(): one question more, and it is open.
LEMMA OneAsked ==
    ASSUME TypeOK, NEW s \in Steps,
           escs' = Append(escs, [status |-> "pending", step |-> s, action |-> NoAction])
    PROVE  Len(escs)' = Len(escs) + 1 /\ Responded' = Responded
<1> DEFINE row == [status |-> "pending", step |-> s, action |-> NoAction]
<1>1. row \in Escalation /\ row.status # "responded"
  BY DEF Escalation
<1>2. escs \in Seq(Escalation) /\ DOMAIN escs = 1..Len(escs) /\ Len(escs) \in Nat
  BY Rows
<1>3. escs' = Append(escs, row)
  OBVIOUS
<1> HIDE DEF row, Escalation
<1>4. Len(escs') = Len(escs) + 1 /\ DOMAIN escs' = 1..(Len(escs) + 1)
      /\ escs'[Len(escs) + 1] = row
  BY <1>1, <1>2, <1>3
<1>5. \A e \in 1..Len(escs) : escs'[e] = escs[e]
  BY <1>1, <1>2, <1>3
<1>6. 1..(Len(escs) + 1) = (1..Len(escs)) \union {Len(escs) + 1}
  BY <1>2
<1>7. ASSUME NEW e PROVE e \in Responded' <=> e \in Responded
  BY <1>1, <1>2, <1>4, <1>5, <1>6 DEF Responded
<1> QED
  BY <1>4, <1>7

LEMMA ExecuteLives ==
    ASSUME Typed, TypeOK', Execute PROVE [Lifecycle!Next]_<<run.status, Walk, Len(escs), Responded>>
<1>0. TypeOK
  BY DEF Typed
<1>1. ex \in ExRec /\ run \in [status : RunStatuses, cost : Nat]
  BY <1>0, Records, RunRow
<1>2. ASSUME escs' = escs, run' = run, Walk' = Walk
      PROVE  UNCHANGED <<run.status, Walk, Len(escs), Responded>>
  BY <1>2, SameQuestions
<1>3. CASE CreateRun
  <2>1. ex'.pc = "mark" /\ run'.status = "pending" /\ escs' = escs
    BY <1>1, <1>3 DEF CreateRun, ExRec
  <2>2. Walk = "new" /\ Walk' = "created"
    BY <1>0, <1>3, <2>1, WalkIs, WalkWillBe DEF CreateRun, WalkFits
  <2> QED
    BY <2>1, <2>2, SameQuestions DEF Lifecycle!Next, Lifecycle!Create, Lifecycle!Move
<1>4. CASE MarkRunning
  <2>1. ex'.pc = "next" /\ run'.status = "running" /\ escs' = escs
    BY <1>1, <1>4 DEF MarkRunning, ExRec
  <2>2. Walk = "created" /\ Walk' = "walking"
    BY <1>0, <1>4, <2>1, WalkIs, WalkWillBe DEF MarkRunning, WalkFits
  <2> QED
    BY <2>1, <2>2, SameQuestions DEF Lifecycle!Next, Lifecycle!Begin, Lifecycle!Move
<1>5. CASE CreateStepLog
  <2>1. ex.pc = "next" /\ ex'.pc = "step" /\ run' = run /\ escs' = escs
    BY <1>1, <1>5 DEF CreateStepLog, ExRec
  <2>2. Walk' = Walk
    BY <1>0, <2>1, WalkIs, WalkWillBe DEF WalkFits
  <2> QED
    BY <1>2, <2>1, <2>2
<1>6. CASE \E cost \in 0..MaxCost : StepReturns(cost)
  <2>1. ex.pc = "step" /\ ex'.pc = "record" /\ ~ex'.paused /\ run' = run /\ escs' = escs
    BY <1>1, <1>6 DEF StepReturns, ExRec
  <2>2. Walk' = Walk
    BY <1>0, <2>1, WalkIs, WalkWillBe DEF WalkFits
  <2> QED
    BY <1>2, <2>1, <2>2
<1>7. CASE StepRaises
  <2>1. ex'.pc = "record" /\ ~ex'.paused /\ run' = run /\ escs' = escs
        /\ ex.pc \in {"step", "ask"}
    BY <1>1, <1>7 DEF StepRaises, ExRec
  <2>2. Walk' = "walking"
    BY <2>1, WalkWillBe DEF WalkFits
  <2>3. CASE ex.pc = "step"
    BY <1>0, <1>2, <2>1, <2>2, <2>3, WalkIs DEF WalkFits
  <2>4. CASE ex.pc = "ask"
    <3>1. Walk = "asking"
      BY <1>0, <2>4, WalkIs DEF WalkFits
    <3> QED
      BY <2>1, <2>2, <3>1, SameQuestions DEF Lifecycle!Next, Lifecycle!GoOn, Lifecycle!Move
  <2> QED
    BY <2>1, <2>3, <2>4
<1>8. CASE CreateEscalation
  <2>1. ex.pc = "step" /\ ex'.pc = "ask" /\ run' = run
    BY <1>1, <1>8 DEF CreateEscalation, ExRec
  <2>2. Walk = "walking" /\ Walk' = "asking"
    BY <1>0, <2>1, WalkIs, WalkWillBe DEF WalkFits
  <2>3. wf.order[ex.i] \in Steps
    BY <1>0, <2>1, Workflow DEF Typed, Placed, InStep
  <2>4. Len(escs)' = Len(escs) + 1 /\ Responded' = Responded
    BY <1>0, <1>8, <2>3, OneAsked DEF CreateEscalation
  <2> QED
    BY <2>1, <2>2, <2>4 DEF Lifecycle!Next, Lifecycle!Ask
<1>9. CASE AwaitHuman
  <2>1. ex.pc = "ask" /\ ex'.pc = "record" /\ ex'.paused /\ run' = run /\ escs' = escs
    BY <1>1, <1>9 DEF AwaitHuman, ExRec
  <2>2. Walk = "asking" /\ Walk' = "held"
    BY <1>0, <2>1, WalkIs, WalkWillBe DEF WalkFits
  <2> QED
    BY <2>1, <2>2, SameQuestions DEF Lifecycle!Next, Lifecycle!Hold, Lifecycle!Move
<1>10. CASE RecordStep
  <2>1. ex.pc = "record" /\ run' = run /\ escs' = escs /\ ex.paused \in BOOLEAN
        /\ ex'.pc = IF ex.paused THEN "pause" ELSE "next"
    BY <1>1, <1>10 DEF RecordStep, ExRec
  <2>2. Walk' = Walk
    BY <1>0, <2>1, WalkIs, WalkWillBe DEF WalkFits
  <2> QED
    BY <1>2, <2>1, <2>2
<1>11. CASE Pause
  <2>1. ex.pc = "pause" /\ ex'.pc = "done" /\ run'.status = "awaiting_escalation" /\ escs' = escs
    BY <1>1, <1>11 DEF Pause, ExRec
  <2>2. Walk = "held" /\ Walk' = "over"
    BY <1>0, <2>1, WalkIs, WalkWillBe DEF WalkFits
  <2> QED
    BY <2>1, <2>2, SameQuestions DEF Lifecycle!Next, Lifecycle!Pause, Lifecycle!Move
<1>12. CASE CompleteRun
  <2>1. ex.pc = "next" /\ ex'.pc = "done" /\ run'.status = "completed" /\ escs' = escs
    BY <1>1, <1>12 DEF CompleteRun, ExRec
  <2>2. Walk = "walking" /\ Walk' = "over"
    BY <1>0, <2>1, WalkIs, WalkWillBe DEF WalkFits
  <2> QED
    BY <2>1, <2>2, SameQuestions DEF Lifecycle!Next, Lifecycle!Complete, Lifecycle!Move
<1> QED
  BY <1>3, <1>4, <1>5, <1>6, <1>7, <1>8, <1>9, <1>10, <1>11, <1>12 DEF Execute

\* A request answers a question that was asked, perhaps again, and resumes the run of one that
\* was answered.
LEMMA RespondLives ==
    ASSUME GateInv, TypeOK, NEW r \in Responders, Respond(r)
    PROVE  [Lifecycle!Next]_<<run.status, Walk, Len(escs), Responded>>
<1>1. ex' = ex /\ Walk' = Walk
  <2>1. ex' = ex
    BY DEF Respond, SelectPending, UpdateEscalation, ResumeRun, ResumeCreateLog, ResumeStep,
           ResumeRecord
  <2> QED
    BY <2>1 DEF Walk, OnHold
<1>2. CASE UpdateEscalation(r)
  <2> DEFINE e == resp[r].esc
  <2>1. e \in DOMAIN escs /\ e \in Nat /\ resp[r].action \in Actions \union {NoAction}
    BY <1>2, Records DEF UpdateEscalation, GateInv, Asked, RespRec
  <2>2. escs' = [escs EXCEPT ![e].status = "responded", ![e].action = resp[r].action] /\ run' = run
    BY <1>2 DEF UpdateEscalation
  <2> HIDE DEF e
  <2>3. /\ DOMAIN escs' = DOMAIN escs /\ escs' \in Seq(Escalation)
        /\ escs'[e].status = "responded" /\ \A d \in DOMAIN escs : d # e => escs'[d] = escs[d]
    BY <2>1, <2>2, EscsTyped
  <2>4. Responded' = Responded \union {e}
    BY <2>1, <2>3 DEF Responded
  <2>5. e \in 1..Len(escs) /\ Len(escs)' = Len(escs)
    <3>1. DOMAIN escs = 1..Len(escs) /\ Len(escs) \in Nat
      BY Rows
    <3> HIDE DEF Escalation
    <3>2. DOMAIN escs' = 1..Len(escs') /\ Len(escs') \in Nat
      BY <2>3
    <3> QED
      BY <2>1, <2>3, <3>1, <3>2
  <2>6. Lifecycle!Answer(e)
    BY <1>1, <2>2, <2>4, <2>5 DEF Lifecycle!Answer
  <2> QED
    BY <2>5, <2>6 DEF Lifecycle!Next
<1>3. CASE ResumeRun(r)
  <2>1. resp[r].esc \in Responded
    BY <1>3 DEF ResumeRun, GateInv, Asked, Responded
  <2>2. run'.status = "running" /\ escs' = escs
    BY <1>3, RunRow DEF ResumeRun
  <2> QED
    BY <1>1, <2>1, <2>2, SameQuestions DEF Lifecycle!Next, Lifecycle!Resume
<1>4. CASE run' = run /\ escs' = escs
  BY <1>1, <1>4, SameQuestions
<1> QED
  BY <1>2, <1>3, <1>4 DEF Respond, SelectPending, ResumeCreateLog, ResumeStep, ResumeRecord

\* An exception and a kill end the walk and leave the row to nobody.
LEMMA VanishLives ==
    ASSUME TypeOK, TypeOK', ExecuteRaises \/ Crash
    PROVE  [Lifecycle!Next]_<<run.status, Walk, Len(escs), Responded>>
<1>1. run' = run /\ escs' = escs /\ ex \in ExRec
  BY Records DEF ExecuteRaises, Crash
<1>2. ex'.pc \in {"done", "raised", "killed"}
  BY <1>1 DEF ExecuteRaises, Crash, ExRec
<1>3. Walk' = "over"
  BY <1>2, WalkWillBe DEF WalkFits
<1> QED
  BY <1>1, <1>3, SameQuestions DEF Lifecycle!Next, Lifecycle!Vanish, Lifecycle!Move

\* execute(), the requests and crashes implement RunLifecycle: each of their steps is one of the
\* walk, an answer, a resumption behind an answer, a cancellation, or none.
THEOREM LivesAsPromised == Spec => ImplementsRunLifecycle
<1>1. Init => Lifecycle!Init
  <2> SUFFICES ASSUME Init PROVE Lifecycle!Init
    OBVIOUS
  <2>1. Walk = "new" /\ run.status = "none"
    BY DEF Init, StartedEx, Walk, OnHold
  <2>2. Len(escs) = 0 /\ Responded = {}
    BY DEF Init, Responded
  <2> QED
    BY <2>1, <2>2 DEF Lifecycle!Init
<1>2. GateInv /\ GateInv' /\ [Next]_vars
         => [Lifecycle!Next]_<<run.status, Walk, Len(escs), Responded>>
  <2> SUFFICES ASSUME GateInv, GateInv', [Next]_vars
               PROVE  [Lifecycle!Next]_<<run.status, Walk, Len(escs), Responded>>
    OBVIOUS
  <2>1. Typed /\ TypeOK /\ TypeOK'
    BY DEF GateInv, WalkInv, LogInv, Typed
  <2>2. CASE Execute
    BY <2>1, <2>2, ExecuteLives
  <2>3. CASE \E r \in Responders : Respond(r)
    BY <2>1, <2>3, RespondLives
  <2>4. CASE ExecuteRaises \/ Crash
    BY <2>1, <2>4, VanishLives
  <2>5. CASE run' = run /\ ex' = ex /\ escs' = escs
    <3>1. Walk' = Walk
      BY <2>5 DEF Walk, OnHold
    <3> QED
      BY <2>5, <3>1, SameQuestions
  <2>6. CASE CancelRun
    <3>1. run'.status = "cancelled" /\ run.status # "none" /\ escs' = escs
      BY <2>1, <2>6, CancelledRow DEF CancelRun
    <3>2. Walk' = Walk
      BY <2>6 DEF CancelRun, Walk, OnHold
    <3> QED
      BY <3>1, <3>2, SameQuestions DEF Lifecycle!Next, Lifecycle!Cancel
  <2> QED
    BY <2>2, <2>3, <2>4, <2>5, <2>6 DEF Next, vars, FindEscalation
<1> QED
  BY <1>1, <1>2, GateInvariant, PTL DEF Spec, ImplementsRunLifecycle, Lifecycle!Spec

-----------------------------------------------------------------------------
(* The order of the steps: positions, and what is picked at them. *)

LEMMA SmallestOf ==
    ASSUME NEW S, S # {}, S \subseteq Nat
    PROVE  \E x \in S : \A y \in S : x <= y
<1>1. IsWellFoundedOn(OpToRel(<, Nat), Nat)
  BY NatLessThanWellFounded
<1>2. PICK x \in S : \A y \in S : ~(<<y, x>> \in OpToRel(<, Nat))
  BY <1>1, WFMin
<1>3. \A y \in S : ~(y < x)
  BY <1>2 DEF OpToRel
<1> QED
  BY <1>3

LEMMA LargestOf ==
    ASSUME NEW n \in Nat, NEW S, S # {}, S \subseteq 1..n
    PROVE  \E x \in S : \A y \in S : y <= x
<1> DEFINE M == {k \in Nat : n - k \in S}
<1>1. M # {} /\ M \subseteq Nat
  <2>1. PICK y \in S : TRUE
    OBVIOUS
  <2>2. y \in 1..n
    BY <2>1
  <2>3. n - y \in Nat /\ n - (n - y) = y
    BY <2>2
  <2> QED
    BY <2>1, <2>3
<1>2. PICK k \in M : \A l \in M : k <= l
  <2> HIDE DEF M
  <2> QED
    BY <1>1, SmallestOf
<1>3. ASSUME NEW y \in S PROVE y <= n - k
  <2>1. y \in 1..n
    OBVIOUS
  <2>2. n - y \in Nat /\ n - (n - y) = y
    BY <2>1
  <2>3. k <= n - y /\ k \in Nat
    BY <1>2, <2>2
  <2> QED
    BY <2>1, <2>3
<1> QED
  BY <1>2, <1>3

\* The positions of P are ranked 1, 2, ... in their order.
LEMMA Ranks ==
    ASSUME NEW n \in Nat, NEW P, P \subseteq 1..n
    PROVE  /\ IsFiniteSet(P) /\ Cardinality(P) \in Nat
           /\ \A i \in P : Rank(P, i) \in 1..Cardinality(P)
           /\ \A i, j \in P : i < j => Rank(P, i) < Rank(P, j)
           /\ \A k \in 1..Cardinality(P) : \E i \in P : Rank(P, i) = k
<1>1. IsFiniteSet(P) /\ Cardinality(P) \in Nat
  <2>1. IsFiniteSet(1..n)
    BY FS_Interval
  <2> QED
    BY <2>1, FS_Subset, FS_CardinalityType
<1>2. ASSUME NEW i \in P PROVE Rank(P, i) \in 1..Cardinality(P)
  <2> DEFINE Q == {j \in P : j <= i}
  <2>1. i \in Q /\ Q \subseteq P /\ i \in Nat
    OBVIOUS
  <2>2. IsFiniteSet(Q) /\ Cardinality(Q) <= Cardinality(P) /\ Cardinality(Q) \in Nat
    BY <1>1, <2>1, FS_Subset, FS_CardinalityType
  <2>3. Cardinality(Q) # 0
    BY <2>1, <2>2, FS_EmptySet
  <2> QED
    BY <1>1, <2>2, <2>3 DEF Rank
<1>3. ASSUME NEW i \in P, NEW j \in P, i < j PROVE Rank(P, i) < Rank(P, j)
  <2> DEFINE Q == {k \in P : k <= i}
             R == {k \in P : k <= j}
  <2>1. \A k \in P : k \in Nat
    OBVIOUS
  <2>2. Q \subseteq R
    <3>1. i \in Nat /\ j \in Nat
      BY <2>1
    <3>2. \A k \in P : k <= i => k <= j
      BY <1>3, <2>1, <3>1
    <3> QED
      BY <3>2
  <2>3. j \in R /\ j \notin Q
    BY <1>3, <2>1
  <2>4. IsFiniteSet(R)
    BY <1>1, FS_Subset
  <2> HIDE DEF Q, R
  <2>5. /\ IsFiniteSet(Q) /\ Cardinality(Q) <= Cardinality(R) /\ Cardinality(Q) # Cardinality(R)
        /\ Cardinality(Q) \in Nat /\ Cardinality(R) \in Nat
    BY <2>2, <2>3, <2>4, FS_Subset, FS_CardinalityType
  <2>6. Cardinality(Q) < Cardinality(R)
    BY <2>5
  <2> QED
    BY <2>6 DEF Rank, Q, R
<1>4. \A k \in 1..Cardinality(P) : \E i \in P : Rank(P, i) = k
  <2> DEFINE f == [i \in P |-> Rank(P, i)]
             c == Cardinality(P)
  <2>1. f \in [P -> 1..c]
    BY <1>2
  <2>2. \A i, j \in P : f[i] = f[j] => i = j
    <3>1. ASSUME NEW i \in P, NEW j \in P, Rank(P, i) = Rank(P, j) PROVE i = j
      <4>1. i \in Nat /\ j \in Nat
        OBVIOUS
      <4>2. Rank(P, i) \in Nat /\ Rank(P, j) \in Nat
        BY <1>1, <1>2
      <4>3. ~(i < j) /\ ~(j < i)
        BY <1>3, <3>1, <4>2
      <4> QED
        BY <4>1, <4>3
    <3> QED
      BY <3>1
  <2>3. f \in Injection(P, 1..c)
    <3> HIDE DEF f, c
    <3> QED
      BY <2>1, <2>2 DEF Injection, IsInjective
  <2>4. IsFiniteSet(1..c) /\ Cardinality(1..c) = c
    <3> HIDE DEF c
    <3>1. c \in Nat
      BY <1>1 DEF c
    <3> QED
      BY <3>1, FS_Interval
  <2>5. f \in Surjection(P, 1..c)
    <3> HIDE DEF f
    <3> QED
      BY <2>3, <2>4, FS_Injection
  <2>6. \A k \in 1..c : \E i \in P : f[i] = k
    <3> HIDE DEF f
    <3> QED
      BY <2>5 DEF Surjection
  <2> QED
    BY <2>6
<1> QED
  BY <1>1, <1>2, <1>3, <1>4

LEMMA NthIs ==
    ASSUME NEW n \in Nat, NEW P, P \subseteq 1..n
    PROVE  /\ Cardinality(P) \in Nat
           /\ \A k \in 1..Cardinality(P) : Nth(P, k) \in P
           /\ \A k, l \in 1..Cardinality(P) : Nth(P, k) = Nth(P, l) => k = l
           /\ \A i \in P : \E k \in 1..Cardinality(P) : Nth(P, k) = i
<1>1. ASSUME NEW k \in 1..Cardinality(P) PROVE Nth(P, k) \in P /\ Rank(P, Nth(P, k)) = k
  BY Ranks DEF Nth
<1>2. ASSUME NEW i \in P PROVE \E k \in 1..Cardinality(P) : Nth(P, k) = i
  <2>1. PICK k \in 1..Cardinality(P) : k = Rank(P, i)
    BY Ranks
  <2>2. Nth(P, k) \in P /\ Rank(P, Nth(P, k)) = k
    BY <1>1
  <2>3. Nth(P, k) \in Nat /\ i \in Nat /\ k \in Nat
    <3>1. Cardinality(P) \in Nat
      BY Ranks
    <3>2. \A j \in 1..n : j \in Nat
      OBVIOUS
    <3>3. k \in Nat
      BY <3>1
    <3> QED
      BY <2>2, <3>2, <3>3
  <2>4. \A j, l \in P : j < l => Rank(P, j) < Rank(P, l)
    BY Ranks
  <2>5. ~(k < k)
    BY <2>3
  <2>6. ~(Nth(P, k) < i) /\ ~(i < Nth(P, k))
    BY <2>1, <2>2, <2>4, <2>5
  <2> QED
    BY <2>3, <2>6
<1> QED
  BY <1>1, <1>2, Ranks

LEMMA PickedIs ==
    ASSUME NEW S, NEW seq \in Seq(S), NEW P, P \subseteq DOMAIN seq
    PROVE  /\ Picked(seq, P) \in Seq(S)
           /\ Cardinality(P) \in Nat
           /\ Len(Picked(seq, P)) = Cardinality(P)
           /\ DOMAIN Picked(seq, P) = 1..Cardinality(P)
           /\ Range(Picked(seq, P)) = {seq[i] : i \in P}
           /\ (\A i, j \in P : seq[i] = seq[j] => i = j)
                 => \A k, l \in 1..Cardinality(P) : Picked(seq, P)[k] = Picked(seq, P)[l] => k = l
<1> DEFINE c == Cardinality(P)
           p == Picked(seq, P)
<1>1. DOMAIN seq = 1..Len(seq) /\ Len(seq) \in Nat
  OBVIOUS
<1>2. /\ c \in Nat
      /\ \A k \in 1..c : Nth(P, k) \in P
      /\ \A k, l \in 1..c : Nth(P, k) = Nth(P, l) => k = l
      /\ \A i \in P : \E k \in 1..c : Nth(P, k) = i
  BY <1>1, NthIs
<1>3. DOMAIN p = 1..c /\ \A k \in 1..c : p[k] = seq[Nth(P, k)]
  BY DEF Picked
<1>4. p = [k \in 1..c |-> seq[Nth(P, k)]]
  BY DEF Picked
<1> HIDE DEF c, p
<1>5. p \in Seq(S) /\ Len(p) = c
  <2>1. \A k \in 1..c : seq[Nth(P, k)] \in S
    BY <1>1, <1>2
  <2>2. p \in [1..c -> S]
    BY <1>4, <2>1
  <2> QED
    BY <1>2, <2>2
<1>6. Range(p) = {seq[i] : i \in P}
  <2>1. ASSUME NEW x PROVE x \in Range(p) <=> \E i \in P : x = seq[i]
    BY <1>2, <1>3 DEF Range
  <2> QED
    BY <2>1
<1>7. ASSUME \A i, j \in P : seq[i] = seq[j] => i = j, NEW k \in 1..c, NEW l \in 1..c, p[k] = p[l]
      PROVE  k = l
  BY <1>2, <1>3, <1>7
<1> QED
  BY <1>2, <1>3, <1>5, <1>6, <1>7 DEF c, p

-----------------------------------------------------------------------------
(* Sequences without repetition. *)

Distinct(q) == \A i, j \in DOMAIN q : q[i] = q[j] => i = j

LEMMA HeadAndTail ==
    ASSUME NEW S, NEW q \in Seq(S), q # <<>>
    PROVE  /\ Head(q) \in S /\ Tail(q) \in Seq(S)
           /\ Range(q) = Range(Tail(q)) \union {Head(q)}
           /\ Distinct(q) => Distinct(Tail(q)) /\ Head(q) \notin Range(Tail(q))
<1>1. Len(q) \in Nat /\ Len(q) # 0 /\ DOMAIN q = 1..Len(q)
  OBVIOUS
<1>2. Head(q) = q[1] /\ Tail(q) \in Seq(S) /\ DOMAIN Tail(q) = 1..(Len(q) - 1)
      /\ \A k \in 1..(Len(q) - 1) : Tail(q)[k] = q[k + 1]
  BY <1>1
<1> DEFINE n == Len(q)
           t == Tail(q)
<1>3. \A k \in 1..(n - 1) : k + 1 \in 2..n
  BY <1>1
<1>4. \A k \in 2..n : k - 1 \in 1..(n - 1) /\ (k - 1) + 1 = k
  BY <1>1
<1>5. 1 \in 1..n /\ 1..n = {1} \union (2..n) /\ 1 \notin 2..n
  BY <1>1
<1>6. DOMAIN q = 1..n /\ DOMAIN t = 1..(n - 1) /\ \A k \in 1..(n - 1) : t[k] = q[k + 1]
  BY <1>1, <1>2
<1> HIDE DEF n, t
<1>7. \A k \in 2..n : \E l \in DOMAIN t : t[l] = q[k]
  BY <1>4, <1>6
<1>8. \A l \in DOMAIN t : l + 1 \in 2..n /\ t[l] = q[l + 1]
  BY <1>3, <1>6
<1>9. Range(q) = Range(t) \union {q[1]}
  <2>1. ASSUME NEW x PROVE x \in Range(q) <=> x \in Range(t) \/ x = q[1]
    BY <1>5, <1>6, <1>7, <1>8 DEF Range
  <2> QED
    BY <2>1
<1>10. ASSUME Distinct(q) PROVE Distinct(t) /\ q[1] \notin Range(t)
  <2>1. ASSUME NEW k \in DOMAIN t, NEW l \in DOMAIN t, t[k] = t[l] PROVE k = l
    <3>1. q[k + 1] = q[l + 1] /\ k + 1 \in DOMAIN q /\ l + 1 \in DOMAIN q
      BY <1>5, <1>6, <1>8, <2>1
    <3>2. k + 1 = l + 1
      BY <1>10, <3>1 DEF Distinct
    <3>3. k \in Int /\ l \in Int
      BY <1>6
    <3> QED
      BY <3>2, <3>3
  <2>2. ASSUME NEW k \in DOMAIN t, t[k] = q[1] PROVE FALSE
    <3>1. k + 1 \in DOMAIN q /\ q[k + 1] = q[1] /\ 1 \in DOMAIN q /\ k + 1 # 1
      BY <1>5, <1>6, <1>8, <2>2
    <3> QED
      BY <1>10, <3>1 DEF Distinct
  <2> QED
    BY <2>1, <2>2 DEF Distinct, Range
<1>11. q[1] \in S
  BY <1>1
<1> QED
  BY <1>2, <1>9, <1>10, <1>11 DEF t

LEMMA Joined ==
    ASSUME NEW S, NEW p \in Seq(S), NEW q \in Seq(S)
    PROVE  /\ p \o q \in Seq(S) /\ Range(p \o q) = Range(p) \union Range(q)
           /\ Len(p \o q) = Len(p) + Len(q)
           /\ \A k \in DOMAIN p : k \in DOMAIN (p \o q) /\ (p \o q)[k] = p[k]
           /\ \A k \in DOMAIN q : Len(p) + k \in DOMAIN (p \o q) /\ (p \o q)[Len(p) + k] = q[k]
           /\ Distinct(p) /\ Distinct(q) /\ Range(p) \intersect Range(q) = {} => Distinct(p \o q)
<1> DEFINE m == Len(p)
           n == Len(q)
           r == p \o q
<1>1. m \in Nat /\ n \in Nat /\ DOMAIN p = 1..m /\ DOMAIN q = 1..n
  OBVIOUS
<1>2. r \in Seq(S) /\ Len(r) = m + n /\ DOMAIN r = 1..(m + n)
  OBVIOUS
<1>3. \A k \in 1..(m + n) : r[k] = IF k <= m THEN p[k] ELSE q[k - m]
  OBVIOUS
<1> HIDE DEF m, n, r
<1>4. \A k \in 1..m : k \in 1..(m + n) /\ k <= m
  BY <1>1
<1>5. \A k \in 1..n : m + k \in 1..(m + n) /\ ~(m + k <= m) /\ (m + k) - m = k
  BY <1>1
<1>6. \A k \in 1..(m + n) : k \in 1..m \/ (k - m \in 1..n /\ ~(k <= m) /\ m + (k - m) = k)
  BY <1>1
<1>7. \A k \in DOMAIN p : k \in DOMAIN r /\ r[k] = p[k]
  BY <1>1, <1>2, <1>3, <1>4
<1>8. \A k \in DOMAIN q : m + k \in DOMAIN r /\ r[m + k] = q[k]
  BY <1>1, <1>2, <1>3, <1>5
<1>9. \A k \in DOMAIN r : \/ k \in DOMAIN p /\ r[k] = p[k]
                         \/ \E l \in DOMAIN q : k = m + l /\ r[k] = q[l]
  <2>1. ASSUME NEW k \in DOMAIN r
        PROVE  k \in DOMAIN p \/ \E l \in DOMAIN q : k = m + l
    BY <1>1, <1>2, <1>6
  <2> QED
    BY <1>7, <1>8, <2>1
<1>10. Range(r) = Range(p) \union Range(q)
  <2>1. ASSUME NEW x PROVE x \in Range(r) <=> x \in Range(p) \/ x \in Range(q)
    BY <1>7, <1>8, <1>9 DEF Range
  <2> QED
    BY <2>1
<1>11. ASSUME Distinct(p), Distinct(q), Range(p) \intersect Range(q) = {},
              NEW k \in DOMAIN r, NEW l \in DOMAIN r, r[k] = r[l]
       PROVE  k = l
  <2>1. \A a \in DOMAIN p, b \in DOMAIN q : p[a] # q[b]
    BY <1>11 DEF Range
  <2>2. CASE k \in DOMAIN p /\ r[k] = p[k]
    BY <1>9, <1>11, <2>1, <2>2 DEF Distinct
  <2>3. CASE l \in DOMAIN p /\ r[l] = p[l]
    BY <1>9, <1>11, <2>1, <2>3 DEF Distinct
  <2>4. CASE (\E a \in DOMAIN q : k = m + a /\ r[k] = q[a])
             /\ (\E a \in DOMAIN q : l = m + a /\ r[l] = q[a])
    BY <1>11, <2>4 DEF Distinct
  <2> QED
    BY <1>9, <2>2, <2>3, <2>4
<1> QED
  BY <1>2, <1>7, <1>8, <1>10, <1>11 DEF r, m, n, Distinct

LEMMA OneMore ==
    ASSUME NEW S, NEW q \in Seq(S), NEW x \in S
    PROVE  /\ Append(q, x) \in Seq(S) /\ Range(Append(q, x)) = Range(q) \union {x}
           /\ Len(Append(q, x)) = Len(q) + 1 /\ Append(q, x)[Len(q) + 1] = x
           /\ \A k \in DOMAIN q : k \in DOMAIN Append(q, x) /\ Append(q, x)[k] = q[k]
           /\ \A k \in DOMAIN Append(q, x) : k \in DOMAIN q \/ k = Len(q) + 1
           /\ Distinct(q) /\ x \notin Range(q) => Distinct(Append(q, x))
<1> DEFINE n == Len(q)
           r == Append(q, x)
<1>1. n \in Nat /\ DOMAIN q = 1..n
  OBVIOUS
<1>2. r \in Seq(S) /\ Len(r) = n + 1 /\ DOMAIN r = 1..(n + 1) /\ r[n + 1] = x
  OBVIOUS
<1>3. \A k \in 1..n : r[k] = q[k]
  OBVIOUS
<1> HIDE DEF n, r
<1>4. 1..(n + 1) = (1..n) \union {n + 1}
  BY <1>1
<1>5. Range(r) = Range(q) \union {x}
  <2>1. ASSUME NEW y PROVE y \in Range(r) <=> y \in Range(q) \/ y = x
    BY <1>1, <1>2, <1>3, <1>4 DEF Range
  <2> QED
    BY <2>1
<1>6. Distinct(q) /\ x \notin Range(q) => Distinct(r)
  BY <1>1, <1>2, <1>3, <1>4 DEF Distinct, Range
<1> QED
  BY <1>1, <1>2, <1>3, <1>4, <1>5, <1>6 DEF n, r

\* A sequence without repetition as long as the steps are many holds all of them.
LEMMA LongEnough ==
    ASSUME NEW S, NEW steps \in Seq(S), Distinct(steps),
           NEW q \in Seq(Range(steps)), Distinct(q)
    PROVE  /\ Len(q) = Len(steps) => Range(q) = Range(steps)
           /\ Range(q) = Range(steps) => Len(q) = Len(steps)
<1> DEFINE R == Range(steps)
           N == Len(steps)
           M == Len(q)
<1>1. /\ N \in Nat /\ DOMAIN steps = 1..N /\ M \in Nat /\ DOMAIN q = 1..M
      /\ q \in Seq(R) /\ \A k \in 1..M : q[k] \in R
  <2>1. N \in Nat /\ DOMAIN steps = 1..N /\ q \in Seq(R)
    OBVIOUS
  <2> HIDE DEF R
  <2> QED
    BY <2>1
<1>2. steps = [k \in 1..N |-> steps[k]] /\ q = [k \in 1..M |-> q[k]]
  <2>1. steps = [k \in 1..N |-> steps[k]]
    OBVIOUS
  <2>2. q = [k \in 1..M |-> q[k]]
    <3> HIDE DEF R
    <3> QED
      BY <1>1
  <2> QED
    BY <2>1, <2>2
<1>3. IsFiniteSet(1..N) /\ Cardinality(1..N) = N /\ IsFiniteSet(1..M) /\ Cardinality(1..M) = M
  <2> HIDE DEF M, N
  <2> QED
    BY <1>1, FS_Interval
<1>4. IsFiniteSet(R) /\ Cardinality(R) = N
  <2>1. steps \in Surjection(1..N, R)
    BY <1>1, <1>2 DEF Surjection, Range
  <2>2. \A i, j \in 1..N : steps[i] = steps[j] => i = j
    BY <1>1 DEF Distinct
  <2>3. steps \in Injection(1..N, R)
    <3>1. steps \in [1..N -> R]
      BY <1>1, <1>2 DEF Range
    <3> HIDE DEF R, N
    <3> QED
      BY <2>2, <3>1 DEF Injection, IsInjective
  <2> HIDE DEF R, N
  <2>4. IsFiniteSet(R) /\ Cardinality(R) <= Cardinality(1..N)
    BY <1>3, <2>1, FS_Surjection
  <2>5. Cardinality(1..N) <= Cardinality(R)
    BY <2>3, <2>4, FS_Injection
  <2>6. Cardinality(R) \in Nat
    BY <2>4, FS_CardinalityType
  <2> QED
    BY <1>1, <1>3, <2>4, <2>5, <2>6
<1>5. q \in Injection(1..M, R)
  <2>1. \A i, j \in 1..M : q[i] = q[j] => i = j
    BY <1>1 DEF Distinct
  <2> HIDE DEF R, M
  <2>2. q \in [1..M -> R]
    BY <1>1, <1>2
  <2> QED
    BY <2>1, <2>2 DEF Injection, IsInjective
<1>6. ASSUME M = N PROVE Range(q) = R
  <2>1. q \in Surjection(1..M, R)
    <3> HIDE DEF R, M, N
    <3> QED
      BY <1>3, <1>4, <1>5, <1>6, FS_Injection
  <2> QED
    BY <1>1, <2>1 DEF Surjection, Range
<1>7. ASSUME Range(q) = R PROVE M = N
  <2>1. q \in Surjection(1..M, R)
    <3>1. \A x \in R : \E k \in 1..M : q[k] = x
      BY <1>1, <1>7 DEF Range
    <3> HIDE DEF R, M
    <3>2. q \in [1..M -> R]
      BY <1>1, <1>2
    <3> QED
      BY <3>1, <3>2 DEF Surjection
  <2> HIDE DEF R, M, N
  <2>2. Cardinality(R) <= Cardinality(1..M)
    BY <1>3, <2>1, FS_Surjection
  <2>3. Cardinality(1..M) <= Cardinality(R)
    BY <1>4, <1>5, FS_Injection
  <2> QED
    BY <1>1, <1>3, <1>4, <2>2, <2>3
<1> QED
  BY <1>6, <1>7

-----------------------------------------------------------------------------
(* Connections. *)

LEMMA InnerIs ==
    ASSUME NEW C, NEW conns \in Seq(C), NEW steps
    PROVE  /\ Inner(steps, conns) \in Seq(C)
           /\ \A c \in DOMAIN Inner(steps, conns) :
                 /\ Inner(steps, conns)[c].from \in Range(steps)
                 /\ Inner(steps, conns)[c].to \in Range(steps)
           /\ \A s, t \in Range(steps) :
                 Connected(Inner(steps, conns), s, t) <=> Connected(conns, s, t)
<1> DEFINE P == {c \in DOMAIN conns : {conns[c].from, conns[c].to} \subseteq Range(steps)}
           inner == Inner(steps, conns)
<1>1. /\ inner \in Seq(C) /\ Range(inner) = {conns[c] : c \in P}
  <2>1. P \subseteq DOMAIN conns
    OBVIOUS
  <2> HIDE DEF P
  <2>2. Picked(conns, P) \in Seq(C) /\ Range(Picked(conns, P)) = {conns[c] : c \in P}
    BY <2>1, PickedIs
  <2> QED
    BY <2>2 DEF P, Inner
<1> HIDE DEF inner
<1>2. \A c \in DOMAIN inner : \E d \in P : inner[c] = conns[d]
  BY <1>1 DEF Range
<1>3. \A d \in P : \E c \in DOMAIN inner : inner[c] = conns[d]
  BY <1>1 DEF Range
<1>4. \A c \in DOMAIN inner : inner[c].from \in Range(steps) /\ inner[c].to \in Range(steps)
  BY <1>2
<1>5. ASSUME NEW s \in Range(steps), NEW t \in Range(steps)
      PROVE  Connected(inner, s, t) <=> Connected(conns, s, t)
  BY <1>2, <1>3 DEF Connected
<1> QED
  BY <1>1, <1>4, <1>5 DEF inner

\* A step joins the queue once, with the last connection from the step that has left it.
LEMMA FreedIs ==
    ASSUME NEW C, NEW conns \in Seq(C), NEW S, \A c \in DOMAIN conns : conns[c].to \in S,
           NEW s, NEW done
    PROVE  /\ Freed(conns, s, done) \in Seq(S) /\ Distinct(Freed(conns, s, done))
           /\ \A t : t \in Range(Freed(conns, s, done))
                        <=> Connected(conns, s, t) /\ InDegreeIsZero(conns, t, done)
<1> DEFINE P == {c \in DOMAIN conns : Frees(conns, c, s, done)}
           to == [c \in DOMAIN conns |-> conns[c].to]
<1>1. DOMAIN conns = 1..Len(conns) /\ Len(conns) \in Nat
  OBVIOUS
<1>2. to \in Seq(S) /\ DOMAIN to = DOMAIN conns
  <2>1. to \in [1..Len(conns) -> S]
    BY <1>1
  <2> QED
    BY <1>1, <2>1
<1>3. P \subseteq DOMAIN to /\ \A c \in P : to[c] = conns[c].to
  OBVIOUS
<1>4. ASSUME NEW c \in P, NEW d \in P, to[c] = to[d] PROVE c = d
  <2>1. d <= c /\ c <= d
    BY <1>4 DEF Frees
  <2>2. c \in Nat /\ d \in Nat
    BY <1>1
  <2> QED
    BY <2>1, <2>2
<1>5. ASSUME NEW t, Connected(conns, s, t), InDegreeIsZero(conns, t, done)
      PROVE  \E c \in P : to[c] = t
  <2> DEFINE Q == {c \in DOMAIN conns : conns[c].from = s /\ conns[c].to = t}
  <2>1. PICK c \in Q : \A d \in Q : d <= c
    <3>1. Q # {} /\ Q \subseteq 1..Len(conns)
      BY <1>1, <1>5 DEF Connected
    <3> HIDE DEF Q
    <3> QED
      BY <1>1, <3>1, LargestOf
  <2>2. Frees(conns, c, s, done)
    BY <1>5, <2>1 DEF Frees
  <2> QED
    BY <2>1, <2>2
<1>6. ASSUME NEW c \in P PROVE Connected(conns, s, to[c]) /\ InDegreeIsZero(conns, to[c], done)
  BY DEF Frees, Connected
<1>7. Freed(conns, s, done) = Picked(to, P)
  BY DEF Freed
<1> HIDE DEF to, P
<1> DEFINE f == Picked(to, P)
<1>8. f \in Seq(S) /\ Range(f) = {to[c] : c \in P} /\ Distinct(f)
  <2>1. \A c, d \in P : to[c] = to[d] => c = d
    BY <1>4
  <2>2. P \subseteq DOMAIN to
    BY <1>3
  <2>3. /\ f \in Seq(S) /\ Range(f) = {to[c] : c \in P} /\ DOMAIN f = 1..Cardinality(P)
        /\ \A k, l \in 1..Cardinality(P) : f[k] = f[l] => k = l
    BY <1>2, <2>1, <2>2, PickedIs
  <2> QED
    BY <2>3 DEF Distinct
<1> HIDE DEF f
<1>9. ASSUME NEW t
      PROVE  t \in Range(f) <=> Connected(conns, s, t) /\ InDegreeIsZero(conns, t, done)
  BY <1>5, <1>6, <1>8
<1> QED
  BY <1>7, <1>8, <1>9 DEF f

-----------------------------------------------------------------------------
(* The loop. *)

Among(S, conns) == \A c \in DOMAIN conns : conns[c].from \in S /\ conns[c].to \in S

\* No step is in the queue or ordered twice; exactly the steps whose in_degree is zero are one
\* or the other; and all that leads to an ordered step stands before it.
OnWalk(S, conns, w) ==
    /\ w.queue \in Seq(S) /\ Distinct(w.queue)
    /\ w.ordered \in Seq(S) /\ Distinct(w.ordered)
    /\ Range(w.queue) \intersect Range(w.ordered) = {}
    /\ \A t \in S : InDegreeIsZero(conns, t, Range(w.ordered))
                       <=> t \in Range(w.queue) \union Range(w.ordered)
    /\ \A k \in DOMAIN w.ordered, c \in DOMAIN conns :
          conns[c].to = w.ordered[k]
             => \E i \in DOMAIN w.ordered : i < k /\ w.ordered[i] = conns[c].from

LEMMA StartsOnWalk ==
    ASSUME NEW S, NEW steps \in Seq(S), Distinct(steps), NEW conns
    PROVE  OnWalk(Range(steps), conns, Start(steps, conns))
<1> DEFINE P == {i \in DOMAIN steps : InDegreeIsZero(conns, steps[i], {})}
           R == Range(steps)
           q == Picked(steps, P)
           w == Start(steps, conns)
<1>1. P \subseteq DOMAIN steps
  OBVIOUS
<1>2. steps \in Seq(R)
  <2>1. DOMAIN steps = 1..Len(steps) /\ Len(steps) \in Nat /\ \A k \in 1..Len(steps) : steps[k] \in R
    BY DEF Range
  <2>2. steps \in [1..Len(steps) -> R]
    <3> HIDE DEF R
    <3> QED
      BY <2>1
  <2> QED
    BY <2>1, <2>2
<1>3. w.queue = q /\ w.ordered = <<>>
  BY DEF Start
<1>4. q \in Seq(R) /\ Range(q) = {steps[i] : i \in P} /\ Distinct(q)
  <2> HIDE DEF P, R
  <2>1. \A i, j \in P : steps[i] = steps[j] => i = j
    BY <1>1 DEF Distinct
  <2>2. /\ q \in Seq(R) /\ Range(q) = {steps[i] : i \in P} /\ DOMAIN q = 1..Cardinality(P)
        /\ \A k, l \in 1..Cardinality(P) : q[k] = q[l] => k = l
    BY <1>1, <1>2, <2>1, PickedIs
  <2> QED
    BY <2>2 DEF Distinct
<1> HIDE DEF q
<1>5. Range(<<>>) = {} /\ <<>> \in Seq(R) /\ Distinct(<<>>) /\ DOMAIN <<>> = {}
  BY DEF Range, Distinct
<1>6. ASSUME NEW t \in R PROVE InDegreeIsZero(conns, t, {}) <=> t \in Range(q)
  <2>1. PICK i \in DOMAIN steps : steps[i] = t
    BY DEF Range
  <2> QED
    BY <1>4, <2>1
<1> HIDE DEF w, R
<1> QED
  BY <1>3, <1>4, <1>5, <1>6 DEF OnWalk, w, R

LEMMA TurnsOnWalk ==
    ASSUME NEW C, NEW conns \in Seq(C), NEW S, Among(S, conns), NEW w, OnWalk(S, conns, w)
    PROVE  /\ OnWalk(S, conns, Turn(conns, w))
           /\ w.queue = <<>> => Turn(conns, w) = w
           /\ w.queue # <<>> => Len(Turn(conns, w).ordered) = Len(w.ordered) + 1
<1>1. CASE w.queue = <<>>
  BY <1>1 DEF Turn
<1>2. CASE w.queue # <<>>
  <2> DEFINE h == Head(w.queue)
             rest == Tail(w.queue)
             o == w.ordered
             new == Append(o, h)
             freed == Freed(conns, h, Range(new))
             v == Turn(conns, w)
  <2>1. v.queue = rest \o freed /\ v.ordered = new
    BY <1>2 DEF Turn
  <2>2. w.queue \in Seq(S) /\ Distinct(w.queue) /\ o \in Seq(S) /\ Distinct(o)
        /\ Range(w.queue) \intersect Range(o) = {}
    BY DEF OnWalk
  <2>3. h \in S /\ rest \in Seq(S) /\ Range(w.queue) = Range(rest) \union {h}
        /\ Distinct(rest) /\ h \notin Range(rest)
    BY <1>2, <2>2, HeadAndTail
  <2>4. h \notin Range(o) /\ Range(rest) \intersect Range(o) = {}
    BY <2>2, <2>3
  <2>5. \A t \in S : InDegreeIsZero(conns, t, Range(o)) <=> t \in Range(rest) \union {h} \union Range(o)
    BY <2>3 DEF OnWalk
  <2>6. \A k \in DOMAIN o, c \in DOMAIN conns :
           conns[c].to = o[k] => \E i \in DOMAIN o : i < k /\ o[i] = conns[c].from
    BY DEF OnWalk
  <2> HIDE DEF h, rest, o, v
  <2>7. /\ new \in Seq(S) /\ Range(new) = Range(o) \union {h} /\ Distinct(new)
        /\ Len(new) = Len(o) + 1 /\ new[Len(o) + 1] = h
        /\ \A k \in DOMAIN o : k \in DOMAIN new /\ new[k] = o[k]
        /\ \A k \in DOMAIN new : k \in DOMAIN o \/ k = Len(o) + 1
    BY <2>2, <2>3, <2>4, OneMore
  <2> HIDE DEF new
  <2>8. /\ freed \in Seq(S) /\ Distinct(freed)
        /\ \A t : t \in Range(freed) <=> Connected(conns, h, t) /\ InDegreeIsZero(conns, t, Range(new))
    BY FreedIs DEF Among
  <2> HIDE DEF freed
  \* A step freed now had h before it, so it was not in the queue nor ordered.
  <2>9. ASSUME NEW t \in Range(freed) PROVE t \notin Range(rest) \union {h} \union Range(o)
    <3>1. PICK c \in DOMAIN conns : conns[c].from = h /\ conns[c].to = t
      BY <2>8 DEF Connected
    <3>2. t \in S
      BY <3>1 DEF Among
    <3>3. ~InDegreeIsZero(conns, t, Range(o))
      BY <2>4, <3>1 DEF InDegreeIsZero
    <3> QED
      BY <2>5, <3>2, <3>3
  <2>10. /\ v.queue \in Seq(S) /\ Range(v.queue) = Range(rest) \union Range(freed)
         /\ Distinct(v.queue)
    <3>1. Range(rest) \intersect Range(freed) = {}
      BY <2>9
    <3> QED
      BY <2>1, <2>3, <2>8, <3>1, Joined
  <2>11. Range(v.queue) \intersect Range(v.ordered) = {}
    BY <2>1, <2>3, <2>4, <2>7, <2>9, <2>10
  <2>12. ASSUME NEW t \in S
         PROVE  InDegreeIsZero(conns, t, Range(new)) <=> t \in Range(v.queue) \union Range(new)
    <3>1. CASE Connected(conns, h, t)
      <4>1. t \in Range(rest) \union {h} \union Range(o) => InDegreeIsZero(conns, t, Range(new))
        BY <2>5, <2>7 DEF InDegreeIsZero
      <4> QED
        BY <2>7, <2>8, <2>10, <3>1, <4>1
    <3>2. CASE ~Connected(conns, h, t)
      <4>1. InDegreeIsZero(conns, t, Range(new)) <=> InDegreeIsZero(conns, t, Range(o))
        BY <2>7, <3>2 DEF InDegreeIsZero, Connected
      <4>2. t \notin Range(freed)
        BY <2>8, <3>2
      <4> QED
        BY <2>5, <2>7, <2>10, <4>1, <4>2
    <3> QED
      BY <3>1, <3>2
  <2>13. ASSUME NEW k \in DOMAIN new, NEW c \in DOMAIN conns, conns[c].to = new[k]
         PROVE  \E i \in DOMAIN new : i < k /\ new[i] = conns[c].from
    <3>1. CASE k \in DOMAIN o
      BY <2>6, <2>7, <2>13, <3>1
    <3>2. CASE k = Len(o) + 1
      <4>1. InDegreeIsZero(conns, h, Range(o))
        BY <2>3, <2>5
      <4>2. conns[c].from \in Range(o)
        BY <2>7, <2>13, <3>2, <4>1 DEF InDegreeIsZero
      <4>3. PICK i \in DOMAIN o : o[i] = conns[c].from
        BY <4>2 DEF Range
      <4>4. i < Len(o) + 1
        BY <2>2
      <4> QED
        BY <2>7, <3>2, <4>3, <4>4
    <3> QED
      BY <2>7, <3>1, <3>2
  <2>14. v.ordered \in Seq(S) /\ Distinct(v.ordered)
    BY <2>1, <2>7
  <2>15. \A t \in S : InDegreeIsZero(conns, t, Range(v.ordered))
                       <=> t \in Range(v.queue) \union Range(v.ordered)
    BY <2>1, <2>12
  <2>16. \A k \in DOMAIN v.ordered, c \in DOMAIN conns :
            conns[c].to = v.ordered[k]
               => \E i \in DOMAIN v.ordered : i < k /\ v.ordered[i] = conns[c].from
    BY <2>1, <2>13
  <2>17. OnWalk(S, conns, v)
    BY <2>10, <2>11, <2>14, <2>15, <2>16 DEF OnWalk
  <2>18. Len(v.ordered) = Len(o) + 1
    BY <2>1, <2>7
  <2> QED
    BY <1>2, <2>17, <2>18 DEF v, o
<1> QED
  BY <1>1, <1>2

AreTurns(g, N, start, conns) ==
    g = [n \in 0..N |-> IF n = 0 THEN start ELSE Turn(conns, g[n - 1])]

\* The recursive function of the turns exists: no smallest number of turns lacks one.
LEMMA TurnsExist ==
    ASSUME NEW N \in Nat, NEW start, NEW conns
    PROVE  \E g : AreTurns(g, N, start, conns)
<1> USE DEF AreTurns
<1> DEFINE Has(m) == \E g : g = [n \in 0..m |-> IF n = 0 THEN start ELSE Turn(conns, g[n - 1])]
           Lacking == {m \in Nat : ~Has(m)}
<1>1. SUFFICES Lacking = {}
  BY <1>1
<1>2. SUFFICES ASSUME Lacking # {} PROVE FALSE
  OBVIOUS
<1>3. PICK m \in Lacking : \A l \in Lacking : m <= l
  <2>1. Lacking \subseteq Nat
    OBVIOUS
  <2> HIDE DEF Lacking
  <2> QED
    BY <1>2, <2>1, SmallestOf
<1>4. m \in Nat /\ ~Has(m)
  OBVIOUS
<1>5. CASE m = 0
  <2> DEFINE g == [n \in 0..0 |-> start]
  <2>1. g = [n \in 0..0 |-> IF n = 0 THEN start ELSE Turn(conns, g[n - 1])]
    OBVIOUS
  <2> HIDE DEF g
  <2> QED
    BY <1>4, <1>5, <2>1
<1>6. CASE m # 0
  <2>1. m - 1 \in Nat /\ ~(m <= m - 1)
    BY <1>4, <1>6
  <2>2. Has(m - 1)
    BY <1>3, <2>1
  <2>3. PICK g : g = [n \in 0..(m - 1) |-> IF n = 0 THEN start ELSE Turn(conns, g[n - 1])]
    BY <2>2
  <2>4. \A n \in 0..(m - 1) : g[n] = IF n = 0 THEN start ELSE Turn(conns, g[n - 1])
    BY <2>3
  <2> DEFINE f == [n \in 0..m |-> IF n = m THEN Turn(conns, g[m - 1]) ELSE g[n]]
  <2>5. ASSUME NEW n \in 0..m
        PROVE  f[n] = IF n = 0 THEN start ELSE Turn(conns, f[n - 1])
    <3>1. n \in Nat /\ n <= m /\ (n # m => n \in 0..(m - 1))
      BY <1>4
    <3>2. n # 0 => n - 1 \in 0..m /\ n - 1 # m /\ (n = m => n - 1 = m - 1)
      BY <1>4, <3>1
    <3>3. CASE n = m
      BY <1>6, <3>2, <3>3
    <3>4. CASE n # m
      BY <2>4, <3>1, <3>2, <3>4
    <3> QED
      BY <3>3, <3>4
  <2>6. DOMAIN f = 0..m /\ f = [n \in 0..m |-> f[n]]
    OBVIOUS
  <2> HIDE DEF f
  <2>7. f = [n \in 0..m |-> IF n = 0 THEN start ELSE Turn(conns, f[n - 1])]
    BY <2>5, <2>6
  <2> QED
    BY <1>4, <2>7
<1> QED
  BY <1>5, <1>6

\* What the loop leaves: the queue is empty, for there is a turn for every step.
LEMMA WalkEnds ==
    ASSUME NEW S, NEW steps \in Seq(S), Distinct(steps), NEW C, NEW conns \in Seq(C),
           Among(Range(steps), conns)
    PROVE  \E w : /\ OnWalk(Range(steps), conns, w)
                  /\ w.queue = <<>>
                  /\ w.ordered = Dequeued(steps, conns)
<1> DEFINE R == Range(steps)
           N == Len(steps)
           start == Start(steps, conns)
<1>1. N \in Nat /\ DOMAIN steps = 1..N
  OBVIOUS
<1>2. PICK g : /\ g = [n \in 0..N |-> IF n = 0 THEN start ELSE Turn(conns, g[n - 1])]
               /\ g[N].ordered = Dequeued(steps, conns)
  <2> DEFINE h == CHOOSE g : g = [n \in 0..N |-> IF n = 0 THEN start ELSE Turn(conns, g[n - 1])]
  <2>1. h = [n \in 0..N |-> IF n = 0 THEN start ELSE Turn(conns, h[n - 1])]
    <3> HIDE DEF start, N
    <3>1. \E g : AreTurns(g, N, start, conns)
      BY <1>1, TurnsExist
    <3> QED
      BY <3>1 DEF AreTurns
  <2>2. h[N].ordered = Dequeued(steps, conns)
    BY DEF Dequeued
  <2> HIDE DEF h
  <2> QED
    BY <2>1, <2>2
<1>3. g[0] = start /\ \A n \in 1..N : g[n] = Turn(conns, g[n - 1])
  <2> HIDE DEF start, N
  <2>1. \A n \in 0..N : g[n] = IF n = 0 THEN start ELSE Turn(conns, g[n - 1])
    BY <1>2
  <2>2. 0 \in 0..N /\ \A n \in 1..N : n \in 0..N /\ n # 0
    BY <1>1
  <2> QED
    BY <2>1, <2>2
<1> DEFINE Good(n) == /\ OnWalk(R, conns, g[n])
                      /\ g[n].queue = <<>> \/ Len(g[n].ordered) = n
           Bad == {n \in 0..N : ~Good(n)}
<1>4. Good(0)
  <2>1. g[0].ordered = <<>>
    BY <1>3 DEF Start
  <2>2. Len(g[0].ordered) = 0
    BY <2>1
  <2> QED
    BY <1>3, <2>2, StartsOnWalk
<1>5. ASSUME NEW n \in 1..N, Good(n - 1) PROVE Good(n)
  <2>1. g[n] = Turn(conns, g[n - 1]) /\ n - 1 \in Nat /\ (n - 1) + 1 = n
    BY <1>1, <1>3
  <2>5. Among(R, conns) /\ OnWalk(R, conns, g[n - 1])
    BY <1>5
  <2>6. g[n - 1].queue # <<>> => Len(g[n - 1].ordered) = n - 1
    BY <1>5
  <2> HIDE DEF R, N
  <2>2. OnWalk(R, conns, g[n])
    BY <2>1, <2>5, TurnsOnWalk
  <2>3. CASE g[n - 1].queue = <<>>
    <3>1. g[n] = g[n - 1]
      BY <2>1, <2>3, <2>5, TurnsOnWalk
    <3> QED
      BY <2>2, <2>3, <3>1
  <2>4. CASE g[n - 1].queue # <<>>
    <3>1. Len(g[n].ordered) = Len(g[n - 1].ordered) + 1
      BY <2>1, <2>4, <2>5, TurnsOnWalk
    <3>2. Len(g[n - 1].ordered) = n - 1
      BY <2>4, <2>6
    <3>3. Len(g[n].ordered) = n
      BY <2>1, <3>1, <3>2
    <3> QED
      BY <2>2, <3>3
  <2> QED
    BY <2>3, <2>4
<1>6. Good(N)
  <2> HIDE DEF Good, N
  <2>1. SUFFICES ASSUME Bad # {} PROVE FALSE
    <3>1. N \in 0..N
      BY <1>1
    <3> QED
      BY <2>1, <3>1
  <2>2. Bad \subseteq Nat
    BY <1>1
  <2>3. PICK n \in Bad : \A m \in Bad : n <= m
    <3> HIDE DEF Bad
    <3> QED
      BY <2>1, <2>2, SmallestOf
  <2>4. n # 0
    BY <1>4, <2>3
  <2>5. n \in 1..N /\ n - 1 \in 0..N /\ ~(n <= n - 1)
    BY <1>1, <2>3, <2>4
  <2>6. Good(n - 1)
    BY <2>3, <2>5
  <2> QED
    BY <1>5, <2>3, <2>5, <2>6
<1>7. g[N].queue = <<>>
  <2> DEFINE q == g[N].queue
             o == g[N].ordered
  <2>1. SUFFICES ASSUME q # <<>> PROVE FALSE
    BY <2>1
  <2>2. /\ q \in Seq(R) /\ o \in Seq(R) /\ Distinct(o)
        /\ Range(q) \intersect Range(o) = {} /\ Len(o) = N
    <3>1. OnWalk(R, conns, g[N]) /\ Len(o) = N
      BY <1>6, <2>1
    <3> QED
      BY <3>1 DEF OnWalk
  <2>3. Head(q) \in R /\ Head(q) \notin Range(o)
    <3> HIDE DEF q, o, R
    <3>1. Head(q) \in Range(q)
      BY <2>1, <2>2, HeadAndTail
    <3> QED
      BY <2>1, <2>2, <3>1, HeadAndTail
  <2>4. Range(o) = R
    <3> HIDE DEF q, o
    <3> QED
      BY <2>2, LongEnough
  <2> QED
    BY <2>3, <2>4
<1> QED
  BY <1>2, <1>6, <1>7
-----------------------------------------------------------------------------
(* The order. *)

LEMMA OrderedIs ==
    ASSUME NEW steps, NEW conns, Among(Range(steps), conns),
           NEW w, OnWalk(Range(steps), conns, w), w.queue = <<>>
    PROVE  Range(w.ordered) = Range(steps) \ HeldUp(steps, conns)
<1> DEFINE R == Range(steps)
           o == w.ordered
<1>1. /\ \A t \in R : InDegreeIsZero(conns, t, Range(o)) <=> t \in Range(o)
      /\ \A k \in DOMAIN o, c \in DOMAIN conns :
            conns[c].to = o[k] => \E i \in DOMAIN o : i < k /\ o[i] = conns[c].from
      /\ DOMAIN o \subseteq Nat /\ Range(o) \subseteq R
  <2>1. Range(w.queue) = {}
    BY DEF Range
  <2>2. o \in Seq(R)
    BY DEF OnWalk
  <2>3. DOMAIN o \subseteq Nat /\ Range(o) \subseteq R
    <3> HIDE DEF o, R
    <3> QED
      BY <2>2 DEF Range
  <2> QED
    BY <2>1, <2>3 DEF OnWalk
<1> HIDE DEF o
\* The first of a held up set to be ordered would have another of them before it.
<1>2. ASSUME NEW T \in SUBSET R, \A t \in T : \E s \in T : Connected(conns, s, t),
             NEW x \in Range(o), x \in T
      PROVE  FALSE
  <2> DEFINE K == {k \in DOMAIN o : o[k] \in T}
  <2>1. K # {} /\ K \subseteq Nat
    BY <1>1, <1>2 DEF Range
  <2>2. PICK k \in K : \A l \in K : k <= l
    <3> HIDE DEF K
    <3> QED
      BY <2>1, SmallestOf
  <2>3. PICK c \in DOMAIN conns : conns[c].from \in T /\ conns[c].to = o[k]
    BY <1>2, <2>2 DEF Connected
  <2>4. PICK i \in DOMAIN o : i < k /\ o[i] = conns[c].from
    BY <1>1, <2>2, <2>3
  <2>5. i \in K /\ i \in Nat /\ k \in Nat
    BY <1>1, <2>2, <2>3, <2>4
  <2> QED
    BY <2>2, <2>4, <2>5
\* What is never ordered waits for something that is not.
<1>3. ASSUME NEW t \in R \ Range(o) PROVE \E s \in R \ Range(o) : Connected(conns, s, t)
  <2>1. PICK c \in DOMAIN conns : conns[c].to = t /\ conns[c].from \notin Range(o)
    BY <1>1 DEF InDegreeIsZero
  <2> QED
    BY <2>1 DEF Among, Connected
<1> HIDE DEF R
<1>4. R \ Range(o) \subseteq HeldUp(steps, conns)
  BY <1>3 DEF HeldUp, R
<1>5. Range(o) \intersect HeldUp(steps, conns) = {}
  BY <1>2 DEF HeldUp, R
<1> QED
  BY <1>1, <1>4, <1>5 DEF o, R

\* The order of the walk is right for every workflow: whatever its steps and connections,
\* _topological_sort() returns every step once, a step that no cycle holds up behind all that
\* leads to it, and the others last, in the order of the table.
THEOREM OrderIsRight ==
    ASSUME NEW S, NEW steps \in Seq(S), Distinct(steps), NEW C, NEW conns \in Seq(C)
    PROVE  IsSortOf(TopologicalSort(steps, conns), steps, conns)
<1> DEFINE R == Range(steps)
           inner == Inner(steps, conns)
           held == HeldUp(steps, conns)
<1>1. inner \in Seq(C) /\ Among(R, inner)
      /\ \A s, t \in R : Connected(inner, s, t) <=> Connected(conns, s, t)
  BY InnerIs DEF Among
<1>2. HeldUp(steps, inner) = held /\ held \subseteq R
  <2> HIDE DEF inner
  <2> QED
    BY <1>1 DEF HeldUp
<1> HIDE DEF inner
<1>3. PICK w : OnWalk(R, inner, w) /\ w.queue = <<>> /\ w.ordered = Dequeued(steps, inner)
  BY <1>1, WalkEnds
<1> DEFINE o == w.ordered
           P == {i \in DOMAIN steps : steps[i] \in held}
           p == Picked(steps, P)
           order == TopologicalSort(steps, conns)
<1>4. /\ o \in Seq(R) /\ Distinct(o) /\ Range(o) = R \ held
      /\ \A k \in DOMAIN o, c \in DOMAIN inner :
            inner[c].to = o[k] => \E i \in DOMAIN o : i < k /\ o[i] = inner[c].from
  <2>1. Range(o) = R \ held
    BY <1>1, <1>2, <1>3, OrderedIs
  <2> QED
    BY <1>3, <2>1 DEF OnWalk
<1> HIDE DEF o, held
<1>5. order = o \o p
  <2>1. {i \in DOMAIN steps : steps[i] \notin Range(o)} = P
    BY <1>4 DEF Range
  <2> QED
    BY <1>3, <2>1 DEF TopologicalSort, o, inner
<1>6. steps \in Seq(R) /\ Len(steps) \in Nat
  <2>1. DOMAIN steps = 1..Len(steps) /\ Len(steps) \in Nat /\ \A k \in 1..Len(steps) : steps[k] \in R
    BY DEF Range
  <2>2. steps \in [1..Len(steps) -> R]
    <3> HIDE DEF R
    <3> QED
      BY <2>1
  <2> QED
    BY <2>1, <2>2
<1>7. /\ p \in Seq(R) /\ Distinct(p) /\ Range(p) = held
      /\ Len(p) = Cardinality(P) /\ DOMAIN p = 1..Cardinality(P) /\ Cardinality(P) \in Nat
  <2>1. P \subseteq DOMAIN steps /\ \A i, j \in P : steps[i] = steps[j] => i = j
    BY DEF Distinct
  <2>2. {steps[i] : i \in P} = held
    BY <1>2 DEF Range
  <2> HIDE DEF P, R
  <2>3. /\ p \in Seq(R) /\ Range(p) = {steps[i] : i \in P} /\ DOMAIN p = 1..Cardinality(P)
        /\ Len(p) = Cardinality(P) /\ Cardinality(P) \in Nat
        /\ \A k, l \in 1..Cardinality(P) : p[k] = p[l] => k = l
    BY <1>6, <2>1, PickedIs
  <2> QED
    BY <2>2, <2>3 DEF Distinct
<1> HIDE DEF p, order, P
<1>8. /\ order \in Seq(R) /\ Distinct(order) /\ Range(order) = R
      /\ Len(order) = Len(o) + Len(p)
      /\ \A k \in DOMAIN o : k \in DOMAIN order /\ order[k] = o[k]
      /\ \A k \in DOMAIN p : order[Len(o) + k] = p[k]
  <2>1. Range(o) \intersect Range(p) = {} /\ Range(o) \union Range(p) = R
    BY <1>2, <1>4, <1>7
  <2>2. o \in Seq(R) /\ p \in Seq(R) /\ Distinct(o) /\ Distinct(p)
    BY <1>4, <1>7
  <2> HIDE DEF R
  <2>3. /\ order \in Seq(R) /\ Range(order) = Range(o) \union Range(p)
        /\ Len(order) = Len(o) + Len(p)
        /\ \A k \in DOMAIN o : k \in DOMAIN order /\ order[k] = o[k]
        /\ \A k \in DOMAIN p : order[Len(o) + k] = p[k]
    BY <1>5, <2>2, Joined
  <2>4. Distinct(order)
    BY <1>5, <2>1, <2>2, Joined
  <2> QED
    BY <2>1, <2>3, <2>4
<1>9. Len(order) = Len(steps)
  BY <1>8, LongEnough
<1>10. order \in [1..Len(steps) -> R] /\ Range(order) = R
  <2> HIDE DEF R
  <2> QED
    BY <1>8, <1>9
<1>11. ASSUME NEW i \in DOMAIN order, NEW k \in DOMAIN order,
              Connected(conns, order[i], order[k]), order[k] \notin held
       PROVE  i < k
  <2>1. order[i] \in R /\ order[k] \in R
    BY <1>10
  <2>2. PICK c \in DOMAIN inner : inner[c].from = order[i] /\ inner[c].to = order[k]
    BY <1>1, <1>11, <2>1 DEF Connected
  <2>3. PICK l \in DOMAIN o : o[l] = order[k]
    BY <1>4, <1>11, <2>1 DEF Range
  <2>4. l = k
    BY <1>8, <2>3 DEF Distinct
  <2>5. PICK j \in DOMAIN o : j < l /\ o[j] = order[i]
    BY <1>4, <2>2, <2>3
  <2>6. j = i
    BY <1>8, <2>5 DEF Distinct
  <2> QED
    BY <2>4, <2>5, <2>6
<1>12. /\ Len(o) \in 0..Len(steps) /\ Len(steps) = Len(o) + Cardinality(P)
       /\ \A k \in 1..Cardinality(P) : order[Len(o) + k] = p[k]
  <2>1. Len(o) \in Nat
    <3> HIDE DEF R
    <3> QED
      BY <1>4
  <2>2. Len(steps) = Len(o) + Cardinality(P)
    BY <1>7, <1>8, <1>9
  <2>3. Len(o) \in 0..Len(steps)
    BY <1>6, <1>7, <2>1, <2>2
  <2> QED
    BY <1>7, <1>8, <2>2, <2>3
<1> QED
  BY <1>10, <1>11, <1>12 DEF IsSortOf, P, p, held, order
=============================================================================
