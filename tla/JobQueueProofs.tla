--------------------------- MODULE JobQueueProofs ---------------------------
(***************************************************************************)
(* Theorems about JobQueue for every number of jobs, keys, requests and    *)
(* threads and every bound, and their proofs.                              *)
(***************************************************************************)
EXTENDS JobQueue, FiniteSetTheorems, TLAPS

-----------------------------------------------------------------------------
(* Type correctness. *)

LEMMA InitTyped == Init => TypeOK
BY QueueAssumption DEF Init, TypeOK, Row, NewRow, Thread, Dead, Client, Idle,
                       Types, Statuses, Terminal

LEMMA StartTyped == ASSUME TypeOK, Start PROVE TypeOK'
<1>1. threads' \in [Threads -> Thread]
  BY QueueAssumption DEF TypeOK, Start, Thread, Polling
<1> QED
  BY <1>1 DEF TypeOK, Start, history

LEMMA ClientTyped == ASSUME TypeOK, ClientStep PROVE TypeOK'
<1>1. ASSUME NEW c \in Clients, NEW k \in Keys \union {NoKey}, NEW type \in Types,
             SubmitLookup(c, k, type)
      PROVE  TypeOK'
  <2>1. clients' \in [Clients -> Client]
    BY <1>1 DEF TypeOK, SubmitLookup, Client, Types
  <2> QED
    BY <1>1, <2>1 DEF TypeOK, SubmitLookup, history
<1>2. ASSUME NEW c \in Clients, NEW j \in Jobs, SubmitInsert(c, j)
      PROVE  TypeOK'
  <2>1. clients[c].type \in Types /\ clients[c].key \in Keys \union {NoKey} /\ clients[c].stamp \in Nat
    BY DEF TypeOK, Client
  <2>2. wf_jobs' \in [Jobs -> Row]
    BY <1>2, <2>1 DEF TypeOK, SubmitInsert, Row, NewRow, Statuses
  <2>3. clients' \in [Clients -> Client]
    BY <1>2 DEF TypeOK, SubmitInsert, Client, Idle, Types
  <2> QED
    BY <1>2, <2>2, <2>3 DEF TypeOK, SubmitInsert, history
<1>3. ASSUME NEW j \in Jobs, CancelJob(j)
      PROVE  TypeOK'
  <2>1. wf_jobs' \in [Jobs -> Row]
    BY <1>3 DEF TypeOK, CancelJob, Row, Statuses, Terminal
  <2> QED
    BY <1>3, <2>1 DEF TypeOK, CancelJob
<1> QED
  BY <1>1, <1>2, <1>3 DEF ClientStep

\* The steps of a thread around the loop's head, without a job: the table is left alone.
LoopStep(t) == LoopExit(t) \/ LoopHead(t) \/ ClaimNothing(t)

LEMMA LoopShape ==
    ASSUME TypeOK, NEW t \in Threads, LoopStep(t)
    PROVE  /\ threads' \in [Threads -> Thread] /\ faults' \in [crash : Nat, stop : Nat, db : Nat]
           /\ UNCHANGED <<wf_jobs, clients, worker, clock, claims, runs, acked>>
           /\ threads[t].job = NoJob /\ threads'[t].job = NoJob
           /\ threads[t].pc \notin Busy /\ threads'[t].pc \notin Busy
           /\ \A u \in Threads \ {t} : threads'[u] = threads[u]
<1>0. threads \in [Threads -> Thread] /\ threads[t] \in Thread
      /\ faults \in [crash : Nat, stop : Nat, db : Nat]
  BY DEF TypeOK
<1>1. CASE LoopExit(t)
  BY <1>0, <1>1 DEF LoopExit, Dead, Thread, Busy, history
<1>2. CASE LoopHead(t)
  BY <1>0, <1>2 DEF LoopHead, Thread, Busy, history
<1>3. CASE ClaimNothing(t)
  <2>1. faults' \in [crash : Nat, stop : Nat, db : Nat]
    BY <1>0, <1>3 DEF ClaimNothing
  <2> QED
    BY <1>0, <1>3, <2>1 DEF ClaimNothing, Polling, Thread, Busy, history
<1> QED
  BY <1>1, <1>2, <1>3 DEF LoopStep

\* The writes of a thread that holds a job keep the table typed.
LEMMA ThreadTyped == ASSUME TypeOK, NEW t \in Threads, ThreadStep(t) PROVE TypeOK'
<1>0. threads[t] \in Thread /\ threads \in [Threads -> Thread]
  BY DEF TypeOK
<1>1. CASE LoopStep(t)
  BY <1>1, LoopShape DEF TypeOK
<1>2. ASSUME NEW j \in Jobs, ClaimNextJob(t, j) PROVE TypeOK'
  <2>1. wf_jobs' \in [Jobs -> Row]
    BY <1>2 DEF ClaimNextJob, TypeOK, Row, Statuses
  <2>2. threads' \in [Threads -> Thread]
    BY <1>0, <1>2 DEF ClaimNextJob, Thread, Busy
  <2>3. claims' \in [Jobs -> Nat]
    BY <1>2 DEF ClaimNextJob, TypeOK
  <2> QED
    BY <1>2, <2>1, <2>2, <2>3 DEF ClaimNextJob, TypeOK
<1>3. CASE threads[t].pc \in Busy
  <2> DEFINE j == threads[t].job
  <2>1. j \in Jobs /\ wf_jobs[j] \in Row /\ wf_jobs \in [Jobs -> Row]
    BY <1>0, <1>3 DEF Thread, Busy, TypeOK
  <2> HIDE DEF j
  <2>2. ASSUME NEW pc \in Busy PROVE [threads EXCEPT ![t].pc = pc] \in [Threads -> Thread]
    BY <1>0, <1>3 DEF Thread, Busy
  <2>3. [threads EXCEPT ![t] = Polling] \in [Threads -> Thread]
    BY <1>0 DEF Thread, Polling
  <2>4. {"claimed", "running", "work", "finishing", "failing"} = Busy
    BY DEF Busy
  <2>5. CASE MarkRunning(t)
    <3>1. wf_jobs' \in [Jobs -> Row]
      BY <2>1, <2>5 DEF j, MarkRunning, JobOf, Row, Statuses
    <3> QED
      BY <2>2, <2>4, <2>5, <3>1 DEF MarkRunning, Goto, TypeOK, history
  <2>6. ASSUME NEW n \in 0..MaxTotal, BeginRun(t, n) PROVE TypeOK'
    <3>1. n \in Nat
      BY QueueAssumption
    <3>2. wf_jobs' \in [Jobs -> Row]
      BY <2>1, <2>6, <3>1 DEF j, BeginRun, JobOf, Row
    <3> QED
      BY <2>2, <2>4, <2>6, <3>2 DEF BeginRun, Goto, TypeOK, history
  <2>7. CASE BeginRaises(t)
    BY <2>2, <2>4, <2>7 DEF BeginRaises, Goto, TypeOK, history
  <2>8. ASSUME NEW ok \in BOOLEAN, RunReturns(t, ok) PROVE TypeOK'
    <3>1. wf_jobs' \in [Jobs -> Row]
      BY <2>1, <2>8 DEF j, RunReturns, JobOf, Row
    <3>2. threads' \in [Threads -> Thread]
      BY <2>2, <2>4, <2>8 DEF RunReturns, Goto
    <3>3. runs' \in [Jobs -> Nat]
      BY <2>1, <2>8 DEF j, RunReturns, JobOf, TypeOK
    <3> QED
      BY <2>8, <3>1, <3>2, <3>3 DEF RunReturns, TypeOK
  <2>9. CASE RunRaises(t)
    <3>1. runs' \in [Jobs -> Nat]
      BY <2>1, <2>9 DEF j, RunRaises, JobOf, TypeOK
    <3> QED
      BY <2>2, <2>4, <2>9, <3>1 DEF RunRaises, Goto, TypeOK
  <2>10. CASE WriteCompleted(t)
    <3>1. wf_jobs' \in [Jobs -> Row]
      BY <2>1, <2>10 DEF j, WriteCompleted, JobOf, Row, Statuses, Terminal
    <3> QED
      BY <2>3, <2>10, <3>1 DEF WriteCompleted, Release, TypeOK, history
  <2>11. CASE WriteFailed(t)
    <3>1. wf_jobs' \in [Jobs -> Row]
      BY <2>1, <2>11 DEF j, WriteFailed, JobOf, Row, Statuses, Terminal
    <3> QED
      BY <2>3, <2>11, <3>1 DEF WriteFailed, Release, TypeOK, history
  <2>12. CASE WriteRefused(t)
    <3>1. threads' \in [Threads -> Thread]
      BY <2>2, <2>3, <2>4, <2>12 DEF WriteRefused, Goto, Release
    <3> QED
      BY <2>12, <3>1 DEF WriteRefused, TypeOK, history
  <2>13. ~LoopStep(t) /\ \A i \in Jobs : ~ClaimNextJob(t, i)
    BY <1>3 DEF LoopStep, LoopExit, LoopHead, ClaimNothing, ClaimNextJob, Busy
  <2> QED
    BY <2>5, <2>6, <2>7, <2>8, <2>9, <2>10, <2>11, <2>12, <2>13 DEF ThreadStep, LoopStep
<1>4. CASE threads[t].pc \notin Busy
  BY <1>1, <1>2, <1>4 DEF ThreadStep, LoopStep, Busy, MarkRunning, BeginRun, BeginRaises, RunReturns,
                          RunRaises, WriteCompleted, WriteFailed, WriteRefused
<1> QED
  BY <1>3, <1>4

LEMMA NextTyped == ASSUME TypeOK, [Next]_vars PROVE TypeOK'
<1>1. CASE GetWorker
  BY <1>1, StartTyped DEF GetWorker
<1>2. CASE Restart
  BY <1>2, StartTyped DEF Restart
<1>3. CASE Stop
  <2>1. worker' \in [exists : BOOLEAN, running : BOOLEAN]
    BY <1>3 DEF Stop, TypeOK
  <2>2. faults' \in [crash : Nat, stop : Nat, db : Nat]
    BY <1>3 DEF Stop, TypeOK
  <2> QED
    BY <1>3, <2>1, <2>2 DEF Stop, TypeOK, history
<1>4. CASE Crash
  <2>1. threads' \in [Threads -> Thread]
    BY <1>4 DEF Crash, Thread, Dead
  <2>2. clients' \in [Clients -> Client]
    BY <1>4 DEF Crash, Client, Idle, Types
  <2>3. faults' \in [crash : Nat, stop : Nat, db : Nat]
    BY <1>4 DEF Crash, TypeOK
  <2> QED
    BY <1>4, <2>1, <2>2, <2>3 DEF Crash, TypeOK, history
<1>5. CASE ClientStep
  BY <1>5, ClientTyped
<1>6. CASE \E t \in Threads : ThreadStep(t)
  BY <1>6, ThreadTyped
<1>7. CASE UNCHANGED vars
  BY <1>7 DEF vars, TypeOK
<1> QED
  BY <1>1, <1>2, <1>3, <1>4, <1>5, <1>6, <1>7 DEF Next

\* Every reachable state is typed: the schema and the threads' locals are never left.
THEOREM TypeCorrect == Spec => []TypeOK
<1>1. Init => TypeOK
  BY InitTyped
<1>2. TypeOK /\ [Next]_vars => TypeOK'
  BY NextTyped
<1> QED
  BY <1>1, <1>2, PTL DEF Spec

-----------------------------------------------------------------------------
(* The inductive invariant: what holds of each row, and of each thread and the
   row of the job it holds. *)

RowInv(j) ==
    /\ wf_jobs[j].result <=> wf_jobs[j].status = "completed"
    /\ wf_jobs[j].error <=> wf_jobs[j].status = "failed"
    /\ wf_jobs[j].progress <= wf_jobs[j].total
    /\ wf_jobs[j].status = "completed" /\ wf_jobs[j].type = "workflow_run"
          => wf_jobs[j].progress = wf_jobs[j].total
    /\ runs[j] <= claims[j]
    /\ claims[j] <= 1
    /\ wf_jobs[j].status \in {"absent", "queued"} => claims[j] = 0
    /\ wf_jobs[j].status \notin {"absent", "queued", "cancelled"} => claims[j] = 1

HolderInv(t) ==
    threads[t].pc \in Busy =>
        /\ wf_jobs[threads[t].job].status \in {"claimed", "running", "cancelled"}
        /\ claims[threads[t].job] = 1
        /\ threads[t].pc \in {"claimed", "running", "work"} => runs[threads[t].job] = 0
        /\ threads[t].pc = "finishing" /\ wf_jobs[threads[t].job].type = "workflow_run"
              => wf_jobs[threads[t].job].progress = wf_jobs[threads[t].job].total

IInv ==
    /\ TypeOK
    /\ ExclusiveClaim
    /\ \A j \in Jobs : RowInv(j)
    /\ \A t \in Threads : HolderInv(t)

LEMMA BusyHolds ==
    ASSUME TypeOK, NEW t \in Threads
    PROVE  /\ threads[t].pc \in Busy => threads[t].job \in Jobs /\ threads[t].job # NoJob
           /\ threads[t].pc \notin Busy => threads[t].job = NoJob
BY QueueAssumption DEF TypeOK, Thread, Busy

LEMMA InitInv == Init => IInv
<1> SUFFICES ASSUME Init PROVE IInv
  OBVIOUS
<1>1. TypeOK
  BY InitTyped
<1>2. ExclusiveClaim
  BY DEF Init, ExclusiveClaim, Dead
<1>3. ASSUME NEW j \in Jobs PROVE RowInv(j)
  BY DEF Init, RowInv, NewRow
<1>4. ASSUME NEW t \in Threads PROVE HolderInv(t)
  BY DEF Init, HolderInv, Dead, Busy
<1> QED
  BY <1>1, <1>2, <1>3, <1>4 DEF IInv

\* Steps that only end, start or reset threads and requests.
LEMMA IdleThreadsInv ==
    ASSUME IInv, TypeOK', UNCHANGED <<wf_jobs, claims, runs>>,
           \A t \in Threads : threads'[t] = threads[t] \/ threads'[t].pc \notin Busy
    PROVE  IInv'
<1>1. \A t \in Threads : threads'[t] = threads[t] \/ threads'[t].job = NoJob
  BY DEF TypeOK, Thread, Busy
<1>2. ExclusiveClaim'
  BY <1>1 DEF ExclusiveClaim, IInv
<1>3. ASSUME NEW t \in Threads PROVE HolderInv(t)'
  BY DEF HolderInv, IInv
<1> QED
  BY <1>2, <1>3 DEF IInv, RowInv

\* Steps of a thread that holds a job: they touch the thread and the row it holds.
LEMMA HolderStepInv ==
    ASSUME IInv, TypeOK', NEW t \in Threads, threads[t].pc \in Busy,
           NEW j \in Jobs, j = threads[t].job,
           \A u \in Threads \ {t} : threads'[u] = threads[u],
           threads'[t].job \in {j, NoJob},
           \A i \in Jobs \ {j} :
               wf_jobs'[i] = wf_jobs[i] /\ claims'[i] = claims[i] /\ runs'[i] = runs[i],
           RowInv(j)', HolderInv(t)'
    PROVE  IInv'
<1>1. TypeOK /\ ExclusiveClaim
  BY DEF IInv
<1>2. ExclusiveClaim'
  BY <1>1 DEF ExclusiveClaim
<1>3. ASSUME NEW i \in Jobs PROVE RowInv(i)'
  <2>1. CASE i = j
    BY <2>1
  <2>2. CASE i # j
    BY <2>2 DEF IInv, RowInv
  <2> QED
    BY <2>1, <2>2
<1>4. ASSUME NEW u \in Threads PROVE HolderInv(u)'
  <2>1. CASE u = t
    BY <2>1
  <2>2. CASE u # t /\ threads[u].pc \in Busy
    <3>1. threads[u].job \in Jobs \ {j}
      BY <1>1, <2>2, BusyHolds DEF ExclusiveClaim
    <3> QED
      BY <2>2, <3>1 DEF HolderInv, IInv
  <2>3. CASE u # t /\ threads[u].pc \notin Busy
    BY <2>3 DEF HolderInv
  <2> QED
    BY <2>1, <2>2, <2>3
<1> QED
  BY <1>2, <1>3, <1>4 DEF IInv

LEMMA ClientInv == ASSUME IInv, TypeOK', ClientStep PROVE IInv'
<1>0. TypeOK
  BY DEF IInv
<1>1. ASSUME NEW c \in Clients, NEW k \in Keys \union {NoKey}, NEW type \in Types,
             SubmitLookup(c, k, type)
      PROVE  IInv'
  BY <1>1, IdleThreadsInv DEF SubmitLookup, history
<1>2. ASSUME NEW c \in Clients, NEW j \in Jobs, SubmitInsert(c, j)
      PROVE  IInv'
  <2>1. RowInv(j)'
    BY <1>0, <1>2 DEF SubmitInsert, history, NewRow, IInv, RowInv, TypeOK
  <2>2. ASSUME NEW i \in Jobs, i # j PROVE RowInv(i)'
    BY <1>0, <1>2, <2>2 DEF SubmitInsert, history, IInv, RowInv, TypeOK
  <2>3. ASSUME NEW t \in Threads PROVE HolderInv(t)'
    <3>1. threads[t].pc \in Busy => threads[t].job # j
      BY <1>2 DEF SubmitInsert, IInv, HolderInv
    <3> QED
      BY <1>0, <1>2, <3>1, BusyHolds DEF SubmitInsert, history, IInv, HolderInv, TypeOK
  <2> QED
    BY <1>2, <2>1, <2>2, <2>3 DEF SubmitInsert, IInv, ExclusiveClaim
<1>3. ASSUME NEW j \in Jobs, CancelJob(j)
      PROVE  IInv'
  <2>1. RowInv(j)'
    BY <1>0, <1>3 DEF CancelJob, Live, Terminal, IInv, RowInv, TypeOK, Row
  <2>2. ASSUME NEW i \in Jobs, i # j PROVE RowInv(i)'
    BY <1>0, <1>3, <2>2 DEF CancelJob, IInv, RowInv, TypeOK
  <2>3. ASSUME NEW t \in Threads PROVE HolderInv(t)'
    <3>1. CASE threads[t].job = j
      BY <1>0, <1>3, <3>1, BusyHolds DEF CancelJob, IInv, HolderInv, TypeOK, Row
    <3>2. CASE threads[t].job # j
      BY <1>0, <1>3, <3>2, BusyHolds DEF CancelJob, IInv, HolderInv, TypeOK
    <3> QED
      BY <3>1, <3>2
  <2> QED
    BY <1>3, <2>1, <2>2, <2>3 DEF CancelJob, IInv, ExclusiveClaim
<1> QED
  BY <1>1, <1>2, <1>3 DEF ClientStep

\* A claim takes a row nobody holds, because every held row has left 'queued'.
LEMMA ClaimInv ==
    ASSUME IInv, TypeOK', NEW t \in Threads, NEW j \in Jobs, ClaimNextJob(t, j)
    PROVE  IInv'
<1>0. TypeOK /\ wf_jobs[j].status = "queued" /\ threads[t].job = NoJob
  BY BusyHolds DEF IInv, ClaimNextJob, Oldest, Queued, Busy
<1>1. ASSUME NEW u \in Threads PROVE threads[u].job # j
  <2>1. CASE threads[u].pc \in Busy
    BY <1>0, <2>1 DEF IInv, HolderInv
  <2>2. CASE threads[u].pc \notin Busy
    BY <1>0, <2>2, BusyHolds, QueueAssumption
  <2> QED
    BY <2>1, <2>2
<1>2. ExclusiveClaim'
  BY <1>0, <1>1 DEF ClaimNextJob, ExclusiveClaim, IInv, TypeOK
<1>3. RowInv(j)'
  BY <1>0 DEF ClaimNextJob, IInv, RowInv, TypeOK, Row
<1>4. ASSUME NEW i \in Jobs, i # j PROVE RowInv(i)'
  BY <1>0, <1>4 DEF ClaimNextJob, IInv, RowInv, TypeOK
<1>5. HolderInv(t)'
  BY <1>0 DEF ClaimNextJob, HolderInv, IInv, RowInv, TypeOK, Row
<1>6. ASSUME NEW u \in Threads, u # t PROVE HolderInv(u)'
  BY <1>0, <1>1, <1>6, BusyHolds DEF ClaimNextJob, HolderInv, IInv, TypeOK
<1> QED
  BY <1>2, <1>3, <1>4, <1>5, <1>6 DEF IInv

LEMMA ThreadInv ==
    ASSUME IInv, TypeOK', NEW t \in Threads, ThreadStep(t)
    PROVE  IInv'
<1>0. TypeOK
  BY DEF IInv
<1>1. CASE LoopStep(t)
  BY <1>0, <1>1, LoopShape, IdleThreadsInv
<1>2. CASE \E j \in Jobs : ClaimNextJob(t, j)
  BY <1>2, ClaimInv
<1>3. CASE threads[t].pc \in Busy
  <2>0. PICK j \in Jobs : j = threads[t].job
    BY <1>0, <1>3, BusyHolds
  <2>1. /\ j = threads[t].job
        /\ wf_jobs \in [Jobs -> Row] /\ wf_jobs[j] \in Row
        /\ threads \in [Threads -> Thread] /\ threads[t] \in Thread
        /\ claims \in [Jobs -> Nat] /\ runs \in [Jobs -> Nat]
        /\ claims[j] \in Nat /\ runs[j] \in Nat
    BY <1>0, <2>0 DEF TypeOK
  <2>2. RowInv(j) /\ HolderInv(t)
    BY <2>1 DEF IInv
  <2> USE DEF history, JobOf
  <2>3. CASE MarkRunning(t)
    <3>1. RowInv(j)'
      BY <1>3, <2>1, <2>2, <2>3 DEF MarkRunning, RowInv, HolderInv, Row
    <3>2. HolderInv(t)'
      BY <1>3, <2>1, <2>2, <2>3 DEF MarkRunning, Goto, HolderInv, Busy, Row
    <3> QED
      BY <1>3, <2>1, <2>3, <3>1, <3>2, HolderStepInv DEF MarkRunning, Goto
  <2>4. ASSUME NEW n \in 0..MaxTotal, BeginRun(t, n) PROVE IInv'
    <3>0. n \in Nat
      BY QueueAssumption
    <3>1. RowInv(j)'
      BY <1>3, <2>1, <2>2, <2>4, <3>0 DEF BeginRun, RowInv, HolderInv, Row
    <3>2. HolderInv(t)'
      BY <1>3, <2>1, <2>2, <2>4 DEF BeginRun, Goto, HolderInv, Busy, Row
    <3> QED
      BY <1>3, <2>1, <2>4, <3>1, <3>2, HolderStepInv DEF BeginRun, Goto
  <2>5. CASE BeginRaises(t)
    <3>1. RowInv(j)'
      BY <2>1, <2>2, <2>5 DEF BeginRaises, RowInv
    <3>2. HolderInv(t)'
      BY <1>3, <2>1, <2>2, <2>5 DEF BeginRaises, Goto, HolderInv, Busy
    <3> QED
      BY <1>3, <2>1, <2>5, <3>1, <3>2, HolderStepInv DEF BeginRaises, Goto
  <2>6. ASSUME NEW ok \in BOOLEAN, RunReturns(t, ok) PROVE IInv'
    <3>1. RowInv(j)'
      BY <1>3, <2>1, <2>2, <2>6 DEF RunReturns, RowInv, HolderInv, Row
    <3>2. HolderInv(t)'
      BY <1>3, <2>1, <2>2, <2>6 DEF RunReturns, Goto, HolderInv, Busy, Row
    <3> QED
      BY <1>3, <2>1, <2>6, <3>1, <3>2, HolderStepInv DEF RunReturns, Goto
  <2>7. CASE RunRaises(t)
    <3>1. RowInv(j)'
      BY <1>3, <2>1, <2>2, <2>7 DEF RunRaises, RowInv, HolderInv
    <3>2. HolderInv(t)'
      BY <1>3, <2>1, <2>2, <2>7 DEF RunRaises, Goto, HolderInv, Busy
    <3> QED
      BY <1>3, <2>1, <2>7, <3>1, <3>2, HolderStepInv DEF RunRaises, Goto
  <2>8. CASE WriteCompleted(t)
    <3>1. RowInv(j)'
      BY <1>3, <2>1, <2>2, <2>8 DEF WriteCompleted, RowInv, HolderInv, Row
    <3>2. HolderInv(t)'
      BY <2>1, <2>8 DEF WriteCompleted, Release, Polling, HolderInv, Busy
    <3> QED
      BY <1>3, <2>1, <2>8, <3>1, <3>2, HolderStepInv DEF WriteCompleted, Release, Polling
  <2>9. CASE WriteFailed(t)
    <3>1. RowInv(j)'
      BY <1>3, <2>1, <2>2, <2>9 DEF WriteFailed, RowInv, HolderInv, Row
    <3>2. HolderInv(t)'
      BY <2>1, <2>9 DEF WriteFailed, Release, Polling, HolderInv, Busy
    <3> QED
      BY <1>3, <2>1, <2>9, <3>1, <3>2, HolderStepInv DEF WriteFailed, Release, Polling
  <2>10. CASE WriteRefused(t)
    <3>1. RowInv(j)'
      BY <2>1, <2>2, <2>10 DEF WriteRefused, RowInv
    <3>2. /\ \A u \in Threads \ {t} : threads'[u] = threads[u]
          /\ threads'[t] = Polling \/ (threads'[t].pc = "failing" /\ threads'[t].job = j)
      <4>1. CASE threads[t].pc = "finishing"
        <5>1. threads' = [threads EXCEPT ![t].pc = "failing"]
          BY <2>10, <4>1 DEF WriteRefused, Goto
        <5> QED
          BY <2>1, <5>1
      <4>2. CASE threads[t].pc # "finishing"
        <5>1. threads' = [threads EXCEPT ![t] = Polling]
          BY <2>10, <4>2 DEF WriteRefused, Release
        <5> QED
          BY <2>1, <5>1
      <4> QED
        BY <4>1, <4>2
    <3>3. HolderInv(t)'
      BY <2>1, <2>2, <1>3, <2>10, <3>2 DEF WriteRefused, Polling, HolderInv, Busy
    <3> QED
      BY <1>3, <2>1, <2>10, <3>1, <3>2, <3>3, HolderStepInv DEF WriteRefused, Polling
  <2> QED
    BY <1>1, <1>2, <2>3, <2>4, <2>5, <2>6, <2>7, <2>8, <2>9, <2>10 DEF ThreadStep, LoopStep
<1>4. CASE threads[t].pc \notin Busy
  BY <1>1, <1>2, <1>4 DEF ThreadStep, LoopStep, Busy, MarkRunning, BeginRun, BeginRaises, RunReturns,
                          RunRaises, WriteCompleted, WriteFailed, WriteRefused
<1> QED
  BY <1>3, <1>4

LEMMA NextInv == ASSUME IInv, [Next]_vars PROVE IInv'
<1>0. TypeOK /\ TypeOK'
  BY NextTyped DEF IInv
<1>1. CASE Start
  BY <1>0, <1>1, IdleThreadsInv DEF Start, Polling, Busy, history
<1>2. CASE Stop
  BY <1>0, <1>2, IdleThreadsInv DEF Stop, history
<1>3. CASE Crash
  BY <1>0, <1>3, IdleThreadsInv DEF Crash, Dead, Busy, history
<1>4. CASE ClientStep
  BY <1>0, <1>4, ClientInv
<1>5. CASE \E t \in Threads : ThreadStep(t)
  BY <1>0, <1>5, ThreadInv
<1>6. CASE UNCHANGED vars
  BY <1>0, <1>6, IdleThreadsInv DEF vars
<1> QED
  BY <1>1, <1>2, <1>3, <1>4, <1>5, <1>6 DEF Next, GetWorker, Restart

LEMMA Inductive == Spec => []IInv
<1>1. IInv /\ [Next]_vars => IInv'
  BY NextInv
<1> QED
  BY InitInv, <1>1, PTL DEF Spec

-----------------------------------------------------------------------------
(* The theorems. *)

\* No two worker threads ever hold the same job (_claim_next_job under BEGIN IMMEDIATE).
THEOREM Exclusive == Spec => []ExclusiveClaim
<1>1. IInv => ExclusiveClaim
  BY DEF IInv
<1> QED
  BY Inductive, <1>1, PTL

\* No job is handed to its executor twice, whatever is cancelled, stopped or killed.
THEOREM AtMostOnce == Spec => []RunAtMostOnce
<1>1. IInv => RunAtMostOnce
  BY DEF IInv, TypeOK, RowInv, RunAtMostOnce
<1> QED
  BY Inductive, <1>1, PTL

\* Result and error columns always agree with the status column.
THEOREM OutcomeCoherent == Spec => []OutcomeMatchesStatus
<1>1. IInv => OutcomeMatchesStatus
  BY DEF IInv, RowInv, OutcomeMatchesStatus
<1> QED
  BY Inductive, <1>1, PTL

\* Progress never exceeds the total, and a completed workflow reaches it.
THEOREM ProgressCoherent == Spec => []ProgressIsSound
<1>1. IInv => ProgressIsSound
  BY DEF IInv, RowInv, ProgressIsSound
<1> QED
  BY Inductive, <1>1, PTL

\* No step touches the row of a completed or failed job: cancel_job() excludes it and
\* no thread holds it any more.
THEOREM SettledIsFinal == Spec => SettledRowIsFinal
<1>1. ASSUME IInv, [Next]_vars, NEW j \in Jobs, wf_jobs[j].status \in {"completed", "failed"}
      PROVE  wf_jobs'[j] = wf_jobs[j]
  <2>0. TypeOK
    BY <1>1 DEF IInv
  <2>1. CASE Start \/ Stop \/ Crash \/ UNCHANGED vars
    BY <2>1 DEF Start, Stop, Crash, vars
  <2>2. CASE ClientStep
    BY <1>1, <2>0, <2>2 DEF ClientStep, SubmitLookup, SubmitInsert, CancelJob, Live, Terminal, TypeOK
  <2>3. ASSUME NEW t \in Threads, ThreadStep(t) PROVE wf_jobs'[j] = wf_jobs[j]
    <3>1. threads[t].pc \in Busy => threads[t].job # j
      BY <1>1 DEF IInv, HolderInv
    <3> QED
      BY <1>1, <2>0, <2>3, <3>1
      DEF ThreadStep, LoopExit, LoopHead, ClaimNothing, ClaimNextJob, Oldest, Queued, MarkRunning,
          BeginRun, BeginRaises, RunReturns, RunRaises, WriteCompleted, WriteFailed, WriteRefused, JobOf, Busy, TypeOK
  <2> QED
    BY <1>1, <2>1, <2>2, <2>3 DEF Next, GetWorker, Restart
<1>2. IInv /\ [Next]_vars
         => [\A j \in Jobs : wf_jobs[j].status \in {"completed", "failed"}
                                => wf_jobs'[j] = wf_jobs[j]]_vars
  BY <1>1
<1> QED
  BY Inductive, <1>2, PTL DEF Spec, SettledRowIsFinal

-----------------------------------------------------------------------------
(* Duplicates of an idempotency key, while submits are served one at a time. *)

\* The strengthening of DuplicateOnlyByRevival.  A cancelled row was cancelled by a request,
\* so a thread's unconditional "running" can only revive an acknowledged cancellation; and
\* between the SELECT and the INSERT of the only client nothing else takes its key.
CancelledIsAcked == \A j \in Jobs : wf_jobs[j].status = "cancelled" => j \in acked

KeyFreeButForRevived ==
    \A c \in Clients, j \in Jobs :
        /\ clients[c].pc = "insert" /\ clients[c].key # NoKey
        /\ Live(j) /\ wf_jobs[j].key = clients[c].key
        => j \in acked

DInv == CancelledIsAcked /\ (Cardinality(Clients) = 1 => KeyFreeButForRevived)
                        /\ DuplicateOnlyByRevival

\* A step that inserts no job and starts no submit, and brings to life acknowledged
\* cancellations only.
LEMMA NoSubmit ==
    ASSUME DInv, acked \subseteq acked',
           \A j \in Jobs : wf_jobs'[j].key = wf_jobs[j].key,
           \A j \in Jobs : wf_jobs'[j].status = "cancelled" => wf_jobs[j].status = "cancelled" \/ j \in acked',
           \A j \in Jobs : Live(j)' => Live(j) \/ j \in acked,
           \A c \in Clients : clients'[c] = clients[c] \/ clients'[c].pc # "insert"
    PROVE  DInv'
<1>1. CancelledIsAcked'
  BY DEF DInv, CancelledIsAcked
<1>2. ASSUME Cardinality(Clients) = 1 PROVE KeyFreeButForRevived'
  <2> SUFFICES ASSUME NEW c \in Clients, NEW j \in Jobs,
                      clients'[c].pc = "insert", clients'[c].key # NoKey,
                      Live(j)', wf_jobs'[j].key = clients'[c].key
               PROVE  j \in acked'
    BY DEF KeyFreeButForRevived
  <2>1. clients'[c] = clients[c]
    OBVIOUS
  <2>2. CASE Live(j)
    BY <1>2, <2>1, <2>2 DEF DInv, KeyFreeButForRevived
  <2> QED
    BY <2>2
<1>3. DuplicateOnlyByRevival'
  <2> SUFFICES ASSUME Cardinality(Clients) = 1, NEW i \in Jobs, NEW j \in Jobs,
                      Live(i)', Live(j)', wf_jobs'[i].key = wf_jobs'[j].key,
                      wf_jobs'[i].key # NoKey, i # j
               PROVE  i \in acked' \/ j \in acked'
    BY DEF DuplicateOnlyByRevival
  <2>1. CASE Live(i) /\ Live(j)
    BY <2>1 DEF DInv, DuplicateOnlyByRevival
  <2> QED
    BY <2>1
<1> QED
  BY <1>1, <1>2, <1>3 DEF DInv

\* The SELECT of submit() finds the key free, and the INSERT still does.
LEMMA SubmitDuplicates ==
    ASSUME TypeOK, DInv, ClientStep PROVE DInv'
<1>1. ASSUME NEW c \in Clients, NEW k \in Keys \union {NoKey}, NEW type \in Types,
             SubmitLookup(c, k, type)
      PROVE  DInv'
  <2>1. /\ wf_jobs' = wf_jobs /\ acked' = acked
        /\ clients'[c].key = k
        /\ \A d \in Clients \ {c} : clients'[d] = clients[d]
    BY <1>1 DEF SubmitLookup, history, TypeOK
  <2>2. k # NoKey => \A j \in Jobs : ~(Live(j) /\ wf_jobs[j].key = k)
    BY <1>1 DEF SubmitLookup, SubmitFindsExisting
  <2>3. CancelledIsAcked' /\ DuplicateOnlyByRevival'
    BY <2>1 DEF DInv, CancelledIsAcked, DuplicateOnlyByRevival, Live
  <2>4. ASSUME Cardinality(Clients) = 1 PROVE KeyFreeButForRevived'
    BY <2>1, <2>2, <2>4 DEF DInv, KeyFreeButForRevived, Live
  <2> QED
    BY <2>3, <2>4 DEF DInv
<1>2. ASSUME NEW c \in Clients, NEW n \in Jobs, SubmitInsert(c, n)
      PROVE  DInv'
  <2>1. /\ acked' = acked /\ clients[c].pc = "insert"
        /\ wf_jobs'[n].status = "queued" /\ wf_jobs'[n].key = clients[c].key
        /\ clients'[c].pc = "idle"
        /\ \A j \in Jobs \ {n} : wf_jobs'[j] = wf_jobs[j]
    BY <1>2 DEF SubmitInsert, history, TypeOK, NewRow, Idle
  <2>2. CancelledIsAcked'
    BY <2>1 DEF DInv, CancelledIsAcked
  <2>3. ASSUME Cardinality(Clients) = 1 PROVE KeyFreeButForRevived'
    <3>1. Clients = {c}
      BY <2>3, QueueAssumption, FS_Singleton
    <3> QED
      BY <2>1, <3>1 DEF KeyFreeButForRevived
  <2>4. DuplicateOnlyByRevival'
    <3> SUFFICES ASSUME Cardinality(Clients) = 1, NEW i \in Jobs, NEW j \in Jobs,
                        Live(i)', Live(j)', wf_jobs'[i].key = wf_jobs'[j].key,
                        wf_jobs'[i].key # NoKey, i # j
                 PROVE  i \in acked' \/ j \in acked'
      BY DEF DuplicateOnlyByRevival
    <3>1. \A m \in Jobs \ {n} : (Live(m)' <=> Live(m)) /\ wf_jobs'[m].key = wf_jobs[m].key
      BY <2>1 DEF Live
    <3>2. ASSUME NEW m \in Jobs \ {n}, Live(m), wf_jobs[m].key = clients[c].key, clients[c].key # NoKey
          PROVE  m \in acked'
      BY <2>1, <3>2 DEF DInv, KeyFreeButForRevived
    <3>3. CASE i = n
      BY <2>1, <3>1, <3>2, <3>3
    <3>4. CASE j = n
      BY <2>1, <3>1, <3>2, <3>4
    <3>5. CASE i # n /\ j # n
      BY <2>1, <3>1, <3>5 DEF DInv, DuplicateOnlyByRevival
    <3> QED
      BY <3>3, <3>4, <3>5
  <2> QED
    BY <2>2, <2>3, <2>4 DEF DInv
<1>3. ASSUME NEW n \in Jobs, CancelJob(n) PROVE DInv'
  <2>1. /\ acked' = acked \union {n} /\ clients' = clients
        /\ wf_jobs'[n].key = wf_jobs[n].key /\ wf_jobs'[n].status = "cancelled"
        /\ \A j \in Jobs \ {n} : wf_jobs'[j] = wf_jobs[j]
    BY <1>3 DEF CancelJob, TypeOK, Row
  <2> QED
    BY <2>1, NoSubmit DEF Live, Terminal
<1> QED
  BY <1>1, <1>2, <1>3 DEF ClientStep

\* The only write that can bring a cancelled job back is "running", and its thread holds it.
LEMMA ThreadDuplicates ==
    ASSUME IInv, DInv, NEW t \in Threads, ThreadStep(t) PROVE DInv'
<1>0. TypeOK /\ wf_jobs \in [Jobs -> Row]
  BY DEF IInv, TypeOK
<1>1. clients' = clients /\ acked' = acked
  BY DEF ThreadStep, LoopExit, LoopHead, ClaimNothing, ClaimNextJob, MarkRunning, BeginRun,
         BeginRaises, RunReturns,
         RunRaises, WriteCompleted, WriteFailed, WriteRefused, history
<1>2. CASE UNCHANGED wf_jobs
  BY <1>1, <1>2, NoSubmit DEF Live
<1>3. ASSUME NEW j \in Jobs, ClaimNextJob(t, j) PROVE DInv'
  <2>1. /\ wf_jobs[j].status = "queued"
        /\ wf_jobs'[j].key = wf_jobs[j].key /\ wf_jobs'[j].status = "claimed"
        /\ \A i \in Jobs \ {j} : wf_jobs'[i] = wf_jobs[i]
    BY <1>0, <1>3 DEF ClaimNextJob, Oldest, Queued, Row
  <2>2. Live(j)
    BY <2>1 DEF Live, Terminal
  <2> QED
    BY <1>1, <2>1, <2>2, NoSubmit DEF Live
<1>4. CASE threads[t].pc \in Busy
  <2>0. PICK j \in Jobs : j = threads[t].job
    BY <1>0, <1>4, BusyHolds
  <2>1. wf_jobs[j] \in Row /\ wf_jobs[j].status \in {"claimed", "running", "cancelled"}
    BY <1>0, <1>4, <2>0 DEF IInv, HolderInv
  <2>2. Live(j) \/ j \in acked
    BY <2>1 DEF DInv, CancelledIsAcked, Live, Terminal
  <2>3. ASSUME wf_jobs'[j].key = wf_jobs[j].key,
               wf_jobs'[j].status = "cancelled" => wf_jobs[j].status = "cancelled",
               \A i \in Jobs \ {j} : wf_jobs'[i] = wf_jobs[i]
        PROVE  DInv'
    BY <1>1, <2>2, <2>3, NoSubmit DEF Live
  <2>4. CASE MarkRunning(t)
    BY <1>0, <2>0, <2>1, <2>3, <2>4 DEF MarkRunning, JobOf, Row
  <2>5. ASSUME NEW n \in 0..MaxTotal, BeginRun(t, n) PROVE DInv'
    BY <1>0, <2>0, <2>1, <2>3, <2>5 DEF BeginRun, JobOf, Row
  <2>6. ASSUME NEW ok \in BOOLEAN, RunReturns(t, ok) PROVE DInv'
    BY <1>0, <2>0, <2>1, <2>3, <2>6 DEF RunReturns, JobOf, Row
  <2>7. CASE WriteCompleted(t)
    BY <1>0, <2>0, <2>1, <2>3, <2>7 DEF WriteCompleted, JobOf, Row
  <2>8. CASE WriteFailed(t)
    BY <1>0, <2>0, <2>1, <2>3, <2>8 DEF WriteFailed, JobOf, Row
  <2>9. CASE LoopStep(t) \/ BeginRaises(t) \/ RunRaises(t) \/ WriteRefused(t)
    BY <1>2, <2>9 DEF LoopStep, LoopExit, LoopHead, ClaimNothing, BeginRaises, RunRaises, WriteRefused
  <2> QED
    BY <1>3, <2>4, <2>5, <2>6, <2>7, <2>8, <2>9 DEF ThreadStep, LoopStep
<1>5. CASE threads[t].pc \notin Busy
  BY <1>2, <1>3, <1>5 DEF ThreadStep, Busy, LoopExit, LoopHead, ClaimNothing, MarkRunning,
                          BeginRun, BeginRaises, RunReturns, RunRaises, WriteCompleted,
                          WriteFailed, WriteRefused
<1> QED
  BY <1>4, <1>5

LEMMA DuplicatesInductive == ASSUME IInv, DInv, [Next]_vars PROVE DInv'
<1>0. TypeOK
  BY DEF IInv
<1>1. CASE Start \/ Stop \/ Crash \/ UNCHANGED vars
  <2>1. wf_jobs' = wf_jobs /\ acked' = acked
    BY <1>1 DEF Start, Stop, Crash, vars, history
  <2>2. \A c \in Clients : clients'[c] = clients[c] \/ clients'[c].pc # "insert"
    BY <1>1 DEF Start, Stop, Crash, vars, Idle
  <2> QED
    BY <2>1, <2>2, NoSubmit DEF Live
<1> QED
  BY <1>0, <1>1, SubmitDuplicates, ThreadDuplicates DEF Next, GetWorker, Restart

\* With one request at a time, submit() and the workers leave two live jobs with one
\* idempotency key only where a status write has revived a cancelled job.
THEOREM DuplicatesAreRevivals == Spec => []DuplicateOnlyByRevival
<1>1. Init => DInv
  BY DEF Init, DInv, CancelledIsAcked, KeyFreeButForRevived, DuplicateOnlyByRevival, Live, NewRow, Idle
<1>2. DInv => DuplicateOnlyByRevival
  BY DEF DInv
<1> QED
  BY <1>1, <1>2, DuplicatesInductive, Inductive, PTL DEF Spec

-----------------------------------------------------------------------------
(* The refinement of JobLifecycle. *)

phase == [j \in Jobs |-> Phase(j)]
ran == {j \in Jobs : runs[j] > 0}

LEMMA SamePhase ==
    ASSUME NEW j \in Jobs, wf_jobs'[j].status = wf_jobs[j].status, claims'[j] = claims[j],
           Held(j)' <=> Held(j)
    PROVE  Phase(j)' = Phase(j)
BY DEF Phase

\* What Phase says of a row once the invariant holds.
LEMMA PhaseOf ==
    ASSUME IInv, NEW j \in Jobs
    PROVE  /\ wf_jobs[j].status = "absent" => Phase(j) = "new" /\ ~Held(j)
           /\ wf_jobs[j].status = "queued" => Phase(j) = "pending" /\ ~Held(j)
           /\ Held(j) => Phase(j) = "taken"
           /\ Phase(j) = "taken" => Held(j) /\ wf_jobs[j].status \in {"claimed", "running", "cancelled"}
                                            /\ claims[j] = 1
<1>1. Held(j) => wf_jobs[j].status \in {"claimed", "running", "cancelled"} /\ claims[j] = 1
  BY QueueAssumption, BusyHolds DEF IInv, HolderInv, Held
<1>2. wf_jobs[j].status = "absent" => Phase(j) = "new"
  BY DEF Phase
<1>3. wf_jobs[j].status = "queued" => Phase(j) = "pending"
  BY DEF Phase
<1>4. Held(j) => Phase(j) = "taken"
  BY <1>1 DEF Phase
<1>5. ~Held(j) => Phase(j) # "taken"
  BY DEF Phase
<1> QED
  BY <1>1, <1>2, <1>3, <1>4, <1>5

\* A step that changes the phase of one job and runs nothing.
LEMMA MoveOne ==
    ASSUME NEW j \in Jobs, \A i \in Jobs \ {j} : Phase(i)' = Phase(i), UNCHANGED runs,
           NEW from, NEW to, Phase(j) = from, Phase(j)' = to
    PROVE  Lifecycle!Move(j, from, to)
BY DEF Lifecycle!Move

\* A step that changes no phase and runs nothing.
LEMMA Stutter ==
    ASSUME \A i \in Jobs : Phase(i)' = Phase(i), UNCHANGED runs
    PROVE  UNCHANGED <<phase, ran>>
BY DEF phase, ran

\* Jobs whose takers vanish.
LEMMA LoseSome ==
    ASSUME NEW S \in SUBSET Jobs, UNCHANGED runs,
           \A i \in Jobs : IF i \in S THEN Phase(i) = "taken" /\ Phase(i)' = "lost"
                                      ELSE Phase(i)' = Phase(i)
    PROVE  Lifecycle!Next
<1>1. Lifecycle!Lose(S)
  BY DEF Lifecycle!Lose
<1> QED
  BY <1>1 DEF Lifecycle!Next

\* Threads that hold nothing may come, go or be reset without any job noticing.
LEMMA HeldByBusy ==
    ASSUME TypeOK, NEW j \in Jobs
    PROVE  Held(j) <=> \E t \in Threads : threads[t].pc \in Busy /\ threads[t].job = j
BY BusyHolds, QueueAssumption DEF Held

LEMMA ClientSim ==
    ASSUME IInv, ClientStep
    PROVE  [Lifecycle!Next]_<<phase, ran>>
<1>0. TypeOK
  BY DEF IInv
<1>1. ASSUME NEW c \in Clients, NEW k \in Keys \union {NoKey}, NEW type \in Types,
             SubmitLookup(c, k, type)
      PROVE  UNCHANGED <<phase, ran>>
  <2>1. \A i \in Jobs : Phase(i)' = Phase(i)
    BY <1>1, SamePhase DEF SubmitLookup, history, Held
  <2> QED
    BY <1>1, <2>1, Stutter DEF SubmitLookup, history
<1>2. ASSUME NEW c \in Clients, NEW j \in Jobs, SubmitInsert(c, j)
      PROVE  Lifecycle!Submit(j)
  <2>1. \A i \in Jobs \ {j} : Phase(i)' = Phase(i)
    BY <1>0, <1>2, SamePhase DEF SubmitInsert, history, Held, TypeOK
  <2>2. Phase(j) = "new"
    BY <1>2 DEF SubmitInsert, Phase
  <2>3. Phase(j)' = "pending"
    BY <1>0, <1>2 DEF SubmitInsert, Phase, TypeOK, NewRow
  <2> QED
    BY <1>2, <2>1, <2>2, <2>3, MoveOne DEF SubmitInsert, history, Lifecycle!Submit
<1>3. ASSUME NEW j \in Jobs, CancelJob(j)
      PROVE  Lifecycle!Withdraw(j) \/ UNCHANGED <<phase, ran>>
  <2>1. \A i \in Jobs \ {j} : Phase(i)' = Phase(i)
    BY <1>0, <1>3, SamePhase DEF CancelJob, Held, TypeOK
  <2>2. wf_jobs'[j].status = "cancelled" /\ (Held(j)' <=> Held(j)) /\ claims' = claims
    BY <1>0, <1>3 DEF CancelJob, Held, TypeOK, Row
  <2>3. CASE wf_jobs[j].status = "queued"
    <3>1. claims[j] = 0 /\ ~Held(j) /\ Phase(j) = "pending"
      BY <2>3, PhaseOf DEF IInv, RowInv
    <3>2. Phase(j)' = "withdrawn"
      BY <2>2, <3>1 DEF Phase
    <3> QED
      BY <1>3, <2>1, <3>1, <3>2, MoveOne DEF CancelJob, Lifecycle!Withdraw
  <2>4. CASE wf_jobs[j].status # "queued"
    <3>1. wf_jobs[j].status \in {"claimed", "running"} /\ claims[j] = 1
      BY <1>0, <1>3, <2>4 DEF CancelJob, Live, Terminal, IInv, RowInv, TypeOK, Row, Statuses
    <3>2. Phase(j)' = Phase(j)
      BY <2>2, <3>1 DEF Phase
    <3> QED
      BY <1>3, <2>1, <3>2, Stutter DEF CancelJob
  <2> QED
    BY <2>3, <2>4
<1> QED
  BY <1>1, <1>2, <1>3 DEF ClientStep, Lifecycle!Next

LEMMA ClaimSim ==
    ASSUME IInv, NEW t \in Threads, NEW j \in Jobs, ClaimNextJob(t, j)
    PROVE  Lifecycle!Take(j)
<1>0. TypeOK /\ threads[t].job = NoJob /\ wf_jobs[j].status = "queued" /\ Phase(j) = "pending"
  BY BusyHolds, PhaseOf DEF IInv, ClaimNextJob, Oldest, Queued, Busy
<1>1. wf_jobs'[j].status = "claimed" /\ threads'[t].job = j
  BY <1>0 DEF ClaimNextJob, TypeOK, Row
<1>2. Phase(j)' = "taken"
  BY <1>1 DEF Phase, Held
<1>3. ASSUME NEW i \in Jobs \ {j} PROVE Phase(i)' = Phase(i)
  <2>1. Held(i)' <=> Held(i)
    BY <1>0, <1>3, QueueAssumption DEF ClaimNextJob, Held, TypeOK
  <2> QED
    BY <1>0, <1>3, <2>1, SamePhase DEF ClaimNextJob, TypeOK
<1> QED
  BY <1>0, <1>2, <1>3, MoveOne DEF ClaimNextJob, Lifecycle!Take

\* What a step of thread t, holding j, does to the other jobs: nothing.
LEMMA OthersKeep ==
    ASSUME IInv, NEW t \in Threads, NEW j \in Jobs, threads[t].job = j,
           \A u \in Threads \ {t} : threads'[u] = threads[u],
           threads'[t].job \in {j, NoJob}, UNCHANGED claims,
           \A i \in Jobs \ {j} : wf_jobs'[i] = wf_jobs[i]
    PROVE  \A i \in Jobs \ {j} : Phase(i)' = Phase(i)
<1> SUFFICES ASSUME NEW i \in Jobs \ {j} PROVE Phase(i)' = Phase(i)
  OBVIOUS
<1>1. Held(i)' <=> Held(i)
  BY QueueAssumption DEF Held
<1> QED
  BY <1>1, SamePhase

\* A thread that keeps its job keeps it "taken".
LEMMA KeepSim ==
    ASSUME IInv, IInv', NEW t \in Threads, NEW j \in Jobs, threads[t].job = j,
           \A u \in Threads \ {t} : threads'[u] = threads[u],
           threads'[t].job = j, UNCHANGED claims,
           \A i \in Jobs \ {j} : wf_jobs'[i] = wf_jobs[i]
    PROVE  /\ \A i \in Jobs : Phase(i)' = Phase(i)
           /\ Phase(j) = "taken"
<1>1. Held(j) /\ Held(j)'
  BY DEF Held
<1>2. Phase(j) = "taken"
  BY <1>1, PhaseOf
<1>3. wf_jobs'[j].status \in {"claimed", "running", "cancelled"}
  <2>1. threads'[t].pc \in Busy
    BY QueueAssumption DEF IInv, TypeOK, Thread
  <2> QED
    BY <2>1 DEF IInv, HolderInv
<1>4. Phase(j)' = "taken"
  BY <1>1, <1>3 DEF Phase
<1> QED
  BY <1>2, <1>4, OthersKeep

\* A thread that lets its job go: its row says settled, or the job is lost.
LEMMA ReleaseSim ==
    ASSUME IInv, NEW t \in Threads, NEW j \in Jobs, threads[t].job = j, threads[t].pc \in Busy,
           threads' = [threads EXCEPT ![t] = Polling], UNCHANGED <<claims, runs>>,
           \A i \in Jobs \ {j} : wf_jobs'[i] = wf_jobs[i],
           wf_jobs'[j].status \in {wf_jobs[j].status, "completed", "failed"}
    PROVE  Lifecycle!Next
<1>0. TypeOK /\ Phase(j) = "taken" /\ wf_jobs[j].status \in {"claimed", "running", "cancelled"}
             /\ claims[j] = 1 /\ threads \in [Threads -> Thread]
  BY PhaseOf DEF IInv, Held, TypeOK
<1>1. ~Held(j)'
  BY <1>0, QueueAssumption DEF IInv, ExclusiveClaim, Held, Polling
<1>2. \A i \in Jobs \ {j} : Phase(i)' = Phase(i)
  BY <1>0, OthersKeep DEF Polling
<1>3. CASE wf_jobs'[j].status \in {"completed", "failed"}
  <2>1. Phase(j)' = "settled"
    BY <1>0, <1>1, <1>3 DEF Phase
  <2> QED
    BY <1>0, <1>2, <2>1, MoveOne DEF Lifecycle!Settle, Lifecycle!Next
<1>4. CASE wf_jobs'[j].status = wf_jobs[j].status
  <2>1. Phase(j)' = "lost"
    BY <1>0, <1>1, <1>4 DEF Phase
  <2> QED
    <3>1. \A i \in Jobs : IF i \in {j} THEN Phase(i) = "taken" /\ Phase(i)' = "lost"
                                       ELSE Phase(i)' = Phase(i)
      BY <1>0, <1>2, <2>1
    <3> QED
      BY <3>1, LoseSome
<1> QED
  BY <1>3, <1>4

LEMMA ThreadSim ==
    ASSUME IInv, IInv', NEW t \in Threads, ThreadStep(t)
    PROVE  [Lifecycle!Next]_<<phase, ran>>
<1>0. TypeOK
  BY DEF IInv
<1>1. CASE LoopStep(t)
  <2>1. UNCHANGED <<wf_jobs, claims, runs>> /\ \A u \in Threads : threads'[u].job = threads[u].job
    BY <1>0, <1>1, LoopShape
  <2>2. \A i \in Jobs : Phase(i)' = Phase(i)
    BY <2>1, SamePhase DEF Held
  <2> QED
    BY <2>1, <2>2, Stutter
<1>2. CASE \E j \in Jobs : ClaimNextJob(t, j)
  BY <1>2, ClaimSim DEF Lifecycle!Next
<1>3. CASE threads[t].pc \in Busy
  <2>0. PICK j \in Jobs : j = threads[t].job
    BY <1>0, <1>3, BusyHolds
  <2>1. /\ wf_jobs \in [Jobs -> Row] /\ threads \in [Threads -> Thread]
        /\ threads[t] \in Thread /\ runs \in [Jobs -> Nat] /\ wf_jobs[j] \in Row
    BY <1>0 DEF TypeOK
  <2> DEFINE Frame == /\ \A u \in Threads \ {t} : threads'[u] = threads[u]
                      /\ threads'[t].job = j
                      /\ \A i \in Jobs \ {j} : wf_jobs'[i] = wf_jobs[i]
                      /\ UNCHANGED claims
  <2> USE DEF history, JobOf
  <2>2. CASE MarkRunning(t) \/ (\E n \in 0..MaxTotal : BeginRun(t, n)) \/ BeginRaises(t)
    <3>1. Frame /\ UNCHANGED runs
      <4>1. CASE MarkRunning(t)
        BY <2>0, <2>1, <4>1 DEF MarkRunning, Goto
      <4>2. ASSUME NEW n \in 0..MaxTotal, BeginRun(t, n) PROVE Frame /\ UNCHANGED runs
        BY <2>0, <2>1, <4>2 DEF BeginRun, Goto
      <4>3. CASE BeginRaises(t)
        BY <2>0, <2>1, <4>3 DEF BeginRaises, Goto
      <4> QED
        BY <2>2, <4>1, <4>2, <4>3
    <3> QED
      BY <2>0, <3>1, KeepSim, Stutter
  <2>3. CASE RunRaises(t) \/ \E ok \in BOOLEAN : RunReturns(t, ok)
    <3>1. Frame
      <4>1. CASE RunRaises(t)
        BY <2>0, <2>1, <4>1 DEF RunRaises, Goto
      <4>2. ASSUME NEW ok \in BOOLEAN, RunReturns(t, ok) PROVE Frame
        BY <2>0, <2>1, <4>2 DEF RunReturns, Goto
      <4> QED
        BY <2>3, <4>1, <4>2
    <3>2. threads[t].pc = "work" /\ runs' = [runs EXCEPT ![j] = @ + 1]
      BY <2>0, <2>3 DEF RunRaises, RunReturns
    <3>3. runs[j] = 0 /\ runs'[j] = 1
      BY <1>3, <2>0, <2>1, <3>2 DEF IInv, HolderInv
    <3>4. ran' = ran \union {j} /\ j \notin ran
      BY <2>1, <3>2, <3>3 DEF ran
    <3>5. Phase(j) = "taken" /\ phase' = phase
      BY <2>0, <3>1, KeepSim DEF phase
    <3>6. Lifecycle!Run(j)
      BY <3>4, <3>5 DEF Lifecycle!Run, phase, ran
    <3> QED
      BY <3>6 DEF Lifecycle!Next
  <2>4. CASE WriteCompleted(t) \/ WriteFailed(t)
    <3>1. /\ threads' = [threads EXCEPT ![t] = Polling]
          /\ UNCHANGED <<claims, runs>>
          /\ \A i \in Jobs \ {j} : wf_jobs'[i] = wf_jobs[i]
          /\ wf_jobs'[j].status \in {"completed", "failed"}
      BY <2>0, <2>1, <2>4 DEF WriteCompleted, WriteFailed, Release, Row
    <3> QED
      BY <1>3, <2>0, <3>1, ReleaseSim
  <2>5. CASE WriteRefused(t)
    <3>1. CASE threads[t].pc = "finishing"
      <4>1. threads' = [threads EXCEPT ![t].pc = "failing"] /\ UNCHANGED <<wf_jobs, claims, runs>>
        BY <2>5, <3>1 DEF WriteRefused, Goto
      <4>2. threads'[t].job = j /\ \A u \in Threads \ {t} : threads'[u] = threads[u]
        BY <2>0, <2>1, <4>1
      <4> QED
        BY <2>0, <4>1, <4>2, KeepSim, Stutter
    <3>2. CASE threads[t].pc # "finishing"
      <4>1. threads' = [threads EXCEPT ![t] = Polling] /\ UNCHANGED <<wf_jobs, claims, runs>>
        BY <2>5, <3>2 DEF WriteRefused, Release
      <4> QED
        BY <1>3, <2>0, <4>1, ReleaseSim
    <3> QED
      BY <3>1, <3>2
  <2> QED
    BY <1>1, <1>2, <2>2, <2>3, <2>4, <2>5 DEF ThreadStep, LoopStep
<1>4. CASE threads[t].pc \notin Busy
  BY <1>1, <1>2, <1>4 DEF ThreadStep, LoopStep, Busy, MarkRunning, BeginRun, BeginRaises, RunReturns,
                          RunRaises, WriteCompleted, WriteFailed, WriteRefused
<1> QED
  BY <1>3, <1>4

\* A killed process loses exactly the jobs its threads held.
LEMMA CrashSim == ASSUME IInv, Crash PROVE Lifecycle!Next
<1> DEFINE S == {i \in Jobs : Phase(i) = "taken"}
<1>1. \A i \in Jobs : ~Held(i)'
  BY QueueAssumption DEF Crash, Held, Dead
<1>2. ASSUME NEW i \in Jobs, i \in S PROVE Phase(i)' = "lost"
  <2>1. wf_jobs[i].status \in {"claimed", "running", "cancelled"} /\ claims[i] = 1
    BY <1>2, PhaseOf
  <2> QED
    BY <1>1, <2>1 DEF Phase, Crash, history
<1>3. ASSUME NEW i \in Jobs, i \notin S PROVE Phase(i)' = Phase(i)
  <2>1. ~Held(i)
    BY <1>3, PhaseOf
  <2> QED
    BY <1>1, <2>1, SamePhase DEF Crash, history
<1> QED
  BY <1>2, <1>3, LoseSome DEF Crash, history

LEMMA StartSim == ASSUME IInv, Start PROVE UNCHANGED <<phase, ran>>
<1>1. ASSUME NEW t \in Threads PROVE threads'[t].job = threads[t].job
  BY BusyHolds DEF Start, Polling, Busy, IInv
<1>2. \A i \in Jobs : Phase(i)' = Phase(i)
  BY <1>1, SamePhase DEF Start, history, Held
<1> QED
  BY <1>2, Stutter DEF Start, history

\* The queue implements JobLifecycle: every step of threads, requests, restarts and
\* crashes is one step of a job's life, or none.
THEOREM Refinement == Spec => ImplementsLifecycle
<1>1. Init => Lifecycle!Init
  BY DEF Init, Lifecycle!Init, Phase, NewRow
<1>2. IInv /\ IInv' /\ [Next]_vars => [Lifecycle!Next]_<<phase, ran>>
  <2> SUFFICES ASSUME IInv, IInv', [Next]_vars PROVE [Lifecycle!Next]_<<phase, ran>>
    OBVIOUS
  <2>1. CASE Start
    BY <2>1, StartSim
  <2>2. CASE Stop \/ UNCHANGED vars
    <3>1. UNCHANGED <<wf_jobs, threads, claims, runs>>
      BY <2>2 DEF Stop, vars, history
    <3>2. \A i \in Jobs : Phase(i)' = Phase(i)
      BY <3>1, SamePhase DEF Held
    <3> QED
      BY <3>1, <3>2, Stutter
  <2>3. CASE Crash
    BY <2>3, CrashSim
  <2>4. CASE ClientStep
    BY <2>4, ClientSim
  <2>5. CASE \E t \in Threads : ThreadStep(t)
    BY <2>5, ThreadSim
  <2> QED
    BY <2>1, <2>2, <2>3, <2>4, <2>5 DEF Next, GetWorker, Restart
<1> QED
  BY <1>1, <1>2, Inductive, PTL DEF Spec, ImplementsLifecycle, Lifecycle!Spec, phase, ran

=============================================================================
