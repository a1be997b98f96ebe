--------------------------- MODULE ToolStepProofs ---------------------------
(***************************************************************************)
(* Theorems about ToolStep for any number of runs, executors, tools,       *)
(* faults and ticks of the clock, and their proofs.                        *)
(***************************************************************************)
EXTENDS ToolStep, TLAPS

LEMMA ClockTyped == ASSUME TypeOK PROVE now \in Nat /\ now \in 0..MaxTime
BY ToolStepAssumption DEF TypeOK

\* What all the actions of a run but Enter, WriteLocal and Kill do to the runs: one record
\* changes, and keeps its type.
LEMMA OneRunTyped ==
    ASSUME TypeOK, NEW r \in Runs, NEW pc \in Pcs, NEW todo \in SUBSET Tools,
           NEW got \in Runs \union {NoRun}, NEW out \in {"none", "output", "empty", "error"},
           NEW result \in {"none", "completed", "failed"},
           \/ run' = [run EXCEPT ![r].pc = pc]
           \/ run' = [run EXCEPT ![r].pc = pc, ![r].todo = todo]
           \/ run' = [run EXCEPT ![r].pc = pc, ![r].result = result]
           \/ run' = [run EXCEPT ![r].pc = pc, ![r].out = out]
           \/ run' = [run EXCEPT ![r].pc = pc, ![r].got = got, ![r].out = out]
           \/ run' = [run EXCEPT ![r].todo = todo]
    PROVE  run' \in [Runs -> Run]
<1>1. run \in [Runs -> Run] /\ run[r] \in Run
  BY DEF TypeOK
<1>2. CASE run' = [run EXCEPT ![r].pc = pc]
  <2>1. [run[r] EXCEPT !.pc = pc] \in Run
    BY <1>1 DEF Run
  <2> QED
    BY <1>1, <1>2, <2>1
<1>3. CASE run' = [run EXCEPT ![r].pc = pc, ![r].todo = todo]
  <2>1. [run[r] EXCEPT !.pc = pc, !.todo = todo] \in Run
    BY <1>1 DEF Run
  <2> QED
    BY <1>1, <1>3, <2>1
<1>4. CASE run' = [run EXCEPT ![r].pc = pc, ![r].result = result]
  <2>1. [run[r] EXCEPT !.pc = pc, !.result = result] \in Run
    BY <1>1 DEF Run
  <2> QED
    BY <1>1, <1>4, <2>1
<1>5. CASE run' = [run EXCEPT ![r].pc = pc, ![r].out = out]
  <2>1. [run[r] EXCEPT !.pc = pc, !.out = out] \in Run
    BY <1>1 DEF Run
  <2> QED
    BY <1>1, <1>5, <2>1
<1>6. CASE run' = [run EXCEPT ![r].pc = pc, ![r].got = got, ![r].out = out]
  <2>1. [run[r] EXCEPT !.pc = pc, !.got = got, !.out = out] \in Run
    BY <1>1 DEF Run
  <2> QED
    BY <1>1, <1>6, <2>1
<1>7. CASE run' = [run EXCEPT ![r].todo = todo]
  <2>1. [run[r] EXCEPT !.todo = todo] \in Run
    BY <1>1 DEF Run
  <2> QED
    BY <1>1, <1>7, <2>1
<1> QED
  BY <1>2, <1>3, <1>4, <1>5, <1>6, <1>7

-----------------------------------------------------------------------------
(* Type correctness. *)

LEMMA FaultsTyped == ASSUME TypeOK, Fault \/ NoFault PROVE faults' \in 0..MaxFaults
BY ToolStepAssumption DEF TypeOK, Fault, NoFault

LEMMA EnterTyped == ASSUME TypeOK, NEW r \in Runs, Enter(r) PROVE TypeOK'
<1>1. ExecutorOf[r] \in Executors
  BY ToolStepAssumption
<1>2. watched' \in [Executors -> 0..MaxTime \union {NoTime}]
  BY <1>1, ClockTyped DEF Enter, TypeOK
<1>3. run' \in [Runs -> Run]
  <2> PICK others : run' = [q \in Runs |->
                 IF q = r THEN [run[r] EXCEPT !.pc = IF r \in Resumed THEN "legacy" ELSE "validate",
                                              !.since = now, !.shared = (others # {})]
                 ELSE IF q \in others THEN [run[q] EXCEPT !.shared = TRUE]
                 ELSE run[q]]
    BY DEF Enter
  <2>1. \A q \in Runs : run[q] \in Run
    BY DEF TypeOK
  <2>2. [run[r] EXCEPT !.pc = IF r \in Resumed THEN "legacy" ELSE "validate",
                       !.since = now, !.shared = (others # {})] \in Run
    BY <2>1, ClockTyped DEF Run, Pcs
  <2>3. \A q \in Runs : [run[q] EXCEPT !.shared = TRUE] \in Run
    BY <2>1 DEF Run
  <2> QED
    BY <2>1, <2>2, <2>3
<1> QED
  BY <1>2, <1>3 DEF Enter, TypeOK

LEMMA WriteLocalTyped == ASSUME TypeOK, NEW r \in Runs, WriteLocal(r) PROVE TypeOK'
<1>1. run' \in [Runs -> Run]
  <2> PICK others : run' = [q \in Runs |->
                 IF q = r THEN [run[r] EXCEPT !.pc = "copy", !.crowded = (others # {})]
                 ELSE IF q \in others THEN [run[q] EXCEPT !.crowded = TRUE]
                 ELSE run[q]]
    BY DEF WriteLocal
  <2>1. \A q \in Runs : run[q] \in Run
    BY DEF TypeOK
  <2>2. [run[r] EXCEPT !.pc = "copy", !.crowded = (others # {})] \in Run
    BY <2>1 DEF Run, Pcs
  <2>3. \A q \in Runs : [run[q] EXCEPT !.crowded = TRUE] \in Run
    BY <2>1 DEF Run
  <2> QED
    BY <2>1, <2>2, <2>3
<1> QED
  BY <1>1 DEF WriteLocal, TypeOK

LEMMA CallToolTyped ==
    ASSUME TypeOK, NEW r \in Runs, NEW t \in Tools, CallTool(r, t) PROVE TypeOK'
<1>1. run[r].todo \ {t} \in SUBSET Tools
  BY DEF TypeOK, Run
<1>2. run' = [run EXCEPT ![r].todo = run[r].todo \ {t}]
  BY DEF CallTool, TypeOK, Run
<1>3. run' \in [Runs -> Run]
  BY <1>1, <1>2, OneRunTyped DEF Pcs
<1> QED
  BY <1>3 DEF CallTool, TypeOK

LEMMA RunStepTyped == ASSUME TypeOK, NEW r \in Runs, RunStep(r) PROVE TypeOK'
<1>1. ASSUME Leave(r) PROVE TypeOK'
  <2>1. run' = [run EXCEPT ![r].pc = "left"]
    BY <1>1 DEF Leave
  <2>2. run' \in [Runs -> Run]
    BY <2>1, OneRunTyped DEF Pcs
  <2> QED
    BY <1>1, <2>2, ToolStepAssumption DEF Leave, TypeOK
<1>2. ASSUME Legacy(r) PROVE TypeOK'
  <2>1. run' \in [Runs -> Run]
    <3>1. PICK result \in {"failed", "completed"} :
             run' = [run EXCEPT ![r].pc = "leave", ![r].result = result]
      BY <1>2 DEF Legacy
    <3>2. result \in {"none", "completed", "failed"} /\ "leave" \in Pcs
      BY <3>1 DEF Pcs
    <3> QED
      BY <3>1, <3>2, OneRunTyped
  <2> QED
    BY <1>2, <2>1 DEF Legacy, TypeOK
<1>3. ASSUME Validate(r) PROVE TypeOK'
  <2>1. run' \in [Runs -> Run]
    <3>1. CASE sandboxAll
      <4>1. run' = [run EXCEPT ![r].pc = "write", ![r].todo = {}]
        BY <1>3, <3>1 DEF Validate
      <4> QED
        BY <4>1, OneRunTyped DEF Pcs
    <3>2. CASE ~sandboxAll
      <4>1. run' = [run EXCEPT ![r].pc = "tools", ![r].todo = Tools]
        BY <1>3, <3>2 DEF Validate
      <4> QED
        BY <4>1, OneRunTyped DEF Pcs
    <3> QED
      BY <3>1, <3>2
  <2> QED
    BY <1>3, <2>1 DEF Validate, TypeOK
<1>4. ASSUME CheckCost(r) PROVE TypeOK'
  <2>1. run' \in [Runs -> Run]
    <3>1. CASE Estimate <= Limit
      <4>1. run' = [run EXCEPT ![r].pc = "leave", ![r].result = "completed"]
        BY <1>4, <3>1 DEF CheckCost
      <4> QED
        BY <4>1, OneRunTyped DEF Pcs
    <3>2. CASE ~(Estimate <= Limit)
      <4>1. run' = [run EXCEPT ![r].pc = "leave", ![r].result = "failed"]
        BY <1>4, <3>2 DEF CheckCost
      <4> QED
        BY <4>1, OneRunTyped DEF Pcs
    <3> QED
      BY <3>1, <3>2
  <2> QED
    BY <1>4, <2>1 DEF CheckCost, TypeOK
<1>5. ASSUME NEW t \in Tools, CallTool(r, t) PROVE TypeOK'
  BY <1>5, CallToolTyped
<1>6. ASSUME WriteFails(r) PROVE TypeOK'
  <2>1. run' = [run EXCEPT ![r].pc = "check", ![r].out = "error"]
    BY <1>6 DEF WriteFails
  <2>2. run' \in [Runs -> Run]
    BY <2>1, OneRunTyped DEF Pcs
  <2> QED
    BY <1>6, <2>2, FaultsTyped DEF WriteFails, TypeOK
<1>7. ASSUME Copy(r) PROVE TypeOK'
  <2>1. run' = [run EXCEPT ![r].pc = "exec"]
    BY <1>7 DEF Copy
  <2>2. run' \in [Runs -> Run]
    BY <2>1, OneRunTyped DEF Pcs
  <2> QED
    BY <1>7, <2>2, FaultsTyped DEF Copy, TypeOK
<1>8. ASSUME CopyFails(r) PROVE TypeOK'
  <2>1. run' = [run EXCEPT ![r].pc = "check", ![r].out = "error"]
    BY <1>8 DEF CopyFails
  <2>2. run' \in [Runs -> Run]
    BY <2>1, OneRunTyped DEF Pcs
  <2> QED
    BY <1>8, <2>2, FaultsTyped DEF CopyFails, TypeOK
<1>9. ASSUME Exec(r) PROVE TypeOK'
  <2>0. remote \in Runs \union {NoRun}
    BY DEF TypeOK
  <2>1. run' \in [Runs -> Run]
    <3>1. PICK out \in {"empty", "output"} :
             run' = [run EXCEPT ![r].pc = "unlocal", ![r].got = remote, ![r].out = out]
      BY <1>9 DEF Exec
    <3> QED
      BY <3>1, <2>0, OneRunTyped DEF Pcs
  <2> QED
    BY <1>9, <2>1 DEF Exec, TypeOK
<1>10. ASSUME ExecFails(r) PROVE TypeOK'
  <2>1. run' = [run EXCEPT ![r].pc = "unlocal", ![r].out = "error"]
    BY <1>10 DEF ExecFails
  <2>2. run' \in [Runs -> Run]
    BY <2>1, OneRunTyped DEF Pcs
  <2> QED
    BY <1>10, <2>2, FaultsTyped DEF ExecFails, TypeOK
<1>11. ASSUME CleanLocal(r) PROVE TypeOK'
  <2>1. run' = [run EXCEPT ![r].pc = "unremote"]
    BY <1>11 DEF CleanLocal
  <2>2. run' \in [Runs -> Run]
    BY <2>1, OneRunTyped DEF Pcs
  <2> QED
    BY <1>11, <2>2 DEF CleanLocal, TypeOK
<1>12. ASSUME CleanRemote(r) PROVE TypeOK'
  <2>1. run' = [run EXCEPT ![r].pc = "check"]
    BY <1>12 DEF CleanRemote
  <2>2. run' \in [Runs -> Run]
    BY <2>1, OneRunTyped DEF Pcs
  <2> QED
    BY <1>12, <2>2, FaultsTyped DEF CleanRemote, TypeOK
<1> QED
  BY <1>1, <1>2, <1>3, <1>4, <1>5, <1>6, <1>7, <1>8, <1>9, <1>10, <1>11, <1>12,
     EnterTyped, WriteLocalTyped DEF RunStep

LEMMA NextTyped == ASSUME TypeOK, [Next]_vars PROVE TypeOK'
<1>1. ASSUME NEW e \in Executors, Report(e) PROVE TypeOK'
  BY <1>1, ClockTyped DEF Report, TypeOK
<1>2. CASE Tick
  BY <1>2, ToolStepAssumption DEF Tick, TypeOK
<1>3. CASE Kill
  <2>1. run' \in [Runs -> Run]
    BY <1>3 DEF Kill, TypeOK, Run, Pcs
  <2> QED
    BY <1>3, <2>1, FaultsTyped DEF Kill, TypeOK
<1>4. CASE UNCHANGED vars
  BY <1>4 DEF vars, TypeOK
<1> QED
  BY <1>1, <1>2, <1>3, <1>4, RunStepTyped DEF Next

LEMMA InitTyped == Init => TypeOK
BY ToolStepAssumption DEF Init, TypeOK, Coming, Run, Pcs

\* Every reachable state is well typed.
THEOREM TypeCorrect == Spec => []TypeOK
BY InitTyped, NextTyped, PTL DEF Spec

-----------------------------------------------------------------------------
(* The watches of the step. *)

\* Runs of an executor that are in the step together are marked as sharing it.
TogetherShared ==
    \A r \in Runs : \A q \in Colleagues(r) : Inside(r) /\ Inside(q) => run[r].shared

\* A watch is that of a run that is still in the step.
WatchesAreOfRunsInside ==
    \A e \in Executors : watched[e] # NoTime =>
        \E r \in Runs : ExecutorOf[r] = e /\ Inside(r) /\ run[r].since = watched[e]

\* LoneRunIsWatched is not inductive without the first conjunct (when a run leaves, no other
\* that has shared nothing may be inside), AlarmsAreTrue needs the last.
WatchInv == TypeOK /\ TogetherShared /\ LoneRunIsWatched /\ WatchesAreOfRunsInside

\* What happens between entering and leaving does not touch the watches.
LEMMA WorkInside ==
    ASSUME TypeOK, NEW r \in Runs, RunStep(r), ~Enter(r), ~Leave(r)
    PROVE  /\ watched' = watched
           /\ \A q \in Runs : /\ Inside(q)' <=> Inside(q)
                              /\ run'[q].since = run[q].since
                              /\ run'[q].shared = run[q].shared
<1> USE DEF TypeOK, Run, Inside
<1>1. CASE Legacy(r)
  BY <1>1 DEF Legacy
<1>2. CASE Validate(r)
  BY <1>2 DEF Validate
<1>3. CASE CheckCost(r)
  BY <1>3 DEF CheckCost
<1>4. ASSUME NEW t \in Tools, CallTool(r, t)
      PROVE  /\ watched' = watched
             /\ \A q \in Runs : /\ Inside(q)' <=> Inside(q)
                                /\ run'[q].since = run[q].since
                                /\ run'[q].shared = run[q].shared
  BY <1>4 DEF CallTool
<1>5. CASE WriteLocal(r)
  <2> PICK others : run' = [q \in Runs |->
                 IF q = r THEN [run[r] EXCEPT !.pc = "copy", !.crowded = (others # {})]
                 ELSE IF q \in others THEN [run[q] EXCEPT !.crowded = TRUE]
                 ELSE run[q]]
    BY <1>5 DEF WriteLocal
  <2>1. ASSUME NEW q \in Runs
        PROVE  /\ Inside(q)' <=> Inside(q)
               /\ run'[q].since = run[q].since
               /\ run'[q].shared = run[q].shared
    <3>1. run[q] \in Run
      BY DEF TypeOK
    <3>2. CASE q = r
      <4>1. run[q].pc = "write"
        BY <1>5, <3>2 DEF WriteLocal
      <4>2. run'[q] = [run[q] EXCEPT !.pc = "copy", !.crowded = (others # {})]
        BY <3>2
      <4> QED
        BY <3>1, <4>1, <4>2
    <3>3. CASE q # r /\ q \in others
      <4>1. run'[q] = [run[q] EXCEPT !.crowded = TRUE]
        BY <3>3
      <4> QED
        BY <3>1, <4>1
    <3>4. CASE q # r /\ q \notin others
      <4>1. run'[q] = run[q]
        BY <3>4
      <4> QED
        BY <4>1
    <3> QED
      BY <3>2, <3>3, <3>4
  <2>2. watched' = watched
    BY <1>5 DEF WriteLocal
  <2> QED
    BY <2>1, <2>2
<1>6. CASE WriteFails(r)
  BY <1>6 DEF WriteFails
<1>7. CASE Copy(r)
  BY <1>7 DEF Copy
<1>8. CASE CopyFails(r)
  BY <1>8 DEF CopyFails
<1>9. CASE Exec(r)
  BY <1>9 DEF Exec
<1>10. CASE ExecFails(r)
  BY <1>10 DEF ExecFails
<1>11. CASE CleanLocal(r)
  BY <1>11 DEF CleanLocal
<1>12. CASE CleanRemote(r)
  BY <1>12 DEF CleanRemote
<1> QED
  BY <1>1, <1>2, <1>3, <1>4, <1>5, <1>6, <1>7, <1>8, <1>9, <1>10, <1>11, <1>12 DEF RunStep

\* A run that enters is the only one with a new program counter, and everybody who is with it
\* in the step shares it from now on.
LEMMA Entering ==
    ASSUME TypeOK, NEW r \in Runs, Enter(r)
    PROVE  /\ watched' = [watched EXCEPT ![ExecutorOf[r]] = now]
           /\ ~Inside(r) /\ Inside(r)' /\ run'[r].since = now
           /\ run'[r].shared = (\E q \in Colleagues(r) : Inside(q))
           /\ \A q \in Runs \ {r} : /\ Inside(q)' <=> Inside(q)
                                    /\ run'[q].since = run[q].since
                                    /\ run'[q].shared = (run[q].shared \/ (q \in Colleagues(r) /\ Inside(q)))
<1> DEFINE others == {q \in Colleagues(r) : Inside(q)}
           entered == [run[r] EXCEPT !.pc = IF r \in Resumed THEN "legacy" ELSE "validate",
                                     !.since = now, !.shared = (others # {})]
           joined(q) == [run[q] EXCEPT !.shared = TRUE]
<1>1. run' = [q \in Runs |-> IF q = r THEN entered ELSE IF q \in others THEN joined(q) ELSE run[q]]
  BY DEF Enter
<1>2. \A q \in Runs : run[q] \in Run
  BY DEF TypeOK
<1>3. /\ entered.pc \in {"legacy", "validate"} /\ entered.since = now
      /\ entered.shared = (others # {})
  BY <1>2 DEF Run
<1>4. \A q \in Runs : /\ joined(q).pc = run[q].pc /\ joined(q).since = run[q].since
                      /\ joined(q).shared = TRUE
  BY <1>2 DEF Run
<1>5. r \notin others
  BY DEF Colleagues
<1> HIDE DEF entered, joined, others
<1>6. run'[r] = entered
  BY <1>1
<1>7. \A q \in others : q \in Runs \ {r} => run'[q] = joined(q)
  BY <1>1
<1>8. \A q \in Runs \ {r} : q \notin others => run'[q] = run[q]
  BY <1>1
<1>9. ~Inside(r) /\ Inside(r)' /\ run'[r].since = now /\ run'[r].shared = (others # {})
  BY <1>3, <1>6 DEF Enter, Inside
<1>10. ASSUME NEW q \in Runs \ {r}
       PROVE /\ Inside(q)' <=> Inside(q)
             /\ run'[q].since = run[q].since
             /\ run'[q].shared = (run[q].shared \/ q \in others)
  <2>1. CASE q \in others
    BY <2>1, <1>4, <1>7 DEF Inside
  <2>2. CASE q \notin others
    <3>1. run'[q] = run[q] /\ run[q].shared \in BOOLEAN
      BY <2>2, <1>2, <1>8 DEF Run
    <3> QED
      BY <3>1, <2>2 DEF Inside
  <2> QED
    BY <2>1, <2>2
<1>11. (others # {}) = (\E q \in Colleagues(r) : Inside(q))
  BY DEF others
<1>12. \A q : (q \in others) = (q \in Colleagues(r) /\ Inside(q))
  BY DEF others
<1>13. run'[r].shared = (\E q \in Colleagues(r) : Inside(q))
  BY <1>9, <1>11
<1>14. \A q \in Runs \ {r} : run'[q].shared = (run[q].shared \/ (q \in Colleagues(r) /\ Inside(q)))
  BY <1>10, <1>12
<1> QED
  BY <1>9, <1>10, <1>13, <1>14 DEF Enter

LEMMA EnterWatch == ASSUME WatchInv, NEW r \in Runs, Enter(r) PROVE WatchInv'
<1>1. ExecutorOf \in [Runs -> Executors] /\ NoTime \notin Nat /\ now \in Nat
  BY ToolStepAssumption, ClockTyped DEF WatchInv
<1>2. watched \in [Executors -> 0..MaxTime \union {NoTime}]
  BY DEF WatchInv, TypeOK
<1>3. TypeOK'
  BY NextTyped DEF WatchInv, Next, RunStep
<1>4. TogetherShared'
  <2> SUFFICES ASSUME NEW p \in Runs, NEW q \in Colleagues(p), Inside(p)', Inside(q)'
               PROVE  run'[p].shared
    BY DEF TogetherShared, Colleagues
  <2>1. q \in Runs /\ q # p /\ p \in Colleagues(q)
    BY DEF Colleagues
  <2>2. CASE p = r
    BY <2>1, <2>2, Entering DEF WatchInv
  <2>3. CASE q = r
    BY <2>1, <2>3, Entering DEF WatchInv
  <2>4. CASE p # r /\ q # r
    BY <2>1, <2>4, Entering DEF WatchInv, TogetherShared
  <2> QED
    BY <2>2, <2>3, <2>4
<1>5. LoneRunIsWatched'
  <2> SUFFICES ASSUME NEW p \in Runs, Inside(p)', ~run'[p].shared
               PROVE  watched'[ExecutorOf[p]] = run'[p].since
    BY DEF LoneRunIsWatched
  <2>1. CASE p = r
    BY <1>1, <1>2, <2>1, Entering DEF WatchInv
  <2>2. CASE p # r
    <3>1. Inside(p) /\ ~run[p].shared /\ p \notin Colleagues(r) /\ run'[p].since = run[p].since
      BY <2>2, Entering DEF WatchInv
    <3>2. ExecutorOf[p] # ExecutorOf[r]
      BY <2>2, <3>1 DEF Colleagues
    <3> QED
      BY <1>1, <1>2, <3>1, <3>2, Entering DEF WatchInv, LoneRunIsWatched
  <2> QED
    BY <2>1, <2>2
<1>6. WatchesAreOfRunsInside'
  <2> SUFFICES ASSUME NEW e \in Executors, watched'[e] # NoTime
               PROVE  \E p \in Runs : ExecutorOf[p] = e /\ Inside(p)' /\ run'[p].since = watched'[e]
    BY DEF WatchesAreOfRunsInside
  <2>1. CASE e = ExecutorOf[r]
    BY <1>1, <1>2, <2>1, Entering DEF WatchInv
  <2>2. CASE e # ExecutorOf[r]
    <3>1. watched'[e] = watched[e]
      BY <1>1, <1>2, <2>2, Entering DEF WatchInv
    <3>2. PICK p \in Runs : ExecutorOf[p] = e /\ Inside(p) /\ run[p].since = watched[e]
      BY <3>1 DEF WatchInv, WatchesAreOfRunsInside
    <3> QED
      BY <2>2, <3>1, <3>2, Entering DEF WatchInv
  <2> QED
    BY <2>1, <2>2
<1> QED
  BY <1>3, <1>4, <1>5, <1>6 DEF WatchInv

LEMMA LeaveWatch == ASSUME WatchInv, NEW r \in Runs, Leave(r) PROVE WatchInv'
<1>1. ExecutorOf \in [Runs -> Executors]
  BY ToolStepAssumption
<1>2. watched \in [Executors -> 0..MaxTime \union {NoTime}]
  BY DEF WatchInv, TypeOK
<1>3. TypeOK'
  BY NextTyped DEF WatchInv, Next, RunStep
<1>4. watched' = [watched EXCEPT ![ExecutorOf[r]] = NoTime]
  BY DEF Leave
<1>5. /\ Inside(r) /\ ~Inside(r)'
      /\ \A q \in Runs \ {r} : run'[q] = run[q] /\ (Inside(q)' <=> Inside(q))
  BY DEF Leave, Inside, WatchInv, TypeOK, Run
<1>6. TogetherShared'
  BY <1>5 DEF TogetherShared, Colleagues, WatchInv
<1>7. LoneRunIsWatched'
  <2> SUFFICES ASSUME NEW p \in Runs, Inside(p)', ~run'[p].shared
               PROVE  watched'[ExecutorOf[p]] = run'[p].since
    BY DEF LoneRunIsWatched
  <2>1. p # r /\ Inside(p) /\ run'[p] = run[p] /\ ~run[p].shared
    BY <1>5
  <2>2. r \notin Colleagues(p)
    BY <1>5, <2>1 DEF WatchInv, TogetherShared
  <2>3. ExecutorOf[p] # ExecutorOf[r]
    BY <2>1, <2>2 DEF Colleagues
  <2> QED
    BY <1>1, <1>2, <1>4, <2>1, <2>3 DEF WatchInv, LoneRunIsWatched
<1>8. WatchesAreOfRunsInside'
  <2> SUFFICES ASSUME NEW e \in Executors, watched'[e] # NoTime
               PROVE  \E p \in Runs : ExecutorOf[p] = e /\ Inside(p)' /\ run'[p].since = watched'[e]
    BY DEF WatchesAreOfRunsInside
  <2>1. e # ExecutorOf[r] /\ watched'[e] = watched[e]
    BY <1>1, <1>2, <1>4
  <2>2. PICK p \in Runs : ExecutorOf[p] = e /\ Inside(p) /\ run[p].since = watched[e]
    BY <2>1 DEF WatchInv, WatchesAreOfRunsInside
  <2> QED
    BY <1>5, <2>1, <2>2
<1> QED
  BY <1>3, <1>6, <1>7, <1>8 DEF WatchInv

LEMMA WatchInductive == Spec => []WatchInv
<1>1. Init => WatchInv
  <2> SUFFICES ASSUME Init PROVE WatchInv
    OBVIOUS
  <2>1. \A r \in Runs : ~Inside(r)
    BY DEF Init, Coming, Inside
  <2>2. \A e \in Executors : watched[e] = NoTime
    BY DEF Init
  <2> QED
    BY <2>1, <2>2, InitTyped DEF WatchInv, TogetherShared, LoneRunIsWatched, WatchesAreOfRunsInside
<1>2. WatchInv /\ [Next]_vars => WatchInv'
  <2> SUFFICES ASSUME WatchInv, [Next]_vars PROVE WatchInv'
    OBVIOUS
  <2>0. TypeOK'
    BY NextTyped DEF WatchInv
  <2>1. ASSUME NEW r \in Runs, RunStep(r), ~Enter(r), ~Leave(r) PROVE WatchInv'
    <3>1. TypeOK
      BY DEF WatchInv
    <3>2. TogetherShared'
      BY <2>1, <3>1, WorkInside DEF WatchInv, TogetherShared, Colleagues
    <3>3. LoneRunIsWatched'
      BY <2>1, <3>1, WorkInside DEF WatchInv, LoneRunIsWatched
    <3>4. WatchesAreOfRunsInside'
      BY <2>1, <3>1, WorkInside DEF WatchInv, WatchesAreOfRunsInside
    <3> QED
      BY <2>0, <3>2, <3>3, <3>4 DEF WatchInv
  <2>2. CASE Kill
    <3>1. \A q \in Runs : ~Inside(q)'
      BY <2>2 DEF Kill, Inside, WatchInv, TypeOK, Run
    <3>2. \A e \in Executors : watched'[e] = NoTime
      BY <2>2 DEF Kill
    <3> QED
      BY <2>0, <3>1, <3>2 DEF WatchInv, TogetherShared, LoneRunIsWatched, WatchesAreOfRunsInside
  <2>3. CASE UNCHANGED <<run, watched>>
    BY <2>0, <2>3 DEF WatchInv, TogetherShared, LoneRunIsWatched, WatchesAreOfRunsInside, Inside, Colleagues
  <2>4. ASSUME NEW e \in Executors, Report(e) PROVE WatchInv'
    BY <2>3, <2>4 DEF Report
  <2>5. Tick \/ UNCHANGED vars => WatchInv'
    BY <2>3 DEF Tick, vars
  <2> QED
    BY <2>1, <2>2, <2>4, <2>5, EnterWatch, LeaveWatch DEF Next
<1> QED
  BY <1>1, <1>2, PTL DEF Spec

\* For any number of runs and executors: a run that has shared the step with no other of its
\* executor is watched from its entry to its end.
THEOREM LoneRunsAreWatched == Spec => []LoneRunIsWatched
BY WatchInductive, PTL DEF WatchInv

\* For any number of runs and executors: the watchdog reports a step only when a run has been
\* in it for longer than the timeout, even though runs take each other's watches away.
THEOREM TrueAlarms == Spec => AlarmsAreTrue
<1>1. WatchInv /\ [Next]_vars =>
        [\A e \in Executors : alarms'[e] # alarms[e] =>
          \E r \in Runs : ExecutorOf[r] = e /\ Inside(r) /\ now - run[r].since > HungAfter]_vars
  <2> SUFFICES ASSUME WatchInv, Next, NEW e \in Executors, alarms'[e] # alarms[e]
               PROVE  \E r \in Runs : ExecutorOf[r] = e /\ Inside(r) /\ now - run[r].since > HungAfter
    OBVIOUS
  <2>1. PICK f \in Executors : Report(f)
    <3>1. ASSUME NEW r \in Runs, RunStep(r) PROVE alarms' = alarms
      BY <3>1 DEF RunStep, Enter, Leave, Legacy, Validate, CheckCost, CallTool, WriteLocal,
                  WriteFails, Copy, CopyFails, Exec, ExecFails, CleanLocal, CleanRemote
    <3> QED
      BY <3>1 DEF Next, Tick, Kill
  <2>2. e = f
    BY <2>1 DEF Report, WatchInv, TypeOK
  <2>3. watched[e] # NoTime /\ now - watched[e] > HungAfter
    BY <2>1, <2>2 DEF Report, Hung
  <2> QED
    BY <2>3 DEF WatchInv, WatchesAreOfRunsInside
<1> QED
  BY <1>1, WatchInductive, PTL DEF Spec, AlarmsAreTrue

-----------------------------------------------------------------------------
(* The payload files. *)

\* Runs that are in the sandbox together are marked as crowded, and the file an uncrowded run
\* is about to copy or to execute is its own.
PayloadInv ==
    /\ TypeOK
    /\ \A r \in Runs : \A q \in Runs \ {r} : InSandbox(r) /\ InSandbox(q) => run[r].crowded
    /\ \A r \in Runs : ~run[r].crowded =>
          /\ run[r].pc = "copy" => local = r
          /\ run[r].pc = "exec" => remote = r
    /\ \A r \in Runs : run[r].pc \in {"coming", "validate", "write"} => run[r].out = "none"
    /\ LoneRunGetsItsPayload

\* Somebody who will clean up a file is still there, or something has gone wrong.
CleanUpInv ==
    /\ TypeOK
    /\ local # NoRun => \E r \in Runs : run[r].pc \in {"copy", "exec", "unlocal", "killed"}
    /\ remote # NoRun => \/ faults > 0
                         \/ \E r \in Runs : run[r].pc \in {"exec", "unlocal", "unremote"}

LEMMA PayloadStep ==
    ASSUME PayloadInv, NEW r \in Runs, RunStep(r), ~Enter(r), ~WriteLocal(r) PROVE PayloadInv'
<1> USE DEF PayloadInv, TypeOK, Run, InSandbox, LoneRunGetsItsPayload
<1>0. TypeOK'
  BY NextTyped DEF Next
<1>1. CASE Leave(r)
  BY <1>0, <1>1 DEF Leave
<1>2. CASE Legacy(r)
  BY <1>0, <1>2 DEF Legacy
<1>3. CASE Validate(r)
  BY <1>0, <1>3 DEF Validate
<1>4. CASE CheckCost(r)
  BY <1>0, <1>4 DEF CheckCost
<1>5. ASSUME NEW t \in Tools, CallTool(r, t) PROVE PayloadInv'
  BY <1>0, <1>5 DEF CallTool
<1>6. CASE WriteFails(r)
  BY <1>0, <1>6 DEF WriteFails, Fault
<1>7. CASE Copy(r)
  BY <1>0, <1>7 DEF Copy, NoFault
<1>8. CASE CopyFails(r)
  BY <1>0, <1>8 DEF CopyFails, Fault, NoFault
<1>9. CASE Exec(r)
  BY <1>0, <1>9 DEF Exec
<1>10. CASE ExecFails(r)
  BY <1>0, <1>10 DEF ExecFails, Fault
<1>11. CASE CleanLocal(r)
  BY <1>0, <1>11 DEF CleanLocal
<1>12. CASE CleanRemote(r)
  BY <1>0, <1>12 DEF CleanRemote, Fault, NoFault
<1> QED
  BY <1>1, <1>2, <1>3, <1>4, <1>5, <1>6, <1>7, <1>8, <1>9, <1>10, <1>11, <1>12 DEF RunStep

LEMMA CleanUpStep ==
    ASSUME CleanUpInv, NEW r \in Runs, RunStep(r), ~Enter(r), ~WriteLocal(r) PROVE CleanUpInv'
<1> USE DEF CleanUpInv, TypeOK, Run
<1>0. TypeOK'
  BY NextTyped DEF Next
<1>1. CASE Leave(r)
  BY <1>0, <1>1 DEF Leave
<1>2. CASE Legacy(r)
  BY <1>0, <1>2 DEF Legacy
<1>3. CASE Validate(r)
  BY <1>0, <1>3 DEF Validate
<1>4. CASE CheckCost(r)
  BY <1>0, <1>4 DEF CheckCost
<1>5. ASSUME NEW t \in Tools, CallTool(r, t) PROVE CleanUpInv'
  BY <1>0, <1>5 DEF CallTool
<1>6. CASE WriteFails(r)
  BY <1>0, <1>6 DEF WriteFails, Fault
<1>7. CASE Copy(r)
  BY <1>0, <1>7 DEF Copy, NoFault
<1>8. CASE CopyFails(r)
  BY <1>0, <1>8 DEF CopyFails, Fault, NoFault
<1>9. CASE Exec(r)
  BY <1>0, <1>9 DEF Exec
<1>10. CASE ExecFails(r)
  BY <1>0, <1>10 DEF ExecFails, Fault
<1>11. CASE CleanLocal(r)
  BY <1>0, <1>11 DEF CleanLocal
<1>12. CASE CleanRemote(r)
  BY <1>0, <1>12 DEF CleanRemote, Fault, NoFault
<1> QED
  BY <1>1, <1>2, <1>3, <1>4, <1>5, <1>6, <1>7, <1>8, <1>9, <1>10, <1>11, <1>12 DEF RunStep

\* Entering the step touches no program counter but the run's own, and no file.
LEMMA PayloadEnter == ASSUME TypeOK, NEW r \in Runs, Enter(r)
    PROVE  /\ local' = local /\ remote' = remote /\ faults' = faults
           /\ run[r].pc = "coming" /\ run'[r].pc \in {"legacy", "validate"}
           /\ \A q \in Runs \ {r} : run'[q].pc = run[q].pc
           /\ \A q \in Runs : /\ run'[q].crowded = run[q].crowded
                              /\ run'[q].out = run[q].out
                              /\ run'[q].got = run[q].got
<1> DEFINE others == {q \in Colleagues(r) : Inside(q)}
           entered == [run[r] EXCEPT !.pc = IF r \in Resumed THEN "legacy" ELSE "validate",
                                     !.since = now, !.shared = (others # {})]
           joined(q) == [run[q] EXCEPT !.shared = TRUE]
<1>1. run' = [q \in Runs |-> IF q = r THEN entered ELSE IF q \in others THEN joined(q) ELSE run[q]]
  BY DEF Enter
<1>2. \A q \in Runs : run[q] \in Run
  BY DEF TypeOK
<1>3. /\ entered.pc \in {"legacy", "validate"} /\ entered.crowded = run[r].crowded
      /\ entered.out = run[r].out /\ entered.got = run[r].got
  BY <1>2 DEF Run
<1>4. \A q \in Runs : /\ joined(q).pc = run[q].pc /\ joined(q).crowded = run[q].crowded
                      /\ joined(q).out = run[q].out /\ joined(q).got = run[q].got
  BY <1>2 DEF Run
<1> HIDE DEF entered, joined, others
<1>5. run'[r] = entered
  BY <1>1
<1>6. \A q \in Runs \ {r} : run'[q] = joined(q) \/ run'[q] = run[q]
  BY <1>1
<1>7. run'[r].pc \in {"legacy", "validate"}
  BY <1>3, <1>5
<1>8. \A q \in Runs \ {r} : run'[q].pc = run[q].pc
  BY <1>4, <1>6
<1>9. ASSUME NEW q \in Runs
      PROVE  /\ run'[q].crowded = run[q].crowded
             /\ run'[q].out = run[q].out
             /\ run'[q].got = run[q].got
  <2>1. CASE q = r
    BY <1>3, <1>5, <2>1
  <2>2. CASE q # r
    BY <1>4, <1>6, <2>2
  <2> QED
    BY <2>1, <2>2
<1>10. local' = local /\ remote' = remote /\ faults' = faults /\ run[r].pc = "coming"
  BY DEF Enter
<1> QED
  BY <1>7, <1>8, <1>9, <1>10

LEMMA PayloadWrite == ASSUME TypeOK, NEW r \in Runs, WriteLocal(r)
    PROVE  /\ local' = r /\ remote' = remote /\ faults' = faults
           /\ run[r].pc = "write" /\ run'[r].pc = "copy" /\ run'[r].out = run[r].out
           /\ run'[r].crowded = (\E q \in Runs \ {r} : InSandbox(q))
           /\ \A q \in Runs \ {r} : /\ run'[q].pc = run[q].pc
                                    /\ run'[q].out = run[q].out
                                    /\ run'[q].got = run[q].got
                                    /\ InSandbox(q) => run'[q].crowded
                                    /\ ~InSandbox(q) => run'[q].crowded = run[q].crowded
<1> DEFINE others == {q \in Runs \ {r} : InSandbox(q)}
           writing == [run[r] EXCEPT !.pc = "copy", !.crowded = (others # {})]
           joined(q) == [run[q] EXCEPT !.crowded = TRUE]
<1>1. run' = [q \in Runs |-> IF q = r THEN writing ELSE IF q \in others THEN joined(q) ELSE run[q]]
  BY DEF WriteLocal
<1>2. \A q \in Runs : run[q] \in Run
  BY DEF TypeOK
<1>3. writing.pc = "copy" /\ writing.out = run[r].out /\ writing.crowded = (others # {})
  BY <1>2 DEF Run
<1>4. \A q \in Runs : /\ joined(q).pc = run[q].pc /\ joined(q).out = run[q].out
                      /\ joined(q).got = run[q].got /\ joined(q).crowded = TRUE
  BY <1>2 DEF Run
<1>5. (others # {}) = (\E q \in Runs \ {r} : InSandbox(q))
  OBVIOUS
<1>6. \A q \in Runs \ {r} : q \in others <=> InSandbox(q)
  OBVIOUS
<1> HIDE DEF writing, joined, others
<1>7. run'[r] = writing
  BY <1>1
<1>8. \A q \in Runs \ {r} : IF InSandbox(q) THEN run'[q] = joined(q) ELSE run'[q] = run[q]
  BY <1>1, <1>6
<1>9. /\ run'[r].pc = "copy" /\ run'[r].out = run[r].out
      /\ run'[r].crowded = (\E q \in Runs \ {r} : InSandbox(q))
  BY <1>3, <1>5, <1>7
<1>10. \A q \in Runs \ {r} : /\ run'[q].pc = run[q].pc
                             /\ run'[q].out = run[q].out
                             /\ run'[q].got = run[q].got
                             /\ InSandbox(q) => run'[q].crowded
                             /\ ~InSandbox(q) => run'[q].crowded = run[q].crowded
  BY <1>4, <1>8
<1> QED
  BY <1>9, <1>10 DEF WriteLocal

LEMMA PayloadInductive == Spec => []PayloadInv
<1>1. Init => PayloadInv
  BY InitTyped DEF Init, Coming, PayloadInv, InSandbox, LoneRunGetsItsPayload
<1>2. PayloadInv /\ [Next]_vars => PayloadInv'
  <2> SUFFICES ASSUME PayloadInv, [Next]_vars PROVE PayloadInv'
    OBVIOUS
  <2>0. TypeOK /\ TypeOK'
    BY NextTyped DEF PayloadInv
  <2>1. ASSUME NEW r \in Runs, Enter(r) PROVE PayloadInv'
    BY <2>0, <2>1, PayloadEnter DEF PayloadInv, InSandbox, LoneRunGetsItsPayload
  <2>2. ASSUME NEW r \in Runs, WriteLocal(r) PROVE PayloadInv'
    <3>1. InSandbox(r)' /\ ~InSandbox(r) /\ \A q \in Runs \ {r} : InSandbox(q)' <=> InSandbox(q)
      BY <2>0, <2>2, PayloadWrite DEF InSandbox
    <3>2. ASSUME NEW p \in Runs, NEW q \in Runs \ {p}, InSandbox(p)', InSandbox(q)' PROVE run'[p].crowded
      <4>1. CASE p = r
        BY <2>0, <2>2, <3>1, <3>2, <4>1, PayloadWrite
      <4>2. CASE p # r /\ q = r
        BY <2>0, <2>2, <3>1, <3>2, <4>2, PayloadWrite
      <4>3. CASE p # r /\ q # r
        BY <2>0, <2>2, <3>1, <3>2, <4>3, PayloadWrite DEF PayloadInv
      <4> QED
        BY <4>1, <4>2, <4>3
    <3>3. ASSUME NEW p \in Runs, ~run'[p].crowded
          PROVE  (run'[p].pc = "copy" => local' = p) /\ (run'[p].pc = "exec" => remote' = p)
      <4>1. CASE p = r
        BY <2>0, <2>2, <4>1, PayloadWrite
      <4>2. CASE p # r
        <5>1. ~InSandbox(p) /\ run'[p].pc = run[p].pc
          BY <2>0, <2>2, <3>3, <4>2, PayloadWrite
        <5> QED
          BY <5>1 DEF InSandbox
      <4> QED
        BY <4>1, <4>2
    <3>4. ASSUME NEW p \in Runs, run'[p].pc \in {"coming", "validate", "write"}
          PROVE  run'[p].out = "none"
      BY <2>0, <2>2, <3>4, PayloadWrite DEF PayloadInv
    <3>5. LoneRunGetsItsPayload'
      <4> SUFFICES ASSUME NEW p \in Runs, ~run'[p].crowded, run'[p].out \in {"output", "empty"}
                   PROVE  run'[p].got = p
        BY DEF LoneRunGetsItsPayload
      <4>1. p # r
        BY <2>0, <2>2, PayloadWrite DEF PayloadInv
      <4>2. ~run[p].crowded /\ run'[p].out = run[p].out /\ run'[p].got = run[p].got
        BY <2>0, <2>2, <4>1, PayloadWrite
      <4> QED
        BY <4>2 DEF PayloadInv, LoneRunGetsItsPayload
    <3> QED
      BY <2>0, <3>2, <3>3, <3>4, <3>5 DEF PayloadInv
  <2>3. CASE Kill
    BY <2>0, <2>3 DEF Kill, PayloadInv, TypeOK, Run, InSandbox, Inside, LoneRunGetsItsPayload
  <2>4. CASE UNCHANGED <<run, local, remote>>
    BY <2>0, <2>4 DEF PayloadInv, InSandbox, LoneRunGetsItsPayload
  <2>5. ASSUME NEW e \in Executors, Report(e) PROVE PayloadInv'
    BY <2>4, <2>5 DEF Report
  <2>6. Tick \/ UNCHANGED vars => PayloadInv'
    BY <2>4 DEF Tick, vars
  <2> QED
    BY <2>1, <2>2, <2>3, <2>5, <2>6, PayloadStep DEF Next
<1> QED
  BY <1>1, <1>2, PTL DEF Spec

LEMMA CleanUpInductive == Spec => []CleanUpInv
<1>1. Init => CleanUpInv
  BY InitTyped DEF Init, CleanUpInv
<1>2. CleanUpInv /\ [Next]_vars => CleanUpInv'
  <2> SUFFICES ASSUME CleanUpInv, [Next]_vars PROVE CleanUpInv'
    OBVIOUS
  <2>0. TypeOK /\ TypeOK'
    BY NextTyped DEF CleanUpInv
  <2>1. ASSUME NEW r \in Runs, Enter(r) PROVE CleanUpInv'
    BY <2>0, <2>1, PayloadEnter DEF CleanUpInv
  <2>2. ASSUME NEW r \in Runs, WriteLocal(r) PROVE CleanUpInv'
    BY <2>0, <2>2, PayloadWrite DEF CleanUpInv
  <2>3. CASE Kill
    <3>1. faults' > 0
      BY <2>3 DEF Kill, Fault, CleanUpInv, TypeOK
    <3>2. ASSUME NEW r \in Runs, run[r].pc \in {"copy", "exec", "unlocal", "killed"}
          PROVE  run'[r].pc = "killed"
      BY <2>3, <3>2 DEF Kill, Inside, CleanUpInv, TypeOK, Run
    <3> QED
      BY <2>0, <2>3, <3>1, <3>2 DEF Kill, CleanUpInv
  <2>4. CASE UNCHANGED <<run, local, remote, faults>>
    BY <2>0, <2>4 DEF CleanUpInv
  <2>5. ASSUME NEW e \in Executors, Report(e) PROVE CleanUpInv'
    BY <2>4, <2>5 DEF Report
  <2>6. Tick \/ UNCHANGED vars => CleanUpInv'
    BY <2>4 DEF Tick, vars
  <2> QED
    BY <2>1, <2>2, <2>3, <2>5, <2>6, CleanUpStep DEF Next
<1> QED
  BY <1>1, <1>2, PTL DEF Spec

\* For any number of runs and faults: a run that was alone in the sandbox has executed its own
\* payload; only runs that overlap read each other's.
THEOREM OwnPayloads == Spec => []LoneRunGetsItsPayload
BY PayloadInductive, PTL DEF PayloadInv

\* For any number of runs and faults: with nobody in the sandbox, the local file is gone
\* unless the process was killed, and a remote file has stayed only after a fault.
THEOREM CleanUp == Spec => []PayloadsAreCleanedUp
<1>1. CleanUpInv => PayloadsAreCleanedUp
  BY DEF CleanUpInv, PayloadsAreCleanedUp, InSandbox
<1> QED
  BY <1>1, CleanUpInductive, PTL

=============================================================================
