---------------------------- MODULE JobLifecycle ----------------------------
(***************************************************************************)
(* What the job queue promises about a job, without threads, requests or   *)
(* SQL: it is submitted, taken at most once, run at most once while it is  *)
(* taken, and settled by whoever took it.  A job withdrawn before it was   *)
(* taken never runs.  A job whose taker vanished is lost for good: nobody  *)
(* takes it again.                                                         *)
(***************************************************************************)
EXTENDS Naturals

CONSTANT Jobs

VARIABLES phase, ran

Phases == {"new", "pending", "taken", "settled", "lost", "withdrawn"}

Init == phase = [j \in Jobs |-> "new"] /\ ran = {}

Move(j, from, to) ==
    /\ phase[j] = from
    /\ phase' = [phase EXCEPT ![j] = to]
    /\ UNCHANGED ran

Submit(j)   == Move(j, "new", "pending")
Withdraw(j) == Move(j, "pending", "withdrawn")
Take(j)     == Move(j, "pending", "taken")
Settle(j)   == Move(j, "taken", "settled")

Run(j) ==
    /\ phase[j] = "taken"
    /\ j \notin ran
    /\ ran' = ran \union {j}
    /\ UNCHANGED phase

\* Some takers vanish; all of them when the process is killed.
Lose(S) ==
    /\ \A j \in S : phase[j] = "taken"
    /\ phase' = [j \in Jobs |-> IF j \in S THEN "lost" ELSE phase[j]]
    /\ UNCHANGED ran

Next ==
    \/ \E j \in Jobs : Submit(j) \/ Withdraw(j) \/ Take(j) \/ Run(j) \/ Settle(j)
    \/ \E S \in SUBSET Jobs : Lose(S)

Spec == Init /\ [][Next]_<<phase, ran>>

=============================================================================
