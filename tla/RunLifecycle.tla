---------------------------- MODULE RunLifecycle ----------------------------
(***************************************************************************)
(* What a run of a workflow promises, without steps, logs or requests: one *)
(* walk through the steps, which begins once, may ask questions, and ends  *)
(* for good when it holds for an answer, completes or vanishes.  The row   *)
(* says pending, running, waiting or completed when the walk comes to that *)
(* point, and running again only behind a question that was answered.      *)
(*                                                                         *)
(* The row is not a function of the walk: a resumption writes 'running'    *)
(* whatever the row says and whatever the walk does, before the walk that  *)
(* asked has written that it waits, and even into a completed run in which *)
(* the step that asked has failed.  Nobody walks on after it.  Cancelling  *)
(* writes the row too, and does not stop the walk.                         *)
(***************************************************************************)
EXTENDS Naturals

VARIABLES
    row,       \* the status in the run's row
    walk,      \* new, created, walking, asking, held, over
    asked,     \* how many questions were asked
    answered   \* which of them were answered

Init == row = "none" /\ walk = "new" /\ asked = 0 /\ answered = {}

\* The walk moves and writes the row, or leaves it.
Move(from, to, status) ==
    /\ walk = from
    /\ walk' = to
    /\ row' = status
    /\ UNCHANGED <<asked, answered>>

Create   == Move("new", "created", "pending")
Begin    == Move("created", "walking", "running")
GoOn     == Move("asking", "walking", row)
Hold     == Move("asking", "held", row)
Pause    == Move("held", "over", "awaiting_escalation")
Complete == Move("walking", "over", "completed")

Vanish   == walk # "over" /\ Move(walk, "over", row)

Ask ==
    /\ walk = "walking"
    /\ walk' = "asking"
    /\ asked' = asked + 1
    /\ UNCHANGED <<row, answered>>

Answer(question) ==
    /\ answered' = answered \union {question}
    /\ UNCHANGED <<row, walk, asked>>

Resume ==
    /\ answered # {}
    /\ row' = "running"
    /\ UNCHANGED <<walk, asked, answered>>

Cancel ==
    /\ row # "none"
    /\ row' = "cancelled"
    /\ UNCHANGED <<walk, asked, answered>>

Next ==
    \/ Create \/ Begin \/ Ask \/ GoOn \/ Hold \/ Pause \/ Complete \/ Vanish
    \/ \E question \in 1..asked : Answer(question)
    \/ Resume
    \/ Cancel

Spec == Init /\ [][Next]_<<row, walk, asked, answered>>

=============================================================================
