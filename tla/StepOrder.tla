----------------------------- MODULE StepOrder -----------------------------
(***************************************************************************)
(* The order in which execute() walks the steps of a workflow:             *)
(* _topological_sort() of workflow_executor.py.                            *)
(*                                                                         *)
(* steps is the sequence of the agent's steps as the table returns them,   *)
(* conns that of its connections, [from |-> ..., to |-> ...].              *)
(***************************************************************************)
EXTENDS Naturals, Sequences, FiniteSets, Functions

\* The elements of a sequence at the positions of P, in their order.
Rank(P, i) == Cardinality({j \in P : j <= i})
Nth(P, k) == CHOOSE i \in P : Rank(P, i) = k
Picked(seq, P) == [k \in 1..Cardinality(P) |-> seq[Nth(P, k)]]

\* Connections count only when they are between steps of the agent.
Inner(steps, conns) ==
    Picked(conns, {c \in DOMAIN conns : {conns[c].from, conns[c].to} \subseteq Range(steps)})

\* in_degree, once the steps of done have left the queue: connections count one by one, so
\* two between the same steps are taken off together.
InDegreeIsZero(conns, s, done) ==
    \A c \in DOMAIN conns : conns[c].to = s => conns[c].from \in done

\* The connection with which the degree of a neighbour of s reaches zero: its last one from s.
Frees(conns, c, s, done) ==
    /\ conns[c].from = s
    /\ InDegreeIsZero(conns, conns[c].to, done)
    /\ \A d \in DOMAIN conns : conns[d].from = s /\ conns[d].to = conns[c].to => d <= c

\* The neighbours that join the queue when s has left it, in the order of the connections.
Freed(conns, s, done) ==
    Picked([c \in DOMAIN conns |-> conns[c].to], {c \in DOMAIN conns : Frees(conns, c, s, done)})

Start(steps, conns) ==
    [queue |-> Picked(steps, {i \in DOMAIN steps : InDegreeIsZero(conns, steps[i], {})}),
     ordered |-> <<>>]

\* One turn of the loop.
Turn(conns, walk) ==
    IF walk.queue = <<>> THEN walk
    ELSE LET s == Head(walk.queue)
             ordered == Append(walk.ordered, s) IN
         [queue |-> Tail(walk.queue) \o Freed(conns, s, Range(ordered)), ordered |-> ordered]

\* What has left the queue when it is empty: there is a turn for every step at most.
Dequeued(steps, conns) ==
    LET walk[n \in 0..Len(steps)] ==
            IF n = 0 THEN Start(steps, conns) ELSE Turn(conns, walk[n - 1])
    IN  walk[Len(steps)].ordered

\* Steps that a cycle keeps from the queue follow in the order of the table.
TopologicalSort(steps, conns) ==
    LET ordered == Dequeued(steps, Inner(steps, conns))
    IN  ordered \o Picked(steps, {i \in DOMAIN steps : steps[i] \notin Range(ordered)})

-----------------------------------------------------------------------------
(***************************************************************************)
(* What the order promises.                                                *)
(***************************************************************************)

Connected(conns, s, t) == \E c \in DOMAIN conns : conns[c].from = s /\ conns[c].to = t

\* Steps are held up when each has a connection from one of them: those of a cycle, and those
\* behind one.
HeldUp(steps, conns) ==
    UNION {T \in SUBSET Range(steps) : \A t \in T : \E s \in T : Connected(conns, s, t)}

\* Every step is walked once; a step that is not held up comes behind every step with a
\* connection to it; held up steps come last, in the order of the table.
IsSortOf(order, steps, conns) ==
    LET held == {i \in DOMAIN steps : steps[i] \in HeldUp(steps, conns)} IN
    /\ order \in [1..Len(steps) -> Range(steps)] /\ Range(order) = Range(steps)
    /\ \A i, k \in DOMAIN order :
          Connected(conns, order[i], order[k]) /\ order[k] \notin HeldUp(steps, conns) => i < k
    /\ \E first \in 0..Len(steps) :
          /\ Len(steps) = first + Cardinality(held)
          /\ \A k \in 1..Cardinality(held) : order[first + k] = Picked(steps, held)[k]
=============================================================================
