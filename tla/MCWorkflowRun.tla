--------------------------- MODULE MCWorkflowRun ---------------------------
(* TLC's instances of WorkflowRun: one plain workflow and three with a human gate. *)
EXTENDS WorkflowRun, StepOrder, Relation

CONSTANTS a, h, b, c, r1, r2, approve, reject

AllSteps == {a, h, b, c}
Answers == {approve, reject}

Edge(from, to, label) == [from |-> from, to |-> to, label |-> label]
Graph(steps, human, conns) ==
    [order |-> TopologicalSort(steps, conns), human |-> human, conns |-> conns]

Plain == Graph(<<b, a>>, {}, <<Edge(a, b, Unlabelled)>>)
\* Only one answer has a connection of its own: the other takes it as well.
OneWay == Graph(<<a, b, h>>, {h}, <<Edge(a, h, Unlabelled), Edge(h, b, approve)>>)
\* The gate is the last step.
Final == Graph(<<h, a>>, {h}, <<Edge(a, h, Unlabelled)>>)

\* Two steps behind the gate.
Chain == Graph(<<h, b, c>>, {h}, <<Edge(h, b, Unlabelled), Edge(b, c, Unlabelled)>>)

ChainOnly == {Chain}
AllWorkflows == {Plain, OneWay, Final}
TwoResponders == {r1, r2}

\* TopologicalSort returns such an order for all lists of up to four connections of three
\* steps and one of another agent, cycles and repeated connections included.
ConnectionLists == UNION {[1..n -> [from : {a, b, c}, to : {a, b, c}]] : n \in 0..4}
Foreign == <<Edge(h, a, Unlabelled)>>

ASSUME SortIsSound ==
    \A conns \in ConnectionLists :
        /\ IsSortOf(TopologicalSort(<<a, b, c>>, conns), <<a, b, c>>, conns)
        /\ TopologicalSort(<<a, b, c>>, Foreign \o conns) = TopologicalSort(<<a, b, c>>, conns)

\* The steps held up are those of a cycle, and those that connections lead to from one.
Leads(conns) ==
    TransitiveClosure([s, t \in {a, b, c} |-> Connected(conns, s, t)], {a, b, c})

ASSUME HeldUpByCycles ==
    \A conns \in ConnectionLists :
        HeldUp(<<a, b, c>>, conns) =
            {t \in {a, b, c} : \E s \in {a, b, c} : Leads(conns)[s, s] /\ (s = t \/ Leads(conns)[s, t])}

=============================================================================
