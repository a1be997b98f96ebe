----------------------------- MODULE MCToolStep -----------------------------
\* Two runs on the worker's threads, which share an executor, and a resumed one in the server,
\* alone on its executor as every run of run_workflow() is; two tools.
EXTENDS ToolStep, TLC

CONSTANTS r1, r2, r3, worker, server, cheap, dear

MCRuns == {r1, r2, r3}
MCResumed == {r3}
MCExecutors == {worker, server}
MCExecutorOf == (r1 :> worker) @@ (r2 :> worker) @@ (r3 :> server)
MCTools == {cheap, dear}
MCCost == (cheap :> 1) @@ (dear :> 3)
Symmetric == Permutations({r1, r2})
=============================================================================
