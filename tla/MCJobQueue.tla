----------------------------- MODULE MCJobQueue -----------------------------
(* TLC's instances of JobQueue: model values for jobs, keys, requests and threads. *)
EXTENDS JobQueue, TLC

CONSTANTS j1, j2, k1, c1, c2, t1, t2

TwoJobs == {j1, j2}
OneKey == {k1}
OneThread == {t1}
OneClient == {c1}
TwoThreads == {t1, t2}

\* Threads and requests are interchangeable; so are uuids.
Symmetric == Permutations(Jobs) \union Permutations(Threads) \union Permutations(Clients)

=============================================================================
