----------------------------- MODULE MCRunData -----------------------------
\* Two runs of two steps and one request; a batch with a new URL, and one with a URL twice.
EXTENDS RunData, TLC

CONSTANTS r1, r2, q1, u1, u2

MCRuns == {r1, r2}
MCRequests == {q1}
MCUrls == {u1, u2}
MCBatches == {<<u1>>, <<u2, u1, u1>>}
=============================================================================
