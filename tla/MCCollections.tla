--------------------------- MODULE MCCollections ---------------------------
(* TLC's instances of Collections: the default ladders with their days drawn together. *)
EXTENDS Collections, TLC

CONSTANTS r1, r2

Rule(day, human) == [day |-> day, human |-> human]

TwoTiers == {"standard", "high_value"}
Ladders == [standard |-> {Rule(1, FALSE), Rule(2, FALSE), Rule(3, TRUE)},
            high_value |-> {Rule(1, FALSE), Rule(2, TRUE), Rule(3, TRUE)}]
TwoRequests == {r1, r2}
Symmetric == Permutations(Requests)

=============================================================================
