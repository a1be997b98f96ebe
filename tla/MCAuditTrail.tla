---------------------------- MODULE MCAuditTrail ----------------------------
(* TLC's instances of AuditTrail. *)
EXTENDS AuditTrail, TLC

CONSTANTS l1, l2, l3

ThreeLoggers == {l1, l2, l3}

Symmetric == Permutations(Loggers)

=============================================================================
