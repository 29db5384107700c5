--------------------------- MODULE MCAuditLogger ---------------------------
(* AuditLogger for TLC: entries and flushes are interchangeable.            *)
EXTENDS AuditLogger, TLC

Symmetry == Permutations(LoopEntries) \cup Permutations(ThreadEntries)
              \cup Permutations(Flushers)
=============================================================================
