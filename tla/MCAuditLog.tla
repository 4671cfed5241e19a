----------------------------- MODULE MCAuditLog -----------------------------
(* Small instances of AuditLog.                                              *)
EXTENDS AuditLog, TLC

\* Row 1 is to be pruned, row 2 to be kept.
OldAndFresh == <<1, 2>>

Processes == Permutations(Writer) \cup Permutations(Pruner)

\* All but listed and base: they are history, on which no step depends.
Present == <<fileVars, writerVars, prunerVars, follower, offset, shown, cut>>
=============================================================================
