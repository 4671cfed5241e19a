------------------------------- MODULE Policy -------------------------------
(* The vocabulary of internal/contracts, the auto-allow matrix of            *)
(* internal/policy/decide.go, and the order of command classes that session  *)
(* grants use (internal/agentd/session.go). Pure operators, no state. In this *)
(* and the other modules a definition marked "mutant" is a bug the code could *)
(* have had; nothing uses it.                                                *)
EXTENDS Naturals

Class == {"read", "write", "secret-reveal", "unknown"}
Level == {"Deny", "Read", "Trusted", "Full"}
LauncherKind == {"ai-harness", "terminal"}

\* What one gate check came to; only the four of AllowDecision run a command.
Decision == {"auto-allow", "allow-once", "deny", "unavailable",
             "session-grant", "session-allow"}
AllowDecision == {"auto-allow", "allow-once", "session-grant", "session-allow"}

\* A launcher enrolled without a level of its own starts at its kind's.
DefaultLevelForKind ==
    [kind \in LauncherKind |-> IF kind = "ai-harness" THEN "Read" ELSE "Trusted"]

\* The classes each level lets through unasked. Deny has no row in the table.
matrix == [Read    |-> {"read"},
           Trusted |-> {"read", "write"},
           Full    |-> Class]

\* The pre-check: Deny is a hard stop that never asks, and what the matrix
\* does not let through is put to a human.
DecideDenyAsks(level, class) ==                          \* mutant
    IF level # "Deny" /\ class \in matrix[level] THEN "auto-allow" ELSE "prompt"
Decide(level, class) ==
    IF level = "Deny" THEN "deny"
    ELSE IF class \in matrix[level] THEN "auto-allow" ELSE "prompt"

-----------------------------------------------------------------------------
\* Classes from least to most privileged; "unknown" has no place in the order.
classRank(class) == CASE class = "read" -> 0
                     [] class = "write" -> 1
                     [] class = "secret-reveal" -> 2

\* A grant covers its own class and the less privileged ones; an unknown
\* grant covers unknown commands only, and nothing else covers them.
classCoveredBy(requested, granted) ==
    IF "unknown" \in {requested, granted}
    THEN requested = granted
    ELSE classRank(requested) =< classRank(granted)
=============================================================================
