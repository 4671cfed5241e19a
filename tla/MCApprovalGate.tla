---------------------------- MODULE MCApprovalGate ----------------------------
(* Small instances of ApprovalGate.                                          *)
EXTENDS ApprovalGate, TLC

\* gh is classified; every other tool's commands are "unknown".
WriteOrSecret == {[tool |-> "gh", class |-> k] : k \in {"write", "secret-reveal"}}
TwoTools == {[tool |-> "gh", class |-> "write"], [tool |-> "git", class |-> "unknown"]}
OneCommand == {[tool |-> "gh", class |-> "write"]}
MixedCommands == {[tool |-> "gh", class |-> k] : k \in {"write", "secret-reveal"}}
                   \cup {[tool |-> "git", class |-> "unknown"]}

CallSymmetry == Permutations(Call)
=============================================================================
