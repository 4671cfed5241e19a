---------------------------- MODULE MCPolicyStore ----------------------------
(* Small instances of PolicyStore.                                           *)
EXTENDS PolicyStore, TLC

OnOneKey == {[op |-> "enroll", key |-> 1, kind |-> "ai-harness"],
             [op |-> "unenroll", key |-> 1],
             [op |-> "set", key |-> 1, level |-> "Full"],
             [op |-> "get", key |-> 1]}
OnAnother == {[op |-> "enroll", key |-> 2, kind |-> "terminal"],
              [op |-> "set", key |-> 2, level |-> "Deny"]}
Malformed == {[op |-> "enroll", key |-> 1, kind |-> "robot"],
              [op |-> "set", key |-> 1, level |-> "Root"]}
AllRequests == OnOneKey \cup OnAnother \cup Malformed
Changes == {[op |-> "unenroll", key |-> 1], [op |-> "set", key |-> 2, level |-> "Deny"]}

OneEnrolled == (1 :> None) @@ (2 :> [kind |-> "terminal", level |-> "Trusted"])
BothEnrolled == [k \in {1, 2} |-> [kind |-> "terminal", level |-> "Trusted"]]

\* Operations of one cw process, and a shim that looks a launcher up.
Lookups == {[op |-> "get", key |-> k] : k \in {1, 2}}
Shim == "shim"
ChangesAndShim == [o \in Op |-> IF o = Shim THEN Lookups ELSE AllRequests]
OneProcessAndShim == [o \in Op |-> IF o = Shim THEN Shim ELSE "cw"]

\* Each operation in a cw process of its own.
ChangesEach == [o \in Op |-> Changes]
ProcessEach == [o \in Op |-> o]
=============================================================================
