----------------------------- MODULE GatePromise -----------------------------
(* What RequestGate promises its callers, without windows, channels, tables  *)
(* or deadlines: each request gets one outcome; it is an answer its own      *)
(* window was given, a session grant its launcher process holds, or a        *)
(* failure; and grants come only from "Allow for Session" answers.           *)
EXTENDS Policy

CONSTANTS Call, Process, None

Answer == {"deny", "allow-once", "allow-session"}
Failure == {"unavailable", "no-reply"}

VARIABLES
    command,   \* [Call -> what is asked about]
    asker,     \* [Call -> launcher process the request is accounted to, or None]
    given,     \* [Call -> answers its window was given]
    outcome,   \* [Call -> what the request came to, "none" before]
    holders    \* session grants: [process, tool, class]

pvars == <<command, asker, given, outcome, holders>>

Undecided(c) == outcome[c] = "none"

Init ==
    /\ asker = [c \in Call |-> None]
    /\ given = [c \in Call |-> {}]
    /\ outcome = [c \in Call |-> "none"]
    /\ holders = {}

Account(c, p) ==
    /\ Undecided(c) /\ asker[c] = None
    /\ asker' = [asker EXCEPT ![c] = p]
    /\ UNCHANGED <<command, given, outcome, holders>>

Give(c, a) ==
    /\ given' = [given EXCEPT ![c] = @ \cup {a}]
    /\ UNCHANGED <<command, asker, outcome, holders>>

GrantOf(c) == [process |-> asker[c], tool |-> command[c].tool, class |-> command[c].class]

\* A request that ends with a refusal or a single approval.
Decided(c) ==
    /\ Undecided(c)
    /\ \/ /\ "deny" \in given[c]
          /\ outcome' = [outcome EXCEPT ![c] = "deny"]
       \/ /\ "allow-once" \in given[c]
          /\ outcome' = [outcome EXCEPT ![c] = "allow-once"]
    /\ UNCHANGED <<command, asker, given, holders>>

\* A new grant; what its process held before need not survive it.
GrantSession(c) ==
    /\ Undecided(c)
    /\ "allow-session" \in given[c]
    /\ outcome' = [outcome EXCEPT ![c] = "session-grant"]
    /\ \E kept \in SUBSET holders :
         holders' = IF asker[c] = None THEN kept ELSE kept \cup {GrantOf(c)}
    /\ UNCHANGED <<command, asker, given>>

UseSession(c) ==
    /\ Undecided(c)
    /\ \E g \in holders : /\ g.process = asker[c]
                          /\ g.tool = command[c].tool
                          /\ classCoveredBy(command[c].class, g.class)
    /\ outcome' = [outcome EXCEPT ![c] = "session-allow"]
    /\ UNCHANGED <<command, asker, given, holders>>

\* Requests fail closed, several at once when the agent ends.
Fail(S) ==
    /\ \A c \in S : Undecided(c)
    /\ \E f \in Failure : outcome' = [c \in Call |-> IF c \in S THEN f ELSE outcome[c]]
    /\ holders' \in SUBSET holders
    /\ UNCHANGED <<command, asker, given>>

Next == \/ \E c \in Call : \/ \E p \in Process : Account(c, p)
                           \/ \E a \in Answer : Give(c, a)
                           \/ Decided(c) \/ GrantSession(c) \/ UseSession(c)
        \/ \E S \in SUBSET Call : Fail(S)

Spec == Init /\ [][Next]_pvars
=============================================================================
