------------------------------ MODULE AtomicStore ------------------------------
(* What internal/policy promises its callers: a map from identity keys to      *)
(* entries that each operation reads or changes in one step, or fails at and    *)
(* leaves alone. Nothing but an operation changes it: not a crash either.       *)
EXTENDS Policy

CONSTANTS Op, IdentityKey, RequestRange, None

VARIABLES
    request,  \* [Op -> what it was called with]
    entries,  \* [IdentityKey -> entry, None if not enrolled]
    result    \* [Op -> what it returned, None before]

vars == <<request, entries, result>>

StoredEntry == [kind: LauncherKind, level: Level]
DefaultEntry(kind) == [kind |-> kind, level |-> DefaultLevelForKind[kind]]

\* The entries after r, when they were e before; Set needs an enrolled key.
Possible(r, e) ==
    CASE r.op = "enroll"   -> r.kind \in LauncherKind
      [] r.op = "set"      -> r.level \in Level /\ e[r.key] # None
      [] r.op \in {"unenroll", "get"} -> TRUE
Effect(r, e) ==
    CASE r.op = "enroll"   -> [e EXCEPT ![r.key] = DefaultEntry(r.kind)]
      [] r.op = "unenroll" -> [e EXCEPT ![r.key] = None]
      [] r.op = "set"      -> [e EXCEPT ![r.key] = [@ EXCEPT !.level = r.level]]
      [] r.op = "get"      -> e
Ok(entry) == [ok |-> TRUE, entry |-> entry]
Error == [ok |-> FALSE, entry |-> None]

Init ==
    /\ request \in [Op -> RequestRange]
    /\ entries \in [IdentityKey -> StoredEntry \cup {None}]
    /\ result = [o \in Op |-> None]

Perform(o) ==
    /\ result[o] = None
    /\ Possible(request[o], entries)
    /\ entries' = Effect(request[o], entries)
    /\ result' = [result EXCEPT ![o] = Ok(entries'[request[o].key])]
    /\ UNCHANGED request

Refuse(o) ==
    /\ result[o] = None
    /\ result' = [result EXCEPT ![o] = Error]
    /\ UNCHANGED <<request, entries>>

\* Processes of several operations may die at once.
Die ==
    /\ \E dead \in SUBSET {o \in Op : result[o] = None} :
         result' = [o \in Op |-> IF o \in dead THEN Error ELSE result[o]]
    /\ UNCHANGED <<request, entries>>

Next == Die \/ \E o \in Op : Perform(o) \/ Refuse(o)

Spec == Init /\ [][Next]_vars
=============================================================================
