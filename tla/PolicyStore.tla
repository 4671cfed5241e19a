------------------------------ MODULE PolicyStore ------------------------------
(* The enrollment store: internal/policy/store.go and the cw policy commands   *)
(* and shims that call it. An operation loads the whole file, changes its copy  *)
(* and replaces the file by a rename. storeMu makes that one step among the     *)
(* operations of one process; every cw and every shim is a process of its own.  *)
(*                                                                             *)
(* A file's content is a map, or Torn when a power loss cut what was not synced.*)
(* A definition marked "mutant" is a bug the code could have had; no action    *)
(* uses it.                                                                    *)
EXTENDS Policy

CONSTANTS
    Op,            \* calls of Enroll, Unenroll, Set, GetEntry (Resolve, List)
    Process,
    ProcessOf,     \* [Op -> the process it is made in]
    IdentityKey,
    RequestsOf,    \* [Op -> what it may be called with in this instance]
    Before,        \* the store there was before them
    MaxLosses,     \* bound: power losses
    None, Torn

ASSUME ProcessAssumption == ProcessOf \in [Op -> Process]
ASSUME LossAssumption == MaxLosses \in Nat
ASSUME NoneAssumption == None \notin Op

VARIABLES
    file,     \* what policy.json holds
    durable,  \* it was synced before it got its name
    storeMu,  \* [Process -> the operation that holds its lock, or None]
    pc,       \* [Op -> place in the operation]
    request,  \* [Op -> what it was called with]
    entries,  \* [Op -> its copy of the store, then of its temp file]
    synced,   \* operations whose temp file is synced
    result,   \* [Op -> what it returned, None before]
    losses

vars == <<file, durable, storeMu, pc, request, entries, synced, result, losses>>

Requests == UNION {RequestsOf[o] : o \in Op}

Store == INSTANCE AtomicStore WITH entries <- file, RequestRange <- Requests

StoredEntry == Store!StoredEntry
Entries == [IdentityKey -> StoredEntry \cup {None}]
Result == [ok: BOOLEAN, entry: StoredEntry \cup {None}]
Empty == [k \in IdentityKey |-> None]

ASSUME BeforeAssumption == Before \in Entries
ASSUME TornAssumption == Torn \notin Entries
ASSUME ResultAssumption == None \notin StoredEntry \cup Result
ASSUME RequestAssumption == \A o \in Op : \A r \in RequestsOf[o] :
           r.op \in {"enroll", "unenroll", "set", "get"} /\ r.key \in IdentityKey

-----------------------------------------------------------------------------
Init ==
    /\ file = Before
    /\ durable = TRUE
    /\ storeMu = [p \in Process |-> None]
    /\ pc = [o \in Op |-> "start"]
    /\ request \in [Op -> Requests] /\ \A o \in Op : request[o] \in RequestsOf[o]
    /\ entries = [o \in Op |-> Empty]
    /\ synced = {}
    /\ result = [o \in Op |-> None]
    /\ losses = 0

\* storeMu.Unlock is deferred: every return releases it.
KeepLock(o) == storeMu' = storeMu                        \* mutant
Unlock(o) == storeMu' = [storeMu EXCEPT ![ProcessOf[o]] = IF @ = o THEN None ELSE @]

ReturnError(o) ==
    /\ Unlock(o)
    /\ pc' = [pc EXCEPT ![o] = "done"]
    /\ result' = [result EXCEPT ![o] = Store!Error]
    /\ UNCHANGED <<file, durable, request, entries, synced, losses>>

\* A level or a kind that does not exist is refused before anything is read.
WellFormed(r) == /\ r.op = "enroll" => r.kind \in LauncherKind
                 /\ r.op = "set" => r.level \in Level

Reject(o) ==
    /\ pc[o] = "start"
    /\ ~WellFormed(request[o])
    /\ ReturnError(o)

LockAnyway(o) ==                                         \* mutant
    /\ pc[o] = "start"
    /\ WellFormed(request[o])
    /\ storeMu' = [storeMu EXCEPT ![ProcessOf[o]] = o]
    /\ pc' = [pc EXCEPT ![o] = "locked"]
    /\ UNCHANGED <<file, durable, request, entries, synced, result, losses>>
Lock(o) ==
    /\ pc[o] = "start"
    /\ WellFormed(request[o])
    /\ storeMu[ProcessOf[o]] = None
    /\ storeMu' = [storeMu EXCEPT ![ProcessOf[o]] = o]
    /\ pc' = [pc EXCEPT ![o] = "locked"]
    /\ UNCHANGED <<file, durable, request, entries, synced, result, losses>>

\* load, for an operation that only reads.
Get(o) ==
    /\ pc[o] = "locked"
    /\ request[o].op = "get"
    /\ file # Torn
    /\ Unlock(o)
    /\ pc' = [pc EXCEPT ![o] = "done"]
    /\ result' = [result EXCEPT ![o] = Store!Ok(file[request[o].key])]
    /\ UNCHANGED <<file, durable, request, entries, synced, losses>>

\* load and the change to the copy; Set refuses a key that is not enrolled.
Enrolled(o) == file[request[o].key] # None
SetLevel(r) == [file EXCEPT ![r.key] = [kind |-> @.kind, level |-> r.level]]
Change(r) ==
    CASE r.op = "enroll" -> [file EXCEPT ![r.key] = Store!DefaultEntry(r.kind)]
      [] r.op = "unenroll" -> [file EXCEPT ![r.key] = None]
      [] r.op = "set" -> SetLevel(r)

LoadUnchecked(o) ==                                      \* mutant
    /\ pc[o] = "locked"
    /\ request[o].op # "get"
    /\ file # Torn
    /\ entries' = [entries EXCEPT ![o] =
         IF request[o].op = "set"
         THEN [file EXCEPT ![request[o].key] = [kind |-> "ai-harness", level |-> request[o].level]]
         ELSE Change(request[o])]
    /\ pc' = [pc EXCEPT ![o] = "loaded"]
    /\ UNCHANGED <<file, durable, storeMu, request, synced, result, losses>>
Load(o) ==
    /\ pc[o] = "locked"
    /\ request[o].op # "get"
    /\ file # Torn
    /\ request[o].op = "set" => Enrolled(o)
    /\ entries' = [entries EXCEPT ![o] = Change(request[o])]
    /\ pc' = [pc EXCEPT ![o] = "loaded"]
    /\ UNCHANGED <<file, durable, storeMu, request, synced, result, losses>>

NotEnrolled(o) ==
    /\ pc[o] = "locked"
    /\ request[o].op = "set"
    /\ file # Torn
    /\ ~Enrolled(o)
    /\ ReturnError(o)

\* save: temp file, fsync, rename over policy.json; then the operation returns.
WriteTemp(o) ==
    /\ pc[o] = "loaded"
    /\ pc' = [pc EXCEPT ![o] = "written"]
    /\ UNCHANGED <<file, durable, storeMu, request, entries, synced, result, losses>>

SkipSync(o) ==                                           \* mutant
    /\ pc[o] = "written"
    /\ pc' = [pc EXCEPT ![o] = "synced"]
    /\ UNCHANGED <<file, durable, storeMu, request, entries, synced, result, losses>>
SyncTemp(o) ==
    /\ pc[o] = "written"
    /\ synced' = synced \cup {o}
    /\ pc' = [pc EXCEPT ![o] = "synced"]
    /\ UNCHANGED <<file, durable, storeMu, request, entries, result, losses>>

Rename(o) ==
    /\ pc[o] = "synced"
    /\ file' = entries[o]
    /\ durable' = (o \in synced)
    /\ Unlock(o)
    /\ pc' = [pc EXCEPT ![o] = "done"]
    /\ result' = [result EXCEPT ![o] = Store!Ok(entries[o][request[o].key])]
    /\ UNCHANGED <<request, entries, synced, losses>>

\* Reading, parsing, writing, syncing or renaming fails.
Fail(o) ==
    /\ pc[o] \in {"locked", "loaded", "written", "synced"}
    /\ ReturnError(o)

-----------------------------------------------------------------------------
\* A process is killed, and its callers learn nothing.
Ended(os) ==
    /\ pc' = [o \in Op |-> IF o \in os THEN "done" ELSE pc[o]]
    /\ result' = [o \in Op |-> IF o \in os /\ pc[o] # "done" THEN Store!Error ELSE result[o]]

Kill(p) ==
    /\ Ended({o \in Op : ProcessOf[o] = p})
    /\ storeMu' = [storeMu EXCEPT ![p] = None]
    /\ UNCHANGED <<file, durable, request, entries, synced, losses>>

\* Every process ends; a file that was not synced may have lost its content. A
\* rename is taken to be durable at once.
PowerLoss ==
    /\ losses < MaxLosses
    /\ losses' = losses + 1
    /\ file' \in IF durable THEN {file} ELSE {file, Torn}
    /\ durable' = TRUE
    /\ Ended({o \in Op : pc[o] # "start"})
    /\ storeMu' = [p \in Process |-> None]
    /\ UNCHANGED <<request, entries, synced>>

-----------------------------------------------------------------------------
Operation(o) == \/ Reject(o) \/ Lock(o) \/ Get(o) \/ Load(o) \/ NotEnrolled(o)
                \/ WriteTemp(o) \/ SyncTemp(o) \/ Rename(o) \/ Fail(o)

Next == \/ \E o \in Op : Operation(o)
        \/ \E p \in Process : Kill(p)
        \/ PowerLoss

Spec == Init /\ [][Next]_vars

\* Running operations are scheduled, and file system calls return.
FairSpec == Spec /\ \A o \in Op : WF_vars(Operation(o))

-----------------------------------------------------------------------------
TypeOK ==
    /\ file \in Entries \cup {Torn}
    /\ durable \in BOOLEAN
    /\ storeMu \in [Process -> Op \cup {None}]
    /\ pc \in [Op -> {"start", "locked", "loaded", "written", "synced", "done"}]
    /\ request \in [Op -> Requests]
    /\ entries \in [Op -> Entries]
    /\ synced \in SUBSET Op
    /\ result \in [Op -> Result \cup {None}]
    /\ losses \in 0..MaxLosses

\* Operations of any processes may interleave, die and lose power in the middle
\* of a save: the store can always be read. (save's temp file, sync, rename)
AlwaysReadable == file # Torn

\* "Enrollment is never automatic", and no interleaving of processes makes an
\* entry up: the store has for a key what it had before, or an entry with a kind
\* it was enrolled as, before or by an Enroll, at the default level of that very
\* kind or one that a Set chose for this key. (Enroll, Set, Unenroll)
Called(o, op, k) == pc[o] # "start" /\ request[o].op = op /\ request[o].key = k
EnrollmentIsExplicit ==
    file # Torn => \A k \in IdentityKey :
        LET e == file[k] IN
        e \notin {None, Before[k]} =>
            /\ \/ Before[k] # None /\ e.kind = Before[k].kind
               \/ \E o \in Op : Called(o, "enroll", k) /\ request[o].kind = e.kind
            /\ \/ e = Store!DefaultEntry(e.kind)
               \/ \E o \in Op : Called(o, "set", k) /\ request[o].level = e.level

\* While all operations that change the store are made in one process, storeMu
\* and save make it atomic for readers in other processes too: every operation
\* takes effect in one step, or fails and leaves the store alone. (storeMu, save)
ActsAtomically == Store!Spec

\* Every operation returns, whichever of its steps fails, and the lock it held
\* with it. (the deferred Unlock)
EveryOperationReturns == \A o \in Op : <>(pc[o] = "done")

-----------------------------------------------------------------------------
(* What the documents say and the code does not do.                          *)

\* store.go: "Unenroll removes identityKey from the store". After an Unenroll
\* that succeeded, when nothing else was asked about its key, it is not there.
UnenrollRemoves ==
    \A o \in Op :
        /\ request[o].op = "unenroll"
        /\ result[o] # None /\ result[o].ok
        /\ file # Torn
        /\ \A q \in Op \ {o} : request[q].key # request[o].key
        => file[request[o].key] = None
=============================================================================
