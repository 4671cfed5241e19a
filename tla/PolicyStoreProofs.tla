---------------------------- MODULE PolicyStoreProofs ----------------------------
(* Theorems about PolicyStore!Spec, for any operations in any processes, any     *)
(* requests and any number of power losses: the store can always be read, at    *)
(* most one operation of a process is past the lock, and where all changes are   *)
(* made in one process the store is an AtomicStore.                             *)
EXTENDS PolicyStore, TLAPS

Running(o) == pc[o] \in {"locked", "loaded", "written", "synced"}
Saving(o) == pc[o] \in {"loaded", "written", "synced"}

\* Only what was synced gets the store's name.
SyncedInv == /\ durable = TRUE
             /\ file # Torn
             /\ \A o \in Op : pc[o] = "synced" => o \in synced

\* What an operation may have been called with, and when it has a result.
CallInv == \A o \in Op :
    /\ request[o] \in RequestsOf[o]
    /\ Running(o) => WellFormed(request[o])
    /\ Saving(o) => request[o].op # "get"
    /\ result[o] = None <=> pc[o] # "done"

\* storeMu: an operation that runs holds the lock of its process.
LockInv == \A o \in Op : Running(o) => storeMu[ProcessOf[o]] = o

IInv == TypeOK /\ SyncedInv /\ CallInv /\ LockInv

-----------------------------------------------------------------------------
(* Data: entries, copies and results                                         *)

\* AtomicStore speaks of the same levels and kinds.
LEMMA SameVocabulary == /\ Store!Level = Level
                        /\ Store!LauncherKind = LauncherKind
                        /\ Store!DefaultLevelForKind = DefaultLevelForKind
                        /\ StoredEntry = [kind: LauncherKind, level: Level]
  BY DEF Store!Level, Level, Store!LauncherKind, LauncherKind, Store!DefaultLevelForKind,
         DefaultLevelForKind, StoredEntry, Store!StoredEntry

LEMMA Defaults ==
    ASSUME NEW kind \in LauncherKind
    PROVE  Store!DefaultEntry(kind) \in StoredEntry
  BY SameVocabulary DEF Store!DefaultEntry, DefaultLevelForKind, Level, LauncherKind

\* The copy an operation makes from a readable store is what AtomicStore does to
\* it, and is a store again.
LEMMA ChangeIsEffect ==
    ASSUME file \in Entries, NEW r, r.key \in IdentityKey, WellFormed(r),
           r.op \in {"enroll", "unenroll", "set"}, r.op = "set" => file[r.key] # None
    PROVE  /\ Change(r) \in Entries
           /\ Change(r) = Store!Effect(r, file)
           /\ Store!Possible(r, file)
<1>1. CASE r.op = "enroll"
  BY <1>1, Defaults, SameVocabulary DEF Change, WellFormed, Entries, Store!Effect, Store!Possible
<1>2. CASE r.op = "unenroll"
  BY <1>2 DEF Change, Entries, Store!Effect, Store!Possible
<1>3. CASE r.op = "set"
  <2>1. file[r.key] \in StoredEntry /\ r.level \in Level
    BY <1>3 DEF Entries, WellFormed
  <2>2. [kind |-> file[r.key].kind, level |-> r.level] = [file[r.key] EXCEPT !.level = r.level]
    BY <2>1, SameVocabulary
  <2>3. [kind |-> file[r.key].kind, level |-> r.level] \in StoredEntry
    BY <2>1, SameVocabulary
  <2>4. SetLevel(r) = [file EXCEPT ![r.key] = [@ EXCEPT !.level = r.level]]
    BY <2>2 DEF SetLevel
  <2>5. SetLevel(r) \in Entries
    BY <2>3 DEF SetLevel, Entries
  <2>6. QED
    BY <1>3, <2>1, <2>4, <2>5, SameVocabulary DEF Change, Store!Effect, Store!Possible
<1>4. QED
  BY <1>1, <1>2, <1>3

\* What operations return are results, and no result is None.
LEMMA ErrorIsResult == Store!Error \in Result /\ Store!Error # None
<1>1. Store!Error \in Result
  BY DEF Store!Error, Result
<1>2. QED
  BY <1>1, ResultAssumption

LEMMA OkIsResult ==
    ASSUME NEW f \in Entries, NEW k \in IdentityKey
    PROVE  Store!Ok(f[k]) \in Result /\ Store!Ok(f[k]) # None
<1>1. f[k] \in StoredEntry \cup {None}
  BY DEF Entries
<1>2. Store!Ok(f[k]) \in Result
  BY <1>1 DEF Store!Ok, Result
<1>3. QED
  BY <1>2, ResultAssumption

LEMMA RequestType ==
    ASSUME CallInv, NEW o \in Op
    PROVE  /\ request[o].op \in {"enroll", "unenroll", "set", "get"}
           /\ request[o].key \in IdentityKey
  BY RequestAssumption DEF CallInv

-----------------------------------------------------------------------------
(* The invariant                                                             *)

\* What a crash leaves of the calls it ends: those in os that had no result fail.
LEMMA EndedStep ==
    ASSUME TypeOK, CallInv, LockInv, NEW os \in SUBSET Op, Ended(os), UNCHANGED request
    PROVE  /\ pc' \in [Op -> {"start", "locked", "loaded", "written", "synced", "done"}]
           /\ result' \in [Op -> Result \cup {None}]
           /\ CallInv'
           /\ \A o \in Op : Running(o)' => Running(o) /\ o \notin os /\ pc'[o] = pc[o]
<1> USE DEF TypeOK, Running, Saving, Ended
<1>1. pc' \in [Op -> {"start", "locked", "loaded", "written", "synced", "done"}]
  OBVIOUS
<1>2. result' \in [Op -> Result \cup {None}]
  BY ErrorIsResult
<1>3. \A o \in Op : Running(o)' => Running(o) /\ o \notin os /\ pc'[o] = pc[o]
  OBVIOUS
<1>4. \A o \in Op : Saving(o)' => Saving(o)
  OBVIOUS
<1>5. \A o \in Op : result'[o] = None <=> pc'[o] # "done"
  BY ErrorIsResult DEF CallInv
<1>6. QED
  BY <1>1, <1>2, <1>3, <1>4, <1>5 DEF CallInv, WellFormed

LEMMA ReturnErrorStep ==
    ASSUME IInv, NEW o \in Op, ReturnError(o)
    PROVE  IInv'
<1> USE ProcessAssumption DEF IInv, TypeOK, ReturnError, Unlock, Running, Saving
<1>1. TypeOK'
  BY ErrorIsResult
<1>2. SyncedInv'
  BY DEF SyncedInv
<1>3. CallInv'
  BY ErrorIsResult DEF CallInv, WellFormed
<1>4. LockInv'
  BY DEF LockInv
<1>5. QED
  BY <1>1, <1>2, <1>3, <1>4

LEMMA ReadStep ==
    ASSUME IInv, NEW o \in Op, Lock(o) \/ Get(o) \/ Load(o)
    PROVE  IInv'
<1> USE ProcessAssumption, NoneAssumption DEF IInv, TypeOK, Unlock, Running, Saving
<1>1. CASE Lock(o)
  <2>1. TypeOK'
    BY <1>1 DEF Lock
  <2>2. SyncedInv'
    BY <1>1 DEF Lock, SyncedInv
  <2>3. CallInv'
    BY <1>1 DEF Lock, CallInv, WellFormed
  <2>4. LockInv'
    BY <1>1 DEF Lock, LockInv
  <2>5. QED
    BY <2>1, <2>2, <2>3, <2>4
<1>2. CASE Get(o)
  <2>1. Store!Ok(file[request[o].key]) \in Result /\ Store!Ok(file[request[o].key]) # None
    BY <1>2, OkIsResult, RequestType DEF Get
  <2>2. TypeOK'
    BY <1>2, <2>1 DEF Get
  <2>3. SyncedInv'
    BY <1>2 DEF Get, SyncedInv
  <2>4. CallInv'
    BY <1>2, <2>1 DEF Get, CallInv, WellFormed
  <2>5. LockInv'
    BY <1>2 DEF Get, LockInv
  <2>6. QED
    BY <2>2, <2>3, <2>4, <2>5
<1>3. CASE Load(o)
  <2>1. Change(request[o]) \in Entries
    BY <1>3, ChangeIsEffect, RequestType DEF Load, Enrolled, CallInv
  <2>2. TypeOK'
    BY <1>3, <2>1 DEF Load
  <2>3. SyncedInv'
    BY <1>3 DEF Load, SyncedInv
  <2>4. CallInv'
    BY <1>3 DEF Load, CallInv, WellFormed
  <2>5. LockInv'
    BY <1>3 DEF Load, LockInv
  <2>6. QED
    BY <2>2, <2>3, <2>4, <2>5
<1>4. QED
  BY <1>1, <1>2, <1>3

LEMMA SaveStep ==
    ASSUME IInv, NEW o \in Op, WriteTemp(o) \/ SyncTemp(o) \/ Rename(o)
    PROVE  IInv'
<1> USE ProcessAssumption, NoneAssumption DEF IInv, TypeOK, Unlock, Running, Saving
<1>1. CASE WriteTemp(o) \/ SyncTemp(o)
  <2>1. TypeOK'
    BY <1>1 DEF WriteTemp, SyncTemp
  <2>2. SyncedInv'
    BY <1>1 DEF WriteTemp, SyncTemp, SyncedInv
  <2>3. CallInv'
    BY <1>1 DEF WriteTemp, SyncTemp, CallInv, WellFormed
  <2>4. LockInv'
    BY <1>1 DEF WriteTemp, SyncTemp, LockInv
  <2>5. QED
    BY <2>1, <2>2, <2>3, <2>4
\* The file becomes the copy, which is a store and was synced.
<1>2. CASE Rename(o)
  <2>1. /\ Store!Ok(entries[o][request[o].key]) \in Result
        /\ Store!Ok(entries[o][request[o].key]) # None
    BY OkIsResult, RequestType
  <2>2. TypeOK'
    BY <1>2, <2>1 DEF Rename
  <2>3. SyncedInv'
    <3>1. o \in synced
      BY <1>2 DEF Rename, SyncedInv
    <3>2. durable' = (o \in synced)
      BY <1>2 DEF Rename
    <3>3. durable' = TRUE
      BY <3>1, <3>2, Zenon
    <3>4. entries[o] # Torn
      BY TornAssumption
    <3>5. QED
      BY <1>2, <3>3, <3>4 DEF Rename, SyncedInv
  <2>4. CallInv'
    BY <1>2, <2>1 DEF Rename, CallInv, WellFormed
  <2>5. LockInv'
    BY <1>2 DEF Rename, LockInv
  <2>6. QED
    BY <2>2, <2>3, <2>4, <2>5
<1>3. QED
  BY <1>1, <1>2

LEMMA CrashStep ==
    ASSUME IInv, (\E p \in Process : Kill(p)) \/ PowerLoss
    PROVE  IInv'
<1> USE DEF IInv
<1>1. ASSUME NEW p \in Process, Kill(p)
      PROVE  IInv'
  <2> DEFINE os == {o \in Op : ProcessOf[o] = p}
  <2>1. Ended(os) /\ UNCHANGED request
    BY <1>1 DEF Kill
  <2>2. TypeOK' /\ CallInv'
    BY <1>1, <2>1, EndedStep DEF Kill, TypeOK
  <2>3. SyncedInv' /\ LockInv'
    BY <1>1, <2>1, EndedStep DEF Kill, SyncedInv, LockInv, TypeOK, Running
  <2>4. QED
    BY <2>2, <2>3
<1>2. CASE PowerLoss
  <2> DEFINE os == {o \in Op : pc[o] # "start"}
  <2>1. Ended(os) /\ UNCHANGED request
    BY <1>2 DEF PowerLoss
  <2>2. UNCHANGED <<file, durable, synced>>
    BY <1>2 DEF PowerLoss, SyncedInv
  <2>3. TypeOK' /\ CallInv'
    BY <1>2, <2>1, <2>2, EndedStep, LossAssumption DEF PowerLoss, TypeOK
  <2>4. SyncedInv' /\ LockInv'
    BY <1>2, <2>1, <2>2, EndedStep DEF PowerLoss, SyncedInv, LockInv, TypeOK, Running
  <2>5. QED
    BY <2>3, <2>4
<1>3. QED
  BY <1>1, <1>2

LEMMA InvInit == Init => IInv
  BY BeforeAssumption, TornAssumption, LossAssumption
     DEF Init, IInv, TypeOK, SyncedInv, CallInv, LockInv, Running, Saving, Empty, Entries

LEMMA InvStep == IInv /\ [Next]_vars => IInv'
<1> SUFFICES ASSUME IInv, [Next]_vars PROVE IInv'
  OBVIOUS
<1>1. ASSUME NEW o \in Op, Reject(o) \/ NotEnrolled(o) \/ Fail(o)
      PROVE  IInv'
  BY <1>1, ReturnErrorStep DEF Reject, NotEnrolled, Fail
<1>2. CASE UNCHANGED vars
  BY <1>2 DEF vars, IInv, TypeOK, SyncedInv, CallInv, LockInv, Running, Saving, WellFormed
<1>3. QED
  BY <1>1, <1>2, ReadStep, SaveStep, CrashStep DEF Next, Operation

LEMMA Invariance == Spec => []IInv
  BY InvInit, InvStep, PTL DEF Spec

-----------------------------------------------------------------------------
(* One process that changes the store                                        *)

Changing(o) == \E r \in RequestsOf[o] : r.op # "get"

\* What the code promises: processes of the rest only read.
OneWriter == \A o, q \in Op : Changing(o) /\ Changing(q) => ProcessOf[o] = ProcessOf[q]

\* The copy of an operation that is saving is the store as it would be with its
\* change in it, and stays so until the rename.
CopyInv == \A o \in Op : Saving(o) => /\ entries[o] = Store!Effect(request[o], file)
                                      /\ Store!Possible(request[o], file)

\* storeMu keeps two operations from saving at once.
LEMMA OneSaves ==
    ASSUME OneWriter, IInv, NEW o \in Op, NEW q \in Op, Saving(o), Saving(q)
    PROVE  o = q
<1>1. Changing(o) /\ Changing(q)
  BY DEF IInv, CallInv, Changing
<1>2. storeMu[ProcessOf[o]] = o /\ storeMu[ProcessOf[q]] = q
  BY DEF IInv, LockInv, Saving, Running
<1>3. QED
  BY <1>1, <1>2 DEF OneWriter

\* Steps of the saving operations before the rename, and of those that fail,
\* leave the store and the other copies alone.
LEMMA CopyKept ==
    ASSUME CopyInv, UNCHANGED <<file, request, entries>>,
           \A o \in Op : Saving(o)' => Saving(o)
    PROVE  CopyInv'
  BY DEF CopyInv, Store!Effect, Store!Possible

LEMMA CopyStep ==
    ASSUME OneWriter, IInv, CopyInv, [Next]_vars
    PROVE  CopyInv'
<1> USE DEF IInv, TypeOK, Saving
<1>1. ASSUME NEW o \in Op, Reject(o) \/ NotEnrolled(o) \/ Fail(o)
      PROVE  CopyInv'
  <2>1. ReturnError(o)
    BY <1>1 DEF Reject, NotEnrolled, Fail
  <2>2. QED
    BY <2>1, CopyKept DEF ReturnError
<1>2. ASSUME NEW o \in Op, Lock(o) \/ Get(o) \/ WriteTemp(o) \/ SyncTemp(o)
      PROVE  CopyInv'
  BY <1>2, CopyKept DEF Lock, Get, WriteTemp, SyncTemp
<1>3. ASSUME NEW o \in Op, Load(o)
      PROVE  CopyInv'
  <2>1. /\ Change(request[o]) = Store!Effect(request[o], file)
        /\ Store!Possible(request[o], file)
    BY <1>3, ChangeIsEffect, RequestType DEF Load, Enrolled, CallInv, Running
  <2>2. ASSUME NEW q \in Op, Saving(q)'
        PROVE  entries'[q] = Store!Effect(request[q], file) /\ Store!Possible(request[q], file)
    <3>1. CASE q = o
      BY <1>3, <2>1, <3>1 DEF Load
    <3>2. CASE q # o
      BY <1>3, <2>2, <3>2 DEF Load, CopyInv
    <3>3. QED
      BY <3>1, <3>2
  <2>3. UNCHANGED <<file, request>>
    BY <1>3 DEF Load
  <2>4. QED
    BY <2>2, <2>3 DEF CopyInv, Store!Effect, Store!Possible
<1>4. ASSUME NEW o \in Op, Rename(o)
      PROVE  CopyInv'
  <2>1. \A q \in Op : ~Saving(q)'
    BY <1>4, OneSaves DEF Rename
  <2>2. QED
    BY <2>1 DEF CopyInv
<1>5. ASSUME (\E p \in Process : Kill(p)) \/ PowerLoss
      PROVE  CopyInv'
  <2>1. UNCHANGED <<file, request, entries>>
    BY <1>5 DEF Kill, PowerLoss, SyncedInv
  <2>2. PICK os \in SUBSET Op : Ended(os)
    <3>1. ASSUME NEW p \in Process, Kill(p)
          PROVE  \E os \in SUBSET Op : Ended(os)
      BY <3>1 DEF Kill
    <3>2. CASE PowerLoss
      BY <3>2 DEF PowerLoss
    <3>3. QED
      BY <1>5, <3>1, <3>2
  <2>3. QED
    BY <2>1, <2>2, CopyKept DEF Ended
<1>6. CASE UNCHANGED vars
  BY <1>6, CopyKept DEF vars
<1>7. QED
  BY <1>1, <1>2, <1>3, <1>4, <1>5, <1>6 DEF Next, Operation

\* A get, a rename and a failure are AtomicStore's steps; the others are none.
LEMMA Implements ==
    ASSUME OneWriter, IInv, CopyInv, [Next]_vars
    PROVE  [Store!Next]_(Store!vars)
<1> USE DEF IInv, TypeOK
<1>1. ASSUME NEW o \in Op, Reject(o) \/ NotEnrolled(o) \/ Fail(o)
      PROVE  Store!Next
  <2>1. result[o] = None
    BY <1>1 DEF Reject, NotEnrolled, Fail, CallInv
  <2>2. Store!Refuse(o)
    BY <1>1, <2>1 DEF Reject, NotEnrolled, Fail, ReturnError, Store!Refuse
  <2>3. QED
    BY <2>2 DEF Store!Next
<1>2. ASSUME NEW o \in Op, Lock(o) \/ Load(o) \/ WriteTemp(o) \/ SyncTemp(o)
      PROVE  UNCHANGED Store!vars
  BY <1>2 DEF Lock, Load, WriteTemp, SyncTemp, Store!vars
<1>3. ASSUME NEW o \in Op, Get(o)
      PROVE  Store!Next
  <2>1. result[o] = None
    BY <1>3 DEF Get, CallInv
  <2>2. Store!Possible(request[o], file) /\ Store!Effect(request[o], file) = file
    BY <1>3 DEF Get, Store!Possible, Store!Effect
  <2>3. Store!Perform(o)
    BY <1>3, <2>1, <2>2 DEF Get, Store!Perform
  <2>4. QED
    BY <2>3 DEF Store!Next
<1>4. ASSUME NEW o \in Op, Rename(o)
      PROVE  Store!Next
  <2>1. result[o] = None
    BY <1>4 DEF Rename, CallInv
  <2>2. Store!Possible(request[o], file) /\ entries[o] = Store!Effect(request[o], file)
    BY <1>4 DEF Rename, CopyInv, Saving
  <2>3. Store!Perform(o)
    BY <1>4, <2>1, <2>2 DEF Rename, Store!Perform
  <2>4. QED
    BY <2>3 DEF Store!Next
<1>5. ASSUME NEW os \in SUBSET Op, Ended(os), UNCHANGED <<file, request>>
      PROVE  Store!Next
  <2> DEFINE dead == {o \in os : pc[o] # "done"}
  <2>1. dead \in SUBSET {o \in Op : result[o] = None}
    BY DEF CallInv
  <2>2. result' = [o \in Op |-> IF o \in dead THEN Store!Error ELSE result[o]]
    BY <1>5 DEF Ended
  <2>3. Store!Die
    BY <1>5, <2>1, <2>2 DEF Store!Die
  <2>4. QED
    BY <2>3 DEF Store!Next
<1>6. ASSUME NEW p \in Process, Kill(p)
      PROVE  Store!Next
  BY <1>5, <1>6 DEF Kill
<1>7. CASE PowerLoss
  BY <1>5, <1>7 DEF PowerLoss, SyncedInv
<1>8. CASE UNCHANGED vars
  BY <1>8 DEF vars, Store!vars
<1>9. QED
  BY <1>1, <1>2, <1>3, <1>4, <1>6, <1>7, <1>8 DEF Next, Operation

-----------------------------------------------------------------------------
(* The theorems                                                              *)

\* The store's variables have their types: what a rename puts in place, whoever
\* made the copy, is a map of entries.
THEOREM TypeCorrect == Spec => []TypeOK
<1>1. IInv => TypeOK
  BY DEF IInv
<1>2. QED
  BY <1>1, Invariance, PTL

\* Whatever processes change the store at once, are killed or lose power in the
\* middle of a save, the next one can read it. (save: temp file, sync, rename)
THEOREM StoreReadable == Spec => []AlwaysReadable
<1>1. IInv => AlwaysReadable
  BY DEF IInv, SyncedInv, AlwaysReadable
<1>2. QED
  BY <1>1, Invariance, PTL

\* With all changes made in one process, the steps of load and save under storeMu
\* are one step to everybody, readers in other processes included: the store
\* implements AtomicStore. (storeMu, load, save)
THEOREM OneWriterIsAtomic ==
    ASSUME OneWriter
    PROVE  Spec => ActsAtomically
<1>1. Init => Store!Init /\ CopyInv
  BY BeforeAssumption DEF Init, Store!Init, CopyInv, Saving, Entries, StoredEntry, Requests
<1>2. IInv /\ CopyInv /\ [Next]_vars => CopyInv' /\ [Store!Next]_(Store!vars)
  BY CopyStep, Implements
<1>3. QED
  BY <1>1, <1>2, Invariance, PTL DEF Spec, ActsAtomically, Store!Spec

-----------------------------------------------------------------------------
(* Where entries come from                                                   *)

\* What a Set or an Enroll, or the store there was before, answers for.
KindBacked(e, k) ==
    \/ Before[k] # None /\ e.kind = Before[k].kind
    \/ \E o \in Op : Called(o, "enroll", k) /\ request[o].kind = e.kind
LevelBacked(e, k) ==
    \/ e = Store!DefaultEntry(e.kind)
    \/ \E o \in Op : Called(o, "set", k) /\ request[o].level = e.level
Backed(e, k) == e \notin {None, Before[k]} => KindBacked(e, k) /\ LevelBacked(e, k)

\* The store holds only entries that are answered for, and so do the copies that
\* are about to take its place.
BackedInv == /\ \A k \in IdentityKey : Backed(file[k], k)
             /\ \A o \in Op : Saving(o) => \A k \in IdentityKey : Backed(entries[o][k], k)

\* Calls are not taken back: what was answered for stays so.
LEMMA CalledStays ==
    ASSUME IInv, [Next]_vars, NEW o \in Op, NEW op, NEW k, Called(o, op, k)
    PROVE  Called(o, op, k)' /\ request'[o] = request[o]
<1> USE DEF Called, IInv, TypeOK
<1>1. request' = request
  BY DEF Next, Operation, Reject, Lock, Get, Load, NotEnrolled, WriteTemp, SyncTemp, Rename,
         Fail, ReturnError, Kill, PowerLoss, vars
<1>2. ASSUME NEW q \in Op, Operation(q) PROVE pc'[o] # "start"
  BY <1>2 DEF Operation, Reject, Lock, Get, Load, NotEnrolled, WriteTemp, SyncTemp, Rename,
              Fail, ReturnError
<1>3. (\E p \in Process : Kill(p)) \/ PowerLoss \/ UNCHANGED vars => pc'[o] # "start"
  BY DEF Kill, PowerLoss, Ended, vars
<1>4. QED
  BY <1>1, <1>2, <1>3 DEF Next

LEMMA BackedStays ==
    ASSUME IInv, [Next]_vars, NEW e, NEW k, Backed(e, k)
    PROVE  Backed(e, k)'
BY CalledStays DEF Backed, KindBacked, LevelBacked

\* An entry that was answered for may be moved into the store or a copy.
LEMMA FileBacked ==
    ASSUME IInv, [Next]_vars, NEW k, NEW e, Backed(e, k), file'[k] = e
    PROVE  Backed(file[k], k)'
<1>1. Backed(e, k)'
  BY BackedStays
<1>2. QED
  BY <1>1 DEF Backed, KindBacked, LevelBacked

LEMMA CopyBacked ==
    ASSUME IInv, [Next]_vars, NEW k, NEW q \in Op, NEW e, Backed(e, k), entries'[q][k] = e
    PROVE  Backed(entries[q][k], k)'
<1>1. Backed(e, k)'
  BY BackedStays
<1>2. QED
  BY <1>1 DEF Backed, KindBacked, LevelBacked

\* The copy that Load makes: the changed entry is answered for by the call
\* itself, and what Set keeps of it by whatever answered for the entry before.
LEMMA LoadBacked ==
    ASSUME IInv, BackedInv, NEW o \in Op, Load(o), NEW k \in IdentityKey
    PROVE  Backed(Change(request[o])[k], k)
<1> DEFINE r == request[o]
           e == Change(r)[k]
<1>1. /\ file \in Entries /\ r.key \in IdentityKey /\ WellFormed(r)
      /\ r.op \in {"enroll", "unenroll", "set"}
      /\ r.op = "set" => file[r.key] # None
  BY RequestType DEF IInv, TypeOK, SyncedInv, CallInv, Load, Enrolled, Running
<1>2. Called(o, r.op, r.key)
  BY DEF Called, Load
<1>3. Backed(file[k], k)
  BY DEF BackedInv
<1>4. CASE k # r.key
  <2>1. Change(r)[k] = file[k]
    BY <1>1, <1>4 DEF Change, SetLevel, Entries
  <2>2. QED
    BY <1>3, <2>1
<1>5. CASE k = r.key /\ r.op = "enroll"
  <2>1. Change(r)[k] = Store!DefaultEntry(r.kind)
    BY <1>1, <1>5 DEF Change, Entries
  <2>2. Store!DefaultEntry(r.kind).kind = r.kind
    BY DEF Store!DefaultEntry
  <2>3. QED
    BY <1>2, <1>5, <2>1, <2>2 DEF Backed, KindBacked, LevelBacked
<1>6. CASE k = r.key /\ r.op = "unenroll"
  BY <1>1, <1>6 DEF Change, Entries, Backed
<1>7. CASE k = r.key /\ r.op = "set"
  <2>1. Change(r)[k] = [kind |-> file[k].kind, level |-> r.level]
    BY <1>1, <1>7 DEF Change, SetLevel, Entries
  <2>2. KindBacked(file[k], k)
    BY <1>1, <1>3, <1>7 DEF Backed, KindBacked
  <2>3. KindBacked(Change(r)[k], k)
    BY <2>1, <2>2 DEF KindBacked
  <2>4. LevelBacked(Change(r)[k], k)
    BY <1>2, <1>7, <2>1 DEF LevelBacked
  <2>5. QED
    BY <2>3, <2>4 DEF Backed
<1>8. QED
  BY <1>1, <1>4, <1>5, <1>6, <1>7

LEMMA BackedStep ==
    ASSUME IInv, BackedInv, [Next]_vars
    PROVE  BackedInv'
<1>1. ASSUME NEW k \in IdentityKey, file' = file PROVE Backed(file[k], k)'
  <2>1. PICK e : e = file[k]
    OBVIOUS
  <2>2. Backed(e, k)
    BY <2>1 DEF BackedInv
  <2>3. QED
    BY <1>1, <2>1, <2>2, FileBacked
<1>2. ASSUME NEW q \in Op, Saving(q), entries'[q] = entries[q], NEW k \in IdentityKey
      PROVE  Backed(entries[q][k], k)'
  <2>1. PICK e : e = entries[q][k]
    OBVIOUS
  <2>2. Backed(e, k)
    BY <1>2, <2>1 DEF BackedInv
  <2>3. QED
    BY <1>2, <2>1, <2>2, CopyBacked
<1>3. ASSUME NEW o \in Op, Load(o) PROVE BackedInv'
  <2>1. file' = file /\ entries' = [entries EXCEPT ![o] = Change(request[o])]
        /\ pc' = [pc EXCEPT ![o] = "loaded"]
    BY <1>3 DEF Load
  <2>2. ASSUME NEW q \in Op, Saving(q)', NEW k \in IdentityKey PROVE Backed(entries[q][k], k)'
    <3>1. CASE q = o
      <4>1. PICK e : e = Change(request[o])[k]
        OBVIOUS
      <4>2. Backed(e, k)
        BY <1>3, <4>1, LoadBacked
      <4>3. entries'[q][k] = e
        BY <2>1, <3>1, <4>1 DEF IInv, TypeOK
      <4>4. QED
        BY <4>2, <4>3, CopyBacked
    <3>2. CASE q # o
      BY <1>2, <2>1, <2>2, <3>2 DEF IInv, TypeOK, Saving
    <3>3. QED
      BY <3>1, <3>2
  <2>3. QED
    BY <1>1, <2>1, <2>2 DEF BackedInv
<1>4. ASSUME NEW o \in Op, Rename(o) PROVE BackedInv'
  <2>1. Saving(o) /\ file' = entries[o] /\ entries' = entries
        /\ pc' = [pc EXCEPT ![o] = "done"]
    BY <1>4 DEF Rename, Saving
  <2>2. ASSUME NEW k \in IdentityKey PROVE Backed(file[k], k)'
    <3>1. PICK e : e = entries[o][k]
      OBVIOUS
    <3>2. Backed(e, k) /\ file'[k] = e
      BY <2>1, <3>1 DEF BackedInv
    <3>3. QED
      BY <3>2, FileBacked
  <2>3. \A q \in Op : Saving(q)' => Saving(q)
    BY <2>1 DEF IInv, TypeOK, Saving
  <2>4. QED
    BY <1>2, <2>1, <2>2, <2>3 DEF BackedInv
<1>5. ASSUME UNCHANGED <<file, entries>>, \A q \in Op : Saving(q)' => Saving(q) PROVE BackedInv'
  BY <1>1, <1>2, <1>5 DEF BackedInv
<1>6. ASSUME NEW o \in Op, Operation(o), ~Load(o), ~Rename(o) PROVE BackedInv'
  <2>1. UNCHANGED <<file, entries>>
    BY <1>6 DEF Operation, Reject, Lock, Get, NotEnrolled, WriteTemp, SyncTemp, Fail, ReturnError
  <2>2. \A q \in Op : Saving(q)' => Saving(q)
    BY <1>6 DEF Operation, Reject, Lock, Get, NotEnrolled, WriteTemp, SyncTemp, Fail, ReturnError,
                Saving, IInv, TypeOK
  <2>3. QED
    BY <1>5, <2>1, <2>2
<1>7. ASSUME (\E p \in Process : Kill(p)) \/ PowerLoss \/ UNCHANGED vars PROVE BackedInv'
  <2>1. UNCHANGED <<file, entries>>
    BY <1>7 DEF Kill, PowerLoss, vars, IInv, SyncedInv
  <2>2. \A q \in Op : Saving(q)' => Saving(q)
    BY <1>7 DEF Kill, PowerLoss, Ended, vars, Saving, IInv, TypeOK
  <2>3. QED
    BY <1>5, <2>1, <2>2
<1>8. QED
  BY <1>3, <1>4, <1>6, <1>7 DEF Next

\* No entry is made up, whatever processes interleave, lose updates to each other
\* or die: each has a kind it was enrolled as and a level that kind starts at or a
\* Set chose. (Enroll, Set, Unenroll: "Enrollment is never automatic")
THEOREM EnrollmentStaysExplicit == Spec => []EnrollmentIsExplicit
<1>1. Init => BackedInv
  BY DEF Init, BackedInv, Backed, Saving
<1>2. IInv /\ BackedInv /\ [Next]_vars => BackedInv'
  BY BackedStep
<1>3. BackedInv => EnrollmentIsExplicit
  BY DEF BackedInv, Backed, KindBacked, LevelBacked, EnrollmentIsExplicit
<1>4. QED
  BY <1>1, <1>2, <1>3, Invariance, PTL DEF Spec
=============================================================================
