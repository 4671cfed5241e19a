------------------------------ MODULE LauncherWalk ------------------------------
(* Who is calling: the walk over /proc of internal/identity (Resolve, classify, *)
(* StartTime) from the pid the bus names (agentd/identity.go), read by read,    *)
(* while processes start, exec, exit, are re-parented and reaped, and have      *)
(* their binaries upgraded. ApprovalGate resolves a launcher in one step; this  *)
(* module shows when the walk comes to the same.                                *)
EXTENDS Naturals

CONSTANTS
    Walk,        \* runs of Resolve
    Pid,         \* process ids
    ReaperPid,   \* systemd --user, to which orphans are re-parented
    CallerPid,   \* the process whose call is being resolved: cw or a shim
    Program,     \* [program -> its kind]
    Systemd,     \* the program under ReaperPid
    Cw,          \* the program under CallerPid
    MaxDepth,    \* maxWalkDepth
    MaxEvents,   \* bound: what happens to the processes and programs in all
    MayReuse,    \* whether a pid may be used again while a walk goes on
    Top, None

\* notLaunchers are shells, some in mise's tree; a hidden program's /proc/<pid>/exe
\* cannot be read, and hashFile cannot read an unhashable one (it is execute-only,
\* or its path is another mount namespace's).
Kind == {"shell", "miseShell", "hidden", "mise", "pacman", "unmanaged", "unhashable"}
Shells == {"shell", "miseShell"}
Prog == DOMAIN Program

ASSUME PidAssumption == /\ Pid \subseteq Nat /\ {ReaperPid, CallerPid} \subseteq Pid
                        /\ ReaperPid # CallerPid /\ {Top, None} \cap Pid = {}
ASSUME ProgramAssumption == /\ Program \in [Prog -> Kind] /\ {Systemd, Cw} \subseteq Prog
                            /\ Program[Systemd] = "pacman"
ASSUME BoundAssumption == MaxDepth \in Nat \ {0} /\ MaxEvents \in Nat
                       /\ MayReuse \in BOOLEAN

\* A process that exited is a zombie until its parent reaps it. new: it runs
\* the program's upgraded image.
Process == [start: 0..MaxEvents, state: {"up", "zombie", "gone"}, parent: Pid \cup {Top},
            prog: Prog, new: BOOLEAN]
Found == [pid: Pid, start: 0..MaxEvents, prog: Prog]

\* What Readlink of /proc/<pid>/exe returns: a path, and " (deleted)" or not.
Link == [prog: Prog, deleted: BOOLEAN]

ASSUME NoneAssumption == None \notin Found \cup Link

VARIABLES
    process,  \* [Pid -> what runs under the pid, or ran there last]
    upgraded, \* programs whose path holds a new image
    events,   \* the events that happened
    pc,       \* [Walk -> place in Resolve]
    pid,      \* [Walk -> pid]
    depth,    \* [Walk -> hops made]
    exe,      \* [Walk -> Link, or None]
    newHash,  \* [Walk -> whether classify hashed the new image of an unmanaged program]
    result,   \* [Walk -> Found, or None]
    seen,     \* [Walk -> what an undivided Resolve could have returned meanwhile]
    kin       \* [Walk -> the ancestors the caller had meanwhile]

worldVars == <<process, upgraded, events>>
walkVars == <<pc, pid, depth, exe, newHash, result>>
vars == <<worldVars, walkVars, seen, kin>>

-----------------------------------------------------------------------------
(* What a walk finds if nothing happens meanwhile, from the table t          *)

Up(p) == process[p].state = "up"
Stale(p) == process[p].prog \in upgraded /\ ~process[p].new

\* Ancestors(t)[k] is the process k hops above the caller, or Top.
Ancestors(t) ==
    LET a[k \in 0..MaxDepth] ==
            IF k = 0 THEN CallerPid ELSE IF a[k - 1] = Top THEN Top ELSE t[a[k - 1]].parent
    IN  a

Skipped(t, p) == Program[t[p].prog] \in Shells \cup {"hidden"}
Who(t, p) == [pid |-> p, start |-> t[p].start, prog |-> t[p].prog]
Kin(t) == {Who(t, p) : p \in {Ancestors(t)[k] : k \in 1..MaxDepth} \ {Top}}

\* The process the caller's ancestry leads to.
LeadsTo(t) ==
    LET a == Ancestors(t)
        hops == {k \in 1..MaxDepth : a[k] \in Pid /\ ~Skipped(t, a[k])}
    IN  IF hops = {} THEN None ELSE Who(t, a[CHOOSE k \in hops : \A j \in hops : k <= j])

InWalk(w) == pc[w] \notin {"idle", "done", "failed"}
Observe ==
    /\ seen' = [w \in Walk |-> IF InWalk(w) THEN seen[w] \cup {LeadsTo(process')} ELSE seen[w]]
    /\ kin' = [w \in Walk |-> IF InWalk(w) THEN kin[w] \cup Kin(process') ELSE kin[w]]

-----------------------------------------------------------------------------
\* Any ancestry of the caller, over the reaper.
Init ==
    /\ \E parent \in [Pid -> Pid \cup {Top}], prog \in [Pid -> Prog] :
         /\ parent[ReaperPid] = Top /\ prog[ReaperPid] = Systemd /\ prog[CallerPid] = Cw
         /\ \A p \in Pid \ {ReaperPid} : parent[p] \in {q \in Pid : q < p}
         /\ \A p \in Pid \ {ReaperPid, CallerPid} : prog[p] \notin {Systemd, Cw}
         /\ process = [p \in Pid |-> [start |-> 0, state |-> "up", parent |-> parent[p],
                                      prog |-> prog[p], new |-> FALSE]]
    /\ upgraded = {}
    /\ events = 0
    /\ pc = [w \in Walk |-> "idle"]
    /\ pid = [w \in Walk |-> CallerPid]
    /\ depth = [w \in Walk |-> 0]
    /\ exe = [w \in Walk |-> None]
    /\ newHash = [w \in Walk |-> FALSE]
    /\ result = [w \in Walk |-> None]
    /\ seen = [w \in Walk |-> {}]
    /\ kin = [w \in Walk |-> {}]

-----------------------------------------------------------------------------
(* The machine                                                               *)

Event == events < MaxEvents /\ events' = events + 1

\* A process exits, and its children are the reaper's.
Exit(p) ==
    /\ Event
    /\ p # ReaperPid /\ Up(p)
    /\ process' = [q \in Pid |->
         IF q = p THEN [process[q] EXCEPT !.state = "zombie"]
         ELSE IF process[q].parent = p THEN [process[q] EXCEPT !.parent = ReaperPid]
         ELSE process[q]]
    /\ Observe
    /\ UNCHANGED <<upgraded, walkVars>>

Reap(p) ==
    /\ Event
    /\ process[p].state = "zombie"
    /\ process' = [process EXCEPT ![p].state = "gone"]
    /\ UNCHANGED <<upgraded, walkVars, seen, kin>>

\* A free pid is given to a child of some process. Pids come round again only
\* after all the others: MayReuse says whether one walk can last that long.
Fork(p, q, g) ==
    /\ Event
    /\ p # CallerPid /\ process[p].state = "gone"
    /\ Up(q) /\ g \notin {Systemd, Cw}
    /\ MayReuse \/ \A w \in Walk : ~InWalk(w)
    /\ process' = [process EXCEPT ![p] = [start |-> @.start + 1, state |-> "up", parent |-> q,
                                         prog |-> g, new |-> g \in upgraded]]
    /\ Observe
    /\ UNCHANGED <<upgraded, walkVars>>

\* A shell replaces itself by a program, under its pid and start time.
Exec(p, g) ==
    /\ Event
    /\ Up(p) /\ Program[process[p].prog] \in Shells /\ g \notin {Systemd, Cw}
    /\ process' = [process EXCEPT ![p].prog = g, ![p].new = g \in upgraded]
    /\ Observe
    /\ UNCHANGED <<upgraded, walkVars>>

\* A package manager replaces a program by a newer one. What runs goes on.
Upgrade(g) ==
    /\ Event
    /\ g \notin upgraded
    /\ upgraded' = upgraded \cup {g}
    /\ UNCHANGED <<process, walkVars, seen, kin>>

-----------------------------------------------------------------------------
(* resolveLauncher and Resolve                                               *)

Goto(w, to) == pc' = [pc EXCEPT ![w] = to] /\ UNCHANGED worldVars

\* The bus says which process the sender is, if it is still connected.
callerPID(w) ==
    /\ pc[w] = "idle"
    /\ Up(CallerPid)
    /\ Goto(w, "parent")
    /\ seen' = [seen EXCEPT ![w] = {LeadsTo(process)}]
    /\ kin' = [kin EXCEPT ![w] = Kin(process)]
    /\ UNCHANGED <<pid, depth, exe, newHash, result>>

\* parentOf reads /proc/<pid>/status, which a zombie still has.
HopsTooFew(w) == /\ depth[w] + 1 < MaxDepth                                    \* mutant
                 /\ process[pid[w]].state # "gone" /\ process[pid[w]].parent # Top
MayHop(w) == depth[w] < MaxDepth /\ process[pid[w]].state # "gone" /\ process[pid[w]].parent # Top
parentOf(w) ==
    /\ pc[w] = "parent"
    /\ IF MayHop(w)
       THEN /\ Goto(w, "exe")
            /\ pid' = [pid EXCEPT ![w] = process[pid[w]].parent]
            /\ depth' = [depth EXCEPT ![w] = @ + 1]
       ELSE Goto(w, "failed") /\ UNCHANGED <<pid, depth>>
    /\ UNCHANGED <<exe, newHash, result, seen, kin>>

\* exeOf: a process that is gone or cannot be read is passed by; so is one whose
\* name, which a deleted binary's is not, is in notLaunchers.
PassesAnyStale(p) == ~Up(p) \/ Skipped(process, p) \/ Stale(p) \* mutant
PassesBy(p) == ~Up(p) \/ Program[process[p].prog] = "hidden"
               \/ (Program[process[p].prog] \in Shells /\ ~Stale(p))

exeOf(w) ==
    /\ pc[w] = "exe"
    /\ IF PassesBy(pid[w])
       THEN Goto(w, "parent") /\ UNCHANGED exe
       ELSE /\ Goto(w, "classify")
            /\ exe' = [exe EXCEPT ![w] = [prog |-> process[pid[w]].prog, deleted |-> Stale(pid[w])]]
    /\ UNCHANGED <<pid, depth, newHash, result, seen, kin>>

\* classify: a path in mise's tree names its tool, deleted or not, be it a shell's;
\* pacman owns no path that ends in " (deleted)", and there is nothing to hash
\* there. The hash is of what the path holds by then, if that can be read.
classify(w) ==
    /\ pc[w] = "classify"
    /\ LET kind == Program[exe[w].prog] IN
       IF kind \in {"mise", "miseShell"} \/ (~exe[w].deleted /\ kind # "unhashable")
       THEN /\ Goto(w, "start")
            /\ newHash' = [newHash EXCEPT ![w] = kind = "unmanaged" /\ exe[w].prog \in upgraded]
       ELSE Goto(w, "failed") /\ UNCHANGED newHash
    /\ UNCHANGED <<pid, depth, exe, result, seen, kin>>

\* StartTime reads /proc/<pid>/stat.
StartTime(w) ==
    /\ pc[w] = "start"
    /\ IF process[pid[w]].state # "gone"
       THEN /\ Goto(w, "done")
            /\ result' = [result EXCEPT ![w] = [pid |-> pid[w], start |-> process[pid[w]].start,
                                               prog |-> exe[w].prog]]
       ELSE Goto(w, "failed") /\ UNCHANGED result
    /\ UNCHANGED <<pid, depth, exe, newHash, seen, kin>>

-----------------------------------------------------------------------------
Machine == \/ \E p \in Pid : Exit(p) \/ Reap(p)
           \/ \E p, q \in Pid, g \in Prog : Fork(p, q, g)
           \/ \E p \in Pid, g \in Prog : Exec(p, g)
           \/ \E g \in Prog : Upgrade(g)
Resolve(w) == callerPID(w) \/ parentOf(w) \/ exeOf(w) \/ classify(w) \/ StartTime(w)

Next == Machine \/ \E w \in Walk : Resolve(w)
Spec == Init /\ [][Next]_vars

-----------------------------------------------------------------------------
TypeOK ==
    /\ process \in [Pid -> Process]
    /\ upgraded \subseteq Prog
    /\ events \in 0..MaxEvents
    /\ pc \in [Walk -> {"idle", "parent", "exe", "classify", "start", "done", "failed"}]
    /\ pid \in [Walk -> Pid]
    /\ depth \in [Walk -> 0..MaxDepth]
    /\ exe \in [Walk -> Link \cup {None}]
    /\ newHash \in [Walk -> BOOLEAN]
    /\ result \in [Walk -> Found \cup {None}]
    /\ seen \in [Walk -> SUBSET (Found \cup {None})]
    /\ kin \in [Walk -> SUBSET Found]

HasExited(f) == ~Up(f.pid) \/ process[f.pid].start # f.start
LostItsBinary(g) == g \in upgraded /\ Program[g] \notin {"mise", "miseShell", "hidden"}
UpgradedMiseShell(f) == Program[f.prog] = "miseShell" /\ f.prog \in upgraded

\* Read by read, with processes that start, exec, exit and are re-parented in
\* between, Resolve returns an ancestor the caller had, under its own start time;
\* and if the caller's ancestry led to one launcher all the while, it returns
\* that one, whatever else happened, but for two cases. Of systemd, under which
\* exits leave orphans, it is not so: the walk may climb from a shell that had
\* exited to another, no ancestor any more, which execs a launcher of its own.
\* And a shell in mise's tree that was upgraded under its process is taken for
\* the launcher. (Resolve, parentOf, exeOf, classify, StartTime)
ResolvesAnAncestor ==
    \A w \in Walk : result[w] # None =>
        /\ \E f \in kin[w] : f.pid = result[w].pid /\ f.start = result[w].start
        /\ \A f \in seen[w] : seen[w] = {f} =>
              \/ result[w] = f
              \/ f # None /\ f.pid = ReaperPid /\ \E g \in kin[w] : HasExited(g)
              \/ UpgradedMiseShell(result[w])

\* A walk for a caller that is still there fails only if at some instant there
\* was no launcher, an ancestor exited, the binary of one, be it a shell's, was
\* upgraded, or one runs a binary it may not hash; never for a process whose
\* binary it cannot tell, which it passes by, or on the last hop.
\* (Resolve, classify)
FailsForCause ==
    [][\A w \in Walk : pc[w] # "failed" /\ pc'[w] = "failed" =>
          \/ ~Up(CallerPid) \/ None \in seen[w]
          \/ \E f \in kin[w] : HasExited(f)
          \/ \E f \in kin[w] : Program[f.prog] = "unhashable" \/ LostItsBinary(f.prog)]_vars

\* What the code says or relies on, and configurations of their own refute. The
\* launcher is the first ancestor that is no shell, at some instant of the walk.
FirstAncestor == \A w \in Walk : result[w] # None => result[w] \in seen[w]

\* Resolve finds the launcher there is, if no ancestor exits while it looks.
FindsLauncher ==
    [][\A w \in Walk : pc[w] # "failed" /\ pc'[w] = "failed" =>
          ~Up(CallerPid) \/ None \in seen[w] \/ \E f \in kin[w] : HasExited(f)]_vars

\* What notLaunchers names is never the launcher.
NeverAShell == \A w \in Walk : result[w] # None => Program[result[w].prog] \notin Shells

\* An unmanaged launcher is known by the hash of the image it runs.
HashOfWhatRuns ==
    \A w \in Walk : pc[w] = "done" /\ newHash[w] /\ ~HasExited(result[w]) => process[result[w].pid].new
=============================================================================
