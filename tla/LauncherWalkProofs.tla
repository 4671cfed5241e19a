--------------------------- MODULE LauncherWalkProofs ---------------------------
(* Proofs about LauncherWalk: that the walk, read by read, returns an ancestor *)
(* the caller had and the launcher there was all the while, and fails only for *)
(* a cause, for every number of walks, processes, hops and events, if no pid   *)
(* comes round again during a walk (WalkReuse shows what happens otherwise).   *)
EXTENDS LauncherWalk, WellFoundedInduction, TLAPS

-----------------------------------------------------------------------------
(* The ancestors in a table of processes                                     *)

\* A set of natural numbers has a least element.
LEMMA LeastElement ==
    ASSUME NEW S \in SUBSET Nat, S # {}
    PROVE  \E m \in S : \A k \in S : m <= k
<1>1. IsWellFoundedOn(OpToRel(<, Nat), Nat)
  BY NatLessThanWellFounded
<1>2. PICK m \in S : \A k \in S : <<k, m>> \notin OpToRel(<, Nat)
  BY <1>1, WFMin
<1>3. ASSUME NEW k \in S PROVE m <= k
  <2>1. ~(k < m)
    BY <1>2 DEF OpToRel
  <2> QED BY <2>1
<1> QED BY <1>3

\* One hop from the process f[k - 1].
Hop(t, f, k) == IF k = 0 THEN CallerPid ELSE IF f[k - 1] = Top THEN Top ELSE t[f[k - 1]].parent

\* However many the hops, there is a function that makes them.
LEMMA HopsExist ==
    ASSUME NEW t, NEW n \in Nat
    PROVE  \E f : f = [k \in 0..n |-> Hop(t, f, k)]
<1> DEFINE Missing == {m \in Nat : ~\E f : f = [k \in 0..m |-> Hop(t, f, k)]}
<1> SUFFICES ASSUME Missing # {} PROVE FALSE
  OBVIOUS
<1>1. PICK m \in Missing : \A k \in Missing : m <= k
  BY LeastElement
<1>2. m # 0
  <2> DEFINE f == [k \in 0..0 |-> CallerPid]
  <2>1. f = [k \in 0..0 |-> Hop(t, f, k)]
    BY DEF Hop
  <2> QED BY <2>1
<1>3. m - 1 \in Nat /\ m - 1 \notin Missing
  BY <1>1, <1>2
<1>4. PICK f : f = [k \in 0..(m - 1) |-> Hop(t, f, k)]
  BY <1>3
<1> DEFINE g == [k \in 0..m |-> IF k < m THEN f[k] ELSE Hop(t, f, m)]
<1>5. ASSUME NEW k \in 0..m PROVE g[k] = Hop(t, g, k)
  <2>1. k # 0 => k - 1 \in 0..(m - 1) /\ g[k - 1] = f[k - 1]
    OBVIOUS
  <2>2. Hop(t, g, k) = Hop(t, f, k)
    BY <2>1 DEF Hop
  <2>3. k < m => f[k] = Hop(t, f, k)
    BY <1>4
  <2> QED BY <2>2, <2>3
<1>6. g = [k \in 0..m |-> Hop(t, g, k)]
  BY <1>5
<1> QED BY <1>1, <1>6

\* So Ancestors(t) obeys its recursion equation.
LEMMA AncestorsEquation ==
    ASSUME NEW t
    PROVE  /\ Ancestors(t)[0] = CallerPid
           /\ \A k \in 1..MaxDepth :
                 Ancestors(t)[k] = IF Ancestors(t)[k - 1] = Top THEN Top
                                   ELSE t[Ancestors(t)[k - 1]].parent
<1> DEFINE F == CHOOSE f : f = [k \in 0..MaxDepth |-> Hop(t, f, k)]
<1>1. MaxDepth \in Nat
  BY BoundAssumption
<1>2. F = [k \in 0..MaxDepth |-> Hop(t, F, k)]
  BY <1>1, HopsExist
<1>3. Ancestors(t) = F
  BY DEF Ancestors, Hop
<1> HIDE DEF F
<1>4. \A k \in 0..MaxDepth : F[k] = Hop(t, F, k)
  BY <1>2
<1> QED BY <1>1, <1>3, <1>4 DEF Hop

\* An ancestor is a process, and above Top is none.
LEMMA AncestorsType ==
    ASSUME NEW t \in [Pid -> Process]
    PROVE  \A k \in 0..MaxDepth : Ancestors(t)[k] \in Pid \cup {Top}
<1> DEFINE Bad == {k \in 0..MaxDepth : Ancestors(t)[k] \notin Pid \cup {Top}}
<1> SUFFICES ASSUME Bad # {} PROVE FALSE
  OBVIOUS
<1>1. PICK m \in Bad : \A k \in Bad : m <= k
  <2>1. Bad \in SUBSET Nat
    BY BoundAssumption
  <2> QED BY <2>1, LeastElement
<1>2. m # 0
  BY AncestorsEquation, PidAssumption
<1>3. m \in 1..MaxDepth /\ m - 1 \in 0..MaxDepth /\ m - 1 \notin Bad
  BY <1>1, <1>2, BoundAssumption
<1>4. Ancestors(t)[m - 1] \in Pid \cup {Top}
  BY <1>3
<1>5. Ancestors(t)[m] \in Pid \cup {Top}
  BY <1>3, <1>4, AncestorsEquation DEF Process
<1> QED BY <1>5

\* Two tables in which the first n ancestors have the same parents agree on them.
LEMMA AncestorsAgree ==
    ASSUME NEW t \in [Pid -> Process], NEW u, NEW n \in 0..MaxDepth,
           \A j \in 0..(n - 1) : Ancestors(t)[j] \in Pid =>
              u[Ancestors(t)[j]].parent = t[Ancestors(t)[j]].parent
    PROVE  \A k \in 0..n : Ancestors(u)[k] = Ancestors(t)[k]
<1> DEFINE Bad == {k \in 0..n : Ancestors(u)[k] # Ancestors(t)[k]}
<1> SUFFICES ASSUME Bad # {} PROVE FALSE
  OBVIOUS
<1>1. PICK m \in Bad : \A k \in Bad : m <= k
  <2>1. Bad \in SUBSET Nat
    BY BoundAssumption
  <2> QED BY <2>1, LeastElement
<1>2. m # 0
  BY AncestorsEquation
<1>3. m \in 1..MaxDepth /\ m - 1 \in 0..(n - 1) /\ m - 1 \in 0..MaxDepth /\ m - 1 \notin Bad
  BY <1>1, <1>2, BoundAssumption
<1>4. Ancestors(u)[m - 1] = Ancestors(t)[m - 1]
  BY <1>3, BoundAssumption
<1>5. Ancestors(t)[m - 1] # Top => u[Ancestors(t)[m - 1]].parent = t[Ancestors(t)[m - 1]].parent
  BY <1>3, AncestorsType
<1> HIDE DEF Bad
<1>6. Ancestors(u)[m] = Ancestors(t)[m]
  BY <1>3, <1>4, <1>5, AncestorsEquation
<1> QED BY <1>6 DEF Bad

\* The first ancestor that is no shell and can be read.
IsFirst(t, k) ==
    /\ Ancestors(t)[k] \in Pid /\ ~Skipped(t, Ancestors(t)[k])
    /\ \A j \in 1..(k - 1) : Ancestors(t)[j] \in Pid => Skipped(t, Ancestors(t)[j])

LEMMA LeadsToFirst ==
    ASSUME NEW t \in [Pid -> Process], NEW k \in 1..MaxDepth, IsFirst(t, k)
    PROVE  LeadsTo(t) = Who(t, Ancestors(t)[k]) /\ LeadsTo(t) # None
<1> DEFINE a == Ancestors(t)
           hops == {j \in 1..MaxDepth : a[j] \in Pid /\ ~Skipped(t, a[j])}
<1>1. k \in hops /\ \A j \in hops : k <= j
  BY BoundAssumption DEF IsFirst
<1>2. \A i \in hops : (\A j \in hops : i <= j) => i = k
  BY <1>1, BoundAssumption
<1>3. (CHOOSE i \in hops : \A j \in hops : i <= j) = k
  BY <1>1, <1>2
<1>4. LeadsTo(t) = Who(t, a[k])
  <2> HIDE DEF a
  <2>1. hops # {}
    BY <1>1
  <2> QED BY <1>3, <2>1 DEF LeadsTo, a
<1>5. a[k] \in Pid
  BY <1>1
<1>6. Who(t, a[k]) \in Found
  <2> HIDE DEF a
  <2> QED BY <1>5 DEF Who, Found, Process
<1> QED BY <1>4, <1>6, NoneAssumption

LEMMA LeadsToNone ==
    ASSUME NEW t \in [Pid -> Process], \A k \in 1..MaxDepth : ~IsFirst(t, k)
    PROVE  /\ LeadsTo(t) = None
           /\ \A k \in 1..MaxDepth : Ancestors(t)[k] \in Pid => Skipped(t, Ancestors(t)[k])
<1> DEFINE hops == {j \in 1..MaxDepth : Ancestors(t)[j] \in Pid /\ ~Skipped(t, Ancestors(t)[j])}
<1>1. hops = {}
  <2> SUFFICES ASSUME hops # {} PROVE FALSE
    OBVIOUS
  <2>1. hops \in SUBSET Nat
    BY BoundAssumption
  <2>2. PICK m \in hops : \A k \in hops : m <= k
    BY <2>1, LeastElement
  <2>3. ASSUME NEW j \in 1..(m - 1), Ancestors(t)[j] \in Pid PROVE Skipped(t, Ancestors(t)[j])
    <3>1. j \in 1..MaxDepth /\ j < m
      BY BoundAssumption
    <3> QED BY <2>2, <2>3, <3>1
  <2>4. IsFirst(t, m)
    BY <2>3 DEF IsFirst
  <2> QED BY <2>4
<1> QED BY <1>1 DEF LeadsTo

\* There is one first ancestor at most.
LEMMA FirstIsOne ==
    ASSUME NEW t, NEW j \in 1..MaxDepth, NEW k \in 1..MaxDepth, IsFirst(t, j), IsFirst(t, k)
    PROVE  j = k
<1>1. j \in 1..(k - 1) \/ k \in 1..(j - 1) \/ j = k
  BY BoundAssumption
<1> QED BY <1>1 DEF IsFirst

-----------------------------------------------------------------------------
(* The inductive invariant                                                   *)

\* Orphans have a parent that runs, and the reaper stays.
WorldOK ==
    /\ \A p \in Pid : /\ process[p].start <= events
                      /\ process[p].parent # p
                      /\ process[p].parent = Top \/ Up(process[p].parent)
    /\ Up(ReaperPid)
    /\ process[ReaperPid].parent = Top /\ process[ReaperPid].prog = Systemd

\* What is recorded of walk w is what is there.
RecordOK(w) ==
    /\ \A g \in kin[w] : g.start <= process[g.pid].start
    /\ InWalk(w) => Kin(process) \subseteq kin[w] /\ LeadsTo(process) \in seen[w]
    /\ pc[w] = "idle" => pid[w] = CallerPid /\ depth[w] = 0
    /\ pc[w] # "done" => result[w] = None
    /\ pc[w] \in {"exe", "classify", "start"} => depth[w] > 0

\* Among the ancestors K is p, as it runs under its pid in the table t.
Known(t, K, p) == \E g \in K : g.pid = p /\ g.start = t[p].start
OnChain(w) == pid[w] = Ancestors(process)[depth[w]]
Undisturbed(w) == \A g \in kin[w] : ~HasExited(g)

\* Wherever a walk at p after d hops can still climb, exits or not, are ancestors
\* the caller had: level[k] holds those it may have come to after k hops.
Levels(t, K, p, d, level) ==
    /\ p \in level[d]
    /\ \A k \in 0..(MaxDepth - 1) : \A q \in level[k] : t[q].parent \in level[k + 1] \cup {Top}
    /\ \A k \in 1..MaxDepth : \A q \in level[k] : Known(t, K, q)

ClimbOK(w) == InWalk(w) =>
    /\ Known(process, kin[w], ReaperPid) \/ OnChain(w)
    /\ \E level \in [0..MaxDepth -> SUBSET Pid] :
          Levels(process, kin[w], pid[w], depth[w], level)

ReadOK(w) == InWalk(w) =>
    /\ Undisturbed(w) => OnChain(w)
    /\ pc[w] \in {"classify", "start"} =>
          /\ exe[w] # None
          /\ Program[exe[w].prog] # "hidden"
          /\ exe[w].deleted => exe[w].prog \in upgraded
          /\ Undisturbed(w) => \E f \in kin[w] : f.prog = exe[w].prog

\* The walk has stopped at the upgraded binary of a shell.
AtShell(w) == /\ exe[w].deleted /\ Program[exe[w].prog] \in Shells
              /\ pc[w] = "classify" \/ Program[exe[w].prog] = "miseShell"

\* The caller's ancestry led to f all the while.
Steady(w, f) == seen[w] = {f} /\ (f = None \/ f.pid # ReaperPid \/ Undisturbed(w))

\* Then the walk is on its way to f, or stops at the upgraded binary of a shell.
SteadyOK(w) == InWalk(w) => \A f \in seen[w] : Steady(w, f) =>
    /\ OnChain(w)
    /\ \A k \in 1..MaxDepth : IsFirst(process, k) =>
          depth[w] <= k /\ (pc[w] = "parent" => depth[w] < k)
    /\ pc[w] \in {"classify", "start"} =>
          \/ AtShell(w)
          \/ /\ f # None /\ pid[w] = f.pid /\ exe[w].prog = f.prog
             /\ f.start = process[f.pid].start

\* If there always was a launcher and no ancestor exited, the one there was at
\* some instant is still ahead.
Ahead(w, s, k) ==
    /\ s.pid = Ancestors(process)[k] /\ s.prog = process[s.pid].prog
    /\ Program[s.prog] \notin Shells \cup {"hidden"}
    /\ depth[w] <= k /\ (pc[w] = "parent" => depth[w] < k)
AheadOK(w) == InWalk(w) /\ Undisturbed(w) /\ None \notin seen[w] =>
    \E s \in seen[w] : s.pid \in Pid /\ \E k \in 1..MaxDepth : Ahead(w, s, k)

WalkOK(w) == RecordOK(w) /\ ClimbOK(w) /\ ReadOK(w) /\ SteadyOK(w) /\ AheadOK(w)

\* ResolvesAnAncestor, of one walk.
ResolvedOK(w) == result[w] # None =>
    /\ \E f \in kin[w] : f.pid = result[w].pid /\ f.start = result[w].start
    /\ \A f \in seen[w] : seen[w] = {f} =>
          \/ result[w] = f
          \/ f # None /\ f.pid = ReaperPid /\ \E g \in kin[w] : HasExited(g)
          \/ UpgradedMiseShell(result[w])

IInv == TypeOK /\ WorldOK /\ \A w \in Walk : WalkOK(w) /\ ResolvedOK(w)

-----------------------------------------------------------------------------
(* Facts about a state                                                       *)

LEMMA ObservedType ==
    ASSUME NEW t \in [Pid -> Process]
    PROVE  LeadsTo(t) \in Found \cup {None} /\ Kin(t) \in SUBSET Found
<1>1. ASSUME NEW p \in Pid PROVE Who(t, p) \in Found
  BY DEF Who, Found, Process
<1>2. ASSUME NEW k \in 1..MaxDepth PROVE Ancestors(t)[k] \in Pid \cup {Top}
  BY AncestorsType, BoundAssumption
<1>3. Kin(t) \in SUBSET Found
  BY <1>1, <1>2 DEF Kin
<1>4. LeadsTo(t) \in Found \cup {None}
  <2>1. CASE \E k \in 1..MaxDepth : IsFirst(t, k)
    <3>1. PICK k \in 1..MaxDepth : IsFirst(t, k)
      BY <2>1
    <3>2. Ancestors(t)[k] \in Pid
      BY <3>1 DEF IsFirst
    <3> QED BY <1>1, <3>1, <3>2, LeadsToFirst
  <2>2. CASE \A k \in 1..MaxDepth : ~IsFirst(t, k)
    BY <2>2, LeadsToNone
  <2> QED BY <2>1, <2>2
<1> QED BY <1>3, <1>4

\* Above an ancestor that is not Top are processes all the way from the caller.
LEMMA BelowIsProcess ==
    ASSUME NEW t \in [Pid -> Process], NEW k \in 1..MaxDepth, Ancestors(t)[k] \in Pid
    PROVE  Ancestors(t)[k - 1] \in Pid /\ Ancestors(t)[k] = t[Ancestors(t)[k - 1]].parent
<1>1. Ancestors(t)[k - 1] # Top
  BY AncestorsEquation, PidAssumption
<1>2. Ancestors(t)[k - 1] \in Pid \cup {Top}
  BY AncestorsType, BoundAssumption
<1> QED BY <1>1, <1>2, AncestorsEquation

\* The caller's ancestors run.
LEMMA AncestorsUp ==
    ASSUME TypeOK, WorldOK, NEW k \in 1..MaxDepth, Ancestors(process)[k] \in Pid
    PROVE  Up(Ancestors(process)[k])
<1>1. /\ Ancestors(process)[k - 1] \in Pid
      /\ Ancestors(process)[k] = process[Ancestors(process)[k - 1]].parent
  BY BelowIsProcess DEF TypeOK
<1> QED BY <1>1, PidAssumption DEF WorldOK

\* An ancestor the caller has is on record, with the program it runs.
LEMMA AncestorsKnown ==
    ASSUME NEW t, NEW K, Kin(t) \subseteq K,
           NEW k \in 1..MaxDepth, Ancestors(t)[k] \in Pid
    PROVE  Who(t, Ancestors(t)[k]) \in K /\ Known(t, K, Ancestors(t)[k])
<1> DEFINE p == Ancestors(t)[k]
<1>1. p # Top
  BY PidAssumption
<1>2. Who(t, p) \in Kin(t)
  BY <1>1 DEF Kin
<1>3. Who(t, p) \in K
  BY <1>2
<1>4. Who(t, p).pid = p /\ Who(t, p).start = t[p].start
  BY DEF Who
<1> QED BY <1>3, <1>4 DEF Known

\* So those a walk can come to are, while it is on the caller's chain.
LEMMA ChainLevels ==
    ASSUME NEW t \in [Pid -> Process], NEW K, Kin(t) \subseteq K,
           NEW d \in 0..MaxDepth, NEW p \in Pid, p = Ancestors(t)[d]
    PROVE  \E level \in [0..MaxDepth -> SUBSET Pid] : Levels(t, K, p, d, level)
<1> DEFINE a == Ancestors(t)
           level == [k \in 0..MaxDepth |-> {a[k]} \ {Top}]
<1>1. \A k \in 0..MaxDepth : a[k] \in Pid \cup {Top}
  BY AncestorsType
<1>2. level \in [0..MaxDepth -> SUBSET Pid]
  BY <1>1
<1>3. p \in level[d]
  BY PidAssumption
<1>4. ASSUME NEW k \in 0..(MaxDepth - 1), NEW q \in level[k]
      PROVE  t[q].parent \in level[k + 1] \cup {Top}
  <2>1. k \in 0..MaxDepth /\ k + 1 \in 1..MaxDepth /\ k + 1 \in 0..MaxDepth /\ (k + 1) - 1 = k
    BY BoundAssumption
  <2>2. q = a[k] /\ q # Top
    BY <2>1
  <2>3. a[k + 1] = t[q].parent
    BY <2>1, <2>2, AncestorsEquation
  <2> QED BY <2>1, <2>3
<1>5. ASSUME NEW k \in 1..MaxDepth, NEW q \in level[k] PROVE Known(t, K, q)
  <2>1. k \in 0..MaxDepth
    BY BoundAssumption
  <2>2. q = a[k] /\ q \in Pid
    BY <1>1, <2>1
  <2> QED BY <2>2, AncestorsKnown
<1> HIDE DEF level
<1> QED BY <1>2, <1>3, <1>4, <1>5 DEF Levels

\* And they still are once the reaper is an ancestor on record, whoever exits.
LEMMA ReaperLevels ==
    ASSUME NEW t \in [Pid -> Process], NEW u, NEW K, NEW J, K \subseteq J,
           NEW d \in 0..MaxDepth, NEW p \in Pid,
           NEW level \in [0..MaxDepth -> SUBSET Pid], Levels(t, K, p, d, level),
           \A q \in Pid : /\ u[q].start = t[q].start
                          /\ u[q].parent = t[q].parent \/ u[q].parent = ReaperPid,
           u[ReaperPid].parent = Top, Known(u, J, ReaperPid)
    PROVE  \E higher \in [0..MaxDepth -> SUBSET Pid] : Levels(u, J, p, d, higher)
<1> DEFINE higher == [k \in 0..MaxDepth |-> level[k] \cup {ReaperPid}]
<1>1. higher \in [0..MaxDepth -> SUBSET Pid]
  BY PidAssumption
<1>2. p \in higher[d]
  BY DEF Levels
<1>3. ASSUME NEW k \in 0..(MaxDepth - 1), NEW q \in higher[k]
      PROVE  u[q].parent \in higher[k + 1] \cup {Top}
  <2>1. k \in 0..MaxDepth /\ k + 1 \in 0..MaxDepth
    BY BoundAssumption
  <2>2. CASE q = ReaperPid
    BY <2>2
  <2>3. CASE q \in level[k]
    <3>1. q \in Pid /\ t[q].parent \in level[k + 1] \cup {Top}
      BY <2>1, <2>3 DEF Levels
    <3> QED BY <2>1, <3>1
  <2> QED BY <2>1, <2>2, <2>3
<1>4. ASSUME NEW k \in 1..MaxDepth, NEW q \in higher[k] PROVE Known(u, J, q)
  <2>1. k \in 0..MaxDepth
    BY BoundAssumption
  <2>2. CASE q \in level[k]
    <3>1. q \in Pid /\ Known(t, K, q)
      BY <2>1, <2>2 DEF Levels
    <3> QED BY <3>1 DEF Known
  <2> QED BY <2>1, <2>2
<1> HIDE DEF higher
<1> QED BY <1>1, <1>2, <1>3, <1>4 DEF Levels

\* An exit is for ever: a pid that is used again has another start time.
LEMMA ExitsLast ==
    ASSUME TypeOK, WorldOK, [Next]_vars, NEW g \in Found, g.start <= process[g.pid].start
    PROVE  g.start <= process'[g.pid].start /\ (HasExited(g) => HasExited(g)')
<1> DEFINE p == g.pid
<1>1. p \in Pid /\ g.start \in Nat /\ process[p].start \in Nat
  BY BoundAssumption DEF Found, TypeOK, Process
<1>2. ASSUME process' = process PROVE g.start <= process'[p].start /\ (HasExited(g) => HasExited(g)')
  BY <1>2 DEF HasExited, Up
<1>3. ASSUME NEW x \in Pid, Exit(x)
      PROVE  g.start <= process'[p].start /\ (HasExited(g) => HasExited(g)')
  <2>1. process'[p].start = process[p].start /\ (process'[p].state = "up" => process[p].state = "up")
    BY <1>1, <1>3 DEF Exit, TypeOK, Process
  <2> QED BY <2>1 DEF HasExited, Up
<1>4. ASSUME NEW x \in Pid, Reap(x)
      PROVE  g.start <= process'[p].start /\ (HasExited(g) => HasExited(g)')
  <2>1. process'[p].start = process[p].start /\ (process'[p].state = "up" => process[p].state = "up")
    BY <1>1, <1>4 DEF Reap, TypeOK, Process
  <2> QED BY <2>1 DEF HasExited, Up
<1>5. ASSUME NEW x \in Pid, NEW q \in Pid, NEW h \in Prog, Fork(x, q, h)
      PROVE  g.start <= process'[p].start /\ (HasExited(g) => HasExited(g)')
  <2>1. CASE x = p
    <3>1. process'[p].start = process[p].start + 1
      BY <1>1, <1>5, <2>1 DEF Fork, TypeOK
    <3> QED BY <1>1, <3>1 DEF HasExited
  <2>2. CASE x # p
    <3>1. process'[p] = process[p]
      BY <1>1, <1>5, <2>2 DEF Fork, TypeOK
    <3> QED BY <3>1 DEF HasExited, Up
  <2> QED BY <2>1, <2>2
<1>6. ASSUME NEW x \in Pid, NEW h \in Prog, Exec(x, h)
      PROVE  g.start <= process'[p].start /\ (HasExited(g) => HasExited(g)')
  <2>1. process'[p].start = process[p].start /\ process'[p].state = process[p].state
    BY <1>1, <1>6 DEF Exec, TypeOK, Process
  <2> QED BY <2>1 DEF HasExited, Up
<1>7. (\E h \in Prog : Upgrade(h)) \/ (\E w \in Walk : Resolve(w)) \/ UNCHANGED vars => process' = process
  BY DEF Upgrade, Resolve, callerPID, parentOf, exeOf, classify, StartTime, Goto, vars, worldVars
<1> QED BY <1>2, <1>3, <1>4, <1>5, <1>6, <1>7 DEF Next, Machine

-----------------------------------------------------------------------------
(* The processes, and the types                                              *)

LEMMA InitProcesses ==
    ASSUME Init
    PROVE  /\ process \in [Pid -> Process]
           /\ \A p \in Pid : process[p].start = 0
           /\ WorldOK
<1>1. PICK parent \in [Pid -> Pid \cup {Top}], prog \in [Pid -> Prog] :
         /\ parent[ReaperPid] = Top /\ prog[ReaperPid] = Systemd
         /\ \A p \in Pid \ {ReaperPid} : parent[p] \in {q \in Pid : q < p}
         /\ process = [p \in Pid |-> [start |-> 0, state |-> "up", parent |-> parent[p],
                                      prog |-> prog[p], new |-> FALSE]]
  BY DEF Init
<1>2. 0 \in 0..MaxEvents /\ events = 0
  BY BoundAssumption DEF Init
<1>3. process \in [Pid -> Process]
  BY <1>1, <1>2 DEF Process
<1>4. \A p \in Pid : process[p].start = 0 /\ process[p].state = "up"
                     /\ process[p].parent = parent[p] /\ process[p].prog = prog[p]
  BY <1>1
<1>5. \A p \in Pid : parent[p] # p /\ (parent[p] = Top \/ parent[p] \in Pid)
  BY <1>1, PidAssumption
<1>6. WorldOK
  BY <1>1, <1>2, <1>4, <1>5, PidAssumption DEF WorldOK, Up
<1> QED BY <1>3, <1>4, <1>6

LEMMA ExitProcesses ==
    ASSUME TypeOK, WorldOK, NEW x \in Pid, Exit(x)
    PROVE  /\ process' \in [Pid -> Process] /\ WorldOK'
           /\ \A p \in Pid : /\ process'[p].prog = process[p].prog
                             /\ process'[p].start = process[p].start
                             /\ process'[p].parent = IF process[p].parent = x THEN ReaperPid
                                                     ELSE process[p].parent
<1>1. process \in [Pid -> Process] /\ x # ReaperPid /\ events \in Nat /\ events' = events + 1
  BY BoundAssumption DEF TypeOK, Exit, Event
<1>2. process' = [q \in Pid |->
         IF q = x THEN [process[q] EXCEPT !.state = "zombie"]
         ELSE IF process[q].parent = x THEN [process[q] EXCEPT !.parent = ReaperPid]
         ELSE process[q]]
  BY DEF Exit
<1>3. process[x].parent # x
  BY DEF WorldOK
<1>4. ASSUME NEW p \in Pid
      PROVE  /\ process'[p].prog = process[p].prog /\ process'[p].start = process[p].start
             /\ process'[p].parent = IF process[p].parent = x THEN ReaperPid ELSE process[p].parent
             /\ process'[p].state = IF p = x THEN "zombie" ELSE process[p].state
             /\ process'[p] \in Process
  BY <1>1, <1>2, <1>3, PidAssumption DEF Process
<1>5. process' \in [Pid -> Process]
  BY <1>2, <1>4
<1>6. ASSUME NEW p \in Pid
      PROVE  /\ process'[p].start <= events'
             /\ process'[p].parent # p
             /\ (process[p].parent = Top \/ Up(process[p].parent))'
  <2>1. process[p].start \in Nat /\ process[p].parent \in Pid \cup {Top} /\ ReaperPid \in Pid
    BY <1>1, PidAssumption, BoundAssumption DEF Process
  <2>2. process'[p].start <= events'
    BY <1>1, <1>4, <2>1 DEF WorldOK
  <2>3. process'[p].parent # p
    BY <1>4, PidAssumption DEF WorldOK
  <2>4. (process[p].parent = Top \/ Up(process[p].parent))'
    BY <1>1, <1>4, <2>1 DEF WorldOK, Up
  <2> QED BY <2>2, <2>3, <2>4
<1>7. Up(ReaperPid)' /\ process'[ReaperPid].parent = Top /\ process'[ReaperPid].prog = Systemd
  BY <1>1, <1>4, PidAssumption DEF WorldOK, Up
<1> QED BY <1>4, <1>5, <1>6, <1>7 DEF WorldOK

\* What a step that leaves start, state and parent alone, but for a state that
\* is not up, leaves of WorldOK.
LEMMA CalmProcesses ==
    ASSUME TypeOK, WorldOK, process' \in [Pid -> Process], events' \in Nat, events <= events',
           \A p \in Pid : /\ process'[p].start = process[p].start
                          /\ process'[p].parent = process[p].parent
                          /\ Up(p) => Up(p)',
           process'[ReaperPid].prog = Systemd
    PROVE  WorldOK'
<1>1. ASSUME NEW p \in Pid
      PROVE  /\ process'[p].start <= events'
             /\ process'[p].parent # p
             /\ (process[p].parent = Top \/ Up(process[p].parent))'
  <2>1. process[p].start \in Nat /\ process[p].parent \in Pid \cup {Top} /\ events \in Nat
    BY BoundAssumption DEF TypeOK, Process
  <2> QED BY <2>1 DEF WorldOK
<1> QED BY <1>1, PidAssumption DEF WorldOK

LEMMA ReapProcesses ==
    ASSUME TypeOK, WorldOK, NEW x \in Pid, Reap(x)
    PROVE  /\ process' \in [Pid -> Process] /\ WorldOK'
           /\ \A p \in Pid : /\ process'[p].prog = process[p].prog
                             /\ process'[p].start = process[p].start
                             /\ process'[p].parent = process[p].parent
<1>1. ASSUME NEW p \in Pid
      PROVE  /\ process'[p].prog = process[p].prog /\ process'[p].start = process[p].start
             /\ process'[p].parent = process[p].parent
             /\ Up(p) => Up(p)'
             /\ process'[p] \in Process
  BY DEF Reap, TypeOK, Process, Up
<1>2. process' \in [Pid -> Process]
  BY <1>1 DEF Reap, TypeOK
<1>3. events' \in Nat /\ events <= events'
  BY BoundAssumption DEF Reap, Event, TypeOK
<1>4. WorldOK'
  BY <1>1, <1>2, <1>3, CalmProcesses, PidAssumption DEF WorldOK
<1> QED BY <1>1, <1>2, <1>4

LEMMA ExecProcesses ==
    ASSUME TypeOK, WorldOK, NEW x \in Pid, NEW g \in Prog, Exec(x, g)
    PROVE  /\ process' \in [Pid -> Process] /\ WorldOK'
           /\ Program[process[x].prog] \in Shells
           /\ \A p \in Pid : /\ process'[p].start = process[p].start
                             /\ process'[p].parent = process[p].parent
                             /\ p # x => process'[p].prog = process[p].prog
<1>0. PICK b \in BOOLEAN : process' = [process EXCEPT ![x].prog = g, ![x].new = b]
  <2>1. (g \in upgraded) \in BOOLEAN
    OBVIOUS
  <2> QED BY <2>1, Zenon DEF Exec
<1>1. ASSUME NEW p \in Pid
      PROVE  /\ process'[p].start = process[p].start /\ process'[p].parent = process[p].parent
             /\ p # x => process'[p].prog = process[p].prog
             /\ Up(p) => Up(p)'
             /\ process'[p] \in Process
  <2>1. process[p] \in Process
    BY DEF TypeOK
  <2>2. CASE p # x
    <3>1. process'[p] = process[p]
      BY <1>0, <2>2 DEF TypeOK
    <3> QED BY <2>1, <2>2, <3>1 DEF Up
  <2>3. CASE p = x
    <3>1. process'[p] = [process[p] EXCEPT !.prog = g, !.new = b]
      BY <1>0, <2>3 DEF TypeOK
    <3> QED BY <2>1, <2>3, <3>1 DEF Process, Up
  <2> QED BY <2>2, <2>3
<1>2. process' \in [Pid -> Process]
  BY <1>0, <1>1 DEF TypeOK
<1>3. events' \in Nat /\ events <= events'
  BY BoundAssumption DEF Exec, Event, TypeOK
<1>4. x # ReaperPid
  BY ProgramAssumption DEF Exec, WorldOK, Shells
<1>5. WorldOK'
  BY <1>1, <1>2, <1>3, <1>4, CalmProcesses, PidAssumption DEF WorldOK
<1> QED BY <1>1, <1>2, <1>5 DEF Exec

LEMMA ForkProcesses ==
    ASSUME TypeOK, WorldOK, NEW x \in Pid, NEW q \in Pid, NEW g \in Prog, Fork(x, q, g)
    PROVE  process' \in [Pid -> Process] /\ WorldOK'
<1>1. events \in Nat /\ events' = events + 1 /\ events' \in 0..MaxEvents
  BY BoundAssumption DEF Fork, Event, TypeOK
<1>2. ~Up(x) /\ Up(q) /\ x # q /\ x # ReaperPid
  BY DEF Fork, Up, WorldOK
<1>3. process[x].start \in Nat /\ process[x].start <= events
  BY BoundAssumption DEF TypeOK, Process, WorldOK
<1>0. PICK b \in BOOLEAN :
         process' = [process EXCEPT ![x] = [start |-> process[x].start + 1, state |-> "up",
                                            parent |-> q, prog |-> g, new |-> b]]
  <2>1. (g \in upgraded) \in BOOLEAN
    OBVIOUS
  <2> QED BY <2>1, Zenon DEF Fork
<1>4. /\ process'[x] = [start |-> process[x].start + 1, state |-> "up", parent |-> q,
                        prog |-> g, new |-> b]
      /\ \A p \in Pid \ {x} : process'[p] = process[p]
  BY <1>0 DEF TypeOK
<1>5. process'[x] \in Process
  <2>1. process[x].start + 1 \in 0..MaxEvents
    BY <1>1, <1>3, BoundAssumption
  <2> QED BY <1>4, <2>1 DEF Process
<1>6. process' \in [Pid -> Process]
  <2>1. \A p \in Pid : process'[p] \in Process
    BY <1>4, <1>5 DEF TypeOK
  <2>2. process' = [p \in Pid |-> process'[p]]
    BY <1>0 DEF TypeOK
  <2> QED BY <2>1, <2>2
<1>7. ASSUME NEW p \in Pid
      PROVE  /\ process'[p].start <= events'
             /\ process'[p].parent # p
             /\ (process[p].parent = Top \/ Up(process[p].parent))'
  <2>1. process[p].start \in Nat /\ process[p].parent \in Pid \cup {Top}
    BY BoundAssumption DEF TypeOK, Process
  <2>2. process'[p].start <= events' /\ process'[p].parent # p
    BY <1>1, <1>2, <1>3, <1>4, <2>1 DEF WorldOK
  <2>3. (process[p].parent = Top \/ Up(process[p].parent))'
    BY <1>2, <1>4, <2>1 DEF WorldOK, Up
  <2> QED BY <2>2, <2>3
<1>8. Up(ReaperPid)' /\ process'[ReaperPid].parent = Top /\ process'[ReaperPid].prog = Systemd
  BY <1>2, <1>4, PidAssumption DEF WorldOK, Up
<1> QED BY <1>6, <1>7, <1>8 DEF WorldOK

LEMMA ObserveType ==
    ASSUME TypeOK, process' \in [Pid -> Process], Observe
    PROVE  seen' \in [Walk -> SUBSET (Found \cup {None})] /\ kin' \in [Walk -> SUBSET Found]
<1>1. LeadsTo(process') \in Found \cup {None} /\ Kin(process') \in SUBSET Found
  BY ObservedType
<1> QED BY <1>1 DEF Observe, TypeOK

LEMMA TypeStep ==
    ASSUME TypeOK, WorldOK, \A w \in Walk : pc[w] = "start" => exe[w] # None, [Next]_vars
    PROVE  TypeOK'
<1> USE DEF TypeOK
<1>1. events \in Nat /\ \A e : e = events + 1 /\ events < MaxEvents => e \in 0..MaxEvents
  BY BoundAssumption
<1>2. ASSUME NEW x \in Pid, Exit(x) PROVE TypeOK'
  <2>1. process' \in [Pid -> Process]
    BY <1>2, ExitProcesses
  <2> QED BY <1>1, <1>2, <2>1, ObserveType DEF Exit, Event, walkVars
<1>3. ASSUME NEW x \in Pid, Reap(x) PROVE TypeOK'
  <2>1. process' \in [Pid -> Process]
    BY <1>3, ReapProcesses
  <2> QED BY <1>1, <1>3, <2>1 DEF Reap, Event, walkVars
<1>4. ASSUME NEW x \in Pid, NEW q \in Pid, NEW g \in Prog, Fork(x, q, g) PROVE TypeOK'
  <2>1. process' \in [Pid -> Process]
    BY <1>4, ForkProcesses
  <2> QED BY <1>1, <1>4, <2>1, ObserveType DEF Fork, Event, walkVars
<1>5. ASSUME NEW x \in Pid, NEW g \in Prog, Exec(x, g) PROVE TypeOK'
  <2>1. process' \in [Pid -> Process]
    BY <1>5, ExecProcesses
  <2> QED BY <1>1, <1>5, <2>1, ObserveType DEF Exec, Event, walkVars
<1>6. ASSUME NEW g \in Prog, Upgrade(g) PROVE TypeOK'
  BY <1>1, <1>6 DEF Upgrade, Event, walkVars
<1>7. ASSUME NEW w \in Walk, callerPID(w) PROVE TypeOK'
  <2>1. LeadsTo(process) \in Found \cup {None} /\ Kin(process) \in SUBSET Found
    BY ObservedType
  <2> QED BY <1>7, <2>1 DEF callerPID, Goto, worldVars
<1>8. ASSUME NEW w \in Walk, parentOf(w) PROVE TypeOK'
  <2>1. MayHop(w) => process[pid[w]].parent \in Pid /\ depth[w] + 1 \in 0..MaxDepth
    BY BoundAssumption DEF MayHop, Process
  <2> QED BY <1>8, <2>1 DEF parentOf, Goto, worldVars
<1>9. ASSUME NEW w \in Walk, exeOf(w) PROVE TypeOK'
  <2>1. PICK b \in BOOLEAN : b = Stale(pid[w])
    BY DEF Stale
  <2>2. [prog |-> process[pid[w]].prog, deleted |-> b] \in Link
    BY DEF Process, Link
  <2>3. exe' = exe \/ exe' = [exe EXCEPT ![w] = [prog |-> process[pid[w]].prog, deleted |-> b]]
    BY <1>9, <2>1 DEF exeOf
  <2>4. exe' \in [Walk -> Link \cup {None}]
    BY <2>2, <2>3
  <2> QED BY <1>9, <2>4 DEF exeOf, Goto, worldVars
<1>10. ASSUME NEW w \in Walk, classify(w) PROVE TypeOK'
  <2>1. newHash' \in [Walk -> BOOLEAN]
    BY <1>10 DEF classify
  <2> QED BY <1>10, <2>1 DEF classify, Goto, worldVars
<1>11. ASSUME NEW w \in Walk, StartTime(w) PROVE TypeOK'
  <2>1. [pid |-> pid[w], start |-> process[pid[w]].start, prog |-> exe[w].prog] \in Found
    BY <1>11 DEF StartTime, Found, Process, Link
  <2> QED BY <1>11, <2>1 DEF StartTime, Goto, worldVars
<1>12. ASSUME UNCHANGED vars PROVE TypeOK'
  BY <1>12 DEF vars, worldVars, walkVars
<1> QED BY <1>2, <1>3, <1>4, <1>5, <1>6, <1>7, <1>8, <1>9, <1>10, <1>11, <1>12
        DEF Next, Machine, Resolve

-----------------------------------------------------------------------------
(* A walk that does not move                                                 *)

Still(w) == /\ pc'[w] = pc[w] /\ pid'[w] = pid[w] /\ depth'[w] = depth[w]
            /\ exe'[w] = exe[w] /\ result'[w] = result[w]

\* While the processes are as they were, what holds of it goes on holding.
LEMMA StillWalk ==
    ASSUME NEW w \in Walk, WalkOK(w), Still(w), process' = process,
           upgraded \subseteq upgraded', seen'[w] = seen[w], kin'[w] = kin[w]
    PROVE  WalkOK(w)'
<1>1. /\ InWalk(w)' <=> InWalk(w)
      /\ OnChain(w)' <=> OnChain(w)
      /\ Undisturbed(w)' <=> Undisturbed(w)
  BY DEF Still, InWalk, OnChain, Undisturbed, HasExited, Up
<1>2. RecordOK(w)'
  BY <1>1 DEF WalkOK, RecordOK, Still
<1>3. ClimbOK(w)'
  BY <1>1 DEF WalkOK, ClimbOK, Still
<1>4. ReadOK(w)'
  BY <1>1 DEF WalkOK, ReadOK, Still
<1>5. SteadyOK(w)'
  BY <1>1 DEF WalkOK, SteadyOK, Steady, AtShell, Still
<1>6. AheadOK(w)'
  BY <1>1 DEF WalkOK, AheadOK, Ahead, Still
<1> QED BY <1>2, <1>3, <1>4, <1>5, <1>6 DEF WalkOK

-----------------------------------------------------------------------------
(* A walk that does not move, while the processes do                         *)

\* In u the ancestors are those in t, or those below one that has exited, and
\* then the reaper.
SameChain(t, u) == \A k \in 0..MaxDepth : Ancestors(u)[k] = Ancestors(t)[k]
CutAt(t, u, i) ==
    /\ Ancestors(t)[i] \in Pid /\ Ancestors(u)[i] = ReaperPid
    /\ u[Ancestors(t)[i]].state # "up"
    /\ \A j \in 0..(i - 1) : Ancestors(u)[j] = Ancestors(t)[j]
    /\ \A p \in Pid : u[p].prog = t[p].prog

LEMMA ParentsSame ==
    ASSUME NEW t \in [Pid -> Process], NEW u, \A p \in Pid : u[p].parent = t[p].parent
    PROVE  SameChain(t, u)
<1>1. MaxDepth \in 0..MaxDepth
  BY BoundAssumption
<1> QED BY <1>1, AncestorsAgree DEF SameChain

LEMMA ExitCuts ==
    ASSUME TypeOK, WorldOK, NEW x \in Pid, Exit(x)
    PROVE  SameChain(process, process') \/ \E i \in 1..MaxDepth : CutAt(process, process', i)
<1> DEFINE a == Ancestors(process)
           hits == {i \in 1..MaxDepth : a[i] = x}
<1>1. process \in [Pid -> Process] /\ \A k \in 0..MaxDepth : a[k] \in Pid \cup {Top}
  BY AncestorsType DEF TypeOK
<1>2. \A p \in Pid : /\ process'[p].prog = process[p].prog
                     /\ process'[p].parent = IF process[p].parent = x THEN ReaperPid
                                             ELSE process[p].parent
  BY ExitProcesses
<1>3. ASSUME NEW k \in 1..MaxDepth, a[k - 1] \in Pid PROVE a[k] = process[a[k - 1]].parent
  BY <1>3, AncestorsEquation, PidAssumption
<1>4. CASE hits = {}
  <2>1. ASSUME NEW j \in 0..(MaxDepth - 1), a[j] \in Pid
        PROVE  process'[a[j]].parent = process[a[j]].parent
    <3>1. j + 1 \in 1..MaxDepth /\ (j + 1) - 1 = j
      BY BoundAssumption
    <3>2. a[j + 1] = process[a[j]].parent /\ a[j + 1] # x
      BY <1>3, <1>4, <2>1, <3>1
    <3> QED BY <1>2, <2>1, <3>2
  <2>2. MaxDepth \in 0..MaxDepth
    BY BoundAssumption
  <2>3. SameChain(process, process')
    <3> HIDE DEF a
    <3> QED BY <1>1, <2>1, <2>2, AncestorsAgree DEF SameChain, a
  <2> QED BY <2>3
<1>5. CASE hits # {}
  <2>1. hits \in SUBSET Nat
    BY BoundAssumption
  <2>2. PICK i \in hits : \A k \in hits : i <= k
    BY <1>5, <2>1, LeastElement
  <2>3. i \in 1..MaxDepth /\ a[i] = x /\ i - 1 \in 0..MaxDepth /\ (i - 1) + 1 = i
    BY <2>2, BoundAssumption
  <2>4. ASSUME NEW j \in 0..((i - 1) - 1), a[j] \in Pid
        PROVE  process'[a[j]].parent = process[a[j]].parent
    <3>1. j + 1 \in 1..MaxDepth /\ (j + 1) - 1 = j /\ ~(i <= j + 1)
      BY <2>3, BoundAssumption
    <3>2. j + 1 \notin hits
      BY <2>2, <3>1
    <3>3. a[j + 1] = process[a[j]].parent /\ a[j + 1] # x
      BY <1>3, <2>4, <3>1, <3>2
    <3> QED BY <1>2, <2>4, <3>3
  <2>5. \A j \in 0..(i - 1) : Ancestors(process')[j] = a[j]
    BY <1>1, <2>3, <2>4, AncestorsAgree
  <2>6. a[i - 1] \in Pid /\ process[a[i - 1]].parent = x
    <3>1. a[i] \in Pid
      BY <2>3
    <3> QED BY <1>1, <2>3, <3>1, BelowIsProcess
  <2>7. Ancestors(process')[i] = ReaperPid
    <3>1. i - 1 \in 0..(i - 1)
      BY <2>3
    <3>2. Ancestors(process')[i - 1] = a[i - 1] /\ a[i - 1] # Top
      BY <2>5, <2>6, <3>1, PidAssumption
    <3>3. Ancestors(process')[i] = process'[a[i - 1]].parent
      BY <2>3, <3>2, AncestorsEquation
    <3> QED BY <1>2, <2>6, <3>3
  <2>8. process'[x].state # "up"
    BY DEF Exit, TypeOK, Process
  <2>9. CutAt(process, process', i)
    BY <1>2, <2>3, <2>5, <2>7, <2>8 DEF CutAt
  <2> QED BY <2>3, <2>9
<1> QED BY <1>4, <1>5

\* What a step of the processes leaves alone while walks go on.
Moves ==
    /\ TypeOK /\ WorldOK /\ process' \in [Pid -> Process] /\ WorldOK'
    /\ \A p \in Pid : /\ process'[p].start = process[p].start
                      /\ process'[p].parent = process[p].parent \/ process'[p].parent = ReaperPid
                      /\ Program[process[p].prog] \notin Shells => process'[p].prog = process[p].prog
                      /\ process'[p].state = "up" => process[p].state = "up"
    /\ SameChain(process, process') \/ \E i \in 1..MaxDepth : CutAt(process, process', i)
    /\ upgraded' = upgraded

\* What Observe says of w.
Observed(w) == /\ seen'[w] = seen[w] \cup {LeadsTo(process')}
               /\ kin'[w] = kin[w] \cup Kin(process')

LEMMA MovesExits ==
    ASSUME Moves, NEW w \in Walk, InWalk(w), RecordOK(w), Still(w), Observed(w), Undisturbed(w)'
    PROVE  Undisturbed(w) /\ SameChain(process, process')
<1>1. ASSUME NEW g \in kin[w] PROVE ~HasExited(g)
  <2>1. g.pid \in Pid /\ g \in kin'[w]
    BY DEF Moves, TypeOK, Found, Observed
  <2>2. ~(HasExited(g)')
    BY <2>1 DEF Undisturbed
  <2> QED BY <2>1, <2>2 DEF Moves, HasExited, Up
<1>2. ASSUME NEW i \in 1..MaxDepth, CutAt(process, process', i) PROVE FALSE
  <2> DEFINE p == Ancestors(process)[i]
  <2>1. p \in Pid /\ process'[p].state # "up"
    BY <1>2 DEF CutAt
  <2>2. PICK g \in kin[w] : g.pid = p
    BY <2>1, AncestorsKnown DEF RecordOK, Known
  <2>3. process'[g.pid].state # "up"
    BY <2>1, <2>2
  <2>4. HasExited(g)'
    BY <2>3 DEF HasExited, Up
  <2> QED BY <2>4 DEF Observed, Undisturbed
<1> QED BY <1>1, <1>2 DEF Moves, Undisturbed

LEMMA MovesRecord ==
    ASSUME Moves, NEW w \in Walk, InWalk(w), RecordOK(w), Still(w), Observed(w)
    PROVE  RecordOK(w)' /\ InWalk(w)'
<1>1. ASSUME NEW g \in kin'[w] PROVE g.start <= process'[g.pid].start
  <2>1. CASE g \in kin[w]
    <3>1. g.pid \in Pid
      BY <2>1 DEF Moves, TypeOK, Found
    <3> QED BY <2>1, <3>1 DEF Moves, RecordOK
  <2>2. CASE g \in Kin(process')
    <3>1. PICK k \in 1..MaxDepth : g = Who(process', Ancestors(process')[k])
                                   /\ Ancestors(process')[k] # Top
      BY <2>2 DEF Kin
    <3>2. Ancestors(process')[k] \in Pid
      BY <3>1, AncestorsType, BoundAssumption DEF Moves
    <3>3. g.start = process'[g.pid].start /\ g.start \in Nat
      BY <3>1, <3>2, BoundAssumption DEF Who, Moves, Process
    <3> QED BY <3>3
  <2> QED BY <2>1, <2>2 DEF Observed
<1>2. InWalk(w)'
  BY DEF Still, InWalk
<1>3. Kin(process') \subseteq kin'[w] /\ LeadsTo(process') \in seen'[w]
  BY DEF Observed
<1> QED BY <1>1, <1>2, <1>3 DEF RecordOK, Still

LEMMA MovesClimb ==
    ASSUME Moves, NEW w \in Walk, InWalk(w), RecordOK(w), ClimbOK(w), Still(w), Observed(w)
    PROVE  ClimbOK(w)'
<1> DEFINE known == Known(process', kin'[w], ReaperPid)
<1>1. /\ Kin(process') \subseteq kin'[w] /\ kin[w] \subseteq kin'[w]
      /\ pid'[w] = pid[w] /\ pid[w] \in Pid /\ depth'[w] = depth[w] /\ depth[w] \in 0..MaxDepth
      /\ process \in [Pid -> Process] /\ process' \in [Pid -> Process]
  BY DEF Observed, Still, Moves, TypeOK
<1>2. Known(process, kin[w], ReaperPid) => known
  BY <1>1, PidAssumption DEF Known, Moves
<1>3. (\E i \in 1..MaxDepth : CutAt(process, process', i)) => known
  <2> SUFFICES ASSUME NEW i \in 1..MaxDepth, CutAt(process, process', i) PROVE known
    OBVIOUS
  <2>1. Ancestors(process')[i] = ReaperPid
    BY DEF CutAt
  <2> QED BY <1>1, <2>1, AncestorsKnown, PidAssumption
<1>4. known \/ pid'[w] = Ancestors(process')[depth'[w]]
  <2>1. SameChain(process, process') /\ OnChain(w) => pid'[w] = Ancestors(process')[depth'[w]]
    BY <1>1 DEF SameChain, OnChain
  <2> QED BY <1>2, <1>3, <2>1 DEF Moves, ClimbOK
<1>5. \E level \in [0..MaxDepth -> SUBSET Pid] : Levels(process', kin'[w], pid'[w], depth'[w], level)
  <2>1. CASE known
    <3>1. PICK level \in [0..MaxDepth -> SUBSET Pid] :
             Levels(process, kin[w], pid[w], depth[w], level)
      BY DEF ClimbOK
    <3>2. \A q \in Pid : /\ process'[q].start = process[q].start
                         /\ process'[q].parent = process[q].parent \/ process'[q].parent = ReaperPid
      BY DEF Moves
    <3>3. process'[ReaperPid].parent = Top
      BY DEF Moves, WorldOK
    <3> HIDE DEF known
    <3>4. \E higher \in [0..MaxDepth -> SUBSET Pid] :
             Levels(process', kin'[w], pid[w], depth[w], higher)
      BY <1>1, <2>1, <3>1, <3>2, <3>3, ReaperLevels DEF known
    <3> QED BY <1>1, <3>4
  <2>2. CASE pid'[w] = Ancestors(process')[depth'[w]]
    BY <1>1, <2>2, ChainLevels
  <2> QED BY <1>4, <2>1, <2>2
<1> QED BY <1>4, <1>5 DEF ClimbOK, OnChain

LEMMA MovesRead ==
    ASSUME Moves, NEW w \in Walk, InWalk(w), RecordOK(w), ReadOK(w), Still(w), Observed(w)
    PROVE  ReadOK(w)'
<1>1. Undisturbed(w)' => Undisturbed(w) /\ SameChain(process, process')
  BY MovesExits
<1>2. Undisturbed(w)' => OnChain(w)'
  <2>1. depth[w] \in 0..MaxDepth
    BY DEF Moves, TypeOK
  <2> QED BY <1>1, <2>1 DEF ReadOK, OnChain, SameChain, Still
<1>3. kin[w] \subseteq kin'[w] /\ upgraded' = upgraded
  BY DEF Observed, Moves
<1> QED BY <1>1, <1>2, <1>3 DEF ReadOK, Still

LEMMA MovesAhead ==
    ASSUME Moves, NEW w \in Walk, InWalk(w), RecordOK(w), AheadOK(w), Still(w), Observed(w)
    PROVE  AheadOK(w)'
<1> SUFFICES ASSUME Undisturbed(w)', None \notin seen'[w]
             PROVE  \E s \in seen'[w] : s.pid \in Pid /\ \E k \in 1..MaxDepth : Ahead(w, s, k)'
  BY DEF AheadOK
<1>1. Undisturbed(w) /\ SameChain(process, process')
  BY MovesExits
<1>2. seen[w] \subseteq seen'[w]
  BY DEF Observed
<1>3. PICK s \in seen[w], k \in 1..MaxDepth : s.pid \in Pid /\ Ahead(w, s, k)
  BY <1>1, <1>2 DEF AheadOK
<1>4. Ancestors(process')[k] = Ancestors(process)[k]
  BY <1>1, BoundAssumption DEF SameChain
<1>5. process'[s.pid].prog = process[s.pid].prog
  BY <1>3 DEF Ahead, Moves
<1>6. Ahead(w, s, k)'
  BY <1>3, <1>4, <1>5 DEF Ahead, Still
<1> QED BY <1>2, <1>3, <1>6

\* If the caller's ancestry leads to f before and after, and f is not the reaper
\* an exit leads to, nothing at or below f has changed its place.
LEMMA MovesLeadsTo ==
    ASSUME Moves, NEW d \in 0..MaxDepth, NEW f, f = LeadsTo(process), f = LeadsTo(process'),
           SameChain(process, process') \/ f = None \/ f.pid # ReaperPid,
           \A k \in 1..MaxDepth : IsFirst(process, k) => d <= k
    PROVE  /\ Ancestors(process')[d] = Ancestors(process)[d]
           /\ \A k \in 1..MaxDepth : IsFirst(process', k) =>
                 \E j \in 1..MaxDepth : IsFirst(process, j) /\ j <= k
<1> DEFINE a == Ancestors(process)
           b == Ancestors(process')
<1>1. process \in [Pid -> Process] /\ process' \in [Pid -> Process]
  BY DEF Moves, TypeOK
<1>2. ASSUME NEW k \in 1..MaxDepth, IsFirst(process', k)
      PROVE  \E j \in 1..MaxDepth : IsFirst(process, j) /\ a[j] = b[k]
  <2>1. f = Who(process', b[k]) /\ f # None
    BY <1>1, <1>2, LeadsToFirst
  <2>2. PICK j \in 1..MaxDepth : IsFirst(process, j)
    BY <1>1, <2>1, LeadsToNone
  <2>3. f = Who(process, a[j])
    BY <1>1, <2>2, LeadsToFirst
  <2>4. f.pid = b[k] /\ f.pid = a[j]
    BY <2>1, <2>3 DEF Who
  <2> QED BY <2>2, <2>4
<1>3. CASE SameChain(process, process')
  <2>1. b[d] = a[d]
    BY <1>3 DEF SameChain
  <2>2. ASSUME NEW k \in 1..MaxDepth, IsFirst(process', k)
        PROVE  \E j \in 1..MaxDepth : IsFirst(process, j) /\ j <= k
    <3>1. PICK j \in 1..MaxDepth : IsFirst(process, j) /\ a[j] = b[k]
      BY <1>2, <2>2
    <3>2. a[k] = b[k]
      BY <1>3, BoundAssumption DEF SameChain
    <3>3. ~Skipped(process, a[k]) /\ a[k] \in Pid
      BY <3>1, <3>2 DEF IsFirst
    <3>4. k \notin 1..(j - 1)
      BY <3>1, <3>3 DEF IsFirst
    <3>5. j <= k
      BY <3>4, BoundAssumption
    <3> QED BY <3>1, <3>5
  <2> QED BY <2>1, <2>2
<1>4. ASSUME NEW i \in 1..MaxDepth, CutAt(process, process', i), f = None \/ f.pid # ReaperPid
      PROVE  /\ b[d] = a[d]
             /\ \A k \in 1..MaxDepth : IsFirst(process', k) =>
                   \E j \in 1..MaxDepth : IsFirst(process, j) /\ j <= k
  <2>1. /\ \A j \in 0..(i - 1) : b[j] = a[j]
        /\ \A p \in Pid : Skipped(process', p) <=> Skipped(process, p)
        /\ b[i] = ReaperPid
    BY <1>4 DEF CutAt, Skipped
  <2>2. ~Skipped(process', ReaperPid)
    BY ProgramAssumption DEF Skipped, Shells, Moves, WorldOK
  <2>3. ~\A j \in 1..(i - 1) : a[j] \in Pid => Skipped(process, a[j])
    <3> SUFFICES ASSUME \A j \in 1..(i - 1) : a[j] \in Pid => Skipped(process, a[j]) PROVE FALSE
      OBVIOUS
    <3>1. \A j \in 1..(i - 1) : b[j] = a[j]
      BY <2>1, BoundAssumption
    <3>2. \A j \in 1..(i - 1) : b[j] \in Pid => Skipped(process', b[j])
      BY <2>1, <3>1
    <3>3. IsFirst(process', i)
      BY <2>1, <2>2, <3>2, PidAssumption DEF IsFirst
    <3>4. f = Who(process', ReaperPid) /\ f # None
      BY <1>1, <2>1, <3>3, LeadsToFirst
    <3>5. f.pid = ReaperPid
      BY <3>4 DEF Who
    <3> QED BY <1>4, <3>4, <3>5
  <2>4. PICK j \in 1..MaxDepth : IsFirst(process, j) /\ j < i
    <3>1. PICK j \in 1..(i - 1) : a[j] \in Pid /\ ~Skipped(process, a[j])
      BY <2>3
    <3>2. j \in 1..MaxDepth /\ j < i
      BY <3>1, BoundAssumption
    <3>3. PICK k \in 1..MaxDepth : IsFirst(process, k)
      BY <1>1, <3>1, <3>2, LeadsToNone
    <3>4. j \notin 1..(k - 1)
      BY <3>1, <3>3 DEF IsFirst
    <3>5. k < i
      BY <3>2, <3>4, BoundAssumption
    <3> QED BY <3>3, <3>5
  <2>5. IsFirst(process', j)
    <3>1. \A k \in 1..(j - 1) : b[k] = a[k]
      BY <2>1, <2>4, BoundAssumption
    <3>2. b[j] = a[j]
      BY <2>1, <2>4, BoundAssumption
    <3>3. a[j] \in Pid /\ ~Skipped(process, a[j])
          /\ \A k \in 1..(j - 1) : a[k] \in Pid => Skipped(process, a[k])
      BY <2>4 DEF IsFirst
    <3> HIDE DEF a, b
    <3>4. b[j] \in Pid /\ ~Skipped(process', b[j])
          /\ \A k \in 1..(j - 1) : b[k] \in Pid => Skipped(process', b[k])
      BY <2>1, <3>1, <3>2, <3>3
    <3> QED BY <3>4 DEF IsFirst, b
  <2>6. b[d] = a[d]
    <3>1. d <= j
      BY <2>4
    <3> QED BY <2>1, <2>4, <3>1, BoundAssumption
  <2>7. \A k \in 1..MaxDepth : IsFirst(process', k) => k = j
    BY <2>5, FirstIsOne
  <2> QED BY <2>4, <2>6, <2>7, BoundAssumption
<1> QED BY <1>3, <1>4 DEF Moves

LEMMA MovesSteady ==
    ASSUME Moves, NEW w \in Walk, InWalk(w), RecordOK(w), SteadyOK(w), Still(w), Observed(w)
    PROVE  SteadyOK(w)'
<1> SUFFICES ASSUME NEW f \in seen'[w], Steady(w, f)'
             PROVE  /\ OnChain(w)'
                    /\ \A k \in 1..MaxDepth : IsFirst(process', k) =>
                          depth[w] <= k /\ (pc[w] = "parent" => depth[w] < k)
                    /\ pc[w] \in {"classify", "start"} =>
                          \/ AtShell(w)
                          \/ /\ f # None /\ pid[w] = f.pid /\ exe[w].prog = f.prog
                             /\ f.start = process'[f.pid].start
  BY DEF SteadyOK, AtShell, Still
<1>1. seen'[w] = {f} /\ LeadsTo(process') = f /\ LeadsTo(process) = f /\ f \in seen[w] /\ seen[w] = {f}
  BY DEF Steady, Observed, RecordOK
<1>2. Undisturbed(w)' => Undisturbed(w) /\ SameChain(process, process')
  BY MovesExits
<1>3. SameChain(process, process') \/ f = None \/ f.pid # ReaperPid
  BY <1>2 DEF Steady
<1>4. Steady(w, f)
  BY <1>1, <1>2 DEF Steady
<1>5. /\ OnChain(w)
      /\ \A k \in 1..MaxDepth : IsFirst(process, k) =>
            depth[w] <= k /\ (pc[w] = "parent" => depth[w] < k)
      /\ pc[w] \in {"classify", "start"} =>
            \/ AtShell(w)
            \/ /\ f # None /\ pid[w] = f.pid /\ exe[w].prog = f.prog
             /\ f.start = process[f.pid].start
  BY <1>1, <1>4 DEF SteadyOK
<1>6. depth[w] \in 0..MaxDepth /\ pid[w] \in Pid
  BY DEF Moves, TypeOK
<1>7. /\ Ancestors(process')[depth[w]] = Ancestors(process)[depth[w]]
      /\ \A k \in 1..MaxDepth : IsFirst(process', k) =>
            \E j \in 1..MaxDepth : IsFirst(process, j) /\ j <= k
  BY <1>1, <1>3, <1>5, <1>6, MovesLeadsTo
<1>8. OnChain(w)'
  BY <1>5, <1>7 DEF OnChain, Still
<1>9. ASSUME NEW k \in 1..MaxDepth, IsFirst(process', k)
      PROVE  depth[w] <= k /\ (pc[w] = "parent" => depth[w] < k)
  <2>1. PICK j \in 1..MaxDepth : IsFirst(process, j) /\ j <= k
    BY <1>7, <1>9
  <2>2. depth[w] <= j /\ (pc[w] = "parent" => depth[w] < j)
    BY <1>5, <2>1
  <2> QED BY <1>6, <2>1, <2>2, BoundAssumption
<1>10. pid[w] = f.pid => process'[f.pid].start = process[f.pid].start
  BY <1>6 DEF Moves
<1> QED BY <1>5, <1>8, <1>9, <1>10

LEMMA MovesWalk ==
    ASSUME Moves, NEW w \in Walk, InWalk(w), WalkOK(w), Still(w), Observed(w)
    PROVE  WalkOK(w)'
BY MovesRecord, MovesClimb, MovesRead, MovesSteady, MovesAhead DEF WalkOK

\* A walk that has not begun or is over.
LEMMA IdleWalk ==
    ASSUME TypeOK, WorldOK, [Next]_vars, NEW w \in Walk, ~InWalk(w), WalkOK(w), Still(w),
           kin'[w] = kin[w]
    PROVE  WalkOK(w)'
<1>1. ~(InWalk(w)')
  BY DEF Still, InWalk
<1>2. \A g \in kin'[w] : g.start <= process'[g.pid].start
  BY ExitsLast DEF WalkOK, RecordOK, TypeOK
<1>3. RecordOK(w)'
  BY <1>1, <1>2 DEF WalkOK, RecordOK, Still
<1> QED BY <1>1, <1>3 DEF WalkOK, ClimbOK, ReadOK, SteadyOK, AheadOK

\* A result that is there stays true.
LEMMA StillResolved ==
    ASSUME TypeOK, WorldOK, [Next]_vars, NEW w \in Walk, WalkOK(w), ResolvedOK(w),
           result'[w] = result[w],
           result[w] # None => seen'[w] = seen[w] /\ kin'[w] = kin[w]
    PROVE  ResolvedOK(w)'
<1> SUFFICES ASSUME result[w] # None PROVE ResolvedOK(w)'
  BY DEF ResolvedOK
<1>1. \A g \in kin[w] : HasExited(g) => HasExited(g)'
  BY ExitsLast DEF WalkOK, RecordOK, TypeOK
<1>2. upgraded \subseteq upgraded'
  BY DEF Next, Machine, Exit, Reap, Fork, Exec, Upgrade, Resolve, callerPID, parentOf, exeOf,
         classify, StartTime, Goto, worldVars, vars
<1>3. UpgradedMiseShell(result[w]) => UpgradedMiseShell(result[w])'
  BY <1>2 DEF UpgradedMiseShell
<1> QED BY <1>1, <1>3 DEF ResolvedOK

-----------------------------------------------------------------------------
(* The machine's steps                                                       *)

LEMMA MachineStep ==
    ASSUME ~MayReuse, IInv, Machine
    PROVE  \A w \in Walk : WalkOK(w)' /\ ResolvedOK(w)'
<1> SUFFICES ASSUME NEW w \in Walk PROVE WalkOK(w)' /\ ResolvedOK(w)'
  OBVIOUS
<1> USE DEF IInv
<1>1. [Next]_vars
  BY DEF Next
<1>2. /\ Still(w) /\ result' = result
      /\ ~InWalk(w) => seen'[w] = seen[w] /\ kin'[w] = kin[w]
  BY DEF Machine, Exit, Reap, Fork, Exec, Upgrade, walkVars, Observe, Still, TypeOK
<1>3. result[w] # None => ~InWalk(w)
  BY DEF WalkOK, RecordOK, InWalk
<1>4. ResolvedOK(w)'
  BY <1>1, <1>2, <1>3, StillResolved
<1>5. ASSUME ~InWalk(w) PROVE WalkOK(w)'
  <2>1. kin'[w] = kin[w]
    BY <1>2, <1>5
  <2> QED BY <1>1, <1>2, <1>5, <2>1, IdleWalk
<1>6. ASSUME InWalk(w), NEW x \in Pid, Exit(x) PROVE WalkOK(w)'
  <2>1. Moves
    <3>1. \A p \in Pid : process'[p].state = "up" => process[p].state = "up"
      BY <1>6 DEF Exit, TypeOK, Process
    <3> QED BY <1>6, <3>1, ExitProcesses, ExitCuts DEF Moves, Exit
  <2>2. Observed(w)
    BY <1>6 DEF Exit, Observe, Observed
  <2> QED BY <1>2, <1>6, <2>1, <2>2, MovesWalk
<1>7. ASSUME InWalk(w), NEW x \in Pid, Reap(x) PROVE WalkOK(w)'
  <2>1. SameChain(process, process')
    BY <1>7, ReapProcesses, ParentsSame DEF TypeOK
  <2>2. Moves
    <3>1. \A p \in Pid : process'[p].state = "up" => process[p].state = "up"
      BY <1>7 DEF Reap, TypeOK, Process
    <3> QED BY <1>7, <2>1, <3>1, ReapProcesses DEF Moves, Reap
  <2>3. /\ \A p \in Pid : Who(process', p) = Who(process, p) /\ (Skipped(process', p) <=> Skipped(process, p))
        /\ \A k \in 0..MaxDepth : Ancestors(process')[k] = Ancestors(process)[k]
        /\ \A k \in 1..MaxDepth : Ancestors(process)[k] \in Pid \cup {Top}
    BY <1>7, <2>1, ReapProcesses, AncestorsType, BoundAssumption DEF SameChain, Who, Skipped, TypeOK
  <2>4. Kin(process') \subseteq Kin(process)
    BY <2>3, BoundAssumption DEF Kin
  <2>5. LeadsTo(process') = LeadsTo(process)
    <3>1. \A k \in 1..MaxDepth : IsFirst(process, k) => IsFirst(process', k)
      <4> SUFFICES ASSUME NEW k \in 1..MaxDepth, IsFirst(process, k) PROVE IsFirst(process', k)
        OBVIOUS
      <4>1. k \in 0..MaxDepth /\ \A j \in 1..(k - 1) : j \in 0..MaxDepth
        BY BoundAssumption
      <4> QED BY <2>3, <4>1 DEF IsFirst
    <3>2. CASE \E k \in 1..MaxDepth : IsFirst(process, k)
      <4>1. PICK k \in 1..MaxDepth : IsFirst(process, k)
        BY <3>2
      <4>2. LeadsTo(process) = Who(process, Ancestors(process)[k])
        BY <4>1, LeadsToFirst DEF TypeOK
      <4>3. LeadsTo(process') = Who(process', Ancestors(process')[k])
        BY <1>7, <3>1, <4>1, ReapProcesses, LeadsToFirst
      <4>4. Ancestors(process')[k] = Ancestors(process)[k] /\ Ancestors(process)[k] \in Pid
        BY <2>3, <4>1, BoundAssumption DEF IsFirst
      <4> QED BY <2>3, <4>2, <4>3, <4>4
    <3>3. CASE \A k \in 1..MaxDepth : ~IsFirst(process, k)
      <4>1. \A k \in 1..MaxDepth : Ancestors(process)[k] \in Pid => Skipped(process, Ancestors(process)[k])
        BY <3>3, LeadsToNone DEF TypeOK
      <4>2. ASSUME NEW k \in 1..MaxDepth PROVE ~IsFirst(process', k)
        <5>1. k \in 0..MaxDepth
          BY BoundAssumption
        <5> QED BY <2>3, <4>1, <5>1 DEF IsFirst
      <4> QED BY <1>7, <3>3, <4>2, ReapProcesses, LeadsToNone DEF TypeOK
    <3> QED BY <3>2, <3>3
  <2>6. Observed(w)
    <3>1. Kin(process) \subseteq kin[w] /\ LeadsTo(process) \in seen[w]
      BY <1>7 DEF WalkOK, RecordOK
    <3>2. seen' = seen /\ kin' = kin
      BY <1>7 DEF Reap
    <3> QED BY <2>4, <2>5, <3>1, <3>2 DEF Observed
  <2> QED BY <1>2, <1>7, <2>2, <2>6, MovesWalk
<1>8. ASSUME NEW x \in Pid, NEW g \in Prog, InWalk(w), Exec(x, g) PROVE WalkOK(w)'
  <2>1. SameChain(process, process')
    BY <1>8, ExecProcesses, ParentsSame DEF TypeOK
  <2>2. Moves
    <3>1. \A p \in Pid : process'[p].state = "up" => process[p].state = "up"
      BY <1>8 DEF Exec, TypeOK, Process
    <3> QED BY <1>8, <2>1, <3>1, ExecProcesses DEF Moves, Exec
  <2>3. Observed(w)
    BY <1>8 DEF Exec, Observe, Observed
  <2> QED BY <1>2, <1>8, <2>2, <2>3, MovesWalk
<1>9. ASSUME NEW g \in Prog, InWalk(w), Upgrade(g) PROVE WalkOK(w)'
  BY <1>2, <1>9, StillWalk DEF Upgrade
<1> QED BY <1>4, <1>5, <1>6, <1>7, <1>8, <1>9 DEF Machine, Fork

-----------------------------------------------------------------------------
(* The walk's steps                                                          *)

LEMMA callerPIDStep ==
    ASSUME IInv, NEW w \in Walk, callerPID(w)
    PROVE  WalkOK(w)'
<1> USE DEF IInv
<1>1. /\ pc'[w] = "parent" /\ pid'[w] = CallerPid /\ depth'[w] = 0 /\ result'[w] = None
      /\ exe' = exe /\ process' = process /\ upgraded' = upgraded
      /\ seen'[w] = {LeadsTo(process)} /\ kin'[w] = Kin(process)
      /\ process \in [Pid -> Process] /\ InWalk(w)'
  BY DEF callerPID, Goto, worldVars, TypeOK, WalkOK, RecordOK, InWalk
<1>2. ASSUME NEW g \in kin'[w] PROVE g.start <= process'[g.pid].start
  <2>1. PICK k \in 1..MaxDepth : g = Who(process, Ancestors(process)[k]) /\ Ancestors(process)[k] # Top
    BY <1>1, <1>2 DEF Kin
  <2>2. Ancestors(process)[k] \in Pid
    BY <1>1, <2>1, AncestorsType, BoundAssumption
  <2>3. g.start = process[g.pid].start /\ g.start \in Nat
    BY <1>1, <2>1, <2>2, BoundAssumption DEF Who, Process
  <2> QED BY <1>1, <2>3
<1>3. RecordOK(w)'
  BY <1>1, <1>2 DEF RecordOK
<1>4. OnChain(w)'
  BY <1>1, AncestorsEquation DEF OnChain
<1>5. ClimbOK(w)'
  <2>1. \E level \in [0..MaxDepth -> SUBSET Pid] : Levels(process, Kin(process), CallerPid, 0, level)
    <3>1. 0 \in 0..MaxDepth /\ CallerPid \in Pid /\ CallerPid = Ancestors(process)[0]
      BY BoundAssumption, PidAssumption, AncestorsEquation
    <3> QED BY <1>1, <3>1, ChainLevels
  <2> QED BY <1>1, <1>4, <2>1 DEF ClimbOK
<1>6. ReadOK(w)'
  BY <1>1, <1>4 DEF ReadOK
<1>7. SteadyOK(w)'
  BY <1>1, <1>4, BoundAssumption DEF SteadyOK
<1>8. AheadOK(w)'
  <2> SUFFICES ASSUME LeadsTo(process) # None
               PROVE  \E s \in seen'[w] : s.pid \in Pid /\ \E k \in 1..MaxDepth : Ahead(w, s, k)'
    BY <1>1 DEF AheadOK
  <2>1. PICK k \in 1..MaxDepth : IsFirst(process, k)
    BY <1>1, LeadsToNone
  <2> DEFINE p == Ancestors(process)[k]
  <2>2. PICK s \in seen'[w] : s = Who(process, p)
    BY <1>1, <2>1, LeadsToFirst
  <2>3. s.pid = p /\ s.prog = process[p].prog /\ p \in Pid /\ ~Skipped(process, p)
    BY <2>1, <2>2 DEF Who, IsFirst
  <2>4. Ahead(w, s, k)'
    BY <1>1, <2>3, BoundAssumption DEF Ahead, Skipped
  <2> QED BY <2>3, <2>4
<1> QED BY <1>3, <1>5, <1>6, <1>7, <1>8 DEF WalkOK

\* A walk that has failed or is done is bound to nothing but its record.
LEMMA EndStep ==
    ASSUME IInv, NEW w \in Walk, pc'[w] \in {"failed", "done"}, process' = process,
           kin' = kin, pc'[w] = "failed" => result'[w] = None
    PROVE  WalkOK(w)'
<1>1. ~(InWalk(w)')
  BY DEF InWalk
<1>2. RecordOK(w)'
  BY <1>1 DEF IInv, WalkOK, RecordOK
<1> QED BY <1>1, <1>2 DEF WalkOK, ClimbOK, ReadOK, SteadyOK, AheadOK

LEMMA parentOfStep ==
    ASSUME IInv, NEW w \in Walk, parentOf(w)
    PROVE  WalkOK(w)'
<1> USE DEF IInv
<1>1. CASE ~MayHop(w)
  <2>1. pc'[w] = "failed" /\ process' = process /\ kin' = kin /\ result'[w] = None
    BY <1>1 DEF parentOf, Goto, worldVars, TypeOK, WalkOK, RecordOK
  <2> QED BY <2>1, EndStep
<1>2. CASE MayHop(w)
  <2> DEFINE d == depth[w]
             p == process[pid[w]].parent
  <2>1. /\ pc[w] = "parent" /\ pc'[w] = "exe" /\ pid'[w] = p /\ depth'[w] = d + 1
        /\ p # Top /\ d \in 0..(MaxDepth - 1) /\ pid[w] \in Pid
        /\ result' = result /\ exe' = exe /\ process' = process /\ upgraded' = upgraded
        /\ seen' = seen /\ kin' = kin /\ InWalk(w) /\ InWalk(w)'
        /\ process \in [Pid -> Process] /\ p \in Pid
    BY <1>2, BoundAssumption DEF parentOf, Goto, worldVars, TypeOK, InWalk, MayHop, Process
  <2>2. RecordOK(w)'
    BY <2>1 DEF WalkOK, RecordOK
  <2>3. OnChain(w) => OnChain(w)'
    <3>1. d + 1 \in 1..MaxDepth /\ (d + 1) - 1 = d
      BY <2>1, BoundAssumption
    <3>2. OnChain(w) => Ancestors(process)[d + 1] = p
      BY <2>1, <3>1, AncestorsEquation, PidAssumption DEF OnChain
    <3> QED BY <2>1, <3>2 DEF OnChain
  <2>4. ClimbOK(w)'
    <3>1. PICK level \in [0..MaxDepth -> SUBSET Pid] : Levels(process, kin[w], pid[w], d, level)
      BY <2>1 DEF WalkOK, ClimbOK
    <3>2. Levels(process, kin[w], p, d + 1, level)
      BY <2>1, <3>1 DEF Levels
    <3> QED BY <2>1, <2>3, <3>2 DEF WalkOK, ClimbOK
  <2>5. Undisturbed(w)' <=> Undisturbed(w)
    BY <2>1 DEF Undisturbed, HasExited, Up
  <2>6. ReadOK(w)'
    BY <2>1, <2>3, <2>5 DEF WalkOK, ReadOK
  <2>7. SteadyOK(w)'
    <3> SUFFICES ASSUME NEW f \in seen[w], Steady(w, f)
                 PROVE  OnChain(w)' /\ \A k \in 1..MaxDepth : IsFirst(process, k) => d + 1 <= k
      BY <2>1, <2>5 DEF SteadyOK, Steady
    <3>1. OnChain(w) /\ \A k \in 1..MaxDepth : IsFirst(process, k) => d < k
      BY <2>1 DEF WalkOK, SteadyOK
    <3> QED BY <2>1, <2>3, <3>1, BoundAssumption
  <2>8. AheadOK(w)'
    <3> SUFFICES ASSUME Undisturbed(w), None \notin seen[w]
                 PROVE  \E s \in seen[w] : s.pid \in Pid /\ \E k \in 1..MaxDepth : Ahead(w, s, k)'
      BY <2>1, <2>5 DEF AheadOK
    <3>1. PICK s \in seen[w], k \in 1..MaxDepth : s.pid \in Pid /\ Ahead(w, s, k)
      BY <2>1 DEF WalkOK, AheadOK
    <3>2. d + 1 <= k
      BY <2>1, <3>1, BoundAssumption DEF Ahead
    <3>3. Ahead(w, s, k)'
      BY <2>1, <3>1, <3>2 DEF Ahead
    <3> QED BY <3>1, <3>3
  <2> QED BY <2>2, <2>4, <2>6, <2>7, <2>8 DEF WalkOK
<1> QED BY <1>1, <1>2

\* The process the walk looks at, while it is on the caller's chain, runs and is
\* on record.
LEMMA LooksAt ==
    ASSUME IInv, NEW w \in Walk, pc[w] = "exe", OnChain(w)
    PROVE  /\ depth[w] \in 1..MaxDepth /\ Ancestors(process)[depth[w]] = pid[w]
           /\ Up(pid[w]) /\ Who(process, pid[w]) \in kin[w]
<1>1. InWalk(w) /\ depth[w] \in 1..MaxDepth /\ pid[w] \in Pid
  BY BoundAssumption DEF IInv, TypeOK, WalkOK, RecordOK, InWalk
<1>2. Ancestors(process)[depth[w]] = pid[w]
  BY DEF OnChain
<1>3. Kin(process) \subseteq kin[w]
  BY <1>1 DEF IInv, WalkOK, RecordOK
<1> QED BY <1>1, <1>2, <1>3, AncestorsUp, AncestorsKnown DEF IInv

LEMMA exeOfStep ==
    ASSUME IInv, NEW w \in Walk, exeOf(w)
    PROVE  WalkOK(w)'
<1> USE DEF IInv
<1> DEFINE d == depth[w]
           p == pid[w]
           a == Ancestors(process)
           passes == PassesBy(p)
<1>1. /\ pc[w] = "exe" /\ pid' = pid /\ depth' = depth
      /\ result' = result /\ process' = process /\ upgraded' = upgraded
      /\ seen' = seen /\ kin' = kin /\ InWalk(w) /\ p \in Pid
      /\ process \in [Pid -> Process] /\ d > 0 /\ d \in 1..MaxDepth
  BY BoundAssumption DEF exeOf, Goto, worldVars, TypeOK, InWalk, WalkOK, RecordOK
<1>2. /\ passes => pc'[w] = "parent"
      /\ ~passes => /\ pc'[w] = "classify"
                    /\ exe'[w] = [prog |-> process[p].prog, deleted |-> Stale(p)]
      /\ InWalk(w)'
  BY DEF exeOf, Goto, TypeOK, InWalk
<1>3. /\ Undisturbed(w)' <=> Undisturbed(w)
      /\ OnChain(w)' <=> OnChain(w)
  BY <1>1 DEF Undisturbed, HasExited, Up, OnChain
<1>4. RecordOK(w)'
  BY <1>1, <1>2 DEF WalkOK, RecordOK
<1>5. ClimbOK(w)'
  BY <1>1, <1>3 DEF WalkOK, ClimbOK
<1>6. OnChain(w) => a[d] = p /\ Up(p) /\ Who(process, p) \in kin[w]
  BY <1>1, LooksAt
<1>7. ASSUME ~passes
      PROVE  /\ exe'[w] # None /\ exe'[w].prog = process[p].prog
             /\ exe'[w].deleted => exe'[w].prog \in upgraded
             /\ Program[exe'[w].prog] # "hidden"
             /\ Program[exe'[w].prog] \in Shells => exe'[w].deleted
             /\ Up(p)
  <2>1. PICK b \in BOOLEAN : b = Stale(p)
    BY DEF Stale
  <2>2. exe'[w] = [prog |-> process[p].prog, deleted |-> b]
    BY <1>2, <1>7, <2>1
  <2>3. exe'[w] \in Link /\ exe'[w].prog = process[p].prog /\ exe'[w].deleted = b
    BY <1>1, <2>2 DEF Link, Process
  <2>4. exe'[w] # None
    BY <2>3, NoneAssumption
  <2> QED BY <1>7, <2>1, <2>3, <2>4 DEF PassesBy, Stale
<1>8. ReadOK(w)'
  <2>1. Undisturbed(w) => OnChain(w)
    BY <1>1 DEF WalkOK, ReadOK
  <2>2. ASSUME ~passes, Undisturbed(w) PROVE \E f \in kin[w] : f.prog = exe'[w].prog
    <3>1. Who(process, p) \in kin[w] /\ Who(process, p).prog = process[p].prog
      BY <1>6, <2>1, <2>2 DEF Who
    <3> QED BY <1>7, <2>2, <3>1
  <2> QED BY <1>1, <1>2, <1>3, <1>7, <2>1, <2>2 DEF ReadOK
<1>9. SteadyOK(w)'
  <2> SUFFICES ASSUME NEW f \in seen[w], Steady(w, f)
               PROVE  /\ OnChain(w)
                      /\ \A k \in 1..MaxDepth : IsFirst(process, k) => d <= k /\ (passes => d < k)
                      /\ ~passes =>
                            \/ exe'[w].deleted /\ Program[exe'[w].prog] \in Shells
                            \/ /\ f # None /\ p = f.pid /\ exe'[w].prog = f.prog
                               /\ f.start = process[f.pid].start
    BY <1>1, <1>2, <1>3 DEF SteadyOK, Steady, AtShell
  <2>1. OnChain(w) /\ \A k \in 1..MaxDepth : IsFirst(process, k) => d <= k
    BY <1>1 DEF WalkOK, SteadyOK
  <2>2. LeadsTo(process) = f
    BY <1>1 DEF WalkOK, RecordOK, Steady
  <2>3. ASSUME IsFirst(process, d)
        PROVE  /\ ~passes /\ f # None /\ p = f.pid /\ process[p].prog = f.prog
               /\ f.start = process[f.pid].start
    <3>1. f = Who(process, p) /\ f # None
      BY <1>1, <1>6, <2>1, <2>2, <2>3, LeadsToFirst
    <3>2. ~Skipped(process, p) /\ Up(p)
      BY <1>6, <2>1, <2>3 DEF IsFirst
    <3> QED BY <3>1, <3>2 DEF Who, PassesBy, Skipped
  <2>4. ASSUME ~IsFirst(process, d), ~passes
        PROVE  exe'[w].deleted /\ Program[exe'[w].prog] \in Shells
    <3>1. Skipped(process, p)
      <4>1. CASE \E k \in 1..MaxDepth : IsFirst(process, k)
        <5>1. PICK k \in 1..MaxDepth : IsFirst(process, k)
          BY <4>1
        <5>2. d \in 1..(k - 1)
          BY <1>1, <2>1, <2>4, <5>1, BoundAssumption
        <5> QED BY <1>1, <1>6, <2>1, <5>1, <5>2 DEF IsFirst
      <4>2. CASE \A k \in 1..MaxDepth : ~IsFirst(process, k)
        BY <1>1, <1>6, <2>1, <4>2, LeadsToNone
      <4> QED BY <4>1, <4>2
    <3> QED BY <1>7, <2>4, <3>1 DEF Skipped
  <2>5. ASSUME NEW k \in 1..MaxDepth, IsFirst(process, k) PROVE d <= k /\ (passes => d < k)
    <3>1. d <= k /\ (d = k => ~passes)
      BY <2>1, <2>3, <2>5
    <3> QED BY <1>1, <3>1, BoundAssumption
  <2> QED BY <1>7, <2>1, <2>3, <2>4, <2>5
<1>10. AheadOK(w)'
  <2> SUFFICES ASSUME Undisturbed(w), None \notin seen[w]
               PROVE  \E s \in seen[w] : s.pid \in Pid /\ \E k \in 1..MaxDepth : Ahead(w, s, k)'
    BY <1>1, <1>3 DEF AheadOK
  <2>1. PICK s \in seen[w], k \in 1..MaxDepth : s.pid \in Pid /\ Ahead(w, s, k)
    BY <1>1 DEF WalkOK, AheadOK
  <2>2. OnChain(w)
    BY <1>1 DEF WalkOK, ReadOK
  <2>3. ASSUME d = k PROVE ~passes
    BY <1>6, <2>1, <2>2, <2>3 DEF Ahead, PassesBy
  <2>4. passes => d < k
    BY <1>1, <2>1, <2>3, BoundAssumption DEF Ahead
  <2>5. Ahead(w, s, k)'
    BY <1>1, <1>2, <2>1, <2>4 DEF Ahead
  <2> QED BY <2>1, <2>5
<1> QED BY <1>4, <1>5, <1>8, <1>9, <1>10 DEF WalkOK

LEMMA classifyStep ==
    ASSUME IInv, NEW w \in Walk, classify(w)
    PROVE  WalkOK(w)'
<1> USE DEF IInv
<1> DEFINE hashes == \/ Program[exe[w].prog] \in {"mise", "miseShell"}
                     \/ ~exe[w].deleted /\ Program[exe[w].prog] # "unhashable"
<1>1. /\ pc[w] = "classify" /\ pid' = pid /\ depth' = depth /\ exe' = exe
      /\ result' = result /\ process' = process /\ upgraded' = upgraded
      /\ seen' = seen /\ kin' = kin /\ InWalk(w) /\ result[w] = None
      /\ hashes => pc'[w] = "start"
      /\ ~hashes => pc'[w] = "failed"
  BY DEF classify, Goto, worldVars, TypeOK, InWalk, WalkOK, RecordOK
<1>2. CASE ~hashes
  BY <1>1, <1>2, EndStep
<1>3. CASE hashes
  <2>1. pc'[w] = "start" /\ InWalk(w)'
    BY <1>1, <1>3 DEF InWalk
  <2>2. /\ Undisturbed(w)' <=> Undisturbed(w)
        /\ OnChain(w)' <=> OnChain(w)
    BY <1>1 DEF Undisturbed, HasExited, Up, OnChain
  <2>3. RecordOK(w)' /\ ClimbOK(w)'
    BY <1>1, <2>1, <2>2 DEF WalkOK, RecordOK, ClimbOK
  <2>4. ReadOK(w)'
    BY <1>1, <2>1, <2>2 DEF WalkOK, ReadOK
  <2>5. SteadyOK(w)'
    <3>1. \A f \in seen[w] : Steady(w, f)' <=> Steady(w, f)
      BY <1>1, <2>2 DEF Steady
    <3>2. AtShell(w) => AtShell(w)'
      BY <1>1, <1>3 DEF AtShell, Shells
    <3> QED BY <1>1, <2>1, <2>2, <3>1, <3>2 DEF WalkOK, SteadyOK
  <2>6. AheadOK(w)'
    BY <1>1, <2>1, <2>2 DEF WalkOK, AheadOK, Ahead
  <2> QED BY <2>3, <2>4, <2>5, <2>6 DEF WalkOK
<1> QED BY <1>2, <1>3

\* The result is what the walk stopped at.
LEMMA StartTimeStep ==
    ASSUME IInv, NEW w \in Walk, StartTime(w)
    PROVE  WalkOK(w)' /\ ResolvedOK(w)'
<1> USE DEF IInv
<1> DEFINE p == pid[w]
           there == process[p].state # "gone"
           r == [pid |-> p, start |-> process[p].start, prog |-> exe[w].prog]
<1>1. /\ pc[w] = "start" /\ process' = process /\ seen' = seen /\ kin' = kin
      /\ InWalk(w) /\ result[w] = None /\ p \in Pid
      /\ there => pc'[w] = "done" /\ result'[w] = r
      /\ ~there => pc'[w] = "failed" /\ result'[w] = None
      /\ depth[w] \in 1..MaxDepth /\ depth[w] \in 0..MaxDepth
  BY BoundAssumption DEF StartTime, Goto, worldVars, TypeOK, InWalk, WalkOK, RecordOK
<1>2. WalkOK(w)'
  BY <1>1, EndStep
<1>3. ASSUME there PROVE \E f \in kin[w] : f.pid = r.pid /\ f.start = r.start
  <2>1. PICK level \in [0..MaxDepth -> SUBSET Pid] : Levels(process, kin[w], p, depth[w], level)
    BY <1>1 DEF WalkOK, ClimbOK
  <2>2. Known(process, kin[w], p)
    BY <1>1, <2>1 DEF Levels
  <2> QED BY <2>2 DEF Known
<1>4. ASSUME there, NEW f \in seen[w], seen[w] = {f}
      PROVE  r = f \/ (f # None /\ f.pid = ReaperPid /\ \E g \in kin[w] : HasExited(g))
                   \/ (Program[exe[w].prog] = "miseShell" /\ exe[w].prog \in upgraded')
  <2> SUFFICES ASSUME Steady(w, f), ~AtShell(w) PROVE r = f
    <3>1. upgraded' = upgraded
      BY DEF StartTime, Goto, worldVars
    <3>2. ASSUME AtShell(w)
          PROVE  exe[w].prog \in upgraded' /\ Program[exe[w].prog] = "miseShell"
      <4>1. pc[w] \in {"classify", "start"} /\ ReadOK(w)
        BY <1>1 DEF WalkOK
      <4>2. exe[w].prog \in upgraded
        BY <1>1, <3>2, <4>1 DEF AtShell, ReadOK
      <4> QED BY <1>1, <3>1, <3>2, <4>2 DEF AtShell
    <3> QED BY <1>4, <3>2 DEF Steady, Undisturbed
  <2>1. f # None /\ p = f.pid /\ exe[w].prog = f.prog /\ f.start = process[f.pid].start
    BY <1>1 DEF WalkOK, SteadyOK
  <2>2. f \in Found
    BY <2>1 DEF TypeOK
  <2> QED BY <2>1, <2>2 DEF Found
<1>5. \A g \in kin[w] : HasExited(g)' <=> HasExited(g)
  BY <1>1 DEF HasExited, Up
<1>6. CASE there
  <2>1. \A f \in seen[w] : seen[w] = {f} =>
           r = f \/ (f # None /\ f.pid = ReaperPid /\ \E g \in kin[w] : HasExited(g)')
                 \/ (Program[exe[w].prog] = "miseShell" /\ exe[w].prog \in upgraded')
    BY <1>4, <1>5, <1>6
  <2>2. r.prog = exe[w].prog
    OBVIOUS
  <2> HIDE DEF r
  <2> QED BY <1>1, <1>2, <1>3, <1>6, <2>1, <2>2 DEF ResolvedOK, UpgradedMiseShell
<1>7. CASE ~there
  BY <1>1, <1>2, <1>7 DEF ResolvedOK
<1> QED BY <1>6, <1>7

\* The other walks stand still meanwhile.
LEMMA OtherWalk ==
    ASSUME IInv, NEW v \in Walk, Resolve(v), NEW w \in Walk, w # v
    PROVE  WalkOK(w)' /\ ResolvedOK(w)'
<1>1. /\ Still(w) /\ process' = process /\ upgraded' = upgraded
      /\ seen'[w] = seen[w] /\ kin'[w] = kin[w] /\ result'[w] = result[w]
  BY DEF IInv, TypeOK, Still, Resolve, callerPID, parentOf, exeOf, classify, StartTime, Goto, worldVars
<1>2. [Next]_vars
  BY DEF Next
<1> QED BY <1>1, <1>2, StillWalk, StillResolved DEF IInv

-----------------------------------------------------------------------------
(* The theorems                                                              *)

LEMMA InitInv ==
    ASSUME Init
    PROVE  IInv
<1>1. /\ process \in [Pid -> Process] /\ WorldOK
      /\ \A p \in Pid : process[p].start = 0
  BY InitProcesses
<1>2. 0 \in 0..MaxEvents /\ 0 \in 0..MaxDepth /\ CallerPid \in Pid
  BY BoundAssumption, PidAssumption
<1>3. TypeOK
  BY <1>1, <1>2 DEF Init, TypeOK
<1>4. ASSUME NEW w \in Walk PROVE WalkOK(w) /\ ResolvedOK(w)
  <2>1. /\ pc[w] = "idle" /\ pid[w] = CallerPid /\ depth[w] = 0 /\ result[w] = None
        /\ kin[w] = {} /\ ~InWalk(w)
    BY DEF Init, InWalk
  <2> QED BY <2>1 DEF WalkOK, RecordOK, ClimbOK, ReadOK, SteadyOK, AheadOK, ResolvedOK
<1> QED BY <1>1, <1>3, <1>4 DEF IInv

LEMMA StepInv ==
    ASSUME ~MayReuse, IInv, [Next]_vars
    PROVE  IInv'
<1>1. \A w \in Walk : pc[w] = "start" => exe[w] # None
  BY DEF IInv, WalkOK, ReadOK, InWalk
<1>2. TypeOK'
  BY <1>1, TypeStep DEF IInv
<1>3. WorldOK'
  <2>1. CASE Machine
    <3>1. ASSUME NEW g \in Prog, Upgrade(g) PROVE WorldOK'
      <4>1. process' = process /\ events' \in Nat /\ events <= events'
        BY <3>1, BoundAssumption DEF Upgrade, Event, IInv, TypeOK
      <4>2. \A p \in Pid : Up(p) => Up(p)'
        BY <4>1 DEF Up
      <4> QED BY <4>1, <4>2, CalmProcesses, PidAssumption DEF IInv, TypeOK, WorldOK
    <3> QED BY <2>1, <3>1, ExitProcesses, ReapProcesses, ForkProcesses, ExecProcesses DEF Machine, IInv
  <2>2. CASE UNCHANGED worldVars
    BY <2>2 DEF worldVars, IInv, WorldOK, Up
  <2>3. (\E w \in Walk : Resolve(w)) \/ UNCHANGED vars => UNCHANGED worldVars
    BY DEF Resolve, callerPID, parentOf, exeOf, classify, StartTime, Goto, vars
  <2> QED BY <2>1, <2>2, <2>3 DEF Next
<1>4. ASSUME NEW w \in Walk, NEW v \in Walk, Resolve(v) PROVE WalkOK(w)' /\ ResolvedOK(w)'
  <2>1. CASE w # v
    BY <1>4, <2>1, OtherWalk
  <2>2. CASE StartTime(w)
    BY <2>2, StartTimeStep
  <2>3. ASSUME callerPID(w) \/ parentOf(w) \/ exeOf(w) \/ classify(w)
        PROVE  WalkOK(w)' /\ ResolvedOK(w)'
    <3>1. WalkOK(w)'
      BY <2>3, callerPIDStep, parentOfStep, exeOfStep, classifyStep
    <3>2. result'[w] = result[w] /\ result[w] = None
      BY <2>3 DEF IInv, TypeOK, WalkOK, RecordOK, callerPID, parentOf, exeOf, classify
    <3> QED BY <3>1, <3>2 DEF ResolvedOK
  <2> QED BY <1>4, <2>1, <2>2, <2>3 DEF Resolve
<1>5. ASSUME NEW w \in Walk, UNCHANGED vars PROVE WalkOK(w)' /\ ResolvedOK(w)'
  <2>1. /\ Still(w) /\ process' = process /\ upgraded' = upgraded
        /\ seen'[w] = seen[w] /\ kin'[w] = kin[w] /\ result'[w] = result[w]
    BY <1>5 DEF vars, worldVars, walkVars, Still
  <2> QED BY <2>1, StillWalk, StillResolved DEF IInv
<1>6. \A w \in Walk : WalkOK(w)' /\ ResolvedOK(w)'
  BY <1>4, <1>5, MachineStep DEF Next
<1> QED BY <1>2, <1>3, <1>6 DEF IInv

\* The inductive invariant holds in every state a walk can meet.
THEOREM WalkInvariant ==
    ASSUME ~MayReuse
    PROVE  Spec => []IInv
<1>1. Init => IInv
  BY InitInv
<1>2. IInv /\ [Next]_vars => IInv'
  BY StepInv
<1> QED BY <1>1, <1>2, PTL DEF Spec

\* Resolve returns an ancestor the caller had, under its own start time, and the
\* launcher its ancestry led to all the while, whatever starts, execs, exits, is
\* re-parented, reaped or upgraded between its reads. (identity.go: Resolve)
THEOREM WalkResolvesAnAncestor ==
    ASSUME ~MayReuse
    PROVE  Spec => []ResolvesAnAncestor
<1>1. IInv => ResolvesAnAncestor
  BY DEF IInv, ResolvedOK, ResolvesAnAncestor
<1> QED BY <1>1, WalkInvariant, PTL

\* A walk that ends without a launcher has a cause for it: a caller or an
\* ancestor that exited, an instant without a launcher within maxWalkDepth hops,
\* or a binary that classify cannot hash, upgraded or not to be read.
\* (identity.go: Resolve, classify)
THEOREM WalkFailsForCause ==
    ASSUME ~MayReuse
    PROVE  Spec => FailsForCause
<1> DEFINE Cause(w) == \/ ~Up(CallerPid) \/ None \in seen[w]
                       \/ \E f \in kin[w] : HasExited(f)
                       \/ \E f \in kin[w] : Program[f.prog] = "unhashable" \/ LostItsBinary(f.prog)
           Fails(w) == pc[w] # "failed" /\ pc'[w] = "failed"
<1>1. ASSUME IInv, [Next]_vars, NEW w \in Walk, Fails(w) PROVE Cause(w)
  <2> SUFFICES ASSUME Undisturbed(w), Up(CallerPid), None \notin seen[w]
               PROVE  \E f \in kin[w] : Program[f.prog] = "unhashable" \/ LostItsBinary(f.prog)
    BY DEF Undisturbed
  <2> USE <1>1 DEF IInv
  <2>1. (parentOf(w) /\ ~MayHop(w)) \/ classify(w) \/ StartTime(w)
    <3>1. pc \in [Walk -> {"idle", "parent", "exe", "classify", "start", "done", "failed"}]
      BY DEF TypeOK
    <3>2. pc' # pc
      OBVIOUS
    <3>3. ~Machine /\ ~UNCHANGED vars
      BY <3>2 DEF Machine, Exit, Reap, Fork, Exec, Upgrade, walkVars, vars
    <3>4. PICK v \in Walk : Resolve(v)
      BY <3>3 DEF Next
    <3>5. v = w
      BY <3>1, <3>4 DEF Resolve, callerPID, parentOf, exeOf, classify, StartTime, Goto
    <3> QED BY <3>1, <3>4, <3>5 DEF Resolve, callerPID, parentOf, exeOf, Goto
  <2>2. InWalk(w) /\ OnChain(w) /\ depth[w] \in 0..MaxDepth /\ pid[w] \in Pid
        /\ process \in [Pid -> Process]
    <3>1. InWalk(w)
      BY <2>1 DEF parentOf, classify, StartTime, InWalk
    <3> QED BY <3>1 DEF WalkOK, ReadOK, TypeOK
  <2>3. Up(pid[w])
    <3>1. CASE depth[w] = 0
      BY <2>2, <3>1, AncestorsEquation DEF OnChain
    <3>2. CASE depth[w] # 0
      <4>1. depth[w] \in 1..MaxDepth /\ Ancestors(process)[depth[w]] = pid[w]
        BY <2>2, <3>2, BoundAssumption DEF OnChain
      <4> QED BY <2>2, <4>1, AncestorsUp
    <3> QED BY <3>1, <3>2
  <2>4. CASE parentOf(w) /\ ~MayHop(w)
    <3>1. PICK s \in seen[w], k \in 1..MaxDepth : s.pid \in Pid /\ Ahead(w, s, k)
      BY <2>2 DEF WalkOK, AheadOK
    <3>2. depth[w] < k /\ Ancestors(process)[k] \in Pid
      BY <2>4, <3>1 DEF Ahead, parentOf
    <3>3. process[pid[w]].parent = Top /\ depth[w] + 1 \in 1..MaxDepth /\ (depth[w] + 1) - 1 = depth[w]
      BY <2>2, <2>3, <2>4, <3>2, BoundAssumption DEF MayHop, Up
    <3>4. Ancestors(process)[depth[w] + 1] = Top
      BY <2>2, <3>3, AncestorsEquation DEF OnChain
    <3> DEFINE Tops == {j \in (depth[w] + 1)..MaxDepth : Ancestors(process)[j] # Top}
    <3>5. k \in Tops /\ Tops \in SUBSET Nat
      BY <2>2, <3>2, PidAssumption, BoundAssumption
    <3>6. PICK m \in Tops : \A j \in Tops : m <= j
      BY <3>5, LeastElement
    <3>7. m \in 1..MaxDepth /\ m # depth[w] + 1 /\ m - 1 \in (depth[w] + 1)..MaxDepth /\ ~(m <= m - 1)
      BY <2>2, <3>4, <3>6, BoundAssumption
    <3>8. Ancestors(process)[m - 1] = Top
      BY <3>6, <3>7
    <3>9. Ancestors(process)[m] = Top
      BY <3>7, <3>8, AncestorsEquation
    <3> QED BY <3>6, <3>9
  <2>5. CASE classify(w)
    <3>1. /\ pc[w] = "classify" /\ Program[exe[w].prog] \notin {"mise", "miseShell"}
          /\ exe[w].deleted \/ Program[exe[w].prog] = "unhashable"
      BY <1>1, <2>5 DEF classify, Goto, TypeOK
    <3>2. /\ exe[w].deleted => exe[w].prog \in upgraded
          /\ Program[exe[w].prog] # "hidden"
          /\ \E f \in kin[w] : f.prog = exe[w].prog
      BY <2>2, <3>1 DEF WalkOK, ReadOK
    <3> QED BY <3>1, <3>2 DEF LostItsBinary
  <2>6. CASE StartTime(w)
    BY <1>1, <2>3, <2>6 DEF StartTime, Goto, TypeOK, Up
  <2> QED BY <2>1, <2>4, <2>5, <2>6
<1>2. IInv /\ [Next]_vars =>
         [\A w \in Walk : pc[w] # "failed" /\ pc'[w] = "failed" =>
             \/ ~Up(CallerPid) \/ None \in seen[w]
             \/ \E f \in kin[w] : HasExited(f)
             \/ \E f \in kin[w] : Program[f.prog] = "unhashable" \/ LostItsBinary(f.prog)]_vars
  BY <1>1
<1> QED BY <1>2, WalkInvariant, PTL DEF Spec, FailsForCause
=============================================================================
