--------------------------- MODULE ShimInstallProofs ---------------------------
(* Theorems about ShimInstall!Spec, for any sets of paths, any number of     *)
(* commands, failures, kills and upgrades, with one cw at a time: what       *)
(* ShimOverlap shows of two is why they assume it.                           *)
EXTENDS ShimInstall, TLAPS

\* The package manager was never at a path where there is nothing.
PlaceInv == /\ \A p \in Place : latest[p] = None => main[p] = None /\ aside[p] = None
            /\ latest[current] \in Version

\* Beside a shim, and beside what is left of one, stands its binary.
BesideInv == \A p \in Place : main[p] \in {Shim, Cut} => aside[p] \in Version

Active(w) == pc[w] \notin {"begin", "done"}
Alone == \A w, v \in Cw : Active(w) /\ Active(v) => w = v

Uninstalling == {"uninstall", "restore", "delete", "tidy"}
Installing == {"check", "stat", "move", "write", "save"}

\* What a process knows at each place of its command.
StageInv(w) ==
    /\ pc[w] \in Uninstalling => job[w] # "install"
    /\ pc[w] \in {"resolve", "import"} => job[w] = "harden"
    /\ pc[w] \in Installing => job[w] \in {"harden", "install"}
    /\ pc[w] = "forget" => job[w] = "unharden"
    /\ pc[w] = "restore" => held[w] # None
    /\ pc[w] = "tidy" => pin = None
    /\ pc[w] \in {"stat", "move", "write", "save"} =>
          target[w] \in Place /\ latest[target[w]] # None
    /\ pc[w] = "move" => aside[target[w]] = None
    /\ pc[w] = "write" /\ HasDirectory(target[w]) => aside[target[w]] \in Version
    /\ job[w] = "harden" /\ pc[w] \in Installing => vault

\* PATH finds nothing only while an install has the binary aside, or after the
\* revert of one has failed too.
PathInv == faults =< 1 /\ kills = 0 /\ main[current] = None =>
              \E w \in Cw : pc[w] = "write" /\ target[w] = current

BootstrapInv == otherPin => bootstrap = Trace

\* No binary is newer than what the package manager installed last at its path,
\* and pacman takes no path away.
AgeInv == /\ \A p \in PacmanPlace : latest[p] # 0
          /\ \A p \in Place : latest[p] \in Version =>
                \A f \in {main[p], aside[p]} : f \in Version => f <= latest[p]

\* Who comes to save a pin has put its shim in place.
SaveInv == \A w \in Cw : pc[w] = "save" => Shimmed(target[w])

IInv == /\ TypeOK /\ PlaceInv /\ BesideInv /\ Alone
        /\ \A w \in Cw : StageInv(w)
        /\ PathInv /\ BootstrapInv /\ AgeInv /\ SaveInv

USE PlaceAssumption, BoundAssumption, JobAssumption, FileAssumption, NoneAssumption

-----------------------------------------------------------------------------
(* Who steps, and what it touches                                            *)

Moves(w) == Restore(w) \/ MoveAside(w) \/ WriteShim(w) \/ FailWrite(w) \/ Kill(w)

LEMMA StepKinds ==
    ASSUME [Next]_vars
    PROVE  \/ \E w \in Cw : Step(w) \/ Fault(w)
           \/ \E v \in Version, p \in PacmanPlace : PacmanUpgrade(p, v)
           \/ \E v \in Version, p \in MisePlace : MiseUpgrade(p, v)
           \/ UNCHANGED vars
BY DEF Next

\* While a cw is at work no other one is, and it stays so.
LEMMA OthersRest ==
    ASSUME "cw" \notin Overlap, TypeOK, Alone, NEW w \in Cw, Step(w) \/ Fault(w)
    PROVE  /\ job' = job
           /\ \A v \in Cw \ {w} : ~Active(v) /\ pc'[v] = pc[v]
<1>1. \A v \in Cw \ {w} : ~Active(v)
  <2>1. CASE pc[w] = "begin"
    <3>1. Idle
      BY <2>1 DEF Step, Fault, Begin, ReadPin, Restore, DeletePin, Tidy, Resolve, Import,
                  Check, StatAside, MoveAside, WriteShim, SavePin, Forget, Fail, FailTidy,
                  FailImport, FailWrite, Kill, At, MayBegin
    <3>2. QED
      BY <3>1 DEF Idle, Active
  <2>2. CASE pc[w] # "begin"
    <3>1. pc[w] # "done"
      BY DEF Step, Fault, Begin, ReadPin, Restore, DeletePin, Tidy, Resolve, Import,
             Check, StatAside, MoveAside, WriteShim, SavePin, Forget, Fail, FailTidy,
             FailImport, FailWrite, Kill, At
    <3>2. QED
      BY <2>2, <3>1 DEF Active, Alone
  <2>3. QED
    BY <2>1, <2>2
<1> DEFINE To(to) == job' = job /\ pc' = [pc EXCEPT ![w] = to]
<1>2. \E to : To(to)
  <2>1. \A to : Goto(w, to) => To(to)
    BY DEF Goto
  <2>2. \A r : Return(w, r) => To("done")
    BY DEF Return
  <2>3. ErrorIn(w) => \E to : To(to)
    BY DEF ErrorIn, Return
  <2> HIDE DEF To
  <2>4. Step(w) => \E to : To(to)
    BY <2>1, <2>2, <2>3 DEF Step, Begin, ReadPin, Restore, DeletePin, Tidy, Resolve, Import,
           Check, StatAside, MoveAside, WriteShim, SavePin, Forget
  <2>5. Fault(w) => \E to : To(to)
    BY <2>2, <2>3 DEF Fault, Fail, FailTidy, FailImport, FailWrite, Kill
  <2>6. QED
    BY <2>4, <2>5
<1>3. QED
  BY <1>1, <1>2 DEF TypeOK

LEMMA AloneStep ==
    ASSUME "cw" \notin Overlap, TypeOK, Alone, [Next]_vars
    PROVE  Alone'
<1>1. ASSUME NEW w \in Cw, Step(w) \/ Fault(w) PROVE Alone'
  BY <1>1, OthersRest DEF Alone, Active
<1>2. QED
  BY <1>1, StepKinds DEF PacmanUpgrade, MiseUpgrade, vars, cwVars, Alone, Active

\* Only five steps of a cw touch the tool's files.
LEMMA FilesStay ==
    ASSUME NEW w \in Cw, Step(w) \/ Fault(w), ~Moves(w)
    PROVE  UNCHANGED <<main, aside, worldVars>>
BY DEF Moves, Step, Fault, Begin, ReadPin, DeletePin, Tidy, Resolve, Import, Check,
       StatAside, SavePin, Forget, Fail, FailTidy, FailImport, fileVars

LEMMA WorldStays ==
    ASSUME NEW w \in Cw, Step(w) \/ Fault(w)
    PROVE  UNCHANGED worldVars
BY FilesStay DEF Moves, Restore, MoveAside, WriteShim, FailWrite, Kill, fileVars

-----------------------------------------------------------------------------
(* Types                                                                     *)

LEMMA InitIInv == Init => IInv
<1> SUFFICES ASSUME Init PROVE IInv
  OBVIOUS
<1>1. LookPath \in Place \cup {ScriptPath, None}
  BY DEF Init, LookPath
<1>2. TypeOK
  <2>1. script \in BOOLEAN /\ otherPin \in BOOLEAN /\ vault \in BOOLEAN
    BY DEF Init
  <2>2. pin \in Pin \cup {None}
    BY DEF Init, Pin, PathPin
  <2>3. main \in [Place -> File] /\ latest \in [Place -> Version \cup {0, None}]
    BY DEF Init, File, Version
  <2>4. bootstrap \in SUBSET Trace
    BY DEF Init
  <2>5. job \in [Cw -> Job]
    BY DEF Init
  <2>6. /\ aside \in [Place -> Version \cup {None}] /\ current \in Place
        /\ pc \in [Cw -> {"begin"}] /\ held \in [Cw -> {None}] /\ target \in [Cw -> {None}]
        /\ failed = {} /\ result \in [Cw -> {"none"}] /\ faults = 0 /\ kills = 0
    BY DEF Init
  <2>7. QED
    BY <2>1, <2>2, <2>3, <2>4, <2>5, <2>6 DEF TypeOK
<1>3. PlaceInv /\ BesideInv /\ Alone
  BY DEF Init, PlaceInv, BesideInv, Alone, Active, Version
<1>4. \A w \in Cw : StageInv(w)
  BY DEF Init, StageInv, Uninstalling, Installing
<1>5. PathInv /\ BootstrapInv
  BY DEF Init, PathInv, BootstrapInv, Version
<1>6. AgeInv
  BY DEF Init, AgeInv, Version, Place
<1>7. SaveInv
  BY DEF Init, SaveInv
<1>8. QED
  BY <1>2, <1>3, <1>4, <1>5, <1>6, <1>7 DEF IInv

ControlOK ==
    /\ job \in [Cw -> Job]
    /\ pc \in [Cw -> {"begin", "uninstall", "restore", "delete", "tidy", "resolve", "import",
                     "check", "stat", "move", "write", "save", "forget", "done"}]
    /\ failed \in SUBSET Cw
    /\ result \in [Cw -> {"none", "ok", "error", "killed"}]

LEMMA ErrorControl == ASSUME TypeOK, NEW w \in Cw, ErrorIn(w) PROVE ControlOK'
BY DEF TypeOK, ErrorIn, Return, ControlOK

LEMMA StepTypes ==
    ASSUME IInv, NEW w \in Cw, Step(w)
    PROVE  TypeOK'
<1> USE DEF TypeOK, Goto, Return, ErrorIn, At, fileVars, worldVars, cwVars, File, Job
<1>1. TypeOK /\ StageInv(w) /\ BesideInv
  BY DEF IInv
<1>2. LookPath \in Place \cup {ScriptPath, None}
  BY <1>1 DEF LookPath
<1>3. CASE Begin(w)
  BY <1>1, <1>2, <1>3 DEF Begin, Pin
<1>4. CASE ReadPin(w)
  BY <1>1, <1>4 DEF ReadPin
<1>5. CASE Restore(w)
  <2>1. held[w] \in Pin
    BY <1>1, <1>5 DEF Restore, StageInv
  <2>2. /\ main' \in [Place -> File] /\ aside' \in [Place -> Version \cup {None}]
        /\ UNCHANGED <<bootstrap, worldVars, pin, vault, held, target, faults, kills>>
    BY <1>1, <1>5, <2>1 DEF Restore, Pin
  <2>3. script' = script \/ script' = FALSE
    BY <1>5 DEF Restore
  <2>4. Goto(w, "delete") \/ ErrorIn(w)
    BY <1>5 DEF Restore
  <2>5. ControlOK'
    BY <1>1, <2>4, ErrorControl DEF ControlOK
  <2>6. QED
    BY <1>1, <2>2, <2>3, <2>5 DEF ControlOK
<1>6. CASE DeletePin(w) \/ Tidy(w)
  BY <1>1, <1>6 DEF DeletePin, Tidy, Tidied, StageInv, Uninstalling
<1>7. CASE Resolve(w)
  BY <1>1, <1>2, <1>7 DEF Resolve
<1>8. CASE Import(w) \/ Check(w) \/ StatAside(w)
  <2>1. /\ UNCHANGED <<fileVars, worldVars, pin, held, target, faults, kills>>
        /\ vault' = vault \/ vault' = TRUE
    BY <1>8 DEF Import, Check, StatAside
  <2>2. Goto(w, "check") \/ Goto(w, "stat") \/ Goto(w, "move") \/ ErrorIn(w)
    BY <1>8 DEF Import, Check, StatAside
  <2>3. ControlOK'
    BY <1>1, <2>2, ErrorControl DEF ControlOK
  <2>4. QED
    BY <1>1, <2>1, <2>3 DEF ControlOK
<1>9. CASE MoveAside(w)
  <2>1. target[w] \in Place /\ main[target[w]] \notin {Shim, Cut}
    BY <1>1, <1>9 DEF MoveAside, StageInv, BesideInv
  <2>2. QED
    BY <1>1, <1>9, <2>1 DEF MoveAside
<1>10. CASE WriteShim(w)
  BY <1>1, <1>10 DEF WriteShim
<1>11. CASE SavePin(w)
  BY <1>1, <1>11 DEF SavePin, Occupied, Pin, StageInv
<1>12. CASE Forget(w)
  BY <1>1, <1>12 DEF Forget
<1>13. QED
  BY <1>3, <1>4, <1>5, <1>6, <1>7, <1>8, <1>9, <1>10, <1>11, <1>12 DEF Step

LEMMA FaultTypes ==
    ASSUME IInv, NEW w \in Cw, Fault(w)
    PROVE  TypeOK'
<1> USE DEF TypeOK, Goto, Return, ErrorIn, At, fileVars, worldVars, cwVars, File, Job
<1>1. TypeOK
  BY DEF IInv
<1>2. CASE Fail(w)
  BY <1>1, <1>2 DEF Fail
<1>3. CASE FailTidy(w)
  <2>1. bootstrap' \in SUBSET Trace /\ faults' \in 0..MaxFaults
    BY <1>1, <1>3 DEF FailTidy
  <2>2. ControlOK'
    BY <1>1, <1>3, ErrorControl DEF FailTidy
  <2>3. QED
    BY <1>1, <1>3, <2>1, <2>2 DEF FailTidy, ControlOK
<1>4. CASE FailImport(w)
  <2>1. vault' = vault \/ vault' = FALSE
    BY <1>4 DEF FailImport
  <2>2. ControlOK' /\ faults' \in 0..MaxFaults
    BY <1>1, <1>4, ErrorControl DEF FailImport
  <2>3. QED
    BY <1>1, <1>4, <2>1, <2>2 DEF FailImport, ControlOK
<1>5. CASE FailWrite(w)
  BY <1>1, <1>5 DEF FailWrite
<1>6. CASE Kill(w)
  BY <1>1, <1>6 DEF Kill
<1>7. QED
  BY <1>2, <1>3, <1>4, <1>5, <1>6 DEF Fault

LEMMA TypeStep ==
    ASSUME IInv, [Next]_vars
    PROVE  TypeOK'
<1> USE DEF TypeOK, cwVars
<1>1. TypeOK
  BY DEF IInv
<1>2. ASSUME NEW v \in Version, NEW p \in PacmanPlace, PacmanUpgrade(p, v) PROVE TypeOK'
  BY <1>1, <1>2 DEF PacmanUpgrade, File
<1>3. ASSUME NEW v \in Version, NEW p \in MisePlace, MiseUpgrade(p, v) PROVE TypeOK'
  <2>1. /\ main' \in [Place -> File]
        /\ aside' \in [Place -> Version \cup {None}]
        /\ latest' \in [Place -> Version \cup {0, None}]
        /\ current' \in Place
    BY <1>1, <1>3 DEF MiseUpgrade, File, Place
  <2>2. QED
    BY <1>1, <1>3, <2>1 DEF MiseUpgrade
<1>4. CASE UNCHANGED vars
  BY <1>1, <1>4 DEF vars, fileVars, worldVars
<1> HIDE DEF TypeOK
<1>5. QED
  BY <1>2, <1>3, <1>4, StepKinds, StepTypes, FaultTypes

-----------------------------------------------------------------------------
(* The tool's files                                                          *)

LEMMA PlaceStep ==
    ASSUME IInv, TypeOK', [Next]_vars
    PROVE  PlaceInv'
<1> USE DEF PlaceInv, worldVars, cwVars
<1>1. TypeOK /\ PlaceInv
  BY DEF IInv
<1>2. ASSUME NEW w \in Cw, Moves(w), UNCHANGED worldVars PROVE PlaceInv'
  <2>1. StageInv(w)
    BY DEF IInv
  <2>2. CASE Restore(w)
    BY <1>1, <1>2, <2>2 DEF Restore, TypeOK
  <2>3. CASE MoveAside(w)
    BY <1>1, <1>2, <2>1, <2>3 DEF MoveAside, TypeOK, StageInv, At
  <2>4. CASE WriteShim(w)
    BY <1>1, <1>2, <2>1, <2>4 DEF WriteShim, TypeOK, StageInv, At
  <2>5. CASE FailWrite(w)
    BY <1>1, <1>2, <2>1, <2>5 DEF FailWrite, TypeOK, StageInv, At
  <2>6. CASE Kill(w)
    BY <1>1, <1>2, <2>1, <2>6 DEF Kill, TypeOK, StageInv, At
  <2>7. QED
    BY <1>2, <2>2, <2>3, <2>4, <2>5, <2>6 DEF Moves
<1>3. ASSUME NEW v \in Version, NEW p \in PacmanPlace, PacmanUpgrade(p, v) PROVE PlaceInv'
  BY <1>1, <1>3 DEF PacmanUpgrade, TypeOK, Place, Version
<1>4. ASSUME NEW v \in Version, NEW p \in MisePlace, MiseUpgrade(p, v) PROVE PlaceInv'
  <2>1. PICK gone \in {{}, {current}} :
          /\ main' = [q \in Place |-> IF q = p THEN v ELSE IF q \in gone THEN None ELSE main[q]]
          /\ aside' = [q \in Place |-> IF q = p THEN None ELSE IF q \in gone THEN None ELSE aside[q]]
          /\ latest' = [q \in Place |-> IF q = p THEN v ELSE IF q \in gone THEN 0 ELSE latest[q]]
    BY <1>4 DEF MiseUpgrade
  <2>2. current' = p
    BY <1>4 DEF MiseUpgrade
  <2>3. QED
    BY <1>1, <2>1, <2>2 DEF Place, Version
<1>5. CASE UNCHANGED vars
  BY <1>1, <1>5 DEF vars, fileVars
<1>6. ASSUME NEW w \in Cw, Step(w) \/ Fault(w) PROVE PlaceInv'
  BY <1>1, <1>2, <1>6, WorldStays, FilesStay
<1>7. QED
  BY <1>3, <1>4, <1>5, <1>6, StepKinds

\* A shim is written only where its binary was just moved aside, and what moves
\* the binary back puts it in the shim's place.
LEMMA BesideStep ==
    ASSUME IInv, TypeOK', [Next]_vars
    PROVE  BesideInv'
<1> USE DEF BesideInv
<1>1. TypeOK /\ BesideInv
  BY DEF IInv
<1>2. ASSUME NEW w \in Cw, Moves(w) PROVE BesideInv'
  <2>1. StageInv(w)
    BY DEF IInv
  <2>2. CASE Restore(w)
    BY <1>1, <2>2 DEF Restore, TypeOK
  <2>3. CASE MoveAside(w)
    BY <1>1, <2>1, <2>3 DEF MoveAside, TypeOK, StageInv, At, File
  <2>4. CASE WriteShim(w)
    BY <1>1, <2>1, <2>4 DEF WriteShim, TypeOK, StageInv, At
  <2>5. CASE FailWrite(w)
    BY <1>1, <2>1, <2>5 DEF FailWrite, TypeOK, StageInv, At
  <2>6. CASE Kill(w)
    BY <1>1, <2>1, <2>6 DEF Kill, TypeOK, StageInv, At
  <2>7. QED
    BY <1>2, <2>2, <2>3, <2>4, <2>5, <2>6 DEF Moves
<1>3. ASSUME NEW v \in Version, NEW p \in PacmanPlace, PacmanUpgrade(p, v) PROVE BesideInv'
  BY <1>1, <1>3 DEF PacmanUpgrade, TypeOK
<1>4. ASSUME NEW v \in Version, NEW p \in MisePlace, MiseUpgrade(p, v) PROVE BesideInv'
  BY <1>1, <1>4 DEF MiseUpgrade, TypeOK
<1>5. CASE UNCHANGED vars
  BY <1>1, <1>5 DEF vars, fileVars
<1>6. ASSUME NEW w \in Cw, Step(w) \/ Fault(w) PROVE BesideInv'
  BY <1>1, <1>2, <1>6, FilesStay
<1>7. QED
  BY <1>3, <1>4, <1>5, <1>6, StepKinds

\* Only an install between its two renames, and a revert that fails, take the
\* tool off PATH.
LEMMA PathStep ==
    ASSUME "cw" \notin Overlap, IInv, TypeOK', [Next]_vars
    PROVE  PathInv'
<1> USE DEF PathInv
<1>1. TypeOK /\ PathInv /\ Alone /\ latest[current] \in Version
  BY DEF IInv, PlaceInv
<1>2. ASSUME NEW w \in Cw, Step(w) \/ Fault(w) PROVE PathInv'
  <2>1. StageInv(w) /\ UNCHANGED worldVars
    BY <1>2, WorldStays DEF IInv
  <2>2. CASE Restore(w)
    BY <1>1, <2>1, <2>2 DEF Restore, TypeOK, worldVars, Goto, ErrorIn, Return, At
  <2>3. CASE MoveAside(w)
    BY <1>1, <2>1, <2>3 DEF MoveAside, TypeOK, StageInv, worldVars, Goto, ErrorIn, Return, At
  <2>4. CASE WriteShim(w)
    <3>1. CASE HasDirectory(target[w])
      BY <1>1, <2>1, <2>4, <3>1 DEF WriteShim, TypeOK, StageInv, worldVars, Goto, At
    <3>2. CASE ~HasDirectory(target[w])
      BY <1>1, <2>1, <2>4, <3>2 DEF WriteShim, TypeOK, StageInv, worldVars, ErrorIn, Return, At,
                                   HasDirectory
    <3>3. QED
      BY <3>1, <3>2
  <2>5. CASE FailWrite(w)
    BY <1>1, <2>1, <2>5 DEF FailWrite, TypeOK, StageInv, worldVars, ErrorIn, Return, At
  <2>6. CASE Kill(w)
    BY <1>1, <2>6 DEF Kill, TypeOK
  <2>7. CASE ~Moves(w)
    <3>1. UNCHANGED <<main, current>>
      BY <1>2, <2>7, FilesStay DEF worldVars
    <3>2. pc[w] # "write" /\ kills' = kills /\ faults' >= faults
      <4>1. pc[w] # "write"
        BY <1>2, <2>7 DEF Moves, Step, Fault, Begin, ReadPin, DeletePin, Tidy, Resolve,
              Import, Check, StatAside, SavePin, Forget, Fail, FailTidy, FailImport, At
      <4>2. kills' = kills
        BY <1>2, <2>7 DEF Moves, Step, Fault, Begin, ReadPin, DeletePin, Tidy, Resolve,
              Import, Check, StatAside, SavePin, Forget, Fail, FailTidy, FailImport
      <4>3. faults' = faults \/ faults' = faults + 1
        BY <1>2, <2>7 DEF Moves, Step, Fault, Begin, ReadPin, DeletePin, Tidy, Resolve,
              Import, Check, StatAside, SavePin, Forget, Fail, FailTidy, FailImport
      <4>4. QED
        BY <1>1, <4>1, <4>2, <4>3 DEF TypeOK
    <3>3. \A v \in Cw \ {w} : target'[v] = target[v]
      BY <1>1, <1>2, <2>7 DEF Moves, Step, Fault, Begin, ReadPin, DeletePin, Tidy, Resolve,
              Import, Check, StatAside, SavePin, Forget, Fail, FailTidy, FailImport, TypeOK
    <3>4. \A v \in Cw \ {w} : pc'[v] = pc[v]
      BY <1>1, <1>2, OthersRest
    <3>5. QED
      BY <1>1, <3>1, <3>2, <3>3, <3>4 DEF TypeOK
  <2>8. QED
    BY <2>2, <2>3, <2>4, <2>5, <2>6, <2>7 DEF Moves
<1>3. ASSUME NEW v \in Version, NEW p \in PacmanPlace, PacmanUpgrade(p, v) PROVE PathInv'
  BY <1>1, <1>3 DEF PacmanUpgrade, TypeOK, cwVars, Place
<1>4. ASSUME NEW v \in Version, NEW p \in MisePlace, MiseUpgrade(p, v) PROVE PathInv'
  <2>1. main'[current'] = v
    BY <1>4 DEF MiseUpgrade, Place
  <2>2. QED
    BY <2>1
<1>5. CASE UNCHANGED vars
  BY <1>1, <1>5 DEF vars, fileVars, worldVars, cwVars
<1>6. QED
  BY <1>2, <1>3, <1>4, <1>5, StepKinds

-----------------------------------------------------------------------------
(* The commands                                                              *)

LEMMA BootstrapStep ==
    ASSUME IInv, [Next]_vars
    PROVE  BootstrapInv'
<1> USE DEF BootstrapInv, worldVars, fileVars
<1>1. BootstrapInv
  BY DEF IInv
<1>2. ASSUME NEW w \in Cw, Tidy(w) PROVE BootstrapInv'
  BY <1>1, <1>2 DEF Tidy, Tidied, PathPins
<1>3. ASSUME NEW w \in Cw, FailTidy(w) PROVE BootstrapInv'
  BY <1>3 DEF FailTidy, PathPins
<1>4. ASSUME NEW w \in Cw, Step(w) \/ Fault(w), ~Tidy(w), ~FailTidy(w)
      PROVE UNCHANGED <<bootstrap, otherPin>>
  BY <1>4 DEF Step, Fault, Begin, ReadPin, Restore, DeletePin, Resolve, Import, Check,
         StatAside, MoveAside, WriteShim, SavePin, Forget, Fail, FailImport, FailWrite, Kill
<1>5. QED
  BY <1>1, <1>2, <1>3, <1>4, StepKinds DEF PacmanUpgrade, MiseUpgrade, vars

\* The step of the command itself: the others are at rest.
LEMMA OwnStage ==
    ASSUME IInv, TypeOK', NEW w \in Cw, Step(w) \/ Fault(w)
    PROVE  StageInv(w)'
<1> USE DEF StageInv, Uninstalling, Installing, At, Goto, TypeOK, fileVars, worldVars, HasDirectory
<1>1. TypeOK /\ StageInv(w) /\ PlaceInv
  BY DEF IInv
<1>2. CASE ErrorIn(w)
  BY <1>1, <1>2 DEF ErrorIn, Return
<1>3. ASSUME NEW r, Return(w, r) PROVE StageInv(w)'
  BY <1>1, <1>3 DEF Return
<1>4. CASE Begin(w)
  BY <1>1, <1>2, <1>4 DEF Begin
<1>5. CASE ReadPin(w)
  BY <1>1, <1>2, <1>5 DEF ReadPin
<1>6. CASE Restore(w)
  BY <1>1, <1>2, <1>6 DEF Restore
<1>7. CASE DeletePin(w)
  BY <1>1, <1>7 DEF DeletePin
<1>8. CASE Tidy(w)
  BY <1>1, <1>3, <1>8 DEF Tidy
<1>9. CASE Resolve(w)
  BY <1>1, <1>2, <1>9 DEF Resolve
<1>10. CASE Import(w)
  BY <1>1, <1>10 DEF Import
<1>11. CASE Check(w)
  <2>1. CASE target[w] \in Place /\ Exists(target[w])
    <3>1. latest[target[w]] # None
      BY <1>1, <2>1 DEF PlaceInv, Exists, Place
    <3>2. QED
      BY <1>1, <1>2, <1>11, <2>1, <3>1 DEF Check
  <2>2. QED
    BY <1>2, <1>11, <2>1 DEF Check
<1>12. CASE StatAside(w)
  BY <1>1, <1>2, <1>12 DEF StatAside
<1>13. CASE MoveAside(w)
  <2>1. CASE main[target[w]] # None
    <3>1. aside'[target[w]] = main[target[w]] /\ main[target[w]] \in Version
      BY <1>1, <1>13, <2>1 DEF MoveAside, IInv, BesideInv, File
    <3>2. QED
      BY <1>1, <1>13, <2>1, <3>1 DEF MoveAside
  <2>2. QED
    BY <1>2, <1>13, <2>1 DEF MoveAside
<1>14. CASE WriteShim(w)
  BY <1>1, <1>2, <1>14 DEF WriteShim
<1>15. CASE SavePin(w) \/ Forget(w) \/ Kill(w)
  BY <1>3, <1>15 DEF SavePin, Forget, Kill
<1>16. CASE Fail(w) \/ FailTidy(w) \/ FailImport(w) \/ FailWrite(w)
  BY <1>2, <1>16 DEF Fail, FailTidy, FailImport, FailWrite
<1>17. QED
  BY <1>4, <1>5, <1>6, <1>7, <1>8, <1>9, <1>10, <1>11, <1>12, <1>13, <1>14, <1>15, <1>16
     DEF Step, Fault

LEMMA StageStep ==
    ASSUME "cw" \notin Overlap, IInv, TypeOK', [Next]_vars, NEW w \in Cw
    PROVE  StageInv(w)'
<1>1. TypeOK /\ StageInv(w) /\ PlaceInv /\ Alone
  BY DEF IInv
<1>2. ASSUME NEW v \in Cw, Step(v) \/ Fault(v) PROVE StageInv(w)'
  <2>1. CASE v = w
    BY <1>2, <2>1, OwnStage
  <2>2. CASE v # w
    <3>1. pc'[w] \in {"begin", "done"}
      BY <1>1, <1>2, <2>2, OthersRest DEF Active
    <3>2. QED
      BY <3>1 DEF StageInv, Uninstalling, Installing
  <2>3. QED
    BY <2>1, <2>2
<1>3. ASSUME NEW v \in Version, NEW p \in PacmanPlace, PacmanUpgrade(p, v) PROVE StageInv(w)'
  BY <1>1, <1>3 DEF PacmanUpgrade, StageInv, cwVars, TypeOK, Version, Place, HasDirectory
<1>4. ASSUME NEW v \in Version, NEW p \in MisePlace, MiseUpgrade(p, v) PROVE StageInv(w)'
  <2>1. PICK gone \in {{}, {current}} :
          /\ main' = [q \in Place |-> IF q = p THEN v ELSE IF q \in gone THEN None ELSE main[q]]
          /\ aside' = [q \in Place |-> IF q = p THEN None ELSE IF q \in gone THEN None ELSE aside[q]]
          /\ latest' = [q \in Place |-> IF q = p THEN v ELSE IF q \in gone THEN 0 ELSE latest[q]]
    BY <1>4 DEF MiseUpgrade
  <2>2. UNCHANGED <<cwVars, pin, vault>> /\ latest[p] = None /\ current \in MisePlace
    BY <1>4 DEF MiseUpgrade
  <2>3. \A q \in Place : latest[q] # None => latest'[q] # None
    BY <2>1
  <2>4. \A q \in Place : aside[q] = None => aside'[q] = None
    BY <2>1
  <2>5. \A q \in Place : latest[q] # None /\ (HasDirectory(q) => aside[q] \in Version)
                           => (HasDirectory(q)' => aside'[q] \in Version)
    BY <2>1, <2>2, <1>1 DEF HasDirectory, PlaceInv, TypeOK, Version, Place
  <2>6. QED
    BY <1>1, <2>2, <2>3, <2>4, <2>5 DEF StageInv, cwVars
<1>5. CASE UNCHANGED vars
  BY <1>1, <1>5 DEF vars, fileVars, worldVars, cwVars, StageInv, HasDirectory
<1>6. QED
  BY <1>2, <1>3, <1>4, <1>5, StepKinds

-----------------------------------------------------------------------------
(* The age of a binary, and what stands where a pin is to be saved            *)

\* What a mise upgrade leaves at each path.
LEMMA MiseLeaves ==
    ASSUME NEW v \in Version, NEW p \in MisePlace, MiseUpgrade(p, v)
    PROVE  \E gone \in {{}, {current}} :
          /\ main' = [q \in Place |-> IF q = p THEN v ELSE IF q \in gone THEN None ELSE main[q]]
          /\ aside' = [q \in Place |-> IF q = p THEN None ELSE IF q \in gone THEN None ELSE aside[q]]
          /\ latest' = [q \in Place |-> IF q = p THEN v ELSE IF q \in gone THEN 0 ELSE latest[q]]
BY DEF MiseUpgrade

LEMMA AgeStep ==
    ASSUME IInv, TypeOK', [Next]_vars
    PROVE  AgeInv'
<1>1. TypeOK /\ AgeInv
  BY DEF IInv
<1>2. ASSUME NEW w \in Cw, Step(w) \/ Fault(w) PROVE AgeInv'
  <2>1. StageInv(w) /\ latest' = latest
    BY <1>2, WorldStays DEF IInv, worldVars
  <2>2. \A p \in Place : {main'[p], aside'[p]} \subseteq {main[p], aside[p], Shim, Cut, None}
    <3>1. CASE Restore(w)
      BY <1>1, <3>1 DEF Restore, TypeOK
    <3>2. CASE MoveAside(w)
      BY <1>1, <3>2 DEF MoveAside, TypeOK
    <3>3. CASE WriteShim(w)
      BY <1>1, <3>3 DEF WriteShim, TypeOK
    <3>4. CASE FailWrite(w)
      BY <1>1, <3>4 DEF FailWrite, TypeOK
    <3>5. CASE Kill(w)
      BY <1>1, <3>5 DEF Kill, TypeOK
    <3>6. CASE ~Moves(w)
      BY <1>2, <3>6, FilesStay
    <3> QED BY <3>1, <3>2, <3>3, <3>4, <3>5, <3>6 DEF Moves
  <2> QED BY <1>1, <2>1, <2>2 DEF AgeInv, Version
<1>3. ASSUME NEW v \in Version, NEW p \in PacmanPlace, PacmanUpgrade(p, v) PROVE AgeInv'
  <2>1. \A q \in Place : main'[q] = (IF q = p THEN v ELSE main[q])
                         /\ latest'[q] = (IF q = p THEN v ELSE latest[q]) /\ aside'[q] = aside[q]
    BY <1>1, <1>3 DEF PacmanUpgrade, TypeOK
  <2>2. latest[p] \in Version /\ latest[p] < v /\ p \in Place
    BY <1>1, <1>3 DEF PacmanUpgrade, Newer, AgeInv, TypeOK, Place
  <2>3. aside[p] \in Version => aside[p] <= v
    BY <1>1, <2>2 DEF AgeInv, Version
  <2> QED BY <1>1, <2>1, <2>2, <2>3 DEF AgeInv, Version, Place
<1>4. ASSUME NEW v \in Version, NEW p \in MisePlace, MiseUpgrade(p, v) PROVE AgeInv'
  <2>1. PICK gone \in {{}, {current}} :
          /\ main' = [q \in Place |-> IF q = p THEN v ELSE IF q \in gone THEN None ELSE main[q]]
          /\ aside' = [q \in Place |-> IF q = p THEN None ELSE IF q \in gone THEN None ELSE aside[q]]
          /\ latest' = [q \in Place |-> IF q = p THEN v ELSE IF q \in gone THEN 0 ELSE latest[q]]
    BY <1>4, MiseLeaves
  <2>2. current \in MisePlace
    BY <1>4 DEF MiseUpgrade
  <2> QED BY <1>1, <2>1, <2>2 DEF AgeInv, Version, Place
<1>5. CASE UNCHANGED vars
  BY <1>1, <1>5 DEF vars, fileVars, worldVars, AgeInv
<1> QED BY <1>2, <1>3, <1>4, <1>5, StepKinds

\* The last step before a pin is saved writes the shim, and only an upgrade comes
\* between the two.
LEMMA SaveStep ==
    ASSUME "cw" \notin Overlap, IInv, TypeOK', [Next]_vars
    PROVE  SaveInv'
<1>1. TypeOK /\ SaveInv /\ Alone
  BY DEF IInv
<1>2. ASSUME NEW w \in Cw, Step(w) \/ Fault(w), NEW v \in Cw, pc'[v] = "save"
      PROVE  Shimmed(target[v])'
  <2>1. v = w
    BY <1>1, <1>2, OthersRest DEF Active
  <2>2. WriteShim(w) /\ HasDirectory(target[w])
    <3>1. ~ErrorIn(w) /\ \A r : ~Return(w, r)
      BY <1>1, <1>2, <2>1 DEF ErrorIn, Return, TypeOK
    <3>2. \A to : Goto(w, to) => to = "save"
      BY <1>1, <1>2, <2>1 DEF Goto, TypeOK
    <3>3. ~Fault(w)
      BY <3>1 DEF Fault, Fail, FailTidy, FailImport, FailWrite, Kill
    <3>4. Step(w) => WriteShim(w)
      BY <3>1, <3>2 DEF Step, Begin, ReadPin, Restore, DeletePin, Tidy, Resolve, Import, Check,
                    StatAside, MoveAside, SavePin, Forget
    <3> QED BY <1>2, <3>1, <3>3, <3>4 DEF WriteShim
  <2>3. target' = target /\ target[w] \in Place
    BY <2>2 DEF WriteShim, IInv, StageInv, At
  <2>4. main'[target[w]] = Shim
    BY <1>1, <2>2, <2>3 DEF WriteShim, TypeOK
  <2> QED BY <2>1, <2>3, <2>4 DEF Shimmed
<1>3. ASSUME UNCHANGED cwVars, NEW w \in Cw, pc[w] = "save"
      PROVE  /\ target[w] \in Place /\ latest[target[w]] # None /\ Shimmed(target[w])
             /\ target' = target
  BY <1>1, <1>3 DEF IInv, StageInv, SaveInv, cwVars
<1>4. ASSUME NEW v \in Version, NEW p \in PacmanPlace, PacmanUpgrade(p, v) PROVE SaveInv'
  <2> SUFFICES ASSUME NEW w \in Cw, pc[w] = "save" PROVE Shimmed(target[w])'
    BY <1>4 DEF SaveInv, PacmanUpgrade, cwVars
  <2> DEFINE t == target[w]
  <2>1. t \in Place /\ latest[t] # None /\ Shimmed(t) /\ target' = target
    BY <1>3, <1>4 DEF PacmanUpgrade
  <2>2. CASE t = p
    <3>1. main'[t] = v /\ latest'[t] = v /\ aside'[t] = aside[t]
      BY <1>1, <1>4, <2>1, <2>2 DEF PacmanUpgrade, TypeOK
    <3>2. latest[t] \in Version /\ latest[t] < v
      BY <1>1, <1>4, <2>1, <2>2 DEF PacmanUpgrade, Newer, IInv, AgeInv, TypeOK
    <3>3. aside[t] \in Version
      BY <2>1, <3>2 DEF Shimmed, IInv, BesideInv, Version
    <3>4. aside[t] <= latest[t]
      BY <2>1, <3>2, <3>3 DEF IInv, AgeInv
    <3>5. aside'[t] \in {x \in Version : x < latest'[t]}
      BY <3>1, <3>2, <3>3, <3>4 DEF Version
    <3> QED BY <2>1, <3>1, <3>5 DEF Shimmed
  <2>3. CASE t # p
    <3>1. main'[t] = main[t] /\ latest'[t] = latest[t] /\ aside'[t] = aside[t]
      BY <1>1, <1>4, <2>1, <2>3 DEF PacmanUpgrade, TypeOK
    <3> QED BY <2>1, <3>1 DEF Shimmed
  <2> QED BY <2>2, <2>3
<1>5. ASSUME NEW v \in Version, NEW p \in MisePlace, MiseUpgrade(p, v) PROVE SaveInv'
  <2> SUFFICES ASSUME NEW w \in Cw, pc[w] = "save" PROVE Shimmed(target[w])'
    BY <1>5 DEF SaveInv, MiseUpgrade, cwVars
  <2> DEFINE t == target[w]
  <2>1. t \in Place /\ latest[t] # None /\ Shimmed(t) /\ target' = target
    BY <1>3, <1>5 DEF MiseUpgrade
  <2>2. t # p
    BY <1>5, <2>1 DEF MiseUpgrade
  <2>3. PICK gone \in {{}, {current}} :
          /\ main' = [q \in Place |-> IF q = p THEN v ELSE IF q \in gone THEN None ELSE main[q]]
          /\ aside' = [q \in Place |-> IF q = p THEN None ELSE IF q \in gone THEN None ELSE aside[q]]
          /\ latest' = [q \in Place |-> IF q = p THEN v ELSE IF q \in gone THEN 0 ELSE latest[q]]
    BY <1>5, MiseLeaves
  <2>4. \/ latest'[t] = 0
        \/ main'[t] = main[t] /\ latest'[t] = latest[t] /\ aside'[t] = aside[t]
    BY <2>1, <2>2, <2>3
  <2> QED BY <2>1, <2>4 DEF Shimmed
<1>6. CASE UNCHANGED vars
  BY <1>1, <1>6 DEF vars, fileVars, worldVars, cwVars, SaveInv, Shimmed
<1>7. ASSUME NEW w \in Cw, Step(w) \/ Fault(w) PROVE SaveInv'
  BY <1>2, <1>7 DEF SaveInv
<1> QED BY <1>4, <1>5, <1>6, <1>7, StepKinds

LEMMA IInvStep ==
    ASSUME "cw" \notin Overlap, IInv, [Next]_vars
    PROVE  IInv'
<1>1. TypeOK' /\ TypeOK /\ Alone
  BY TypeStep DEF IInv
<1>2. PlaceInv' /\ BesideInv' /\ Alone'
  BY <1>1, PlaceStep, BesideStep, AloneStep
<1>3. \A w \in Cw : StageInv(w)'
  BY <1>1, StageStep
<1>4. PathInv' /\ BootstrapInv'
  BY <1>1, PathStep, BootstrapStep
<1>5. AgeInv' /\ SaveInv'
  BY <1>1, AgeStep, SaveStep
<1>6. QED
  BY <1>1, <1>2, <1>3, <1>4, <1>5 DEF IInv

LEMMA Invariance ==
    ASSUME "cw" \notin Overlap
    PROVE  Spec => []IInv
BY InitIInv, IInvStep, PTL DEF Spec

-----------------------------------------------------------------------------
(* The theorems                                                              *)

\* The variables keep their types: what is moved aside is always a binary.
THEOREM TypeCorrect ==
    ASSUME "cw" \notin Overlap
    PROVE  Spec => []TypeOK
<1>1. IInv => TypeOK
  BY DEF IInv
<1>2. QED
  BY <1>1, Invariance, PTL

\* Beside every shim stands the binary it execs, after any chain of commands,
\* failures, kills and upgrades. (installOccupied, Uninstall)
THEOREM EveryShimHasBinary ==
    ASSUME "cw" \notin Overlap
    PROVE  Spec => []ShimHasBinary
<1>1. IInv => ShimHasBinary
  BY DEF IInv, BesideInv, ShimHasBinary
<1>2. QED
  BY <1>1, Invariance, PTL

\* Where drift detection has nothing to report, the tool's name leads to its shim
\* and an Occupied Path shim leads on to the real binary. (checkOne)
THEOREM NoDriftMeansGated ==
    ASSUME "cw" \notin Overlap
    PROVE  Spec => []NoDriftIsGated
<1>1. IInv => NoDriftIsGated
  <2> SUFFICES ASSUME IInv, pin # None, ~Drift, LookPath # ScriptPath
               PROVE  /\ LookPath = pin.place
                      /\ main[pin.place] = Shim
                      /\ aside[pin.place] \in Version
    BY DEF NoDriftIsGated
  <2>1. pin.place \in Place
    BY DEF IInv, TypeOK, Pin
  <2>2. LookPath = pin.place /\ main[pin.place] = Shim
    BY DEF Drift, PathDrifted
  <2>3. aside[pin.place] \in Version
    BY <2>1, <2>2 DEF IInv, BesideInv
  <2>4. QED
    BY <2>2, <2>3
<1>2. QED
  BY <1>1, Invariance, PTL

\* One failed operation, whichever it was, leaves the tool on PATH.
\* (installOccupied's revert)
THEOREM OneFaultKeepsTool ==
    ASSUME "cw" \notin Overlap
    PROVE  Spec => []ToolStaysOnPath
<1>1. IInv => ToolStaysOnPath
  <2> SUFFICES ASSUME IInv, Idle, faults =< 1, kills = 0 PROVE LookPath # None
    BY DEF ToolStaysOnPath
  <2>1. \A w \in Cw : pc[w] # "write"
    BY DEF Idle
  <2>2. main[current] # None /\ current \in Place
    BY <2>1 DEF IInv, PathInv, TypeOK
  <2>3. QED
    BY <2>2 DEF LookPath
<1>2. QED
  BY <1>1, Invariance, PTL

\* A harden that reports success has put the shim in its place, with the binary it
\* execs beside it, has the token in the vault, and has pinned that place. Only a
\* package manager can have been there since. (HardenGH imports, then installs,
\* then saves the pin)
THEOREM HardenHasDelivered ==
    ASSUME "cw" \notin Overlap
    PROVE  Spec => HardenDelivers
<1> DEFINE Delivered == \A w \in Cw :
              job[w] = "harden" /\ result[w] = "none" /\ result'[w] = "ok" =>
                 /\ vault'
                 /\ pin' = Occupied(target[w]) /\ target[w] \in Place
                 /\ Shimmed(target[w])'
<1>1. ASSUME IInv, [Next]_vars, NEW w \in Cw, job[w] = "harden", result[w] = "none",
             result'[w] = "ok"
      PROVE  /\ vault'
             /\ pin' = Occupied(target[w]) /\ target[w] \in Place
             /\ Shimmed(target[w])'
  <2>1. TypeOK /\ StageInv(w)
    BY <1>1 DEF IInv
  <2>2. SavePin(w)
    <3>1. PICK v \in Cw : Step(v) \/ Fault(v)
      BY <1>1, StepKinds DEF PacmanUpgrade, MiseUpgrade, vars, cwVars
    <3>2. UNCHANGED result \/ ErrorIn(v) \/ Kill(v) \/ SavePin(v) \/ Forget(v) \/ Tidy(v)
      BY <3>1 DEF Step, Fault, Begin, ReadPin, Restore, DeletePin, Resolve, Import, Check,
             StatAside, MoveAside, WriteShim, Fail, FailTidy, FailImport, FailWrite, Goto
    <3>3. ~ErrorIn(v) /\ ~Kill(v)
      BY <1>1, <2>1 DEF ErrorIn, Return, Kill, TypeOK
    <3>4. ~Forget(v)
      BY <1>1, <2>1 DEF Forget, Return, StageInv, At, TypeOK
    <3>5. ~Tidy(v)
      BY <1>1, <2>1 DEF Tidy, Return, Goto, TypeOK
    <3>6. SavePin(v) => v = w
      BY <1>1, <2>1 DEF SavePin, Return, TypeOK
    <3>7. QED
      BY <1>1, <3>2, <3>3, <3>4, <3>5, <3>6
  <2>3. vault /\ vault' = vault /\ pin' = Occupied(target[w]) /\ target[w] \in Place
    BY <1>1, <2>1, <2>2 DEF SavePin, StageInv, Installing, At
  <2>4. Shimmed(target[w])'
    <3>1. UNCHANGED <<main, aside, latest, target>> /\ Shimmed(target[w])
      BY <1>1, <2>2 DEF SavePin, IInv, SaveInv, At, fileVars, worldVars
    <3> QED BY <3>1 DEF Shimmed
  <2>5. QED
    BY <2>3, <2>4
<1>2. IInv /\ [Next]_vars => [Delivered]_vars
  BY <1>1
<1>3. QED
  BY <1>2, Invariance, PTL DEF Spec, HardenDelivers

\* The PATH bootstrap stays as long as another tool's Path Shim needs it, and
\* goes with the last one. (Uninstall, removePathBootstrap)
THEOREM BootstrapHasFollowed ==
    ASSUME "cw" \notin Overlap
    PROVE  Spec => BootstrapFollowsPins
<1> DEFINE Ended(w) == job[w] = "uninstall" /\ result[w] = "none" /\ result'[w] = "ok"
           Followed == /\ otherPin => bootstrap' = Trace
                       /\ \A w \in Cw : Ended(w) /\ ~otherPin => bootstrap' = {}
<1>1. ASSUME IInv, [Next]_vars, otherPin PROVE bootstrap' = Trace
  <2>1. otherPin' = otherPin
    BY <1>1, StepKinds, WorldStays DEF worldVars, PacmanUpgrade, MiseUpgrade, vars
  <2>2. QED
    BY <1>1, <2>1, BootstrapStep DEF BootstrapInv
<1>2. ASSUME IInv, [Next]_vars, NEW w \in Cw, Ended(w), ~otherPin PROVE bootstrap' = {}
  <2>1. TypeOK /\ StageInv(w)
    BY <1>2 DEF IInv
  <2>2. Tidy(w)
    <3>1. PICK v \in Cw : Step(v) \/ Fault(v)
      BY <1>2, StepKinds DEF PacmanUpgrade, MiseUpgrade, vars, cwVars
    <3>2. UNCHANGED result \/ ErrorIn(v) \/ Kill(v) \/ SavePin(v) \/ Forget(v) \/ Tidy(v)
      BY <3>1 DEF Step, Fault, Begin, ReadPin, Restore, DeletePin, Resolve, Import, Check,
             StatAside, MoveAside, WriteShim, Fail, FailTidy, FailImport, FailWrite, Goto
    <3>3. ~ErrorIn(v) /\ ~Kill(v)
      BY <1>2, <2>1 DEF ErrorIn, Return, Kill, TypeOK
    <3>4. ~Forget(v) /\ ~SavePin(v)
      BY <1>2, <2>1 DEF Forget, SavePin, Return, StageInv, Installing, At, TypeOK
    <3>5. Tidy(v) => v = w
      BY <1>2, <2>1 DEF Tidy, Return, Goto, TypeOK
    <3>6. QED
      BY <1>2, <3>2, <3>3, <3>4, <3>5
  <2>3. pin = None
    BY <2>1, <2>2 DEF Tidy, StageInv, At
  <2>4. QED
    BY <1>2, <2>2, <2>3 DEF Tidy, Tidied, PathPins
<1>3. IInv /\ [Next]_vars => [Followed]_vars
  BY <1>1, <1>2
<1>4. QED
  BY <1>3, Invariance, PTL DEF Spec, BootstrapFollowsPins
================================================================================
