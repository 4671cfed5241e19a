------------------------------ MODULE ShimInstall ------------------------------
(* Installing and removing the shim of one tool (gh): internal/shim (Install,  *)
(* Uninstall, the pins, drift detection, the legacy PATH bootstrap) and         *)
(* internal/harden, against package managers that replace or remove files.     *)
(*                                                                             *)
(* A cw process makes one file operation a step; each may fail, and the process *)
(* may be killed between two. The pin of one tool is read and written atomically*)
(* (shim/store.go saves as policy/store.go does, see PolicyStore).             *)
(*                                                                             *)
(* A definition marked "mutant" is a bug the code could have had; no action    *)
(* uses it.                                                                    *)
EXTENDS Naturals

CONSTANTS
    Cw,             \* cw processes
    JobRange,       \* what they are run for, of Job
    Overlap,        \* bound: "cw" if two of them may run at once, "upgrade"
                    \* if a package manager may run beside one
    PacmanPlace,    \* paths a binary is installed at and upgraded in place
    MisePlace,      \* paths of single versions, one of which is current
    MaxVersion,     \* bound: versions of the tool
    MaxFaults,      \* bound: file and keyring operations that fail
    MaxKills,       \* bound: processes killed
    LegacyPins,     \* whether an older cw left a Path pin for the tool, of BOOLEAN
    OtherPins,      \* whether it left one for another tool, of BOOLEAN
    ShimDirOnPath,  \* shells have the Path Shim directory on their PATH
    None, Shim, Cut, ScriptPath

ASSUME PlaceAssumption == PacmanPlace \cap MisePlace = {} /\ ScriptPath \notin PacmanPlace \cup MisePlace
ASSUME BoundAssumption == /\ MaxVersion \in Nat \ {0} /\ MaxFaults \in Nat /\ MaxKills \in Nat
                          /\ {ShimDirOnPath} \cup LegacyPins \cup OtherPins \subseteq BOOLEAN
                          /\ Overlap \subseteq {"cw", "upgrade"}

Job == {"harden", "unharden", "install", "uninstall"}
Place == PacmanPlace \cup MisePlace
Version == 1..MaxVersion
\* A real binary, the shim script that execs the binary moved aside from the
\* same path, what a WriteFile that did not finish left of it, or nothing.
File == Version \cup {Shim, Cut, None}
Pin == [mode: {"occupied", "path"}, place: Place]
ASSUME JobAssumption == JobRange \subseteq Job
ASSUME FileAssumption == /\ Shim # Cut /\ None \notin {Shim, Cut}
                         /\ {Shim, Cut, None} \cap Version = {} /\ None # 0
ASSUME NoneAssumption == None # ScriptPath /\ None \notin Place /\ None \notin Pin
\* The bootstrap script, the blocks in shell startup files, environment.d, in
\* the order removePathBootstrap removes them.
Trace == 1..3

VARIABLES
    main,       \* [Place -> the file at the path]
    aside,      \* [Place -> the binary at "<path>.cmdwarden-real"]
    current,    \* the place PATH finds, Path Shims apart
    latest,     \* [Place -> what the package manager installed last, None before
                \* that, 0 when it has removed the directory]
    otherPin,   \* another tool has a Path pin
    script,     \* the Path Shim script is in the shim directory
    bootstrap,  \* the traces of the PATH bootstrap
    pin,        \* the tool's pin, None if it has none
    vault,      \* its token is in the vault
    job, pc,    \* [Cw -> ...]
    held,       \* [Cw -> the pin it read, or None]
    target,     \* [Cw -> the path it shims, or None]
    failed,     \* unharden processes that go on after an error
    result,     \* [Cw -> how it ended, "none" before]
    faults, kills

fileVars == <<main, aside, script, bootstrap>>
worldVars == <<current, latest, otherPin>>
cwVars == <<job, pc, held, target, failed, result>>
vars == <<fileVars, worldVars, pin, vault, cwVars, faults, kills>>

-----------------------------------------------------------------------------
LookPath == IF script /\ ShimDirOnPath THEN ScriptPath
            ELSE IF main[current] # None THEN current ELSE None

\* checkOne: what drift detection reports of the pin. The path may be right
\* and the file there not the shim any more (occupiedFileReplaced).
PathDrifted == LookPath # IF pin.mode = "occupied" THEN pin.place ELSE ScriptPath
DriftByPath == pin # None /\ PathDrifted                 \* mutant
Drift == pin # None /\ \/ PathDrifted
                       \/ pin.mode = "occupied" /\ main[pin.place] # Shim

Occupied(p) == [mode |-> "occupied", place |-> p]
PathPin(p) == [mode |-> "path", place |-> p]

Init ==
    /\ current \in Place
    /\ latest = [p \in Place |-> IF p = current THEN 1 ELSE None]
    /\ main = latest
    /\ aside = [p \in Place |-> None]
    /\ otherPin \in OtherPins
    /\ script \in LegacyPins
    /\ pin = IF script THEN PathPin(current) ELSE None
    /\ bootstrap = IF script \/ otherPin THEN Trace ELSE {}
    /\ vault \in BOOLEAN
    /\ job \in [Cw -> JobRange]
    /\ pc = [w \in Cw |-> "begin"]
    /\ held = [w \in Cw |-> None]
    /\ target = [w \in Cw |-> None]
    /\ failed = {}
    /\ result = [w \in Cw |-> "none"]
    /\ faults = 0
    /\ kills = 0

Idle == \A w \in Cw : pc[w] \in {"begin", "done"}
MayBegin == "cw" \in Overlap \/ Idle
Goto(w, to) == pc' = [pc EXCEPT ![w] = to] /\ UNCHANGED <<job, failed, result>>
At(w, from) == pc[w] = from

Return(w, r) ==
    /\ pc' = [pc EXCEPT ![w] = "done"]
    /\ result' = [result EXCEPT ![w] = r]
    /\ UNCHANGED <<job, failed>>

\* An error ends the command, except that cw unharden goes on to the vault.
ErrorIn(w) ==
    IF job[w] = "unharden" /\ ~At(w, "forget")
    THEN /\ pc' = [pc EXCEPT ![w] = "forget"]
         /\ failed' = failed \cup {w}
         /\ UNCHANGED <<job, result>>
    ELSE Return(w, "error")

-----------------------------------------------------------------------------
\* The command starts: HardenGH and UnhardenGH read the pin, cw shim install
\* looks the tool up on PATH or is told a path, --path, where anything may be.
Begin(w) ==
    /\ At(w, "begin")
    /\ MayBegin
    /\ \/ /\ job[w] = "harden"
          /\ target' = [target EXCEPT ![w] =
                          IF pin # None /\ pin.mode = "path" THEN pin.place ELSE None]
          /\ Goto(w, IF pin # None THEN "uninstall" ELSE "resolve")
       \/ /\ job[w] = "unharden"
          /\ Goto(w, IF pin # None THEN "uninstall" ELSE "forget")
          /\ UNCHANGED target
       \/ /\ job[w] = "install"
          /\ \E t \in {LookPath} \cup Place :
               /\ target' = [target EXCEPT ![w] = t]
               /\ IF t = None THEN ErrorIn(w) ELSE Goto(w, "check")
       \/ /\ job[w] = "uninstall"
          /\ Goto(w, "uninstall")
          /\ UNCHANGED target
    /\ UNCHANGED <<fileVars, worldVars, pin, vault, held, faults, kills>>

-----------------------------------------------------------------------------
(* Uninstall                                                                 *)

ReadPin(w) ==
    /\ At(w, "uninstall")
    /\ held' = [held EXCEPT ![w] = pin]
    /\ IF pin = None THEN ErrorIn(w) ELSE Goto(w, "restore")
    /\ UNCHANGED <<fileVars, worldVars, pin, vault, target, faults, kills>>

\* The binary is renamed over the shim, whatever is there by now; a Path Shim
\* that is gone already is no error.
Restore(w) ==
    /\ At(w, "restore")
    /\ LET p == held[w].place IN
       \/ /\ held[w].mode = "occupied" /\ aside[p] # None
          /\ main' = [main EXCEPT ![p] = aside[p]]
          /\ aside' = [aside EXCEPT ![p] = None]
          /\ Goto(w, "delete")
          /\ UNCHANGED script
       \/ /\ held[w].mode = "occupied" /\ aside[p] = None
          /\ ErrorIn(w)
          /\ UNCHANGED <<main, aside, script>>
       \/ /\ held[w].mode = "path"
          /\ script' = FALSE
          /\ Goto(w, "delete")
          /\ UNCHANGED <<main, aside>>
    /\ UNCHANGED <<bootstrap, worldVars, pin, vault, held, target, faults, kills>>

DeletePin(w) ==
    /\ At(w, "delete")
    /\ pin' = None
    /\ Goto(w, "tidy")
    /\ UNCHANGED <<fileVars, worldVars, vault, held, target, faults, kills>>

\* The PATH bootstrap goes with the last Path pin.
TidyAlways == {}                                         \* mutant
PathPins == otherPin \/ (pin # None /\ pin.mode = "path")
Tidied == IF PathPins THEN bootstrap ELSE {}

Tidy(w) ==
    /\ At(w, "tidy")
    /\ bootstrap' = Tidied
    /\ \/ job[w] = "harden" /\ Goto(w, "resolve")
       \/ job[w] = "unharden" /\ Goto(w, "forget")
       \/ job[w] = "uninstall" /\ Return(w, "ok")
    /\ UNCHANGED <<main, aside, script, worldVars, pin, vault, held, target, faults, kills>>

-----------------------------------------------------------------------------
(* HardenGH: find gh, import its token, install                              *)

Exists(t) == t = ScriptPath \/ (t \in Place /\ main[t] # None)

Resolve(w) ==
    /\ At(w, "resolve")
    /\ LET t == IF target[w] = None THEN LookPath ELSE target[w] IN
         /\ target' = [target EXCEPT ![w] = t]
         /\ IF Exists(t) THEN Goto(w, "import") ELSE ErrorIn(w)
    /\ UNCHANGED <<fileVars, worldVars, pin, vault, held, faults, kills>>

Import(w) ==
    /\ At(w, "import")
    /\ vault' = TRUE
    /\ Goto(w, "check")
    /\ UNCHANGED <<fileVars, worldVars, pin, held, target, faults, kills>>

-----------------------------------------------------------------------------
(* Install                                                                   *)

\* No pin yet, and a file pacman or mise owns.
Check(w) ==
    /\ At(w, "check")
    /\ IF pin = None /\ target[w] \in Place /\ Exists(target[w])
       THEN Goto(w, "stat") ELSE ErrorIn(w)
    /\ UNCHANGED <<fileVars, worldVars, pin, vault, held, target, faults, kills>>

SkipStat(w) ==                                           \* mutant
    /\ At(w, "stat")
    /\ Goto(w, "move")
    /\ UNCHANGED <<fileVars, worldVars, pin, vault, held, target, faults, kills>>
StatAside(w) ==
    /\ At(w, "stat")
    /\ IF aside[target[w]] = None THEN Goto(w, "move") ELSE ErrorIn(w)
    /\ UNCHANGED <<fileVars, worldVars, pin, vault, held, target, faults, kills>>

MoveAside(w) ==
    /\ At(w, "move")
    /\ \/ /\ main[target[w]] # None
          /\ aside' = [aside EXCEPT ![target[w]] = main[target[w]]]
          /\ main' = [main EXCEPT ![target[w]] = None]
          /\ Goto(w, "write")
       \/ /\ main[target[w]] = None
          /\ ErrorIn(w)
          /\ UNCHANGED <<main, aside>>
    /\ UNCHANGED <<script, bootstrap, worldVars, pin, vault, held, target, faults, kills>>

\* mise may have removed the directory: then there is nothing to move back.
HasDirectory(p) == p \in PacmanPlace \/ latest[p] \in Version

WriteShim(w) ==
    /\ At(w, "write")
    /\ IF HasDirectory(target[w])
       THEN main' = [main EXCEPT ![target[w]] = Shim] /\ Goto(w, "save")
       ELSE ErrorIn(w) /\ UNCHANGED main
    /\ UNCHANGED <<aside, script, bootstrap, worldVars, pin, vault, held, target, faults, kills>>

SavePin(w) ==
    /\ At(w, "save")
    /\ pin' = Occupied(target[w])
    /\ Return(w, "ok")
    /\ UNCHANGED <<fileVars, worldVars, vault, held, target, faults, kills>>

\* UnhardenGH's second half.
Forget(w) ==
    /\ At(w, "forget")
    /\ vault' = FALSE
    /\ Return(w, IF w \in failed THEN "error" ELSE "ok")
    /\ UNCHANGED <<fileVars, worldVars, pin, held, target, faults, kills>>

-----------------------------------------------------------------------------
(* What goes wrong                                                           *)

\* A step that fails before it has changed anything. DetectDrift and the other
\* readers change nothing and have no action.
Fail(w) ==
    /\ pc[w] \in {"begin", "uninstall", "restore", "delete", "resolve", "check", "stat",
                  "move", "save", "forget"}
    /\ At(w, "begin") => MayBegin
    /\ faults < MaxFaults /\ faults' = faults + 1
    /\ ErrorIn(w)
    /\ UNCHANGED <<fileVars, worldVars, pin, vault, held, target, kills>>

\* removePathBootstrap stops half way.
FailTidy(w) ==
    /\ At(w, "tidy") /\ ~PathPins
    /\ faults < MaxFaults /\ faults' = faults + 1
    /\ \E n \in 0..3 : bootstrap' = {t \in bootstrap : t > n}
    /\ ErrorIn(w)
    /\ UNCHANGED <<main, aside, script, worldVars, pin, vault, held, target, kills>>

\* No token, or no keyring to put it in; a save that fails after its delete
\* loses the copy there was.
ImportBestEffort(w) ==                                   \* mutant
    /\ At(w, "import")
    /\ faults < MaxFaults /\ faults' = faults + 1
    /\ vault' \in {vault, FALSE}
    /\ Goto(w, "check")
    /\ UNCHANGED <<fileVars, worldVars, pin, held, target, kills>>
FailImport(w) ==
    /\ At(w, "import")
    /\ faults < MaxFaults /\ faults' = faults + 1
    /\ vault' \in {vault, FALSE}
    /\ ErrorIn(w)
    /\ UNCHANGED <<fileVars, worldVars, pin, held, target, kills>>

\* WriteFile fails and the binary is moved back; or that fails too.
WriteFailsNoRevert(w) ==                                 \* mutant
    /\ At(w, "write")
    /\ faults < MaxFaults /\ faults' = faults + 1
    /\ main' \in {[main EXCEPT ![target[w]] = f] : f \in {None, Cut}}
    /\ ErrorIn(w)
    /\ UNCHANGED <<aside, script, bootstrap, worldVars, pin, vault, held, target, kills>>
FailWrite(w) ==
    /\ At(w, "write") /\ HasDirectory(target[w])
    /\ LET t == target[w] IN
       \/ /\ faults < MaxFaults /\ faults' = faults + 1
          /\ aside[t] # None
          /\ main' = [main EXCEPT ![t] = aside[t]]
          /\ aside' = [aside EXCEPT ![t] = None]
       \/ /\ faults + 1 < MaxFaults /\ faults' = faults + 2
          /\ main' \in {[main EXCEPT ![t] = f] : f \in {None, Cut}}
          /\ UNCHANGED aside
    /\ ErrorIn(w)
    /\ UNCHANGED <<script, bootstrap, worldVars, pin, vault, held, target, kills>>

\* cw is killed, in the middle of WriteFile perhaps.
Kill(w) ==
    /\ kills < MaxKills /\ kills' = kills + 1
    /\ pc[w] \notin {"begin", "done"}
    /\ \/ UNCHANGED main
       \/ At(w, "write") /\ HasDirectory(target[w]) /\ main' = [main EXCEPT ![target[w]] = Cut]
    /\ Return(w, "killed")
    /\ UNCHANGED <<aside, script, bootstrap, worldVars, pin, vault, held, target, faults>>

-----------------------------------------------------------------------------
(* Package managers                                                          *)

MayUpgrade == "upgrade" \in Overlap \/ Idle
Newer(v) == v \in Version /\ \A p \in Place : latest[p] # None => latest[p] < v

\* pacman -Syu replaces the file at its path, shim or not.
PacmanUpgrade(p, v) ==
    /\ MayUpgrade /\ latest[p] # None /\ Newer(v)
    /\ main' = [main EXCEPT ![p] = v]
    /\ latest' = [latest EXCEPT ![p] = v]
    /\ UNCHANGED <<aside, script, bootstrap, current, otherPin, pin, vault, cwVars, faults, kills>>

\* mise upgrade: a new version in a directory of its own, named after it, is
\* current, and the old version's directory is removed or left.
MiseUpgrade(p, v) ==
    /\ MayUpgrade /\ current \in MisePlace
    /\ latest[p] = None /\ Newer(v)
    /\ current' = p
    /\ \E gone \in {{}, {current}} :
         LET Upgraded(f, new, removed) == [q \in Place |->
                IF q = p THEN new ELSE IF q \in gone THEN removed ELSE f[q]] IN
         /\ main' = Upgraded(main, v, None)
         /\ aside' = Upgraded(aside, None, None)
         /\ latest' = Upgraded(latest, v, 0)
    /\ UNCHANGED <<script, bootstrap, otherPin, pin, vault, cwVars, faults, kills>>

-----------------------------------------------------------------------------
Step(w) == \/ Begin(w) \/ ReadPin(w) \/ Restore(w) \/ DeletePin(w) \/ Tidy(w)
           \/ Resolve(w) \/ Import(w) \/ Check(w) \/ StatAside(w) \/ MoveAside(w)
           \/ WriteShim(w) \/ SavePin(w) \/ Forget(w)

Fault(w) == Fail(w) \/ FailTidy(w) \/ FailImport(w) \/ FailWrite(w) \/ Kill(w)

Next == \/ \E w \in Cw : Step(w) \/ Fault(w)
        \/ \E v \in Version : \/ \E p \in PacmanPlace : PacmanUpgrade(p, v)
                              \/ \E p \in MisePlace : MiseUpgrade(p, v)

Spec == Init /\ [][Next]_vars

-----------------------------------------------------------------------------
TypeOK ==
    /\ main \in [Place -> File]
    /\ aside \in [Place -> Version \cup {None}]
    /\ current \in Place
    /\ latest \in [Place -> Version \cup {0, None}]
    /\ {script, otherPin} \subseteq BOOLEAN
    /\ bootstrap \in SUBSET Trace
    /\ pin \in Pin \cup {None}
    /\ vault \in BOOLEAN
    /\ job \in [Cw -> Job]
    /\ pc \in [Cw -> {"begin", "uninstall", "restore", "delete", "tidy", "resolve", "import",
                     "check", "stat", "move", "write", "save", "forget", "done"}]
    /\ held \in [Cw -> Pin \cup {None}]
    /\ target \in [Cw -> Place \cup {ScriptPath, None}]
    /\ failed \in SUBSET Cw
    /\ result \in [Cw -> {"none", "ok", "error", "killed"}]
    /\ faults \in 0..MaxFaults /\ kills \in 0..MaxKills

\* Wherever a shim stands, the real binary it execs is beside it: no chain of
\* failures, kills, retries and upgrades makes a shim exec a shim, or nothing.
\* (installOccupied's order of stat, rename and write; Uninstall)
ShimHasBinary == \A p \in Place : main[p] = Shim => aside[p] \in Version

\* While drift detection has nothing to say of a pin, running the tool means
\* running its shim, and an Occupied Path shim finds the binary it execs: what
\* checkOne looks at is enough, although it never looks at the binary aside.
\* (checkOne, occupiedFileReplaced)
NoDriftIsGated ==
    pin # None /\ ~Drift =>
        \/ LookPath = ScriptPath
        \/ LookPath = pin.place /\ main[pin.place] = Shim /\ aside[pin.place] \in Version

\* A cw that returned, with an error too, has not left the user without gh: the
\* "best-effort revert" of an install that failed. Only a kill, or a second
\* failure, of the revert itself, can. (installOccupied)
ToolStaysOnPath == Idle /\ faults <= 1 /\ kills = 0 => LookPath # None

\* The shim stands at the path, or a package manager has since been there: a
\* newer binary took its place, or the version's directory is gone.
Shimmed(p) ==
    \/ main[p] = Shim
    \/ main[p] = latest[p] /\ aside[p] \in {v \in Version : v < latest[p]}
    \/ latest[p] = 0

\* A harden that reports success has put the shim in its place with the binary it
\* execs beside it, has the token in the vault and has pinned that place, whatever
\* failed before: no shim without a token, no pin without a shim. (HardenGH
\* imports, then installs, then saves the pin)
HardenDelivers ==
    [][\A w \in Cw : job[w] = "harden" /\ result[w] = "none" /\ result'[w] = "ok" =>
          /\ vault'
          /\ pin' = Occupied(target[w]) /\ target[w] \in Place
          /\ Shimmed(target[w])']_vars

\* The PATH bootstrap stays as long as another tool's Path Shim needs it, and a
\* successful uninstall of the last one leaves none of it. (Uninstall)
BootstrapFollowsPins ==
    [][/\ otherPin => bootstrap' = Trace
       /\ \A w \in Cw : job[w] = "uninstall" /\ result[w] = "none" /\ result'[w] = "ok"
                        /\ ~otherPin => bootstrap' = {}]_vars

-----------------------------------------------------------------------------
(* What the documents say and the code does not do.                          *)

\* harden/gh.go: "Re-running after gh has moved ... needs no manual unharden
\* first ... harden is always safe to just run again": it succeeds when gh is on
\* PATH and no operation fails.
HardenCanRerun ==
    \A w \in Cw : job[w] = "harden" /\ result[w] = "error" => faults > 0 \/ LookPath = None

\* harden/gh.go: "always safe": it does not undo an upgrade.
UpgradeKept == \A p \in Place : latest[p] \in {main[p], aside[p], 0, None}

\* harden/gh.go: after UnhardenGH "Shim removed, original binary restored".
UnhardenRestores ==
    [][\A w \in Cw : job[w] = "unharden" /\ result[w] = "none" /\ result'[w] = "ok" =>
          main'[current'] # Shim]_vars

\* shim/store.go: a shim "finally execs the real binary if allowed". So it has
\* one, when two cw overlap as well.
ShimsReachBinaries == ShimHasBinary
=============================================================================
