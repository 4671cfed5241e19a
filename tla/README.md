# A verification model of CmdWarden-Omarchy

CmdWarden puts a shim in front of command-line tools such as `gh`. A shim asks
the Session Agent which program launched it, looks that launcher's policy up,
has a human asked when policy says so, writes the decision to an audit log, and
only then runs the real tool with the token the agent keeps in a vault.

This directory models that program in TLA+. TLC checks the models on small
instances, and TLAPS proves for every instance the main safety properties of the
gate, of a gated call, of the policy store, of the agent's life cycle, of the
shims and of the vault. Paths below are relative to `src/internal/`.

## 1. The system

| Part | State | Operations | Talks to |
|---|---|---|---|
| Approval gate (`agentd/gate.go`, `agentd/qml/shell.qml`) | `gates`: request id -> channel of capacity 1 | `RequestGate`, `runGate`, `SubmitGateDecision` | shims and `cw gate respond` over D-Bus, one goroutine per call; the window it starts |
| Session grants (`agentd/session.go`) | `sessions`: pid and start time -> tool, class, last use | `recordSessionGrant`, `checkSessionGrant` | the gate; `/proc` |
| Launcher identity (`identity`, `agentd/identity.go`) | none | `Resolve`, `IsAlive`, `classify` | `/proc`, pacman, mise |
| Policy decision (`policy/decide.go`, `contracts`) | none | `Decide` | the shim |
| Policy store (`policy/store.go`) | `policy.json`; `storeMu` in each process | `Enroll`, `Unenroll`, `Set`, `GetEntry`, `Resolve`, `List` | every cw process and every shim, through the file |
| Shim dispatcher (`shimexec`) | none | `Run`: identity, policy, gate, audit, token, exec | the agent, the store, the log |
| Audit log (`audit`, `cliapp/audit.go`) | `gate-decisions.ndjson`; `writeMu` in each process | `Log`, `ReadAll`, `Prune`, `Follow` | every shim and `cw audit`, through the file |
| Shims and hardening (`shim`, `harden`) | the tool's path, the binary moved aside, `shims.json`, the PATH bootstrap | `Install`, `Uninstall`, `DetectDrift`, `HardenGH`, `UnhardenGH` | package managers, through the files; the vault |
| Vault (`secretservice`, `agentd/vault.go`) | the Secret Service's collections and items | `SaveNamed`, `LookupNamed`, `DeleteNamed` | the Secret Service and its prompts over D-Bus |
| gh token import (`ghauth`) | none | `Import` | gh's wallet, the vault |
| Agent life cycle (`agentd/agent.go`, `listener.go`, `agentclient`) | the activation socket, the D-Bus name | `Run`, `Stop`, `WakeSocket`, `WaitHealthy` | systemd, the bus |
| Classifier (`ghclassify`) | none | `Classify` | the shim |

What is hard in it:

- **Concurrency in the agent.** Each D-Bus call is a goroutine. An answer races
  a deadline, a closing window, a second answer and the end of the agent.
- **Processes that share files.** Each cw and each shim is a process. The two
  mutexes of the program (`storeMu`, `writeMu`) order calls within one process
  only; between processes there is nothing but `O_APPEND` and `rename`.
- **Identity over time.** A grant belongs to a process; pids are reused, shells
  between a launcher and its shim exit, binaries are upgraded under processes
  that run, and policy changes while a human thinks.
- **Starting and stopping.** An agent owns its bus name before its object can be
  reached, serves its socket before and after that, and shares the socket's path
  with systemd and with whoever runs an agent by hand.
- **Failure.** Writes fail half way, processes are killed, power is lost,
  package managers replace files, users ignore prompts.

What makes each part correct is stated as the properties of section 4; where
each hazard bites is listed with its line in `PROJECT.json`.

## 2. Modules

| Module | Models | Composition |
|---|---|---|
| `Policy` | levels, classes, decisions, the auto-allow matrix, class coverage | extended by the others |
| `GatePromise` | what `RequestGate` promises, without windows, channels, tables or deadlines | abstract |
| `ApprovalGate` | gate, session grants, windows, launcher processes, an agent that stops and starts | implements `GatePromise` |
| `GatedCall` | a gated command from shim to exec | `ApprovalGate` as an instance, plus policy changes and the audit row |
| `AtomicStore` | a map whose operations take effect in one step or fail | abstract |
| `PolicyStore` | `policy/store.go`, one file operation a step, in several processes | implements `AtomicStore` |
| `AuditLog` | `audit`, and `cw audit --follow` | alone |
| `ShimInstall` | `shim` and `harden` for one tool, and package managers | alone |
| `Vault` | the vault's calls to the Secret Service, and its prompts | alone |
| `AgentLife` | `Run`, the activation socket, `WaitHealthy`, the systemd units, and agents run by hand | alone |
| `LauncherWalk` | `identity.Resolve` read by read, and the processes it reads | justifies the one step of `ApprovalGate` |
| `GhClassify` | `ghclassify.Classify`, with its table | extends `Policy`; gives the classes that `GatedCall` takes |
| `ApprovalGateProofs` | theorems about the gate (section 6), among them that it implements `GatePromise` | extends `ApprovalGate` |
| `GatedCallProofs` | theorems about a gated call, and about the class of a command line | extends `GatedCall` and `GhClassify`, takes `ApprovalGateProofs` as an instance |
| `PolicyStoreProofs`, `AuditLogProofs`, `AgentLifeProofs`, `ShimInstallProofs`, `VaultProofs`, `LauncherWalkProofs` | theorems about the module of that name | each extends its module |
| `MC...` | values of the constants for TLC | extends the module |

A definition has the name of the code it stands for where there is one;
`PROJECT.json`'s `map` gives its lines. In each module a definition marked
"mutant" is a bug the code could have had: it is used by no action, and with it
in place of the definition it precedes, TLC reports the property violated.

### How state and actions correspond to the code

**ApprovalGate.** `pc[c]` is the place of call `c` in `RequestGate`; a goroutine
is cut at each mutex section and channel operation, which is where others can
see it. `pending` is `gates`, `resultCh[c]` the buffered channel, `press[c][n]`
the n-th `SubmitGateDecision` made from `c`'s window, itself in two steps
(`LookUp` under `gatesMu`, `Submit` on the channel). `TakeAnswer`, `WindowGone`
and `Timeout` are the three cases of the `select`; Go takes any that is ready.
`sessions` is keyed by pid and start time. `Return` is the deferred clean-up
and the recording of the grant in one step: nobody else can tell them apart.
`process`, `parent`, `Exit`, `Fork`, `Orphan` and `Become` are the processes outside.

**GatedCall.** `shim[c]` is the place in `shimexec.Run`; one action per external
call of it (agent, store, gate, log, token, exec), each of which may fail.

**PolicyStore.** `Lock`, `Load`, `WriteTemp`, `SyncTemp`, `Rename` are the
operations' steps; `Unlock` is the deferred `storeMu.Unlock`, so it is part of
every step that returns. `Torn` is a file whose unsynced content was lost.

**AuditLog.** Files are inodes, so that a shim that opened the log before a
prune renamed its copy over it appends to the file nobody sees any more. A row
is a head and a tail, so that a write can be cut short and a power loss can
cut what was not synced. `writeMu` is left out: it orders nothing here. A copy of
Follow that fails (`PollFails`) has written any part of the rest and leaves the
offset; `cut` records, for the properties only, what such copies have written.

**ShimInstall.** `main[p]` and `aside[p]` are the file at a path and
at `<path>.cmdwarden-real`. Each `cw` takes one file operation a step, and may
fail or be killed at each. `PacmanUpgrade` replaces a file at its path;
`MiseUpgrade` makes another version current and removes the old directory or
leaves it; a directory that was removed does not come back.

**Vault.** `call[h].at` is the Secret Service call that handler `h` makes next,
`prompts` are the prompts on the screen, `call[h].inbox` the signal channel of
`runPromptWithTimeout`. A prompt may be completed, dismissed or left open, also
after its handler gave up. `Watchers` is what godbus does with a signal: it
goes to every channel registered on the connection, so a handler may be given
the signal of another one's prompt; `crossed` records, for the properties only,
the places where it was. An unlock, at once or by a prompt, unlocks any part of
what it was asked to, and `seen` is what a search found unlocked or got unlocked.

**AgentLife.** `pc[a]` is the place of the process `a` in `Run`: it listens
(`listen`, `bind`), has no name yet (`bus`), owns it (`named`), has the Secret
Service session (`opened`), has exported its object (`ready`), and runs its
deferred calls (`ending`, `closing`). `owner` is the owner of the bus name,
`vault` and `exported` are what `OpenVault` and `Export` did, `path` is whose
socket the path names: the unit's, an agent's, or nobody's. `acked` and `stopCh`
are the two halves of `Stop`: the reply, and `requestStop` after the 150 ms.
`client[c]` is the place in `WaitHealthy` (`ping`, `wake`, `sent`, `accepted`,
`poll`), or in the one call that every other client makes; `via[c]` is who holds
the other end of its connection. `admin` is the place in `InstallUnits` or
`UninstallUnits`, and `ignored` what failed in the latter without ending it: the
errors of `disable` and `stop` are dropped (`agentclient/install.go:72`).

**LauncherWalk.** `pid`, `depth` and `exe` are the variables of `Resolve` and
`exeOf`; each action of a walk reads one file of `/proc` or the path it found
there. `process`, `upgraded` and the events `Exit`, `Reap`, `Fork`, `Exec` and
`Upgrade` are the machine. `seen` and `kin` record, for the properties only, what
a walk in one instant could have returned, and the ancestors the caller had,
while the walk went on.

**GhClassify.** `table` is the code's table, as sets of paths; `nonFlagTokens`,
`hasFlag`, `applyFlagOverrides` and `Classify` are its functions. The state is a
command line that is spelled word by word, so that a step compares a command
line with each of its extensions.

## 3. Abstractions

- No clock. A deadline may pass whenever its call waits; a grant carries
  whether it has been idle for longer than `sessionIdleTimeout`.
- In `ApprovalGate` the `/proc` walk is one step that ends at the launcher, at
  the reaper when a shell in between has exited, at the program that a shell in
  between has executed in its own place (`Become`), or in an error. A launcher
  that is no shell keeps its program as long as it lives. `LauncherWalk`
  shows that the walk, read by read, comes to one of these: what it returns is
  an ancestor under its own start time, and it is the launcher if that was the
  same one all the while (`ResolvesAnAncestor`), with two exceptions. If the
  launcher is the reaper, the walk may climb from a shell that exited to another
  orphan of the reaper's, and return what that one has become by exec. And a
  shell (or tmux) that mise installed, whose binary was removed or replaced while it
  runs, reads `fish (deleted)`, which is no name of `notLaunchers`, and is taken
  for a launcher by `miseTool` (`identity/identity.go:78` and `143`).
- In `LauncherWalk` a pid is not used again while a walk goes on (pids come
  round after all the others; WalkReuse shows what the start time could not
  repair); only shells replace their program by exec; orphans go to the one
  reaper; a process has exited before its parent reaps it.
- In `AgentLife` time is not counted: a deadline may pass at any moment, and
  `late` holds the clients whose deadline passed while what they wait for was
  on its way. A `Ping`'s own timeout while a ready agent is there is left out: it
  reads like an agent that is not ready yet. The Secret Service answers the agent's opening of a session, on
  which the code sets no deadline; if it did not, `Run` would wait there, and a
  stop request with it. `GatedCall` and `ApprovalGate` only know whether an
  agent is up.
- Words of a command line that `GhClassify`'s table does not hold, and that are
  no flag the code looks for, are all alike: one of each kind stands for them.
  A path is a sequence of words, where the code joins them by spaces: a single
  argument with a space in it, `"pr list"`, finds its entry in the code only.
- Renames and the creation of files are durable at once; contents are durable
  when synced. File system calls return.
- The pin of the one tool is read and written atomically in `ShimInstall`;
  how `shims.json` is saved is what `PolicyStore` shows of `policy.json`.
- `GatedCall` reads the policy and logs in one step each; what can go wrong in
  those steps is the subject of `PolicyStore` and `AuditLog`.
- The Secret Service answers every call (the code sets no deadline on them).
  Searching and unlocking are separate calls; labels are read in one step. The
  collections `login` and `default` neither come nor go while a call runs. A
  prompt's signal is not delivered once its handler has removed its match.
- Formatting, wording, rows' other fields, path names and arguments of
  commands are left out.

## 4. Runs

Runs in which TLC finds no error:

| Run | Question | Properties |
|---|---|---|
| GateSessions | Do two requests, with reused pids, orphans, idle grants, deadlines and closing windows, keep to what humans answered? | `SessionAllowBacked`, `SecretNeedsAnAnswer`, `KeepsPromise` (refinement), `TypeOK` |
| GateEnds | Does a request end, and does only its first answer count, when its window answers twice and the agent stops and starts? | `HumanDecides`, `LateAnswerRefused`, `EveryRequestEnds` (liveness) |
| CallAuthorized | Does a command run only if policy or a human let it, logged first and under the right name, while policy changes and steps fail? | `Authorized`, `LoggedBeforeEffect`, `SecretsAskEachTime`, `DenyNeverAsks`, `RowTellsWhoDecided` |
| CallEnds | Does every invocation end, whatever the agent does? | `EveryCallEnds` (liveness) |
| AuditKeeps | Is a row `Log` reported durable kept, and does Follow show nothing twice but what a copy that failed wrote? | `RowsKept`, `FollowNeverRepeats` |
| StoreAtomic | Is the store atomic for one changing process and its readers? | `ActsAtomically` (refinement), `AlwaysReadable`, `EnrollmentIsExplicit`, `EveryOperationReturns` (liveness) |
| ShimFaults | What is left after any three commands with faults, a kill and an upgrade? | `ShimHasBinary`, `NoDriftIsGated`, `ToolStaysOnPath`, `HardenDelivers`, `BootstrapFollowsPins` |
| VaultCalls | Do two calls of the agent, on its one connection, release, clear and leave alone the right items, but for what one takes from the other's prompt, and return? | `ReleasesOwnName`, `ClearsEveryCollection`, `WrongWalletDropsNothing`, `ForeignItemsUntouched`, `EveryCallReturns` (liveness) |
| LifeReached | Is the agent that is reached the only one, ready and with its vault; does a client bring it up; does it stop when told, and stay down when its units are removed by a systemctl that works? | `ReadyOwnsName`, `HealthyHasVault`, `WokenGetsHealthy`, `UninstalledStaysDown`, `EveryWaitEnds`, `StopIsActedOn` (both liveness) |
| WalkResolves | Does `Resolve` return a launcher the caller had, and fail only for a cause, while processes come and go? | `ResolvesAnAncestor`, `FailsForCause` |
| ClassifyGh | Is no command line run unasked that prints a secret or, at Read, has a verb that changes something; and does a class only rise? | `UnaskedIsHarmless`, `ClassOnlyRises`, `FlagEndsThePath` |

Each module's `TypeOK` holds in its runs too. GateSessions checks that of
`ApprovalGate`, which the proofs rest on; to check another, add it to the
`INVARIANT` line.

A run in which TLC shows that the code departs from a comment of its own
(`PROJECT.json`'s finding quotes it):

| Run | Property | What happens |
|---|---|---|
| ClassifyDeployKey | `DeployKeyOverridden` | `gh repo deploy-key add` and `delete` are classified `read`, so levels Read and Trusted run them unasked. The comment says they are overridden; nothing overrides them (`ghclassify/ghclassify.go:48`). |

Further configurations, each of which shows a departure, or a limit, when it is
run by hand (`tlc -config X.cfg M`). Where several properties are named, all but
the first are in the configuration as comments, to take the first one's place:

| Configuration | Module | Property | What happens |
|---|---|---|---|
| GateDropsAnswer | MCApprovalGate | `AcceptedAnswerActedOn` | `SubmitGateDecision` reports success for an answer the deadline then throws away: the `ctx.Done()` case (`agentd/gate.go:154`) does not drain the channel, the closed-window case does. |
| GateForgetsGrant | MCApprovalGate | `GrantPersists` | A second session grant to the same launcher replaces the first (`agentd/session.go`). |
| CallUnloggedGrant | MCGatedCall | `GrantIsLogged` | A grant is live although its audit row failed and its own command was denied (`agentd/gate.go:68`). |
| CallOrphans | MCGatedCall | `GrantKeepsIdentity`, `OnlyTheReaperInherits` | The shim and the agent each resolve the caller (`agentd/gate.go:59`). A shell that exits in between leaves the grant with the reaper; one that executes a program in between (`bash -c 'gh ... & exec vim'`) leaves it with that program, a third one. |
| AuditTornLine | MCAuditLog | `RowIsALine` | A row appended behind a short write is on no line of its own (`audit/audit.go:77`). |
| AuditFollowSkips | MCAuditLog | `FollowShowsNew`, `FollowMissesNothing`, `PruneKeepsNewer`, `FollowWritesOnce` | After a prune, Follow waits behind the end of the shorter file (`audit/audit.go:173`); a row logged between the listing and the Stat is shown by neither (`cliapp/audit.go:23`); a row logged between Prune's reading and its rename is lost, though `Log` reported it durable; when a copy fails half way, the next tick writes its first half again (`audit/audit.go:174`). |
| StoreLostUpdate | MCPolicyStore | `UnenrollRemoves` | A Set of another key in another process brings an unenrolled entry back (`policy/store.go:24`). |
| ShimRerun | MCShimInstall | `HardenCanRerun`, `UpgradeKept` | After mise has removed the version that was hardened, harden fails on the old pin, every time (`harden/gh.go:35`); harden after a pacman upgrade renames the old binary over the new one (`shim/install.go:139`). |
| ShimUnharden | MCShimInstall | `UnhardenRestores` | A shim whose pin could not be saved survives an unharden that reports success (`shim/install.go:80`). |
| ShimOverlap | MCShimInstall | `ShimsReachBinaries` | Two installs at once move a shim over the real binary (`shim/install.go:57`). |
| ClassifyDeployKey | MCGhClassify | `LogHowever` | `gh run view --log=true` prints the log and is classified `read`: `hasFlag` compares whole words (`ghclassify/ghclassify.go:276`). |
| VaultCrossedPrompts | MCVault | `AlwaysReleasesOwnName`, `DeletesEveryItem` | Two calls of the agent wait for unlock prompts on its one connection; one takes the other's signal and releases another name's secret (`secretservice/secretservice.go:307`). An unlock that leaves some items locked drops them from the search, and `DeleteNamed` reports success while they stay (`secretservice/secretservice.go:208`). |
| VaultTwoCopies | MCVault | `AtMostOneItem`, `LockedWalletDropsNothing` | Two saves of one name clear before either creates, in different collections (`secretservice/vault.go:144`); a save deletes the copy in login and is then refused by a locked CmdWarden collection (`secretservice/vault.go:140`). |
| LifeDoctors | MCAgentLife | `DoctorBringsItUp`, `WokenByFreshAgent` | A first Ping between `RequestName` and `Export` gets an error `WaitHealthy` does not retry (`agentclient/client.go:137`); an agent that is ending still answers PONG. |
| LifeSocket | MCAgentLife | `SocketStaysReachable`, `InstallMakesReachable` | An agent run by hand takes the socket's path from systemd and unlinks it at its end (`agentd/listener.go:35`); `cw agent install` does not bring it back while the unit is active. |
| LifeReached | MCAgentLife | `UninstallReverses` | `cw agent uninstall` drops the errors of `systemctl disable` and `stop` and reports that the units are removed, with the socket or the agent up (`agentclient/install.go:72`). |
| LifeFirstUse | MCAgentLife | `FirstUseStarts` | Only `cw doctor` connects to the socket: a shim's call with no agent up fails (`cliapp/agent.go:64`). |
| WalkUpgraded | MCLauncherWalk | `FindsLauncher`, `FirstAncestor`, `NeverAShell`, `HashOfWhatRuns` | After an upgrade of a shell or of a terminal that runs, `Resolve` fails for everything below it (`identity/identity.go:73`); a launcher that exits during the walk is passed by; an upgraded shell in mise's tree is taken for the launcher (`identity/identity.go:35` says none ever is); the hash is of what the path holds by then. |
| WalkReuse | MCLauncherWalk | `ResolvesAnAncestor` | If a pid could come round again during one walk, one process's program would be paired with another's start time. |

### Bounds, and why they are enough

- **GateSessions**: two calls, two pids one of which is the reaper, one reuse of
  a pid (`MaxStart = 1`), one answer per window. A grant, its use, and the
  reuse of the pid in between need two calls and one reuse; the three commands
  cover a class the grant covers, one it does not, a secret, and another tool.
- **GateEnds**: one call with two answers, the double click that the comment in
  `SubmitGateDecision` names; an agent that may stop and start at any time.
- **CallAuthorized**: two calls, so that one may ride on the other's grant, one
  policy change anywhere, entries Deny, Read and Full. **CallEnds**: one call:
  an invocation waits for nothing another one does.
- **AuditKeeps**: two writers, two prunes, one power loss: the second prune
  reads what the first left while a writer has the old file open. `listed` and
  `base`, histories that only the properties of AuditFollowSkips read, are left
  out of TLC's view of a state.
- **StoreAtomic**: two changing calls that contend for the lock, one reader in
  another process, two keys, one power loss.
- **ShimFaults**: three commands in a row (a failed one, its retry, an undo), a
  pacman path and two mise versions, two faults (one failure, and the failure
  of its clean-up), one kill. Commands do not overlap: ShimOverlap does that.
- **VaultCalls**: two handlers on one connection, as the agent's are: each may be
  given the signal of the other's prompt. Five collection layouts (with and
  without login, default alias and CmdWarden), every pair of calls of the seven
  kinds, collections locked or not, any part of them unlocked.
- **LifeReached**: one `cw doctor`, an agent run by hand and two that systemd may
  start one after the other, one stop request, one failure or kill, one install
  or uninstall. A second activated agent is what a restart and a stop that
  crosses a wake-up need; the agent run by hand is the second claimant of name
  and path. A shim's single call reads what the doctor's first Ping reads, and
  LifeFirstUse has it.
- **WalkResolves**: any tree over four pids, so up to three ancestors of which
  a walk may visit two (`MaxDepth = 2`, for the code's 64), and three events. An
  exit, its reaping and the reuse of the pid are three, and so are an exit, an exec
  and an upgrade between any two reads. There is a program of each
  kind, and two that pacman owns, one of them the reaper. With `MaxDepth = 3`
  the walk can visit every ancestor (to be run by hand, with the same result); the
  theorems of section 6 hold for every depth, tree and number of events.
- **ClassifyGh**: the whole table; four words are one more than its longest path.
  Operands are words that are no command anywhere, and words that are one in
  another place. `Changes` looks for one of 49 verbs that change something, listed
  apart from the table, in a line's second word; what a third word does below a
  noun that the table gives as a whole is ClassifyDeployKey's question.

Deadlock is not checked where every process may have ended: calls return,
commands exit, the agent may be down for good, events and words run out. `GateEnds` is the exception: a
window that stays and an agent that can always start again keep it going.

### Fairness

- `ApprovalGate!FairSpec`: the goroutines of a running agent are scheduled and
  the five-minute deadline of `runGate` passes. Nothing is assumed of the
  human, of the window, or of anybody restarting the agent.
- `GatedCall!FairSpec`: shim processes run and the six-minute deadline of the
  D-Bus call passes. Nothing is assumed of the agent.
- `PolicyStore!FairSpec`: a running operation's file system calls return.
- `Vault!FairSpec`: the Secret Service answers calls and the deadline of
  `runPromptWithTimeout` (60 s, 3 s when a collection is created) passes. The user need not complete a prompt.

- `AgentLife!FairSpec`: agents run and the bus and the Secret Service answer
  them; clients run and the deadlines of `Ping`, `WakeSocket` and `WaitHealthy`
  pass. Nothing is assumed of systemd, of a reply over the socket, or of whoever
  types commands: `EveryWaitEnds` holds though no agent is ever started.

## 5. What the properties rest on

`KeepsPromise` is the refinement of `GatePromise`: the mapping lets an outcome
exist once the call returned, takes the answers given in a window from `press`,
and the grants held from `sessions`. `ActsAtomically` is the refinement of
`AtomicStore` by the identity on the file. It is about one process that changes
the store and any that read it, as the code promises no more; StoreLostUpdate is
what happens without that. `RowsKept` says exactly which rows survive: those in
the file the path names, or in the copy the last prune had read.

## 6. Proofs

The theorems hold for any sets of calls, processes, paths, names and commands
and for any bounds that satisfy the assumptions each module states of its
constants: sentinels (`None`, `Torn`, `Cut`) are no data, sets that name
different things are disjoint, functions have the domains they are used on.
Where a theorem assumes more, the reason is in its section. Each module follows
one argument: an inductive invariant `IInv`, of named conjuncts; a step lemma for
each conjunct, with one step for each action that can disturb it; `Spec => []IInv`;
and the theorems from that.

### ApprovalGateProofs

| Theorem | Statement |
|---|---|
| `TypeCorrect` | `Spec => []TypeOK` |
| `SessionAllowIsBacked` | `Spec => []SessionAllowBacked` |
| `HumanHasDecided` | `Spec => []HumanDecides` |
| `SecretsNeedAnAnswer` | `Spec => []SecretNeedsAnAnswer` |
| `LateAnswersAreRefused` | `Spec => LateAnswerRefused` |
| `GateKeepsPromise` | `Spec => KeepsPromise`: the gate implements `GatePromise` |

`SessionAllowBacked` is not inductive: `CheckSessionGrant` passes a call on what
the table holds, so the table must be backed by decisions, those by the
channel, and that by the windows. The inductive invariant `IInv` is that chain:

1. `TypeOK`;
2. `AnswerInv`: a call that has not arrived has no window and no answers, an
   answer "Allow for Session" was offered, and it is not offered for a secret;
3. `BufferInv`: what `resultCh` holds is the one answer that was delivered from
   the call's own window;
4. `DecisionInv`: a decision taken for the human's is the one in the buffer;
5. `GrantInv`: each grant in `sessions` is that of a call which returned
   `session-grant` for the process with exactly that pid and start time;
6. `SessionAllowBacked`.

`KeyOfInjective` is where the start time in `sessionKey` is needed, and
`BufferStable` and `DoneStable` say that a filled channel and a finished call
stay as they are. `SecretsNeedAnAnswer` follows from `IInv` with the offer that
both callers make.

The refinement is proved under `IInv` with `ProgressInv`, which says how far a
call has come in `RequestGate` and that only a call that waits or is about to
return is pending. `Resolve` maps to `Account`, `Answers` to `Give`,
`CheckSessionGrant` to `UseSession` or, where it drops a grant, to a `Fail` of no
call, `Return` to `Decided`, `GrantSession` or `Fail`, `CannotShow` to `Fail`,
and `Crash` to a `Fail` of every call in flight; all other steps are stutters.

### GatedCallProofs

| Theorem | Statement |
|---|---|
| `TypeCorrect` | `Spec => []TypeOK` |
| `OnlyAuthorizedRun` | `Spec => []Authorized` |
| `EffectsAreLogged` | `Spec => []LoggedBeforeEffect` |
| `SecretsAreAskedFor` | `Spec => []SecretsAskEachTime` |
| `DenyIsFinal` | `Spec => []DenyNeverAsks` |
| `RowsTellWhoDecided` | `Spec => []RowTellsWhoDecided` |
| `UnaskedLinesAreHarmless` | `LineSpec => []UnaskedIsHarmless` |
| `LongerLinesRise` | `LineSpec => ClassOnlyRises` |
| `FlagSettlesThePath` | `LineSpec => FlagEndsThePath` |
| `SecretLinesAreAskedFor` | a gh command line that prints a secret runs only at level Full or on an approval of its own |

The first part shows that each step of a gated call is one of `ApprovalGate` or
leaves the gate alone, so that the gate inside it has the invariants proved of
`ApprovalGate`. `CallInv` is the shim's part: what it asked the gate is what
policy told it to ask (`AskedInv`), its outcome is policy's or the gate's
(`OutcomeInv`), and it is past its audit row only with the row logged
(`LogInv`). A row is that outcome, so `RowsTellWhoDecided` follows from the same
invariant. That the agent accounts a request to the launcher the shim had found
is no theorem: it is false (CallOrphans).

The second part is about `GhClassify`, for command lines of every length. Its
invariant, `WordInv`, is only that the line is a sequence of words; the work is
in the lemmas about `Classify`. `FlagFree` is the number of words before the
first flag; a path `Settles` a line when it is the longest of the table that
those words start with, and a line that no path settles is `unknown`. Of the
table the proofs need three facts: `TableClasses`, that no path has two classes,
and `OnlyForward`, that just one path goes on from another (`codespace ports
forward`, a secret, from `codespace ports`), and `ReadVerbs`, that no read path is
called by a verb that changes something. So a word more leaves the settling
path as it is, or goes on to that one (`SettlesOn`). `FlagAssumption` is that no
word of the table is a flag; ClassifyGh evaluates it. The walk over prefixes is
a bounded maximum (`LongestIs`), so that no induction over the line is needed.

`SecretLinesAreAskedFor` joins the two: for any assignment of command lines to
calls, a call that was put as the class of its line, and whose line prints a
secret, has run only at Full or because a human allowed that one call.

### PolicyStoreProofs

| Theorem | Statement |
|---|---|
| `TypeCorrect` | `Spec => []TypeOK` |
| `StoreReadable` | `Spec => []AlwaysReadable` |
| `OneWriterIsAtomic` | `OneWriter` implies `Spec => ActsAtomically`: the store implements `AtomicStore` |
| `EnrollmentStaysExplicit` | `Spec => []EnrollmentIsExplicit` |

`SyncedInv` says that only what was synced gets the store's name, so that a
power loss leaves it readable; `LockInv`, that an operation which runs holds the
lock of its process. `OneWriter`, that the operations which change the store are
in one process, is what the lock needs to be enough: then the copy that an
operation saves is the store with its change in it until the rename (`CopyInv`),
and the rename is the step of `AtomicStore`. Without `OneWriter` the theorem is
false, as StoreLostUpdate shows. `EnrollmentStaysExplicit` does not need it: what
concurrent processes bring back was enrolled once (`BackedInv`).

### AuditLogProofs

| Theorem | Statement |
|---|---|
| `AuditLogInvariant` | `Spec => []KInv` |
| `AuditLogRowsKept` | `Spec => []RowsKept` |
| `AuditLogFollowNeverRepeats` | `Spec => []FollowNeverRepeats` |

They hold for any number of shims, prunes, followers, crashes and power losses,
and assume nothing but what `AuditLog` says of its constants.

What Prune keeps is a recursive function of the rows it read (`Recent`). The
provers cannot do induction over rows; each lemma about `Recent` is proved by
the least number of rows for which it would fail (`RecentKept`, `RecentAgrees`,
`RecentGrows`, `RecentOnce`, `RecentAll`), from the equation `RecentEquation`.

`RowsKept` looks at the file the path names, which a prune's rename replaces by
one that nobody looked at before. `KInv` therefore speaks of all files:

1. `PathOK` and `OpenOK`: neither the path nor a shim has a prune's file before
   its rename, and what a shim wrote is in the file it opened, durable once its
   `Log` returned, whether or not the path still names that file;
2. `PastOK`: the rows of before are durable in the first file;
3. `PrunerOK`: a prune has read every recent row of before, its temp file is what
   it kept of the rows it read, and that is durable when the path names it;
4. `TypeOK`, and two conjuncts it rests on, `FdOK` and `TempUnwritten`.

`FollowNeverRepeats` compares what was copied out with a log that may become
another, shorter file under Follow's offset. `FInv` adds to `KInv` where a piece
stands:

1. `LogOnce`: nothing is twice in the log, and nothing old in a pruned one;
2. `CopiesAgree`: a piece has one place in all the copies that may still replace
   the log, and in a pruned log too; in the log as it was before the first
   prune its place is that one or a later one, as a prune only leaves rows out;
3. `ShownOK`: what was shown stands before the offset in the log and in every such
   copy, so what Follow reads next is none of it;
4. `FreshOK`: what a shim has not written yet is in no file and was not shown;
   and `NamedOnce`, that the log is empty until the path names it.

A copy that fails starts behind the offset too, so by `ShownOK` it writes nothing
that was shown: that is `CutOK`, the last conjunct.

Both were checked by TLC on the instance of AuditKeeps before they were proved.

### LauncherWalkProofs

| Theorem | Statement |
|---|---|
| `WalkInvariant` | `Spec => []IInv` |
| `WalkResolvesAnAncestor` | `Spec => []ResolvesAnAncestor` |
| `WalkFailsForCause` | `Spec => FailsForCause` |

All three assume `~MayReuse`: no pid is used again while a walk goes on. Without
it they are false, as WalkReuse shows; pids come round only after all the others.
The process tree, the depth, the programs and the number of events are any.

The ancestors are a recursive function of the process table. That it satisfies
its own equation (`AncestorsEquation`) is proved by least counterexample, and so
is what an exit does to it: the chain of ancestors stays as it is, or is cut
below the process that exited and goes on at the reaper (`CutAt`).

Neither property is inductive. A walk holds one pid, and what it returns is
settled by the reads to come; so `IInv` says of each walk, besides types and
`WorldOK` (orphans have a running parent, the reaper stays):

1. `ClimbOK`: the walk is on the caller's chain, or the reaper is an ancestor of
   it; and there are levels of processes, from the one the walk is at to the
   top, that are all recorded as ancestors and closed under "parent": wherever a
   re-parented walk goes, it goes to an ancestor;
2. `ReadOK`: the program that was read is that of an ancestor, and the link is
   stale only after an upgrade;
3. `SteadyOK`: if the caller's ancestry led to one launcher all the while, the walk
   is still on its way to it, or stops at the upgraded binary of a shell;
4. `AheadOK`: if there was a launcher at each instant and no ancestor exited, the
   launcher of some instant is still ahead, within `maxWalkDepth`. `FailsForCause`
   follows from it.

The proof attempt corrected the property: that a walk always returns the one
launcher its ancestry led to is false where that launcher is the reaper (section
3), which takes a third hop, one more than `MaxDepth = 2` allows.

### AgentLifeProofs

| Theorem | Statement |
|---|---|
| `TypeCorrect` | `Spec => []TypeOK` |
| `ReadyAgentOwnsName` | `Spec => []ReadyOwnsName` |
| `HealthyAgentHasVault` | `Spec => []HealthyHasVault` |
| `WokenIsHealthy` | `Spec => []WokenGetsHealthy` |
| `UninstalledIsDown` | `Spec => []UninstalledStaysDown` |

`NameInv` holds the name from `RequestName` on, not only once the agent is ready:
that is what makes a second agent fail. `VaultInv` says that what the bus reaches
has passed `OpenVault`, and `DownInv` that from `disable` on nothing replaces the
agent that `systemctl stop` waits for, unless one of the two failed and was ignored. `CalmInv` is about a start that nothing
disturbs, be it by a failed step, a stop, a change of the units or an agent run by
hand: the agent that runs is the only one and is not ending (`CalmAgents`), and a doctor that was
accepted, or polls, was accepted by it (`CalmClients`), so each error it is
answered with comes before `Export` and is retried, until its deadline.

### ShimInstallProofs

| Theorem | Statement |
|---|---|
| `TypeCorrect` | `Spec => []TypeOK` |
| `EveryShimHasBinary` | `Spec => []ShimHasBinary` |
| `NoDriftMeansGated` | `Spec => []NoDriftIsGated` |
| `OneFaultKeepsTool` | `Spec => []ToolStaysOnPath` |
| `HardenHasDelivered` | `Spec => HardenDelivers` |
| `BootstrapHasFollowed` | `Spec => BootstrapFollowsPins` |

All six assume that no two cw processes overlap (`"cw" \notin Overlap`):
ShimOverlap shows two installs that leave a shim in the binary's place. Package
managers may act between any two commands, and during one where `Overlap` says so.
`BesideInv` says that beside a shim, and beside what is left of one, stands its
binary; `StageInv`, what a process knows at each place of its command, such as
that the binary is still aside when it writes the shim; `PathInv`, that the tool is
off PATH only while an install has it aside, or after a second fault. `SaveInv`
is for `HardenDelivers`: who comes to save a pin has its shim in place, or a package
manager was there since, which `AgeInv` tells by the age of the binaries.
`NoDriftMeansGated` needs `BesideInv`: `checkOne` looks at the path and at the file
there, and not at the binary that the shim execs.

### VaultProofs

| Theorem | Statement |
|---|---|
| `TypeCorrect` | `Spec => []TypeOK` |
| `OwnNameReleased` | `Spec => []ReleasesOwnName` |
| `EveryCollectionCleared` | `Spec => []ClearsEveryCollection` |
| `NothingDroppedForWallet` | `Spec => []WrongWalletDropsNothing` |
| `ForeignItemsStay` | `Spec => ForeignItemsUntouched` |

They hold for any number of calls on any connections, so also where calls of the
agent are given the signals of each other's prompts. `WaitInv` says that a handler
waits for its own prompt, and that a signal it was sent says what that prompt did,
or is a peer's and recorded in `crossed`. `FoundInv`: what it found is under the
name it looks for, or came by a peer's unlock prompt and under the name that peer
looks for (`CameBy`); `SeenInv`: what its search saw is still to be cleared or is
gone, unless it took a peer's signal for the answer to a deletion; `DroppedInv`:
nothing is deleted before there is a collection for the new item; `PromptInv`: what
a prompt may still do once its handler has given up. The conjuncts lean on each
other across handlers: what a call takes from a peer is what `PromptInv` says of the
peer's prompt. `ServiceOK` is what they need of the Secret Service's steps.

### Only model-checked

- Liveness, which is out of the prover's reach: `EveryRequestEnds`,
  `EveryCallEnds`, `EveryOperationReturns`, `EveryCallReturns`, `EveryWaitEnds`,
  `StopIsActedOn`.
- The properties that the code does not have (the second and third tables of
  section 4), which TLC refutes.

## 7. Not modelled

- How gh's wallet is read: the parsing of `hosts.yml` and of the keyring's
  values in `ghauth`. `Vault` has the calls it makes, `ShimInstall` where
  `HardenGH` makes it.
- The transport session of `secretservice` (its key exchange and encryption):
  data, not control; a session that is open or not is in `AgentLife`.
- How `classify` tells a path of mise's or of pacman's: `LauncherWalk` takes the
  kind of a program as given, and what happens to it when it is upgraded.
- The command line and what it prints: argument parsing, listings, wording. What
  its commands do to the files and to the agent is in the modules above.

## 8. Plan

What could still be added:

1. `ShimInstall`: what a Path Shim promises once its pinned binary has moved.
2. The D-Bus call of a shim and the life of the agent in one module: today
   `GatedCall` knows only that an agent is up, and `AgentLife` only that it is
   called.
3. Several tools in `ShimInstall`, with `shims.json` saved as `PolicyStore` saves.
