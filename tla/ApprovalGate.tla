----------------------------- MODULE ApprovalGate -----------------------------
(* The Session Agent's approval gate and session grants:                     *)
(* internal/agentd/gate.go, session.go, the caller resolution of identity.go *)
(* and the window of qml/shell.qml.                                          *)
(*                                                                           *)
(* Every D-Bus method call runs in a goroutine of its own, so RequestGate    *)
(* calls, the SubmitGateDecision calls of the windows, launchers that exit,  *)
(* deadlines that pass and an agent that dies interleave. A goroutine is cut *)
(* where another one can see it: at each mutex section and channel operation.*)
(*                                                                           *)
(* Time is not counted: a deadline (gateTimeout) may pass whenever a call    *)
(* waits, and a grant carries whether it has been idle for longer than       *)
(* sessionIdleTimeout instead of its lastUsed.                               *)
(*                                                                           *)
(* A definition marked "mutant" is a bug the code could have had; no action  *)
(* uses it.                                                                  *)
EXTENDS Policy

CONSTANTS
    Call,       \* RequestGate calls, each made by a shim process of its own
    Pid,        \* process ids of launchers
    ReaperPid,  \* the process orphans are re-parented to (systemd --user)
    Command,    \* the [tool, class] pairs that get invoked
    MaxStart,   \* bound: processes ever started under one pid
    MaxPress,   \* bound: answers given in one window; shell.qml lets 1 through
    MayStop,    \* bound: whether the agent may stop or die
    None        \* nil

ASSUME PidAssumption == ReaperPid \in Pid
ASSUME BoundAssumption == MaxStart \in Nat /\ MaxPress \in Nat /\ MayStop \in BOOLEAN
ASSUME NoneAssumption == None \notin [pid: Pid, start: 0..MaxStart]
                      /\ None \notin [tool: {c.tool : c \in Command}, class: Class, idle: BOOLEAN]
ASSUME CommandAssumption == \A c \in Command : c = [tool |-> c.tool, class |-> c.class]
                                             /\ c.class \in Class

Answer == {"deny", "allow-once", "allow-session"}
Tool == {c.tool : c \in Command}

\* A process is told from a later one with its pid by its start time.
Launcher == [pid: Pid, start: 0..MaxStart]
Reaper == [pid |-> ReaperPid, start |-> 0]
Grant == [tool: Tool, class: Class, idle: BOOLEAN]

\* SubmitGateDecision as the window's cw gate respond sees it: not made, on
\* its way, holding the pending gate it looked up, then one of its outcomes:
\* put into resultCh for the request to return, ignored because another answer
\* came first (it is dropped while that one is in resultCh, and nobody receives
\* it once that one was taken; success is reported all the same), or an error.
PressState == {"none", "sent", "found", "delivered", "ignored", "refused"}
Press == [state: PressState, answer: Answer \cup {"none"}]

VARIABLES
    up,        \* the agent process is running
    process,   \* [Pid -> what runs under the pid, or what ran there last]
    parent,    \* [Call -> process the caller's /proc walk ends at, None before]
    command,   \* [Call -> tool and class asked about]
    offer,     \* [Call -> offerAllowSession]
    pc,        \* [Call -> place in RequestGate]
    launcher,  \* [Call -> the launcher resolved from sender, None on error]
    pending,   \* gates: calls whose request id SubmitGateDecision can find
    resultCh,  \* [Call -> the buffered answer]
    window,    \* [Call -> the qs process]
    press,     \* [Call -> [1..MaxPress -> Press]]
    decision,  \* [Call -> what RequestGate returns]
    sessions   \* [key -> grant]

requestVars == <<parent, command, offer>>
callVars == <<pc, launcher, decision>>
gateVars == <<pending, resultCh, window, press>>
gvars == <<up, process, requestVars, callVars, gateVars, sessions>>

-----------------------------------------------------------------------------
IsAlive(l) == process[l.pid] = [start |-> l.start, up |-> TRUE]

\* sessions is keyed by pid and start time together.
Key == Pid \X (0..MaxStart)
sessionKeyOfPid(pid, startTime) == <<pid, 0>>            \* mutant
sessionKey(pid, startTime) == <<pid, startTime>>
KeyOf(l) == sessionKey(l.pid, l.start)

\* What a walk up /proc from the caller's pid can find: the process its
\* ancestry leads to, or an error (the caller is gone, classifying failed).
\* LauncherWalk takes it read by read.
ResolveLauncher(c) == {parent[c], None}

DecisionUnmapped(answer) == answer                       \* mutant
DecisionOf(answer) == IF answer = "allow-session" THEN "session-grant" ELSE answer

\* The answers a window has keys and buttons for.
OfferedAlways(c) == Answer                               \* mutant
Offered(c) == IF offer[c] THEN Answer ELSE Answer \ {"allow-session"}

\* g with lastUsed a long time ago, or just now.
Renewed(g, idle) == [tool |-> g.tool, class |-> g.class, idle |-> idle]

\* The gates map and sessions map of an agent that has just started.
NoSessions == [k \in Key |-> None]

InFlight(c) == pc[c] \notin {"idle", "done"}

-----------------------------------------------------------------------------
Init ==
    /\ up = TRUE
    /\ process = [i \in Pid |-> [start |-> 0, up |-> TRUE]]
    /\ parent = [c \in Call |-> None]
    /\ command \in [Call -> Command]
    /\ offer = [c \in Call |-> FALSE]
    /\ pc = [c \in Call |-> "idle"]
    /\ launcher = [c \in Call |-> None]
    /\ decision = [c \in Call |-> "none"]
    /\ pending = {}
    /\ resultCh = [c \in Call |-> "none"]
    /\ window = [c \in Call |-> "none"]
    /\ press = [c \in Call |-> [n \in 1..MaxPress |-> [state |-> "none", answer |-> "none"]]]
    /\ sessions = NoSessions

-----------------------------------------------------------------------------
(* Processes outside the agent.                                              *)

\* A live launcher runs a gated tool.
Invoke(c, l) ==
    /\ parent[c] = None
    /\ IsAlive(l)
    /\ parent' = [parent EXCEPT ![c] = l]
    /\ UNCHANGED <<up, process, command, offer, callVars, gateVars, sessions>>

\* A shell between the launcher and the caller exits: the walk up from the
\* caller, if it is still to be made, leads past it to the reaper.
Orphan(c) ==
    /\ parent[c] \notin {None, Reaper}
    /\ pc[c] \in {"idle", "resolve"}
    /\ parent' = [parent EXCEPT ![c] = Reaper]
    /\ UNCHANGED <<up, process, command, offer, callVars, gateVars, sessions>>

\* A launcher exits; the kernel re-parents the callers under it.
Exit(i) ==
    /\ i # ReaperPid
    /\ process[i].up
    /\ process' = [process EXCEPT ![i] = [start |-> @.start, up |-> FALSE]]
    /\ parent' = [c \in Call |->
                    IF parent[c] = [pid |-> i, start |-> process[i].start]
                    THEN Reaper ELSE parent[c]]
    /\ UNCHANGED <<up, command, offer, callVars, gateVars, sessions>>

\* A shell between launcher l and the calls S executes a program, under its pid
\* and start time (bash -c 'gh ... & exec vim'): what no walk stopped at before is
\* the launcher from now on. A launcher keeps its own program as long as it lives.
Become(i, l, S) ==
    /\ ~process[i].up
    /\ process[i].start < MaxStart
    /\ \A c \in S : parent[c] = l /\ pc[c] \in {"idle", "resolve"}
    /\ process' = [process EXCEPT ![i] = [start |-> @.start + 1, up |-> TRUE]]
    /\ parent' = [c \in Call |->
                    IF c \in S THEN [pid |-> i, start |-> process'[i].start] ELSE parent[c]]
    /\ UNCHANGED <<up, command, offer, callVars, gateVars, sessions>>

\* The kernel gives a free pid to a new launcher.
Fork(i) ==
    /\ ~process[i].up
    /\ process[i].start < MaxStart
    /\ process' = [process EXCEPT ![i] = [start |-> @.start + 1, up |-> TRUE]]
    /\ UNCHANGED <<up, requestVars, callVars, gateVars, sessions>>

\* No covered call for longer than sessionIdleTimeout.
GoIdle(k) ==
    /\ sessions[k] # None
    /\ sessions' = [sessions EXCEPT ![k] = Renewed(@, TRUE)]
    /\ UNCHANGED <<up, process, requestVars, callVars, gateVars>>

-----------------------------------------------------------------------------
(* RequestGate                                                               *)

\* The method call arrives.
RequestGate(c, o) ==
    /\ up
    /\ parent[c] # None
    /\ pc[c] = "idle"
    /\ offer' = [offer EXCEPT ![c] = o]
    /\ pc' = [pc EXCEPT ![c] = "resolve"]
    /\ UNCHANGED <<up, process, parent, command, launcher, decision, gateVars, sessions>>

\* resolveLauncher; on an error session grants are skipped.
Resolve(c) ==
    /\ pc[c] = "resolve"
    /\ \E l \in ResolveLauncher(c) :
         /\ launcher' = [launcher EXCEPT ![c] = l]
         /\ pc' = [pc EXCEPT ![c] = IF l = None THEN "open" ELSE "check"]
    /\ UNCHANGED <<up, process, requestVars, decision, gateVars, sessions>>

\* checkSessionGrant, in one section of sessionMu: the first two conditions
\* leave the table alone, the last two throw the grant away.
Matches(c) ==
    LET g == sessions[KeyOf(launcher[c])] IN
    /\ g # None
    /\ g.tool = command[c].tool
    /\ classCoveredBy(command[c].class, g.class)

Usable(c) == ~sessions[KeyOf(launcher[c])].idle /\ IsAlive(launcher[c])

CheckSessionGrant(c) ==
    /\ pc[c] = "check"
    /\ \/ /\ Matches(c) /\ Usable(c)
          /\ pc' = [pc EXCEPT ![c] = "done"]
          /\ decision' = [decision EXCEPT ![c] = "session-allow"]
          /\ sessions' = [sessions EXCEPT ![KeyOf(launcher[c])] = Renewed(@, FALSE)]
       \/ /\ Matches(c) /\ ~Usable(c)
          /\ pc' = [pc EXCEPT ![c] = "open"]
          /\ sessions' = [sessions EXCEPT ![KeyOf(launcher[c])] = None]
          /\ UNCHANGED decision
       \/ /\ ~Matches(c)
          /\ pc' = [pc EXCEPT ![c] = "open"]
          /\ UNCHANGED <<decision, sessions>>
    /\ UNCHANGED <<up, process, requestVars, launcher, gateVars>>

\* runGate gives up before a window shows: no qs, no WAYLAND_DISPLAY, no room
\* for the QML file, no request id, or qs does not start.
CannotShow(c) ==
    /\ pc[c] = "open"
    /\ decision' = [decision EXCEPT ![c] = "unavailable"]
    /\ pc' = [pc EXCEPT ![c] = "done"]
    /\ UNCHANGED <<up, process, requestVars, launcher, gateVars, sessions>>

\* The request id enters the gates map and qs starts with it.
Show(c) ==
    /\ pc[c] = "open"
    /\ pending' = pending \cup {c}
    /\ window' = [window EXCEPT ![c] = "open"]
    /\ pc' = [pc EXCEPT ![c] = "wait"]
    /\ UNCHANGED <<up, process, requestVars, launcher, decision, resultCh, press, sessions>>

\* The three cases of the select; Go takes any that is ready.
Leave(c, d) ==
    /\ pc[c] = "wait"
    /\ decision' = [decision EXCEPT ![c] = d]
    /\ pc' = [pc EXCEPT ![c] = "close"]
    /\ UNCHANGED <<up, process, requestVars, launcher, gateVars, sessions>>

TakeAnswer(c) ==
    /\ resultCh[c] # "none"
    /\ Leave(c, DecisionOf(resultCh[c]))

WindowGone(c) ==
    /\ window[c] = "gone"
    /\ Leave(c, IF resultCh[c] # "none" THEN DecisionOf(resultCh[c]) ELSE "unavailable")

NoDeadline(c) == FALSE                                   \* mutant
Timeout(c) == Leave(c, "unavailable")

\* runGate's deferred calls: qs is killed, the request id is forgotten. Then
\* recordSessionGrant, if it is a grant and the launcher is known; return.
\* The two mutex sections are one step: no other goroutine tells them apart.
KeepRequest(c) == UNCHANGED pending                      \* mutant
ForgetRequest(c) == pending' = pending \ {c}
IsAnyApproval(c) == decision[c] \in AllowDecision /\ launcher[c] # None  \* mutant
IsGrant(c) == decision[c] = "session-grant" /\ launcher[c] # None

Return(c) ==
    /\ pc[c] = "close"
    /\ ForgetRequest(c)
    /\ window' = [window EXCEPT ![c] = "gone"]
    /\ sessions' =
         IF IsGrant(c)
         THEN [sessions EXCEPT ![KeyOf(launcher[c])] =
                 [tool |-> command[c].tool, class |-> command[c].class, idle |-> FALSE]]
         ELSE sessions
    /\ pc' = [pc EXCEPT ![c] = "done"]
    /\ UNCHANGED <<up, process, requestVars, launcher, decision, resultCh, press>>

-----------------------------------------------------------------------------
(* The window and SubmitGateDecision                                         *)

\* A key or a button: respond() starts cw gate respond.
Answers(c, n, a) ==
    /\ window[c] = "open"
    /\ press[c][n].state = "none"
    /\ \A m \in 1..(n - 1) : press[c][m].state # "none"
    /\ a \in Offered(c)
    /\ press' = [press EXCEPT ![c][n] = [state |-> "sent", answer |-> a]]
    /\ UNCHANGED <<up, process, requestVars, callVars, pending, resultCh, window, sessions>>

Marked(c, n, s) == [state |-> s, answer |-> press[c][n].answer]
Mark(c, n, s) == press' = [press EXCEPT ![c][n] = Marked(c, n, s)]

\* The section of gatesMu that looks the request up; with no agent on the bus
\* the call itself fails.
LookUp(c, n) ==
    /\ press[c][n].state = "sent"
    /\ Mark(c, n, IF up /\ c \in pending THEN "found" ELSE "refused")
    /\ UNCHANGED <<up, process, requestVars, callVars, pending, resultCh, window, sessions>>

\* The send that never blocks. resultCh keeps the answer that TakeAnswer received
\* here: what is sent into the buffer that is free then is received by nobody.
SubmitLast(c, n) ==                                      \* mutant
    /\ press[c][n].state = "found"
    /\ Mark(c, n, "delivered")
    /\ resultCh' = [resultCh EXCEPT ![c] = press[c][n].answer]
    /\ UNCHANGED <<up, process, requestVars, callVars, pending, window, sessions>>

Submit(c, n) ==
    /\ press[c][n].state = "found"
    /\ Mark(c, n, IF resultCh[c] = "none" THEN "delivered" ELSE "ignored")
    /\ resultCh' = [resultCh EXCEPT ![c] =
                      IF @ = "none" THEN press[c][n].answer ELSE @]
    /\ UNCHANGED <<up, process, requestVars, callVars, pending, window, sessions>>

\* cw gate respond has exited, or qs was closed or crashed unanswered.
CloseWindow(c) ==
    /\ window[c] = "open"
    /\ window' = [window EXCEPT ![c] = "gone"]
    /\ UNCHANGED <<up, process, requestVars, callVars, pending, resultCh, press, sessions>>

-----------------------------------------------------------------------------
\* The agent stops or dies: every call in it gets an error reply and its
\* tables are gone. Under systemd the windows of its control group die with
\* it; an agent run by hand leaves them on screen.
Crash ==
    /\ MayStop
    /\ up
    /\ up' = FALSE
    /\ pc' = [c \in Call |-> IF InFlight(c) THEN "done" ELSE pc[c]]
    /\ decision' = [c \in Call |-> IF InFlight(c) THEN "no-reply" ELSE decision[c]]
    /\ pending' = {}
    /\ sessions' = NoSessions
    /\ \/ UNCHANGED window
       \/ window' = [c \in Call |-> IF window[c] = "open" THEN "gone" ELSE window[c]]
    /\ press' = [c \in Call |-> [n \in 1..MaxPress |->
                   IF press[c][n].state = "found"
                   THEN Marked(c, n, "refused")
                   ELSE press[c][n]]]
    /\ UNCHANGED <<process, requestVars, launcher, resultCh>>

Start ==
    /\ ~up
    /\ up' = TRUE
    /\ UNCHANGED <<process, requestVars, callVars, gateVars, sessions>>

-----------------------------------------------------------------------------
World == \/ \E i \in Pid : Exit(i) \/ Fork(i)
         \/ \E i \in Pid, l \in Launcher, S \in SUBSET Call : S # {} /\ Become(i, l, S)
         \/ \E c \in Call : Orphan(c)
         \/ \E k \in Key : GoIdle(k)

Goroutine(c) == \/ Resolve(c) \/ CheckSessionGrant(c)
                \/ CannotShow(c) \/ Show(c)
                \/ TakeAnswer(c) \/ WindowGone(c) \/ Timeout(c)
                \/ Return(c)

Window(c) == \/ \E n \in 1..MaxPress :
                  LookUp(c, n) \/ Submit(c, n) \/ \E a \in Answer : Answers(c, n, a)
             \/ CloseWindow(c)

Agent == \/ \E c \in Call : Goroutine(c) \/ Window(c)
         \/ Crash \/ Start

\* Both callers, shimexec and cw gate test, offer "Allow for Session" only for
\* classes other than secret-reveal.
Request(c) == \E o \in BOOLEAN : /\ o => command[c].class # "secret-reveal"
                                /\ RequestGate(c, o)

Next == \/ \E c \in Call : Request(c) \/ \E l \in Launcher : Invoke(c, l)
        \/ World \/ Agent

Spec == Init /\ [][Next]_gvars

\* The goroutines of a running agent are scheduled and its deadlines pass.
\* Nothing is assumed of the human, the window, or a restart.
FairSpec == Spec /\ \A c \in Call : WF_gvars(Goroutine(c))
-----------------------------------------------------------------------------
TypeOK ==
    /\ up \in BOOLEAN
    /\ process \in [Pid -> [start: 0..MaxStart, up: BOOLEAN]]
    /\ parent \in [Call -> Launcher \cup {None}]
    /\ command \in [Call -> Command]
    /\ offer \in [Call -> BOOLEAN]
    /\ pc \in [Call -> {"idle", "resolve", "check", "open", "wait", "close", "done"}]
    /\ launcher \in [Call -> Launcher \cup {None}]
    /\ decision \in [Call -> Decision \cup {"none", "no-reply"}]
    /\ pending \in SUBSET Call
    /\ resultCh \in [Call -> Answer \cup {"none"}]
    /\ window \in [Call -> {"none", "open", "gone"}]
    /\ press \in [Call -> [1..MaxPress -> Press]]
    /\ sessions \in [Key -> Grant \cup {None}]

Covers(q, c) ==
    /\ command[q].tool = command[c].tool
    /\ classCoveredBy(command[c].class, command[q].class)

\* A call passes on a session grant only if "Allow for Session" was the answer
\* to an earlier call of the very same launcher process (not of a later one
\* with its pid), for that tool and a class that covers this one.
\* (checkSessionGrant, recordSessionGrant, sessionKey, classCoveredBy)
SessionAllowBacked ==
    \A c \in Call : decision[c] = "session-allow" =>
        \E q \in Call : /\ pc[q] = "done" /\ decision[q] = "session-grant"
                        /\ launcher[q] = launcher[c]
                        /\ Covers(q, c)

\* What a call returns as the human's decision is the one answer that was
\* delivered from its own window, whatever other windows, second answers and
\* deadlines did meanwhile. (RequestGate, SubmitGateDecision)
HumanDecides ==
    \A c \in Call : decision[c] \in {"deny", "allow-once", "session-grant"} =>
        \E n \in 1..MaxPress :
            /\ press[c][n].state = "delivered"
            /\ DecisionOf(press[c][n].answer) = decision[c]
            /\ \A m \in 1..MaxPress \ {n} : press[c][m].state # "delivered"

\* No session grant ever lets a secret-reveal command through: none is offered
\* for one, and none for a lesser class covers one. (cliapp/gate.go, shimexec)
SecretNeedsAnAnswer ==
    /\ \A k \in Key : sessions[k] # None => sessions[k].class # "secret-reveal"
    /\ \A c \in Call : command[c].class = "secret-reveal" =>
           decision[c] \notin {"session-grant", "session-allow"}

\* An answer that is looked up after its request has returned is refused, and
\* its window told so, across restarts of the agent too. (SubmitGateDecision)
LateAnswerRefused ==
    [][\A c \in Call, n \in 1..MaxPress :
         pc[c] = "done" /\ press[c][n].state = "sent" =>
            press'[c][n].state \in {"sent", "refused"}]_gvars

\* Every request ends, though nobody answers and no window ever closes: the
\* gate "never hangs" (docs/architecture.md, Approval Gate).
EveryRequestEnds == \A c \in Call : pc[c] = "resolve" ~> pc[c] = "done"

-----------------------------------------------------------------------------
(* What the documents say and the code does not do.                          *)

\* README.md: each answer is "actually returned to the agent and acted on". An
\* answer SubmitGateDecision accepted is what the request returns.
AcceptedAnswerActedOn ==
    \A c \in Call, n \in 1..MaxPress :
        press[c][n].state = "delivered" /\ pc[c] = "done" /\ decision[c] # "no-reply" =>
            decision[c] = DecisionOf(press[c][n].answer)

\* README.md: a session grant "persists across subsequent calls from the same
\* process until it exits or goes idle". What a live grant covers stays covered.
GrantPersists ==
    [][\A k \in Key :
         /\ up /\ up'
         /\ sessions[k] # None /\ ~sessions[k].idle
         /\ process[k[1]] = [start |-> k[2], up |-> TRUE]
         => /\ sessions'[k] # None
            /\ sessions'[k].tool = sessions[k].tool
            /\ classCoveredBy(sessions[k].class, sessions'[k].class)]_gvars
-----------------------------------------------------------------------------
\* The gate implements GatePromise: an outcome exists once the call returned.
HeldGrants == {[process |-> [pid |-> k[1], start |-> k[2]],
                tool |-> sessions[k].tool, class |-> sessions[k].class] :
               k \in {j \in Key : sessions[j] # None}}

Promise == INSTANCE GatePromise WITH
    Process <- Launcher,
    asker <- launcher,
    given <- [c \in Call |-> {press[c][n].answer : n \in 1..MaxPress} \ {"none"}],
    outcome <- [c \in Call |-> IF pc[c] = "done" THEN decision[c] ELSE "none"],
    holders <- HeldGrants

\* Every step of the gate is a step of its promise or leaves it unchanged: one
\* outcome per request, and only outcomes that somebody asked for or failures.
KeepsPromise == Promise!Spec
=============================================================================
