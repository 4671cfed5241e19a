------------------------------- MODULE AgentLife -------------------------------
(* How the Session Agent starts, is found and stops: agentd.Run, the activation *)
(* socket (listener.go, socket.go), the clients that ping and wake it           *)
(* (internal/agentclient), and the installing of its systemd units.             *)
(*                                                                              *)
(* Each Agent is one cmdwarden-agent process, started by systemd for a          *)
(* connection to the socket unit, or by hand. It is cut where others see it: at *)
(* each change of the socket's path, of the bus name, of the exported object.   *)
(* Time is not counted: a deadline may pass whenever a client waits; late holds *)
(* the clients for which one passed while what they wait for was on its way.    *)
EXTENDS Naturals

CONSTANTS
    Activated,  \* agent processes systemd starts, one at a time
    ByHand,     \* agent processes started from a shell
    Doctor,     \* cw doctor processes: WaitHealthy
    Caller,     \* shims and cw commands that make one call to the agent
    Preset,     \* whether the units are installed at the start, of BOOLEAN
    MaxStops,   \* bound: stop requests
    MaxFaults,  \* bound: steps that fail and processes that are killed
    MaxJobs,    \* bound: runs of cw agent install and uninstall
    None

Agent == Activated \cup ByHand
Client == Doctor \cup Caller

ASSUME ProcessAssumption == Activated \cap ByHand = {} /\ Doctor \cap Caller = {}
                         /\ {None, "unit"} \cap Agent = {}
ASSUME BoundAssumption == MaxStops \in Nat /\ MaxFaults \in Nat /\ MaxJobs \in Nat
                       /\ Preset \subseteq BOOLEAN

VARIABLES
    unit,      \* the socket unit is active: systemd listens
    loaded,    \* the systemd manager has the unit files loaded
    path,      \* whose socket the path names, None if it names none
    pc,        \* [Agent -> place in Run]
    owner,     \* owner of the D-Bus name
    vault,     \* agents whose Secret Service session is open (secretSvc)
    exported,  \* agents whose object the bus can reach
    acked,     \* agents that replied to a stop request
    stopCh,    \* agents whose stopCh is closed or that got SIGTERM
    client,    \* [Client -> place in WaitHealthy, or of the one call]
    via,       \* [Client -> where its connection is queued, who answers it]
    woke,      \* doctors that found nobody and went to the socket
    late,      \* see above
    admin,     \* place in InstallUnits or UninstallUnits
    ignored,   \* what failed in this UninstallUnits without ending it
    stops, faults, jobs

unitVars == <<unit, loaded, admin, ignored, jobs>>
busVars == <<owner, vault, exported>>
stopVars == <<acked, stopCh, stops>>
clientVars == <<client, via, woke, late>>
vars == <<unitVars, path, pc, busVars, stopVars, clientVars, faults>>

-----------------------------------------------------------------------------
\* The activation socket is served from its bind to its close.
Serving(a) == pc[a] \in {"bus", "named", "opened", "ready", "ending", "closing"}
Running(a) == pc[a] \notin {"off", "gone"}
Starting(a) == pc[a] \in {"listen", "bind", "bus", "named", "opened"}

Listening(p) == IF p = "unit" THEN unit \/ \E a \in Activated : Serving(a)
                ELSE p # None /\ Serving(p)

Init ==
    /\ unit \in Preset
    /\ loaded = unit
    /\ path = IF unit THEN "unit" ELSE None
    /\ pc = [a \in Agent |-> "off"]
    /\ owner = None
    /\ vault = {} /\ exported = {}
    /\ acked = {} /\ stopCh = {} /\ stops = 0
    /\ client = [c \in Client |-> "ping"]
    /\ via = [c \in Client |-> None]
    /\ woke = {} /\ late = {}
    /\ admin = "idle" /\ ignored = {} /\ jobs = 0
    /\ faults = 0

-----------------------------------------------------------------------------
(* Run                                                                       *)

Goto(a, from, to) == pc[a] = from /\ pc' = [pc EXCEPT ![a] = to]

StartByHand(a) ==
    /\ Goto(a, "off", "listen")
    /\ UNCHANGED <<unitVars, path, busVars, stopVars, clientVars, faults>>

\* systemd starts the service for a connection that nobody accepts.
Activate(a) ==
    /\ unit /\ loaded
    /\ \A b \in Activated : ~Running(b)
    /\ \E c \in Client : client[c] = "sent" /\ via[c] = "unit"
    /\ Goto(a, "off", "listen")
    /\ UNCHANGED <<unitVars, path, busVars, stopVars, clientVars, faults>>

\* socketListener: the descriptor systemd holds, or a socket of its own, after
\* whatever the path names was removed.
socketListener(a) ==
    /\ \/ a \in Activated /\ Goto(a, "listen", "bus") /\ UNCHANGED path
       \/ a \in ByHand /\ Goto(a, "listen", "bind") /\ path' = None
    /\ UNCHANGED <<unitVars, busVars, stopVars, clientVars, faults>>

\* net.Listen: the path may have been taken again.
Bind(a) ==
    /\ \/ path = None /\ Goto(a, "bind", "bus") /\ path' = a
       \/ path # None /\ Goto(a, "bind", "gone") /\ UNCHANGED path
    /\ UNCHANGED <<unitVars, busVars, stopVars, clientVars, faults>>

\* The bus gives the name to one process, and queues nobody.
RequestNameUnchecked(a) ==                               \* mutant
    /\ Goto(a, "bus", "named")
    /\ owner' = IF owner = None THEN a ELSE owner
    /\ UNCHANGED <<unitVars, path, vault, exported, stopVars, clientVars, faults>>
RequestName(a) ==
    /\ \/ owner = None /\ Goto(a, "bus", "named") /\ owner' = a
       \/ owner # None /\ Goto(a, "bus", "ending") /\ UNCHANGED owner
    /\ UNCHANGED <<unitVars, path, vault, exported, stopVars, clientVars, faults>>

OpenVault(a) ==
    /\ Goto(a, "named", "opened")
    /\ vault' = vault \cup {a}
    /\ UNCHANGED <<unitVars, path, owner, exported, stopVars, clientVars, faults>>

ExportEarly(a) ==                                        \* mutant
    /\ pc[a] \in {"named", "opened"}
    /\ pc' = [pc EXCEPT ![a] = IF @ = "opened" THEN "ready" ELSE @]
    /\ exported' = exported \cup {a}
    /\ UNCHANGED <<unitVars, path, owner, vault, stopVars, clientVars, faults>>
Export(a) ==
    /\ Goto(a, "opened", "ready")
    /\ exported' = exported \cup {a}
    /\ UNCHANGED <<unitVars, path, owner, vault, stopVars, clientVars, faults>>

\* The select: nothing looks at ctx or stopCh before it is reached.
ShutDown(a) ==
    /\ a \in stopCh
    /\ Goto(a, "ready", "ending")
    /\ UNCHANGED <<unitVars, path, busVars, stopVars, clientVars, faults>>

\* The deferred calls: the name and the connection first, then the listener.
\* Go unlinks the path a listener was bound to, whoever it belongs to by then.
LeaveBus(a) ==
    /\ Goto(a, "ending", "closing")
    /\ owner' = IF owner = a THEN None ELSE owner
    /\ exported' = exported \ {a}
    /\ UNCHANGED <<unitVars, path, vault, stopVars, clientVars, faults>>

CloseListener(a) ==
    /\ Goto(a, "closing", "gone")
    /\ path' = IF a \in ByHand THEN None ELSE path
    /\ UNCHANGED <<unitVars, busVars, stopVars, clientVars, faults>>

\* A step of the start fails; what was deferred by then is run.
FailStart(a) ==
    /\ faults < MaxFaults /\ faults' = faults + 1
    /\ \/ pc[a] \in {"listen", "bind"} /\ pc' = [pc EXCEPT ![a] = "gone"]
       \/ pc[a] \in {"bus", "named", "opened"} /\ pc' = [pc EXCEPT ![a] = "ending"]
    /\ UNCHANGED <<unitVars, path, busVars, stopVars, clientVars>>

\* The process dies: the bus frees its name; a path it bound stays, and refuses
\* connections.
Kill(a) ==
    /\ faults < MaxFaults /\ faults' = faults + 1
    /\ Running(a)
    /\ pc' = [pc EXCEPT ![a] = "gone"]
    /\ owner' = IF owner = a THEN None ELSE owner
    /\ exported' = exported \ {a}
    /\ UNCHANGED <<unitVars, path, vault, stopVars, clientVars>>

-----------------------------------------------------------------------------
(* Stop requests                                                             *)

\* cw agent stop over the bus, and STOP over the socket, which an agent that is
\* still starting serves too. Both reply first.
AskToStop(a) ==
    /\ stops < MaxStops /\ stops' = stops + 1
    /\ \/ owner = a /\ a \in exported
       \/ Serving(a) /\ path = IF a \in Activated THEN "unit" ELSE a
    /\ acked' = acked \cup {a}
    /\ UNCHANGED <<unitVars, path, pc, busVars, stopCh, clientVars, faults>>

\* requestStop, after the 150 ms of Stop or at once.
requestStopIfWaiting(a) ==                               \* mutant
    /\ a \in acked
    /\ stopCh' = IF pc[a] = "ready" THEN stopCh \cup {a} ELSE stopCh
    /\ acked' = acked \ {a}
    /\ UNCHANGED <<unitVars, path, pc, busVars, stops, clientVars, faults>>
requestStop(a) ==
    /\ a \in acked
    /\ stopCh' = stopCh \cup {a}
    /\ acked' = acked \ {a}
    /\ UNCHANGED <<unitVars, path, pc, busVars, stops, clientVars, faults>>

-----------------------------------------------------------------------------
(* Clients                                                                   *)

\* A call over the bus: an owner that has not exported its object yet answers
\* with an error of its own, not with that of a name without owner.
Reply == IF owner = None THEN "not running"
         ELSE IF owner \in exported THEN "pong" ELSE "error"

Advance(c, from, to) == client[c] = from /\ client' = [client EXCEPT ![c] = to]

\* The first Ping of WaitHealthy, or the one call of a shim.
FirstPing(c) ==
    /\ \/ /\ Reply = "pong"
          /\ Advance(c, "ping", "healthy")
          /\ via' = [via EXCEPT ![c] = owner]
          /\ UNCHANGED woke
       \/ /\ Reply = "not running" /\ c \in Doctor
          /\ Advance(c, "ping", "wake")
          /\ woke' = woke \cup {c}
          /\ UNCHANGED via
       \/ /\ Reply = "error" \/ (Reply = "not running" /\ c \in Caller)
          /\ Advance(c, "ping", "error")
          /\ UNCHANGED <<via, woke>>
    /\ UNCHANGED <<unitVars, path, pc, busVars, stopVars, late, faults>>

\* WakeSocket: connect and write PING.
Dial(c) ==
    /\ \/ /\ Listening(path)
          /\ Advance(c, "wake", "sent")
          /\ via' = [via EXCEPT ![c] = path]
       \/ /\ ~Listening(path)
          /\ Advance(c, "wake", "error")
          /\ UNCHANGED via
    /\ UNCHANGED <<unitVars, path, pc, busVars, stopVars, woke, late, faults>>

\* serveSocket and handleSocketConn.
Accept(c, a) ==
    /\ Serving(a)
    /\ via[c] = IF a \in Activated THEN "unit" ELSE a
    /\ Advance(c, "sent", "accepted")
    /\ via' = [via EXCEPT ![c] = a]
    /\ UNCHANGED <<unitVars, path, pc, busVars, stopVars, woke, late, faults>>

Pong(c) ==
    /\ via[c] \in Agent /\ Serving(via[c])
    /\ Advance(c, "accepted", "poll")
    /\ UNCHANGED <<unitVars, path, pc, busVars, stopVars, via, woke, late, faults>>

\* Nobody holds the other end any more.
Reset(c) ==
    /\ client[c] \in {"sent", "accepted"}
    /\ ~Listening(via[c])
    /\ client' = [client EXCEPT ![c] = "error"]
    /\ UNCHANGED <<unitVars, path, pc, busVars, stopVars, via, woke, late, faults>>

Poll(c) ==
    /\ Reply = "pong"
    /\ Advance(c, "poll", "healthy")
    /\ via' = [via EXCEPT ![c] = owner]
    /\ UNCHANGED <<unitVars, path, pc, busVars, stopVars, woke, late, faults>>

\* What c waits for is on its way: an agent starts, or has started, or systemd
\* is to start one.
OnItsWay(c) == \/ \E a \in Agent : Starting(a) \/ (pc[a] = "ready" /\ owner = a)
               \/ (client[c] = "sent" /\ via[c] = "unit" /\ unit /\ loaded)

\* The deadline: of the socket's reply, or of the polling, seen when a Ping has
\* failed.
Expire(c) == late' = IF OnItsWay(c) THEN late \cup {c} ELSE late

WakeWaits(c) == FALSE                                    \* mutant
WakeTimesOut(c) ==
    /\ client[c] \in {"sent", "accepted"}
    /\ client' = [client EXCEPT ![c] = "error"]
    /\ Expire(c)
    /\ UNCHANGED <<unitVars, path, pc, busVars, stopVars, via, woke, faults>>

GiveUpOnError(c) ==                                      \* mutant
    /\ Reply # "pong"
    /\ Advance(c, "poll", "error")
    /\ IF Reply = "error" THEN UNCHANGED late ELSE Expire(c)
    /\ UNCHANGED <<unitVars, path, pc, busVars, stopVars, via, woke, faults>>
GiveUp(c) ==
    /\ Reply # "pong"
    /\ Advance(c, "poll", "error")
    /\ Expire(c)
    /\ UNCHANGED <<unitVars, path, pc, busVars, stopVars, via, woke, faults>>

-----------------------------------------------------------------------------
(* InstallUnits and UninstallUnits; no two of them run at once               *)

BeginJob(first) ==
    /\ admin \in {"idle", "installed", "uninstalled", "failed"}
    /\ jobs < MaxJobs /\ jobs' = jobs + 1
    /\ admin' = first /\ ignored' = {}
    /\ UNCHANGED <<unit, loaded, path, pc, busVars, stopVars, clientVars, faults>>

Admin(from, to) == admin = from /\ admin' = to

\* Both files and daemon-reload.
WriteUnits ==
    /\ Admin("write", "enable")
    /\ loaded' = TRUE
    /\ UNCHANGED <<unit, ignored, jobs, path, pc, busVars, stopVars, clientVars, faults>>

\* enable --now: nothing happens to a unit that is active; else systemd binds
\* the path, and takes it from whoever has it. What was queued at a socket it
\* had there before is lost.
Enable ==
    /\ Admin("enable", "installed")
    /\ unit' = TRUE
    /\ path' = IF unit THEN path ELSE "unit"
    /\ client' = [c \in Client |->
         IF ~unit /\ client[c] = "sent" /\ via[c] = "unit" THEN "error" ELSE client[c]]
    /\ UNCHANGED <<loaded, ignored, jobs, pc, busVars, stopVars, via, woke, late, faults>>

Terminated == {a \in Activated : Running(a)}

\* disable --now: the service, which requires the socket, is stopped with it.
DisableLater ==                                          \* mutant
    /\ Admin("disable", "stop")
    /\ UNCHANGED <<unit, loaded, ignored, jobs, path, pc, busVars, stopVars, clientVars, faults>>
Disable ==
    /\ Admin("disable", "stop")
    /\ unit' = FALSE
    /\ stopCh' = stopCh \cup Terminated
    /\ UNCHANGED <<loaded, ignored, jobs, path, pc, busVars, acked, stops, clientVars, faults>>

\* systemctl stop returns when the service has ended.
StopService ==
    /\ Admin("stop", "await")
    /\ stopCh' = stopCh \cup Terminated
    /\ UNCHANGED <<unit, loaded, ignored, jobs, path, pc, busVars, acked, stops, clientVars, faults>>

Stopped ==
    /\ Terminated = {}
    /\ Admin("await", "remove")
    /\ UNCHANGED <<unit, loaded, ignored, jobs, path, pc, busVars, stopVars, clientVars, faults>>

\* Both files and daemon-reload.
RemoveUnits ==
    /\ Admin("remove", "uninstalled")
    /\ loaded' = FALSE
    /\ UNCHANGED <<unit, ignored, jobs, path, pc, busVars, stopVars, clientVars, faults>>

\* A write, a removal or systemctl fails; what systemctl disable and stop
\* return is not looked at.
FailJob ==
    /\ faults < MaxFaults /\ faults' = faults + 1
    /\ \/ admin \in {"write", "enable", "remove"} /\ admin' = "failed" /\ UNCHANGED ignored
       \/ Admin("disable", "stop") /\ ignored' = {"disable"}
       \/ /\ Admin("stop", "remove") \/ Admin("await", "remove")
          /\ ignored' = ignored \cup {"stop"}
    /\ UNCHANGED <<unit, loaded, jobs, path, pc, busVars, stopVars, clientVars>>

-----------------------------------------------------------------------------
Process(a) == \/ socketListener(a) \/ Bind(a) \/ RequestName(a) \/ OpenVault(a) \/ Export(a)
              \/ ShutDown(a) \/ LeaveBus(a) \/ CloseListener(a) \/ requestStop(a)

WaitHealthy(c) == FirstPing(c) \/ Dial(c) \/ Reset(c) \/ Poll(c) \/ WakeTimesOut(c) \/ GiveUp(c)

Units == \/ BeginJob("write") \/ WriteUnits \/ Enable
         \/ BeginJob("disable") \/ Disable \/ StopService \/ Stopped \/ RemoveUnits
         \/ FailJob

Next == \/ \E a \in Agent : Process(a) \/ FailStart(a) \/ Kill(a) \/ AskToStop(a)
        \/ \E a \in ByHand : StartByHand(a)
        \/ \E a \in Activated : Activate(a)
        \/ \E c \in Client : WaitHealthy(c) \/ Pong(c) \/ \E a \in Agent : Accept(c, a)
        \/ Units

Spec == Init /\ [][Next]_vars

\* Agents run, and the bus and the Secret Service answer them; clients run and
\* their deadlines pass. Nothing is assumed of systemd, of a reply over the
\* socket or of whoever types commands.
FairSpec == /\ Spec
            /\ \A a \in Agent : WF_vars(Process(a))
            /\ \A c \in Client : WF_vars(WaitHealthy(c))

-----------------------------------------------------------------------------
TypeOK ==
    /\ unit \in BOOLEAN /\ loaded \in BOOLEAN
    /\ path \in ByHand \cup {"unit", None}
    /\ pc \in [Agent -> {"off", "listen", "bind", "bus", "named", "opened", "ready",
                        "ending", "closing", "gone"}]
    /\ owner \in Agent \cup {None}
    /\ vault \in SUBSET Agent /\ exported \in SUBSET Agent
    /\ acked \in SUBSET Agent /\ stopCh \in SUBSET Agent
    /\ client \in [Client -> {"ping", "wake", "sent", "accepted", "poll", "healthy", "error"}]
    /\ via \in [Client -> Agent \cup {"unit", None}]
    /\ woke \in SUBSET Doctor /\ late \in SUBSET Doctor
    /\ admin \in {"idle", "write", "enable", "disable", "stop", "await", "remove",
                  "installed", "uninstalled", "failed"}
    /\ ignored \in SUBSET {"disable", "stop"}
    /\ stops \in 0..MaxStops /\ faults \in 0..MaxFaults /\ jobs \in 0..MaxJobs

\* A step failed, or somebody stopped agents, ran one by hand or changed units.
Disturbed == \/ faults > 0 \/ stops > 0 \/ jobs > 0
             \/ \E a \in ByHand : pc[a] # "off"

\* No agent runs beside the one that callers reach: whatever started it, a
\* ready agent, with its session grants and its gate, is the owner of the name.
\* (Run's check of RequestName's reply; what it returns by and in which order)
ReadyOwnsName == \A a \in Agent : pc[a] = "ready" => owner = a

\* An agent that a client heard a pong from, in the middle of its start too, had
\* its Secret Service session: "healthy" is never said of one that could not
\* release a token. (Run opens the vault before it exports the object)
HealthyHasVault == \A c \in Client : client[c] = "healthy" => via[c] \in vault

\* Agents that systemd starts come and go, fail and are killed, and the socket
\* stays where the next client finds it: "systemd, not the agent, owns the
\* socket's lifetime across restarts". Agents run by hand are not meant.
\* (socketListener, the deferred Close)
SocketOutlivesAgents ==
    unit /\ (\A a \in ByHand : pc[a] = "off") => path = "unit"

\* A doctor that found nobody and got an answer at the socket does bring the
\* agent up, however its pings fall into the start: unless a step fails, or
\* somebody interferes, or its deadline passes first. (WaitHealthy's retries)
WokenGetsHealthy ==
    \A c \in woke \ late : via[c] \in Activated /\ client[c] = "error" => Disturbed

\* Once cw agent uninstall has reported success, the socket is up only where
\* systemctl disable failed, and an agent of systemd's runs only where disable or
\* stop failed, whoever was connecting, failing or dying meanwhile: systemctl is
\* not looked at, the order of the two is. (UninstallUnits)
UninstalledStaysDown ==
    admin = "uninstalled" => /\ unit => "disable" \in ignored
                             /\ Terminated # {} => ignored # {}

\* Every cw doctor ends, though no agent ever starts or answers. (the deadlines of
\* WaitHealthy, Ping and WakeSocket)
EveryWaitEnds == \A c \in Client : <>(client[c] \in {"healthy", "error"})

\* A stop request that was replied to ends the agent, also one that was still
\* starting when it came. (Stop, requestStop, stopCh, Run's select)
StopIsActedOn == \A a \in Agent : a \in acked ~> pc[a] = "gone"

-----------------------------------------------------------------------------
(* What the documents say and the code does not do.                          *)

\* client.go: "from a shell where the agent isn't running yet, this call alone
\* brings it up and confirms it's healthy".
DoctorBringsItUp ==
    \A c \in Doctor \ late : client[c] = "error" => Disturbed \/ ~unit

\* client.go: WakeSocket "waits for the freshly started process to answer": the
\* agent that answers is not one that is ending.
WokenByFreshAgent ==
    [][\A c \in Doctor : client[c] = "accepted" /\ client'[c] = "poll" =>
          pc[via[c]] \notin {"ending", "closing"}]_vars

\* listener.go: "systemd, not the agent, owns the socket's lifetime across
\* restarts": a socket unit that is active can be reached.
SocketStaysReachable == unit => path = "unit"

\* client.go: of a socket nobody listens at, "is it installed and enabled? try cw
\* agent install": it can be reached after that.
InstallMakesReachable ==
    [][admin = "enable" /\ admin' = "installed" => path' = "unit"]_vars

\* install.go: UninstallUnits "reverses InstallUnits: stops and disables the socket
\* unit, stops the service if it happens to be running": a success means so.
UninstallReverses == admin = "uninstalled" => ~unit /\ Terminated = {}

\* cliapp/agent.go: "socket enabled (lazy-starts on first use)": with the units
\* installed a command that needs the agent does not fail for want of one.
FirstUseStarts ==
    \A c \in Caller : client[c] = "error" => Disturbed \/ ~unit
=============================================================================
