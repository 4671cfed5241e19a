----------------------------- MODULE AgentLifeProofs -----------------------------
(* Theorems about AgentLife!Spec, for any sets of agents and clients and any     *)
(* bounds: its type invariant, that an agent which is ready owns the bus name,   *)
(* and that one a client found healthy has its vault.                           *)
EXTENDS AgentLife, TLAPS

\* Only agents run by hand bind a socket of their own, and only doctors wait: the
\* types of path and late rest on it.
ShapeInv == /\ \A a \in Agent : pc[a] = "bind" => a \in ByHand
            /\ \A c \in Caller : client[c] \in {"ping", "healthy", "error"}

Shape == TypeOK /\ ShapeInv

\* The name is owned from RequestName on, so that a second agent finds it taken.
NameInv == \A a \in Agent : pc[a] \in {"named", "opened", "ready"} => owner = a

\* What the bus can reach has passed OpenVault.
VaultInv == /\ \A a \in Agent : pc[a] \in {"opened", "ready"} => a \in vault
            /\ exported \subseteq vault
            /\ HealthyHasVault

\* From disable on the unit is down, so that nothing replaces the agent that
\* systemctl stop waits for; or else the failure of one of the two was ignored.
DownInv ==
    /\ admin \in {"stop", "await", "remove", "uninstalled"} /\ unit => "disable" \in ignored
    /\ admin \in {"remove", "uninstalled"} /\ Terminated # {} => ignored # {}

\* Left alone, the agent that systemd started is the only one and does not end,
\* so that whoever a doctor was answered by goes on to serve.
CalmAgents ==
    /\ stopCh = {} /\ acked = {} /\ admin = "idle"
    /\ \A a \in Agent : pc[a] \in {"off", "listen", "bus", "named", "opened", "ready"}
    /\ \A a, b \in Agent : pc[a] # "off" /\ pc[b] # "off" => a = b
    /\ owner \in Agent => pc[owner] \in {"named", "opened", "ready"}
CalmClients ==
    \A c \in Client :
        /\ client[c] \in {"ping", "wake"} => via[c] = None
        /\ client[c] = "sent" => via[c] = "unit" \/ via[c] \in ByHand
        /\ client[c] \in {"accepted", "poll"} => via[c] \in Agent /\ Serving(via[c])
        /\ client[c] = "error" /\ c \in woke /\ via[c] \in Activated => c \in late
CalmInv == ~Disturbed => CalmAgents /\ CalmClients

IInv == Shape /\ NameInv /\ VaultInv /\ DownInv /\ CalmInv

USE ProcessAssumption, BoundAssumption

-----------------------------------------------------------------------------
(* Steps, by who takes them                                                  *)

ProcessStep(a) == Process(a) \/ FailStart(a) \/ Kill(a) \/ AskToStop(a)
ServiceStep(a) == (a \in ByHand /\ StartByHand(a)) \/ (a \in Activated /\ Activate(a))
ClientStep(c) == WaitHealthy(c) \/ Pong(c) \/ \E a \in Agent : Accept(c, a)

\* Every step is one of an agent, of its starter, of a client or of systemctl.
LEMMA StepKinds ==
    ASSUME [Next]_vars
    PROVE  \/ \E a \in Agent : ProcessStep(a) \/ ServiceStep(a)
           \/ \E c \in Client : ClientStep(c)
           \/ Units
           \/ UNCHANGED vars
  BY DEF Next, ProcessStep, ServiceStep, ClientStep, Agent

\* What a client does leaves agents, bus and units as they are.
LEMMA ClientsOnlyAsk ==
    ASSUME NEW c \in Client, ClientStep(c)
    PROVE  UNCHANGED <<unitVars, path, pc, busVars, stopVars, faults>>
  BY DEF ClientStep, WaitHealthy, FirstPing, Dial, Reset, Poll, WakeTimesOut, GiveUp, Pong, Accept

-----------------------------------------------------------------------------
(* Types                                                                     *)

LEMMA AgentKeepsTypes ==
    ASSUME Shape, NEW a \in Agent, ProcessStep(a) \/ ServiceStep(a)
    PROVE  Shape'
<1> USE DEF Shape, TypeOK, ShapeInv, Goto, Agent, unitVars, busVars, stopVars, clientVars
<1>1. CASE socketListener(a) \/ Bind(a)
  BY <1>1 DEF socketListener, Bind
<1>2. CASE RequestName(a) \/ OpenVault(a) \/ Export(a)
  <2>1. CASE RequestName(a)
    BY <2>1 DEF RequestName
  <2>2. CASE OpenVault(a)
    BY <2>2 DEF OpenVault
  <2>3. CASE Export(a)
    BY <2>3 DEF Export
  <2>4. QED
    BY <1>2, <2>1, <2>2, <2>3
<1>3. CASE ShutDown(a) \/ LeaveBus(a) \/ CloseListener(a)
  <2>1. CASE ShutDown(a)
    BY <2>1 DEF ShutDown
  <2>2. CASE LeaveBus(a)
    BY <2>2 DEF LeaveBus
  <2>3. CASE CloseListener(a)
    BY <2>3 DEF CloseListener
  <2>4. QED
    BY <1>3, <2>1, <2>2, <2>3
<1>4. CASE requestStop(a) \/ AskToStop(a)
  <2>1. CASE requestStop(a)
    BY <2>1 DEF requestStop
  <2>2. CASE AskToStop(a)
    BY <2>2 DEF AskToStop
  <2>3. QED
    BY <1>4, <2>1, <2>2
<1>5. CASE FailStart(a)
  BY <1>5 DEF FailStart
<1>6. CASE Kill(a)
  BY <1>6 DEF Kill
<1>7. CASE a \in ByHand /\ StartByHand(a)
  BY <1>7 DEF StartByHand
<1>8. CASE a \in Activated /\ Activate(a)
  BY <1>8 DEF Activate
<1>9. QED
  BY <1>1, <1>2, <1>3, <1>4, <1>5, <1>6, <1>7, <1>8 DEF ProcessStep, Process, ServiceStep

LEMMA ClientKeepsTypes ==
    ASSUME Shape, NEW c \in Client, ClientStep(c)
    PROVE  Shape'
<1> USE DEF Shape, TypeOK, ShapeInv, Advance, Agent, Client, unitVars, busVars, stopVars
<1>1. CASE FirstPing(c)
  BY <1>1 DEF FirstPing, Reply
<1>2. CASE Dial(c)
  BY <1>2 DEF Dial, Listening
<1>3. CASE Reset(c) \/ Pong(c)
  BY <1>3 DEF Reset, Pong
<1>4. CASE Poll(c)
  BY <1>4 DEF Poll, Reply
<1>5. CASE WakeTimesOut(c) \/ GiveUp(c)
  BY <1>5 DEF WakeTimesOut, GiveUp, Expire
<1>6. CASE \E a \in Agent : Accept(c, a)
  BY <1>6 DEF Accept
<1>7. QED
  BY <1>1, <1>2, <1>3, <1>4, <1>5, <1>6 DEF ClientStep, WaitHealthy

LEMMA UnitsKeepTypes ==
    ASSUME Shape, Units
    PROVE  Shape'
<1> USE DEF Shape, TypeOK, ShapeInv, Agent, Client, Admin, Terminated, busVars, stopVars, clientVars
<1>1. CASE BeginJob("write") \/ BeginJob("disable")
  BY <1>1 DEF BeginJob
<1>2. CASE WriteUnits \/ Disable \/ StopService
  <2>1. CASE WriteUnits
    BY <2>1 DEF WriteUnits
  <2>2. CASE Disable
    BY <2>2 DEF Disable
  <2>3. CASE StopService
    BY <2>3 DEF StopService
  <2>4. QED
    BY <1>2, <2>1, <2>2, <2>3
<1>3. CASE Enable
  BY <1>3 DEF Enable
<1>4. CASE Stopped \/ RemoveUnits
  <2>1. CASE Stopped
    BY <2>1 DEF Stopped
  <2>2. CASE RemoveUnits
    BY <2>2 DEF RemoveUnits
  <2>3. QED
    BY <1>4, <2>1, <2>2
<1>5. CASE FailJob
  <2>1. faults' \in 0..MaxFaults
    BY <1>5 DEF FailJob
  <2>2. /\ admin' \in {"stop", "remove", "failed"}
        /\ ignored' \subseteq ignored \cup {"disable", "stop"}
    BY <1>5 DEF FailJob
  <2>3. UNCHANGED <<unit, loaded, jobs, path, pc, busVars, stopVars, clientVars>>
    BY <1>5 DEF FailJob
  <2>4. QED
    BY <2>1, <2>2, <2>3
<1>6. QED
  BY <1>1, <1>2, <1>3, <1>4, <1>5 DEF Units

LEMMA TypeInit == Init => Shape
  BY DEF Init, Shape, TypeOK, ShapeInv, Agent, Client

LEMMA TypeStep == Shape /\ [Next]_vars => Shape'
<1> SUFFICES ASSUME Shape, [Next]_vars PROVE Shape'
  OBVIOUS
<1>1. CASE UNCHANGED vars
  BY <1>1 DEF Shape, TypeOK, ShapeInv, vars, unitVars, busVars, stopVars, clientVars
<1>2. QED
  BY <1>1, StepKinds, AgentKeepsTypes, ClientKeepsTypes, UnitsKeepTypes

-----------------------------------------------------------------------------
(* The name                                                                  *)

LEMMA NameStep ==
    ASSUME Shape, NameInv, [Next]_vars
    PROVE  NameInv'
<1> USE DEF Shape, TypeOK, NameInv, Goto
<1>1. ASSUME NEW a \in Agent, Process(a)
      PROVE  NameInv'
  <2>1. CASE RequestName(a)
    BY <2>1 DEF RequestName
  <2>2. CASE OpenVault(a) \/ Export(a)
    BY <2>2 DEF OpenVault, Export
  <2>3. CASE socketListener(a) \/ Bind(a) \/ requestStop(a)
    BY <2>3 DEF socketListener, Bind, requestStop, busVars
  <2>4. CASE ShutDown(a) \/ CloseListener(a)
    BY <2>4 DEF ShutDown, CloseListener, busVars
  \* Another agent that is past RequestName owns the name, so a gives up nothing.
  <2>5. CASE LeaveBus(a)
    BY <2>5 DEF LeaveBus
  <2>6. QED
    BY <1>1, <2>1, <2>2, <2>3, <2>4, <2>5 DEF Process
<1>2. ASSUME NEW a \in Agent, FailStart(a) \/ Kill(a) \/ AskToStop(a) \/ ServiceStep(a)
      PROVE  NameInv'
  <2>1. CASE FailStart(a)
    BY <2>1 DEF FailStart, busVars
  <2>2. CASE Kill(a)
    BY <2>2 DEF Kill, Running
  <2>3. CASE AskToStop(a) \/ ServiceStep(a)
    BY <2>3 DEF AskToStop, ServiceStep, StartByHand, Activate, busVars
  <2>4. QED
    BY <1>2, <2>1, <2>2, <2>3
<1>3. ASSUME NEW c \in Client, ClientStep(c)
      PROVE  NameInv'
  BY <1>3, ClientsOnlyAsk DEF busVars
<1>4. CASE Units \/ UNCHANGED vars
  BY <1>4 DEF Units, BeginJob, WriteUnits, Enable, Disable, StopService, Stopped, RemoveUnits,
              FailJob, vars, busVars
<1>5. QED
  BY <1>1, <1>2, <1>3, <1>4, StepKinds DEF ProcessStep

-----------------------------------------------------------------------------
(* The vault                                                                 *)

\* Whoever a client hears a pong from can be reached, so it has its vault.
LEMMA PongFromVault ==
    ASSUME Shape, VaultInv, NEW c \in Client, ClientStep(c)
    PROVE  HealthyHasVault'
<1> USE DEF Shape, TypeOK, VaultInv, HealthyHasVault, Advance, busVars
<1>1. CASE FirstPing(c) \/ Poll(c)
  BY <1>1 DEF FirstPing, Poll, Reply
<1>2. CASE Dial(c) \/ Reset(c) \/ Pong(c)
  BY <1>2 DEF Dial, Reset, Pong
<1>3. CASE WakeTimesOut(c) \/ GiveUp(c)
  BY <1>3 DEF WakeTimesOut, GiveUp
<1>4. CASE \E a \in Agent : Accept(c, a)
  BY <1>4 DEF Accept
<1>5. QED
  BY <1>1, <1>2, <1>3, <1>4 DEF ClientStep, WaitHealthy

LEMMA VaultStep ==
    ASSUME Shape, VaultInv, [Next]_vars
    PROVE  VaultInv'
<1> USE DEF Shape, TypeOK, VaultInv, HealthyHasVault, Goto
<1>1. ASSUME NEW a \in Agent, ProcessStep(a) \/ ServiceStep(a)
      PROVE  VaultInv'
  <2>1. CASE OpenVault(a)
    BY <2>1 DEF OpenVault, clientVars
  <2>2. CASE Export(a)
    BY <2>2 DEF Export, clientVars
  <2>3. CASE socketListener(a) \/ Bind(a) \/ RequestName(a) \/ requestStop(a)
    BY <2>3 DEF socketListener, Bind, RequestName, requestStop, busVars, clientVars
  <2>4. CASE ShutDown(a) \/ LeaveBus(a) \/ CloseListener(a)
    BY <2>4 DEF ShutDown, LeaveBus, CloseListener, busVars, clientVars
  <2>5. CASE FailStart(a) \/ Kill(a)
    BY <2>5 DEF FailStart, Kill, busVars, clientVars
  <2>6. CASE AskToStop(a) \/ ServiceStep(a)
    BY <2>6 DEF AskToStop, ServiceStep, StartByHand, Activate, busVars, clientVars
  <2>7. QED
    BY <1>1, <2>1, <2>2, <2>3, <2>4, <2>5, <2>6 DEF ProcessStep, Process
<1>2. ASSUME NEW c \in Client, ClientStep(c)
      PROVE  VaultInv'
  BY <1>2, PongFromVault, ClientsOnlyAsk DEF busVars
<1>3. CASE Units
  <2>1. UNCHANGED <<pc, busVars, via>>
    BY <1>3 DEF Units, BeginJob, WriteUnits, Enable, Disable, StopService, Stopped,
                RemoveUnits, FailJob, clientVars
  <2>2. \A c \in Client : client'[c] = "healthy" => client[c] = "healthy"
    BY <1>3 DEF Units, BeginJob, WriteUnits, Enable, Disable, StopService, Stopped,
                RemoveUnits, FailJob, clientVars
  <2>3. QED
    BY <2>1, <2>2 DEF busVars
<1>4. CASE UNCHANGED vars
  BY <1>4 DEF vars, busVars, clientVars
<1>5. QED
  BY <1>1, <1>2, <1>3, <1>4, StepKinds

-----------------------------------------------------------------------------
(* Uninstalling                                                              *)

LEMMA DownStep ==
    ASSUME Shape, DownInv, [Next]_vars
    PROVE  DownInv'
<1> USE DEF Shape, TypeOK, DownInv, Terminated, Running, Goto
\* The steps of a process that runs start none.
<1>1. ASSUME NEW a \in Agent, ProcessStep(a)
      PROVE  /\ UNCHANGED <<unit, admin, ignored>>
             /\ \A b \in Agent : ~Running(b) => pc'[b] = pc[b]
  <2>1. CASE socketListener(a) \/ Bind(a) \/ RequestName(a) \/ OpenVault(a) \/ Export(a)
    BY <2>1 DEF socketListener, Bind, RequestName, OpenVault, Export, unitVars
  <2>2. CASE ShutDown(a) \/ LeaveBus(a) \/ CloseListener(a)
    BY <2>2 DEF ShutDown, LeaveBus, CloseListener, unitVars
  <2>3. CASE requestStop(a) \/ AskToStop(a)
    BY <2>3 DEF requestStop, AskToStop, unitVars
  <2>4. CASE FailStart(a) \/ Kill(a)
    BY <2>4 DEF FailStart, Kill, unitVars
  <2>5. QED
    BY <1>1, <2>1, <2>2, <2>3, <2>4 DEF ProcessStep, Process
<1>2. ASSUME NEW a \in Agent, ProcessStep(a)
      PROVE  DownInv'
  BY <1>1, <1>2 DEF Agent
<1>3. ASSUME NEW a \in Agent, ServiceStep(a)
      PROVE  DownInv'
  <2>1. CASE a \in ByHand /\ StartByHand(a)
    BY <2>1 DEF StartByHand, unitVars, Agent
  <2>2. CASE a \in Activated /\ Activate(a)
    BY <2>2 DEF Activate, unitVars
  <2>3. QED
    BY <1>3, <2>1, <2>2 DEF ServiceStep
<1>4. ASSUME NEW c \in Client, ClientStep(c)
      PROVE  DownInv'
  BY <1>4, ClientsOnlyAsk DEF unitVars
<1>5. CASE Units
  <2>1. CASE BeginJob("write") \/ BeginJob("disable") \/ WriteUnits \/ Enable
    BY <2>1 DEF BeginJob, WriteUnits, Enable, Admin
  <2>2. CASE Disable \/ StopService \/ Stopped \/ RemoveUnits
    BY <2>2 DEF Disable, StopService, Stopped, RemoveUnits, Admin
  <2>3. CASE FailJob
    BY <2>3 DEF FailJob, Admin
  <2>4. QED
    BY <1>5, <2>1, <2>2, <2>3 DEF Units
<1>6. CASE UNCHANGED vars
  BY <1>6 DEF vars, unitVars
<1>7. QED
  BY <1>2, <1>3, <1>4, <1>5, <1>6, StepKinds

-----------------------------------------------------------------------------
(* A start that nothing disturbs                                             *)

LEMMA CalmBefore ==
    ASSUME Shape, [Next]_vars, ~Disturbed'
    PROVE  /\ ~Disturbed /\ UNCHANGED <<faults, stops, jobs>>
           /\ \A a \in ByHand : pc[a] = "off" /\ pc'[a] = "off"
<1>1. /\ faults \in Nat /\ faults' \in {faults, faults + 1} /\ faults' \in Nat
      /\ stops \in Nat /\ stops' \in {stops, stops + 1} /\ stops' \in Nat
      /\ jobs \in Nat /\ jobs' \in {jobs, jobs + 1} /\ jobs' \in Nat
  <2>1. Shape'
    BY TypeStep
  <2>2. faults \in Nat /\ faults' \in Nat /\ stops \in Nat /\ stops' \in Nat /\ jobs \in Nat /\ jobs' \in Nat
    BY <2>1 DEF Shape, TypeOK
  <2>3. ASSUME NEW a \in Agent, ProcessStep(a) \/ ServiceStep(a)
        PROVE  /\ faults' \in {faults, faults + 1} /\ stops' \in {stops, stops + 1}
               /\ UNCHANGED jobs
    BY <2>3 DEF ProcessStep, ServiceStep, Process, socketListener, Bind, RequestName, OpenVault,
                Export, ShutDown, LeaveBus, CloseListener, requestStop, FailStart, Kill, AskToStop,
                StartByHand, Activate, unitVars, stopVars
  <2>4. ASSUME Units
        PROVE  /\ faults' \in {faults, faults + 1} /\ jobs' \in {jobs, jobs + 1}
               /\ UNCHANGED stops
    BY <2>4 DEF Units, BeginJob, WriteUnits, Enable, Disable, StopService, Stopped, RemoveUnits,
                FailJob, stopVars
  <2>5. UNCHANGED vars => UNCHANGED <<faults, stops, jobs>>
    BY DEF vars, stopVars, unitVars
  <2>6. ASSUME NEW c \in Client, ClientStep(c)
        PROVE  UNCHANGED <<faults, stops, jobs>>
    BY <2>6, ClientsOnlyAsk DEF stopVars, unitVars
  <2>7. QED
    BY <2>2, <2>3, <2>4, <2>5, <2>6, StepKinds
<1>2. faults' = 0 /\ stops' = 0 /\ jobs' = 0
  BY <1>1 DEF Disturbed
<1>3. faults = 0 /\ stops = 0 /\ jobs = 0
  BY <1>1, <1>2
<1>4. ASSUME NEW a \in ByHand
      PROVE  pc[a] = "off" /\ pc'[a] = "off"
  <2>1. pc'[a] = "off"
    BY DEF Disturbed
  <2>2. ASSUME NEW b \in Agent, ProcessStep(b) \/ ServiceStep(b)
        PROVE  pc[a] = "off"
    BY <2>1, <2>2 DEF ProcessStep, ServiceStep, Process, socketListener, Bind, RequestName,
                OpenVault, Export, ShutDown, LeaveBus, CloseListener, requestStop, FailStart, Kill,
                AskToStop, StartByHand, Activate, Goto, Shape, TypeOK, Agent
  <2>3. Units \/ UNCHANGED vars => UNCHANGED pc
    BY DEF Units, BeginJob, WriteUnits, Enable, Disable, StopService, Stopped, RemoveUnits,
           FailJob, vars
  <2>4. ASSUME NEW c \in Client, ClientStep(c)
        PROVE  UNCHANGED pc
    BY <2>4, ClientsOnlyAsk
  <2>5. QED
    BY <2>1, <2>2, <2>3, <2>4, StepKinds
<1>5. QED
  BY <1>2, <1>3, <1>4 DEF Disturbed

LEMMA CalmStep ==
    ASSUME Shape, NameInv, CalmInv, [Next]_vars
    PROVE  CalmInv'
<1> SUFFICES ASSUME ~Disturbed' PROVE CalmAgents' /\ CalmClients'
  BY DEF CalmInv
<1>1. /\ ~Disturbed /\ UNCHANGED <<faults, stops, jobs>> /\ faults = 0 /\ stops = 0 /\ jobs = 0
      /\ \A a \in ByHand : pc[a] = "off" /\ pc'[a] = "off"
  <2>1. faults \in Nat /\ stops \in Nat /\ jobs \in Nat
    BY DEF Shape, TypeOK
  <2>2. QED
    BY <2>1, CalmBefore DEF Disturbed
<1>2. CalmAgents /\ CalmClients
  BY <1>1 DEF CalmInv
<1>3. ASSUME NEW a \in Agent, ProcessStep(a) \/ ServiceStep(a)
      PROVE  CalmAgents' /\ CalmClients'
  <2> USE DEF Shape, TypeOK, Goto
  <2>1. UNCHANGED clientVars
    BY <1>3 DEF ProcessStep, ServiceStep, Process, socketListener, Bind, RequestName, OpenVault,
                Export, ShutDown, LeaveBus, CloseListener, requestStop, FailStart, Kill, AskToStop,
                StartByHand, Activate
  <2>2. ~FailStart(a) /\ ~Kill(a) /\ ~AskToStop(a)
    BY <1>1 DEF FailStart, Kill, AskToStop
  <2>3. ~ShutDown(a) /\ ~LeaveBus(a) /\ ~CloseListener(a) /\ ~requestStop(a) /\ ~Bind(a)
    BY <1>2 DEF ShutDown, LeaveBus, CloseListener, requestStop, Bind, CalmAgents
  <2>4. ~(a \in ByHand /\ StartByHand(a))
    BY <1>1 DEF StartByHand
  <2>5. /\ CalmAgents'
        /\ \A b \in Agent : Serving(b) => Serving(b)'
    <3>1. CASE socketListener(a)
      <4>1. a \in Activated
        BY <1>1, <3>1 DEF socketListener
      <4>2. QED
        BY <1>2, <3>1, <4>1 DEF socketListener, CalmAgents, Serving, unitVars, busVars, stopVars
    <3>2. CASE RequestName(a)
      <4>1. owner = None
        BY <1>2, <3>2 DEF RequestName, CalmAgents
      <4>2. QED
        BY <1>2, <3>2, <4>1 DEF RequestName, CalmAgents, Serving, unitVars, stopVars
    <3>3. CASE OpenVault(a) \/ Export(a)
      BY <1>2, <3>3 DEF OpenVault, Export, CalmAgents, Serving, unitVars, stopVars
    <3>4. CASE a \in Activated /\ Activate(a)
      <4>1. \A b \in Agent : pc[b] = "off"
        BY <1>1, <1>2, <3>4 DEF Activate, CalmAgents, Running, Agent
      <4>2. QED
        BY <1>2, <3>4, <4>1 DEF Activate, CalmAgents, Serving, unitVars, busVars, stopVars
    <3>5. QED
      BY <1>3, <2>2, <2>3, <2>4, <3>1, <3>2, <3>3, <3>4 DEF ProcessStep, ServiceStep, Process
  <2>6. CalmClients'
    BY <1>2, <2>1, <2>5 DEF CalmClients, clientVars
  <2>7. QED
    BY <2>5, <2>6
<1>4. ASSUME NEW c \in Client, ClientStep(c)
      PROVE  CalmAgents' /\ CalmClients'
  <2>1. UNCHANGED <<unitVars, path, pc, busVars, stopVars, faults>>
    BY <1>4, ClientsOnlyAsk
  <2>2. CalmAgents' /\ \A a : Serving(a)' <=> Serving(a)
    BY <1>2, <2>1 DEF CalmAgents, Serving, unitVars, busVars, stopVars
  <2>3. late \subseteq late' /\ woke \subseteq woke'
    BY <1>4 DEF ClientStep, WaitHealthy, FirstPing, Dial, Reset, Poll, WakeTimesOut, GiveUp, Pong,
                Accept, Expire
  <2>4. \A d \in Client \ {c} : client'[d] = client[d] /\ via'[d] = via[d] /\ (d \in woke' => d \in woke)
    BY <1>4 DEF ClientStep, WaitHealthy, FirstPing, Dial, Reset, Poll, WakeTimesOut, GiveUp, Pong,
                Accept, Advance, Shape, TypeOK
  \* A deadline that passes for a doctor that was answered passes while the agent
  \* that answered it starts or is there.
  <2>5. ASSUME client[c] \in {"accepted", "poll"}, Expire(c)
        PROVE  c \in late'
    <3>1. via[c] \in Agent /\ Serving(via[c]) /\ pc[via[c]] \notin {"ending", "closing"}
      BY <1>2, <2>5 DEF CalmClients, CalmAgents
    <3>2. Starting(via[c]) \/ (pc[via[c]] = "ready" /\ owner = via[c])
      BY <3>1 DEF Serving, Starting, NameInv
    <3>3. OnItsWay(c)
      BY <3>1, <3>2 DEF OnItsWay
    <3>4. QED
      BY <2>5, <3>3 DEF Expire
  <2>6. /\ client'[c] \in {"ping", "wake"} => via'[c] = None
        /\ client'[c] = "sent" => via'[c] = "unit" \/ via'[c] \in ByHand
        /\ client'[c] \in {"accepted", "poll"} => via'[c] \in Agent /\ Serving(via'[c])
        /\ client'[c] = "error" /\ c \in woke' /\ via'[c] \in Activated => c \in late'
    <3> USE DEF Shape, TypeOK, CalmClients, Advance
    <3>0. "unit" \notin Activated /\ None \notin Activated /\ \A a \in ByHand : a \notin Activated
      BY DEF Agent
    <3>1. CASE FirstPing(c)
      <4>1. via[c] = None /\ client[c] = "ping"
        BY <1>2, <3>1 DEF FirstPing
      <4>2. client'[c] = "healthy" \/ (client'[c] \in {"wake", "error"} /\ via'[c] = None)
        BY <3>1, <4>1 DEF FirstPing
      <4>3. QED
        BY <3>0, <4>2
    <3>2. CASE Dial(c)
      <4>1. Listening(path) => path \in ByHand \cup {"unit"}
        BY DEF Listening
      <4>2. QED
        BY <1>2, <3>0, <3>2, <4>1 DEF Dial
    <3>3. CASE Reset(c)
      <4>1. client[c] = "sent" /\ via'[c] = via[c] /\ client'[c] = "error"
        BY <1>2, <3>3 DEF Reset, Listening
      <4>2. via[c] \notin Activated
        BY <1>2, <3>0, <4>1
      <4>3. QED
        BY <4>1, <4>2
    <3>4. CASE Poll(c)
      BY <3>4 DEF Poll
    <3>5. CASE WakeTimesOut(c)
      <4>1. client'[c] = "error" /\ via'[c] = via[c] /\ client[c] \in {"sent", "accepted"} /\ Expire(c)
        BY <3>5 DEF WakeTimesOut
      <4>2. client[c] = "sent" => via[c] \notin Activated
        BY <1>2, <3>0
      <4>3. QED
        BY <2>5, <4>1, <4>2
    <3>6. CASE GiveUp(c)
      <4>1. client'[c] = "error" /\ client[c] = "poll" /\ Expire(c)
        BY <3>6 DEF GiveUp
      <4>2. QED
        BY <2>5, <4>1
    <3>7. CASE Pong(c)
      BY <1>2, <3>7 DEF Pong
    <3>8. ASSUME NEW a \in Agent, Accept(c, a)
          PROVE  client'[c] = "accepted" /\ via'[c] = a /\ Serving(a)
      BY <3>8 DEF Accept
    <3>9. QED
      BY <1>4, <3>1, <3>2, <3>3, <3>4, <3>5, <3>6, <3>7, <3>8 DEF ClientStep, WaitHealthy
  <2>7. CalmClients'
    BY <1>2, <2>2, <2>3, <2>4, <2>6 DEF CalmClients
  <2>8. QED
    BY <2>2, <2>7
<1>5. ~Units
  BY <1>1, <1>2 DEF Units, BeginJob, WriteUnits, Enable, Disable, StopService, Stopped, RemoveUnits,
                    FailJob, Admin, CalmAgents
<1>6. CASE UNCHANGED vars
  BY <1>2, <1>6 DEF vars, unitVars, busVars, stopVars, clientVars, CalmAgents, CalmClients, Serving
<1>7. QED
  BY <1>3, <1>4, <1>5, <1>6, StepKinds

-----------------------------------------------------------------------------
(* The theorems                                                              *)

LEMMA Invariance == Spec => []IInv
<1>1. Init => IInv
  BY TypeInit DEF Init, IInv, NameInv, VaultInv, HealthyHasVault, DownInv,
                  CalmInv, CalmAgents, CalmClients
<1>2. IInv /\ [Next]_vars => IInv'
  BY TypeStep, NameStep, VaultStep, DownStep, CalmStep DEF IInv
<1>3. QED
  BY <1>1, <1>2, PTL DEF Spec

\* The variables of the life cycle have their types: no step names a place that
\* Run, WaitHealthy or the installing of units does not have.
THEOREM TypeCorrect == Spec => []TypeOK
<1>1. IInv => TypeOK
  BY DEF IInv, Shape
<1>2. QED
  BY <1>1, Invariance, PTL

\* However many agents systemd and users start, with whatever failing or dying in
\* between, one that is ready is the one callers reach, so two never are: session
\* grants and pending requests are not split over two processes. (Run)
THEOREM ReadyAgentOwnsName == Spec => []ReadyOwnsName
<1>1. IInv => ReadyOwnsName
  BY DEF IInv, NameInv, ReadyOwnsName
<1>2. QED
  BY <1>1, Invariance, PTL

\* An agent any client found healthy had its Secret Service session, at whatever
\* moment of the agent's start the client's pings fell. (Run, Ping, WaitHealthy)
THEOREM HealthyAgentHasVault == Spec => []HealthyHasVault
<1>1. IInv => HealthyHasVault
  BY DEF IInv, VaultInv
<1>2. QED
  BY <1>1, Invariance, PTL

\* After an uninstall that reported success an agent of systemd's runs or will be
\* started only if systemctl disable or stop failed in it, whatever clients
\* connected and whatever else failed while it went on. (UninstallUnits: disable
\* before stop, stop before the files are removed)
THEOREM UninstalledIsDown == Spec => []UninstalledStaysDown
<1>1. IInv => UninstalledStaysDown
  BY DEF IInv, DownInv, UninstalledStaysDown
<1>2. QED
  BY <1>1, Invariance, PTL

\* A doctor that found nobody and was answered at the socket finds the agent
\* healthy in the end, however its pings fall into the agent's start, unless a
\* step fails, somebody interferes, or its deadline passes first. (WaitHealthy)
THEOREM WokenIsHealthy == Spec => []WokenGetsHealthy
<1>1. IInv => WokenGetsHealthy
  BY DEF IInv, Shape, TypeOK, CalmInv, CalmClients, WokenGetsHealthy, Client
<1>2. QED
  BY <1>1, Invariance, PTL
=============================================================================
