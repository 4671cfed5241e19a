----------------------------- MODULE GatedCallProofs -----------------------------
(* Theorems about GatedCall!Spec, for any calls, launchers, commands, policies   *)
(* and bounds: the gate inside it behaves as ApprovalGate does, so that what is   *)
(* proved of the gate holds in it; and with that the shim's promises follow: no  *)
(* command runs unauthorized, unlogged, or against a Deny. The last part is about *)
(* the class that a call is put as: what GhClassify makes of a command line.     *)
EXTENDS GatedCall, GhClassify, SequenceTheorems, WellFoundedInduction, TLAPS

Proved == INSTANCE ApprovalGateProofs

-----------------------------------------------------------------------------
(* The gate that the theorems of ApprovalGateProofs are about is this one        *)

LEMMA GateAssumptions == /\ Proved!PidAssumption /\ Proved!BoundAssumption
                         /\ Proved!NoneAssumption /\ Proved!CommandAssumption
  BY GateAssumption
     DEF Gate!PidAssumption, Gate!BoundAssumption, Gate!NoneAssumption, Gate!CommandAssumption,
         Proved!PidAssumption, Proved!BoundAssumption, Proved!NoneAssumption,
         Proved!CommandAssumption, Gate!Class, Proved!Class

LEMMA SameVars == UNCHANGED gateState <=> UNCHANGED Proved!gvars
  BY DEF gateState, Proved!gvars, Proved!requestVars, Proved!callVars, Proved!gateVars

LEMMA SameOutside ==
    /\ Gate!Init <=> Proved!Init
    /\ Gate!World <=> Proved!World
    /\ \A c \in Call, l \in Gate!Launcher : Gate!Invoke(c, l) <=> Proved!Invoke(c, l)
    /\ \A c \in Call, o \in BOOLEAN : Gate!RequestGate(c, o) <=> Proved!RequestGate(c, o)
    /\ Gate!Launcher = Proved!Launcher
<1> USE DEF Gate!requestVars, Gate!callVars, Gate!gateVars, Gate!Launcher, Gate!Reaper, Gate!Key,
            Gate!IsAlive, Gate!NoSessions, Proved!requestVars, Proved!callVars, Proved!gateVars,
            Proved!Launcher, Proved!Reaper, Proved!Key, Proved!IsAlive, Proved!NoSessions
<1>1. Gate!Init <=> Proved!Init
  BY DEF Gate!Init, Proved!Init
<1>2. \A i \in Pid : (Gate!Exit(i) <=> Proved!Exit(i)) /\ (Gate!Fork(i) <=> Proved!Fork(i))
  BY DEF Gate!Exit, Proved!Exit, Gate!Fork, Proved!Fork
<1>3. /\ \A c \in Call : Gate!Orphan(c) <=> Proved!Orphan(c)
      /\ \A i \in Pid, l \in Gate!Launcher, S \in SUBSET Call :
            Gate!Become(i, l, S) <=> Proved!Become(i, l, S)
  BY DEF Gate!Orphan, Proved!Orphan, Gate!Become, Proved!Become
<1>4. \A k \in Gate!Key : Gate!GoIdle(k) <=> Proved!GoIdle(k)
  BY DEF Gate!GoIdle, Proved!GoIdle, Gate!Renewed, Proved!Renewed
<1>5. \A c \in Call, l \in Gate!Launcher : Gate!Invoke(c, l) <=> Proved!Invoke(c, l)
  BY DEF Gate!Invoke, Proved!Invoke
<1>6. \A c \in Call, o \in BOOLEAN : Gate!RequestGate(c, o) <=> Proved!RequestGate(c, o)
  BY DEF Gate!RequestGate, Proved!RequestGate
<1>7. QED
  BY <1>1, <1>2, <1>3, <1>4, <1>5, <1>6 DEF Gate!World, Proved!World

LEMMA SameGoroutine ==
    ASSUME NEW c \in Call
    PROVE  Gate!Goroutine(c) <=> Proved!Goroutine(c)
<1> USE DEF Gate!requestVars, Gate!callVars, Gate!gateVars, Gate!Launcher, Gate!KeyOf,
            Gate!sessionKey, Gate!IsAlive, Gate!DecisionOf, Gate!Leave,
            Proved!requestVars, Proved!callVars, Proved!gateVars, Proved!Launcher, Proved!KeyOf,
            Proved!sessionKey, Proved!IsAlive, Proved!DecisionOf, Proved!Leave
<1>1. Gate!Resolve(c) <=> Proved!Resolve(c)
  BY DEF Gate!Resolve, Proved!Resolve, Gate!ResolveLauncher, Proved!ResolveLauncher
<1>2. Gate!CheckSessionGrant(c) <=> Proved!CheckSessionGrant(c)
  BY DEF Gate!CheckSessionGrant, Proved!CheckSessionGrant, Gate!Matches, Proved!Matches,
         Gate!Usable, Proved!Usable, Gate!Renewed, Proved!Renewed,
         Gate!classCoveredBy, Proved!classCoveredBy, Gate!classRank, Proved!classRank
<1>3. (Gate!CannotShow(c) <=> Proved!CannotShow(c)) /\ (Gate!Show(c) <=> Proved!Show(c))
  BY DEF Gate!CannotShow, Proved!CannotShow, Gate!Show, Proved!Show
<1>4. /\ Gate!TakeAnswer(c) <=> Proved!TakeAnswer(c)
      /\ Gate!WindowGone(c) <=> Proved!WindowGone(c)
      /\ Gate!Timeout(c) <=> Proved!Timeout(c)
  BY DEF Gate!TakeAnswer, Proved!TakeAnswer, Gate!WindowGone, Proved!WindowGone,
         Gate!Timeout, Proved!Timeout
<1>5. Gate!Return(c) <=> Proved!Return(c)
  BY DEF Gate!Return, Proved!Return, Gate!ForgetRequest, Proved!ForgetRequest,
         Gate!IsGrant, Proved!IsGrant
<1>6. QED
  BY <1>1, <1>2, <1>3, <1>4, <1>5 DEF Gate!Goroutine, Proved!Goroutine

LEMMA SameAgent == Gate!Agent <=> Proved!Agent
<1> USE DEF Gate!requestVars, Gate!callVars, Gate!gateVars, Gate!Answer, Gate!Offered, Gate!Mark,
            Gate!Marked, Proved!requestVars, Proved!callVars, Proved!gateVars, Proved!Answer,
            Proved!Offered, Proved!Mark, Proved!Marked
<1>1. ASSUME NEW c \in Call, NEW n \in 1..MaxPress
      PROVE  /\ Gate!LookUp(c, n) <=> Proved!LookUp(c, n)
             /\ Gate!Submit(c, n) <=> Proved!Submit(c, n)
             /\ \A a \in Gate!Answer : Gate!Answers(c, n, a) <=> Proved!Answers(c, n, a)
  BY DEF Gate!LookUp, Proved!LookUp, Gate!Submit, Proved!Submit, Gate!Answers, Proved!Answers
<1>2. ASSUME NEW c \in Call
      PROVE  Gate!Window(c) <=> Proved!Window(c)
  BY <1>1 DEF Gate!Window, Proved!Window, Gate!CloseWindow, Proved!CloseWindow
<1>3. Gate!Crash <=> Proved!Crash
  BY DEF Gate!Crash, Proved!Crash, Gate!InFlight, Proved!InFlight, Gate!NoSessions,
         Proved!NoSessions, Gate!Key, Proved!Key
<1>4. Gate!Start <=> Proved!Start
  BY DEF Gate!Start, Proved!Start
<1>5. QED
  BY <1>2, <1>3, <1>4, SameGoroutine DEF Gate!Agent, Proved!Agent

-----------------------------------------------------------------------------
(* A gated call is one of the gate's                                         *)

\* The steps by which a shim asks for a request, or leaves the gate alone.
LEMMA GateOnlyAsked ==
    ASSUME NEW c \in Call, Shim(c)
    PROVE  UNCHANGED gateState \/ AskGate(c)
  BY DEF Shim, ResolveIdentity, ReadPolicy, GateReplies, GateError, Concluded, LogDecision,
         ReleaseSecret, Exec

\* The shim offers "Allow for Session" for no secret, as ApprovalGate expects.
LEMMA AskIsRequest ==
    ASSUME NEW c \in Call, AskGate(c), entry \in [Call -> Entry]
    PROVE  Proved!Request(c)
<1>1. offerSession(c) \in BOOLEAN
  BY DEF offerSession, Entry
<1>2. Proved!RequestGate(c, offerSession(c))
  BY <1>1, SameOutside DEF AskGate
<1>3. offerSession(c) => command[c].class # "secret-reveal"
  BY DEF offerSession
<1>4. QED
  BY <1>1, <1>2, <1>3 DEF Proved!Request

LEMMA StepIsGateStep ==
    ASSUME entry \in [Call -> Entry], [Next]_vars
    PROVE  [Proved!Next]_(Proved!gvars)
<1>1. ASSUME NEW c \in Call, Shim(c)
      PROVE  [Proved!Next]_(Proved!gvars)
  BY <1>1, GateOnlyAsked, AskIsRequest, SameVars DEF Proved!Next
<1>2. ASSUME NEW k \in IdentityKey, NEW e \in EntryRange, ChangePolicy(k, e)
      PROVE  UNCHANGED Proved!gvars
  BY <1>2, SameVars DEF ChangePolicy
<1>3. CASE Outside
  BY <1>3, SameOutside, SameAgent DEF Outside, Proved!Next
<1>4. CASE UNCHANGED vars
  BY <1>4, SameVars DEF vars
<1>5. QED
  BY <1>1, <1>2, <1>3, <1>4 DEF Next

-----------------------------------------------------------------------------
(* Types                                                                     *)

ShimTypes ==
    /\ policy \in [IdentityKey -> Entry]
    /\ changes \in 0..MaxChanges
    /\ shim \in [Call -> {"start", "policy", "ask", "gate", "log", "release",
                         "exec", "ran", "exited"}]
    /\ identity \in [Call -> IdentityKey \cup {None}]
    /\ entry \in [Call -> Entry]
    /\ outcome \in [Call -> Decision \cup {"none"}]
    /\ row \in [Call -> Decision \cup {"none"}]
    /\ released \in SUBSET Call
    \* A shim that reads its policy knows its launcher.
    /\ \A c \in Call : shim[c] = "policy" => identity[c] \in IdentityKey

LEMMA SameTypes == Gate!TypeOK <=> Proved!TypeOK
  BY DEF Gate!TypeOK, Gate!Launcher, Gate!Decision, Gate!Answer, Gate!Press, Gate!PressState,
         Gate!Key, Gate!Grant, Gate!Tool, Gate!Class, Proved!TypeOK, Proved!Launcher,
         Proved!Decision, Proved!Answer, Proved!Press, Proved!PressState, Proved!Key,
         Proved!Grant, Proved!Tool, Proved!Class

LEMMA ShimTypesInit == Init => ShimTypes
  BY EntryAssumption, ChangesAssumption DEF Init, ShimTypes, Unenrolled, Entry, Level

LEMMA ShimKeepsTypes ==
    ASSUME Proved!TypeOK, ShimTypes, NEW c \in Call, Shim(c)
    PROVE  ShimTypes'
<1> USE DEF ShimTypes, Step
<1>1. CASE ResolveIdentity(c)
  <2>1. parent[c] # None => parent[c] \in Gate!Launcher
    BY SameTypes DEF Gate!TypeOK
  <2>2. QED
    BY <1>1, <2>1, ProgramAssumption DEF ResolveIdentity
<1>2. CASE ReadPolicy(c)
  <2>1. ASSUME NEW level, NEW cl
        PROVE  Decide(level, cl) \in {"deny", "auto-allow", "prompt"}
    BY DEF Decide
  <2>2. QED
    BY <1>2, <2>1 DEF ReadPolicy, Decision
<1>3. CASE AskGate(c)
  BY <1>3 DEF AskGate
<1>4. CASE GateReplies(c) \/ GateError(c)
  BY <1>4 DEF GateReplies, GateError, Concluded, Decision
<1>5. CASE LogDecision(c)
  BY <1>5 DEF LogDecision
<1>6. CASE ReleaseSecret(c) \/ Exec(c)
  BY <1>6 DEF ReleaseSecret, Exec
<1>7. QED
  BY <1>1, <1>2, <1>3, <1>4, <1>5, <1>6 DEF Shim

LEMMA ShimTypesStep ==
    ASSUME Proved!TypeOK, ShimTypes, [Next]_vars
    PROVE  ShimTypes'
<1>1. ASSUME NEW k \in IdentityKey, NEW e \in EntryRange, ChangePolicy(k, e)
      PROVE  ShimTypes'
  BY <1>1, EntryAssumption, ChangesAssumption DEF ChangePolicy, ShimTypes, shimVars
<1>2. CASE (Outside /\ UNCHANGED <<policy, changes, shimVars>>) \/ UNCHANGED vars
  BY <1>2 DEF ShimTypes, shimVars, vars
<1>3. QED
  BY <1>1, <1>2, ShimKeepsTypes DEF Next

\* The gate of a gated call is an ApprovalGate: what is proved of one holds of it.
LEMMA GateAndTypes == Spec => Proved!Spec /\ []ShimTypes /\ []Proved!TypeOK
<1>1. Init => Proved!Init /\ ShimTypes
  BY SameOutside, ShimTypesInit DEF Init
<1>2. Proved!Init => Proved!TypeOK
  BY GateAssumptions, Proved!InitTypeOK
     DEF Proved!PidAssumption, Proved!BoundAssumption, Proved!NoneAssumption,
         Proved!CommandAssumption
<1>3. Proved!TypeOK /\ [Proved!Next]_(Proved!gvars) => Proved!TypeOK'
  BY GateAssumptions, Proved!TypeOKStep
     DEF Proved!PidAssumption, Proved!BoundAssumption, Proved!NoneAssumption,
         Proved!CommandAssumption
<1>4. ShimTypes /\ [Next]_vars => [Proved!Next]_(Proved!gvars)
  BY StepIsGateStep DEF ShimTypes
<1>5. Proved!TypeOK /\ ShimTypes /\ [Next]_vars => ShimTypes'
  BY ShimTypesStep
<1>6. QED
  BY <1>1, <1>2, <1>3, <1>4, <1>5, PTL DEF Spec, Proved!Spec

-----------------------------------------------------------------------------
(* What a shim knows of its request                                          *)

Prompted(c) == Decide(entry[c].level, command[c].class) = "prompt"

\* The gate hears of a call, and shows a window, only once policy said to ask.
AskedInv(c) ==
    /\ shim[c] \in {"ask", "gate"} => Prompted(c)
    /\ pc[c] # "idle" => Prompted(c) /\ shim[c] \notin {"start", "policy", "ask"}
    /\ window[c] # "none" => pc[c] # "idle"

\* What the shim acts on is what policy said, or what its request returned.
OutcomeInv(c) ==
    /\ shim[c] \in {"start", "policy", "ask", "gate"} => outcome[c] = "none"
    /\ outcome[c] = "auto-allow" => Decide(entry[c].level, command[c].class) = "auto-allow"
    /\ outcome[c] \in {"allow-once", "session-grant", "session-allow"} =>
           Prompted(c) /\ pc[c] = "done" /\ decision[c] = outcome[c]
    /\ outcome[c] = "deny" => \/ Decide(entry[c].level, command[c].class) = "deny"
                              \/ pc[c] = "done" /\ decision[c] = "deny"

\* From release on, the decision is an allow and is in the log. What is in the log
\* is what the shim acts on.
LogInv(c) ==
    /\ row[c] # "none" => row[c] = outcome[c] /\ shim[c] \in {"release", "exec", "ran", "exited"}
    /\ shim[c] \in {"release", "exec", "ran"} \/ c \in released =>
           outcome[c] \in AllowDecision /\ row[c] = outcome[c]
    /\ c \in released => shim[c] \in {"exec", "ran", "exited"}

CallInv == \A c \in Call : AskedInv(c) /\ OutcomeInv(c) /\ LogInv(c)

\* What the rest of the gate does to a call: a request that was not made stays
\* unmade and unseen, one that returned stays as it is.
LEMMA OutsideOnCall ==
    ASSUME Proved!TypeOK, Outside, NEW d \in Call
    PROVE  /\ command' = command
           /\ pc[d] = "idle" => pc'[d] = "idle"
           /\ pc'[d] = "idle" => pc[d] = "idle"
           /\ pc[d] = "idle" /\ window'[d] # "none" => window[d] # "none"
           /\ pc[d] = "done" => pc'[d] = "done" /\ decision'[d] = decision[d]
<1> DEFINE Goal == /\ command' = command
                   /\ pc[d] = "idle" => pc'[d] = "idle"
                   /\ pc'[d] = "idle" => pc[d] = "idle"
                   /\ pc[d] = "idle" /\ window'[d] # "none" => window[d] # "none"
                   /\ pc[d] = "done" => pc'[d] = "done" /\ decision'[d] = decision[d]
<1> USE DEF Proved!TypeOK, Gate!requestVars, Gate!callVars, Gate!gateVars
<1>1. ASSUME NEW c \in Call, Gate!Goroutine(c)
      PROVE  Goal
  <2>1. CASE Gate!Resolve(c) \/ Gate!CannotShow(c) \/ Gate!Show(c)
    BY <2>1 DEF Gate!Resolve, Gate!CannotShow, Gate!Show
  <2>2. CASE Gate!CheckSessionGrant(c)
    BY <2>2 DEF Gate!CheckSessionGrant
  <2>3. CASE Gate!TakeAnswer(c) \/ Gate!WindowGone(c) \/ Gate!Timeout(c)
    BY <2>3 DEF Gate!TakeAnswer, Gate!WindowGone, Gate!Timeout, Gate!Leave
  <2>4. CASE Gate!Return(c)
    BY <2>4 DEF Gate!Return
  <2>5. QED
    BY <1>1, <2>1, <2>2, <2>3, <2>4 DEF Gate!Goroutine
<1>2. ASSUME NEW c \in Call, Gate!Window(c)
      PROVE  Goal
  BY <1>2 DEF Gate!Window, Gate!LookUp, Gate!Submit, Gate!Answers, Gate!CloseWindow
<1>3. CASE Gate!Crash
  BY <1>3 DEF Gate!Crash, Gate!InFlight
<1>4. CASE Gate!Start \/ Gate!World
  BY <1>4 DEF Gate!Start, Gate!World, Gate!Exit, Gate!Fork, Gate!Orphan, Gate!Become, Gate!GoIdle
<1>5. ASSUME NEW c \in Call, NEW l \in Gate!Launcher, Gate!Invoke(c, l)
      PROVE  Goal
  BY <1>5 DEF Gate!Invoke
<1>6. QED
  BY <1>1, <1>2, <1>3, <1>4, <1>5 DEF Outside, Gate!Agent

LEMMA OutsideKeepsCalls ==
    ASSUME Proved!TypeOK, CallInv, Outside, UNCHANGED shimVars
    PROVE  CallInv'
<1> SUFFICES ASSUME NEW d \in Call
             PROVE  AskedInv(d)' /\ OutcomeInv(d)' /\ LogInv(d)'
  BY DEF CallInv
<1>1. AskedInv(d)'
  BY OutsideOnCall DEF CallInv, AskedInv, Prompted, shimVars
<1>2. OutcomeInv(d)'
  BY OutsideOnCall DEF CallInv, OutcomeInv, Prompted, shimVars
<1>3. LogInv(d)'
  BY DEF CallInv, LogInv, shimVars
<1>4. QED
  BY <1>1, <1>2, <1>3

LEMMA ShimKeepsCalls ==
    ASSUME Proved!TypeOK, ShimTypes, CallInv, NEW c \in Call, Shim(c)
    PROVE  CallInv'
<1> SUFFICES ASSUME NEW d \in Call
             PROVE  AskedInv(d)' /\ OutcomeInv(d)' /\ LogInv(d)'
  BY DEF CallInv
<1> USE DEF ShimTypes, Step, gateState, CallInv, Prompted
<1>1. CASE ResolveIdentity(c)
  BY <1>1 DEF ResolveIdentity, AskedInv, OutcomeInv, LogInv
\* Only here the entry changes, and nothing rests on it yet.
<1>2. CASE ReadPolicy(c)
  <2>1. CASE d # c
    BY <1>2, <2>1 DEF ReadPolicy, AskedInv, OutcomeInv, LogInv
  <2>2. CASE d = c
    <3> DEFINE verdict == Decide(policy[identity[c]].level, command[c].class)
    <3>1. verdict \in {"deny", "auto-allow", "prompt"}
      BY DEF Decide
    <3>2. pc[c] = "idle" /\ window[c] = "none" /\ outcome[c] = "none" /\ c \notin released
      BY <1>2 DEF ReadPolicy, AskedInv, OutcomeInv, LogInv
    <3>3. CASE shim'[c] = "exited"
      BY <1>2, <2>2, <3>1, <3>2, <3>3 DEF ReadPolicy, AskedInv, OutcomeInv, LogInv
    <3>4. CASE shim'[c] # "exited"
      <4>1. /\ shim'[c] = IF verdict = "prompt" THEN "ask" ELSE "log"
            /\ entry'[c] = policy[identity[c]]
            /\ outcome'[c] = IF verdict = "prompt" THEN "none" ELSE verdict
            /\ UNCHANGED <<pc, window, command, decision, row, released>>
        BY <1>2, <3>2, <3>4 DEF ReadPolicy
      <4>2. QED
        BY <2>2, <3>1, <3>2, <4>1 DEF AskedInv, OutcomeInv, LogInv
    <3>5. QED
      BY <3>3, <3>4
  <2>3. QED
    BY <2>1, <2>2
<1>3. CASE AskGate(c)
  BY <1>3 DEF AskGate, Gate!RequestGate, Gate!gateVars, Proved!TypeOK, AskedInv, OutcomeInv, LogInv
<1>4. CASE GateReplies(c)
  BY <1>4 DEF GateReplies, Concluded, AskedInv, OutcomeInv, LogInv
<1>5. CASE GateError(c)
  BY <1>5 DEF GateError, Concluded, AskedInv, OutcomeInv, LogInv
<1>6. CASE LogDecision(c)
  BY <1>6 DEF LogDecision, AskedInv, OutcomeInv, LogInv
<1>7. CASE ReleaseSecret(c) \/ Exec(c)
  BY <1>7 DEF ReleaseSecret, Exec, AskedInv, OutcomeInv, LogInv
<1>8. QED
  BY <1>1, <1>2, <1>3, <1>4, <1>5, <1>6, <1>7 DEF Shim

LEMMA CallInvInit == Init => CallInv
  BY DEF Init, Gate!Init, CallInv, AskedInv, OutcomeInv, LogInv

LEMMA CallInvStep ==
    ASSUME Proved!TypeOK, ShimTypes, CallInv, [Next]_vars
    PROVE  CallInv'
<1>1. CASE (\E k \in IdentityKey, e \in EntryRange : ChangePolicy(k, e)) \/ UNCHANGED vars
  BY <1>1 DEF ChangePolicy, vars, gateState, shimVars, CallInv, AskedInv, OutcomeInv, LogInv,
              Prompted
<1>2. QED
  BY <1>1, ShimKeepsCalls, OutsideKeepsCalls DEF Next

LEMMA CallsInvariant == Spec => []CallInv
<1>1. Proved!TypeOK /\ ShimTypes /\ CallInv /\ [Next]_vars => CallInv'
  BY CallInvStep
<1>2. QED
  BY <1>1, CallInvInit, GateAndTypes, PTL DEF Spec

-----------------------------------------------------------------------------
(* The theorems                                                              *)

\* What is proved of the gate holds of the one in a gated call.
LEMMA GateProperties ==
    Spec => []Proved!HumanDecides /\ []Proved!SessionAllowBacked /\ []Proved!SecretNeedsAnAnswer
<1> USE GateAssumptions DEF Proved!PidAssumption, Proved!BoundAssumption,
                            Proved!NoneAssumption, Proved!CommandAssumption
<1>1. Proved!Spec => []Proved!HumanDecides
  BY Proved!HumanHasDecided
<1>2. Proved!Spec => []Proved!SessionAllowBacked
  BY Proved!SessionAllowIsBacked
<1>3. Proved!Spec => []Proved!SecretNeedsAnAnswer
  BY Proved!SecretsNeedAnAnswer
<1>4. QED
  BY <1>1, <1>2, <1>3, GateAndTypes, PTL

\* A request that returned a human's decision has the answer it stands for.
LEMMA AnswerBehind ==
    ASSUME Proved!HumanDecides, Proved!TypeOK, NEW c \in Call
    PROVE  /\ decision[c] = "deny" => Answered(c, "deny")
           /\ decision[c] = "allow-once" => Answered(c, "allow-once")
           /\ decision[c] = "session-grant" => Answered(c, "allow-session")
<1>1. ASSUME NEW n \in 1..MaxPress, NEW a, press[c][n].state = "delivered",
             press[c][n].answer = a
      PROVE  Answered(c, a)
  <2>1. press[c][n] \in Proved!Press
    <3>1. press \in [Call -> [1..MaxPress -> Proved!Press]]
      BY DEF Proved!TypeOK
    <3>2. QED
      BY <3>1
  <2>2. press[c][n] = [state |-> "delivered", answer |-> a]
    BY <1>1, <2>1 DEF Proved!Press
  <2>3. QED
    BY <2>2 DEF Answered
<1>2. CASE decision[c] \in {"deny", "allow-once", "session-grant"}
  <2>1. PICK n \in 1..MaxPress : /\ press[c][n].state = "delivered"
                                 /\ Proved!DecisionOf(press[c][n].answer) = decision[c]
    BY <1>2 DEF Proved!HumanDecides
  <2>2. press[c][n].answer \in Proved!Answer \cup {"none"}
    <3>1. press \in [Call -> [1..MaxPress -> Proved!Press]]
      BY DEF Proved!TypeOK
    <3>2. press[c][n] \in Proved!Press
      BY <3>1
    <3>3. QED
      BY <3>2 DEF Proved!Press
  <2>3. press[c][n].answer = IF decision[c] = "session-grant" THEN "allow-session" ELSE decision[c]
    BY <1>2, <2>1, <2>2 DEF Proved!DecisionOf, Proved!Answer
  <2>4. QED
    BY <1>1, <1>2, <2>1, <2>3
<1>3. QED
  BY <1>2

\* Behind a call that passed on a session grant is an answer of its launcher's.
LEMMA SessionBehind ==
    ASSUME Proved!HumanDecides, Proved!SessionAllowBacked, Proved!TypeOK, NEW c \in Call,
           decision[c] = "session-allow"
    PROVE  \E q \in Call : /\ Answered(q, "allow-session")
                           /\ launcher[q] = launcher[c]
                           /\ Gate!Covers(q, c)
<1>1. PICK q \in Call : /\ decision[q] = "session-grant"
                        /\ launcher[q] = launcher[c]
                        /\ Proved!Covers(q, c)
  BY DEF Proved!SessionAllowBacked
<1>2. Gate!Covers(q, c)
  BY <1>1 DEF Proved!Covers, Gate!Covers, Proved!classCoveredBy, Gate!classCoveredBy,
              Proved!classRank, Gate!classRank
<1>3. Answered(q, "allow-session")
  BY <1>1, AnswerBehind
<1>4. QED
  BY <1>1, <1>2, <1>3

\* Every variable of a gated call, the gate's included, has its type.
THEOREM TypeCorrect == Spec => []TypeOK
<1>1. Proved!TypeOK /\ ShimTypes => TypeOK
  BY SameTypes DEF ShimTypes, TypeOK
<1>2. QED
  BY <1>1, GateAndTypes, PTL

\* No token is released and no command runs before its own allow decision is in
\* the audit log, whatever fails, changes or dies in between. (Run, logDecision)
THEOREM EffectsAreLogged == Spec => []LoggedBeforeEffect
<1>1. CallInv => LoggedBeforeEffect
  BY DEF CallInv, LogInv, LoggedBeforeEffect
<1>2. QED
  BY <1>1, CallsInvariant, PTL

\* A launcher read as denied sees no window, gets no token and runs nothing, also
\* when it holds a session grant from before. (Decide, resolveDecision)
THEOREM DenyIsFinal == Spec => []DenyNeverAsks
<1>1. ASSUME CallInv, NEW c \in Call, entry[c].level = "Deny"
      PROVE  window[c] = "none" /\ shim[c] # "ran" /\ c \notin released
  <2>1. Decide(entry[c].level, command[c].class) = "deny"
    BY <1>1 DEF Decide
  <2>2. window[c] = "none"
    BY <1>1, <2>1 DEF CallInv, AskedInv, Prompted
  <2>3. outcome[c] \notin AllowDecision
    BY <1>1, <2>1 DEF CallInv, OutcomeInv, Prompted, AllowDecision
  <2>4. QED
    BY <1>1, <2>2, <2>3 DEF CallInv, LogInv
<1>2. CallInv => DenyNeverAsks
  BY <1>1 DEF DenyNeverAsks
<1>3. QED
  BY <1>2, CallsInvariant, PTL

\* A command runs only if policy let its class through when it was read, or did
\* not deny it and a human approved this command, or for a session one of the
\* same launcher process that covers it. (Run, resolveDecision, RequestGate)
THEOREM OnlyAuthorizedRun == Spec => []Authorized
<1>1. ASSUME CallInv, Proved!TypeOK, Proved!HumanDecides, Proved!SessionAllowBacked,
             NEW c \in Call, shim[c] = "ran",
             Decide(entry[c].level, command[c].class) # "auto-allow"
      PROVE  /\ entry[c].level # "Deny"
             /\ \/ Answered(c, "allow-once") \/ Answered(c, "allow-session")
                \/ \E q \in Call : /\ Answered(q, "allow-session")
                                  /\ launcher[q] = launcher[c]
                                  /\ Gate!Covers(q, c)
  <2>1. outcome[c] \in {"allow-once", "session-grant", "session-allow"}
    BY <1>1 DEF CallInv, LogInv, OutcomeInv, AllowDecision
  <2>2. Prompted(c) /\ decision[c] = outcome[c]
    BY <1>1, <2>1 DEF CallInv, OutcomeInv
  <2>3. entry[c].level # "Deny"
    BY <2>2 DEF Prompted, Decide
  <2>4. CASE decision[c] \in {"allow-once", "session-grant"}
    BY <1>1, <2>3, <2>4, AnswerBehind
  <2>5. CASE decision[c] = "session-allow"
    BY <1>1, <2>3, <2>5, SessionBehind
  <2>6. QED
    BY <2>1, <2>2, <2>4, <2>5
<1>2. CallInv /\ Proved!TypeOK /\ Proved!HumanDecides /\ Proved!SessionAllowBacked => Authorized
  BY <1>1 DEF Authorized
<1>3. QED
  BY <1>2, CallsInvariant, GateAndTypes, GateProperties, PTL

\* A command that reveals a secret runs only at level Full or on an approval of
\* its own, never on a session grant. (matrix, offerSession, classCoveredBy)
THEOREM SecretsAreAskedFor == Spec => []SecretsAskEachTime
<1>1. ASSUME CallInv, ShimTypes, Proved!TypeOK, Proved!HumanDecides, Proved!SecretNeedsAnAnswer,
             NEW c \in Call, shim[c] = "ran", command[c].class = "secret-reveal"
      PROVE  entry[c].level = "Full" \/ Answered(c, "allow-once")
  <2>1. outcome[c] \in AllowDecision
    BY <1>1 DEF CallInv, LogInv
  <2>2. CASE outcome[c] = "auto-allow"
    <3>1. Decide(entry[c].level, "secret-reveal") = "auto-allow"
      BY <1>1, <2>2 DEF CallInv, OutcomeInv
    <3>2. entry[c].level \in Level
      BY <1>1 DEF ShimTypes, Entry
    <3>3. QED
      BY <3>1, <3>2 DEF Decide, matrix, Level
  <2>3. CASE outcome[c] # "auto-allow"
    <3>1. decision[c] = outcome[c]
      BY <1>1, <2>1, <2>3 DEF CallInv, OutcomeInv, AllowDecision
    <3>2. decision[c] = "allow-once"
      BY <1>1, <2>1, <2>3, <3>1 DEF Proved!SecretNeedsAnAnswer, AllowDecision
    <3>3. QED
      BY <1>1, <3>2, AnswerBehind
  <2>4. QED
    BY <2>2, <2>3
<1>2. CallInv /\ ShimTypes /\ Proved!TypeOK /\ Proved!HumanDecides
        /\ Proved!SecretNeedsAnAnswer => SecretsAskEachTime
  BY <1>1 DEF SecretsAskEachTime
<1>3. QED
  BY <1>2, CallsInvariant, GateAndTypes, GateProperties, PTL

\* A row of the audit log puts a decision down to policy, or to a human, only if
\* policy decided so, or somebody answered so in the window of this call or of the
\* one whose session it passed on. (Run, resolveDecision, logDecision)
THEOREM RowsTellWhoDecided == Spec => []RowTellsWhoDecided
<1>1. ASSUME CallInv, Proved!TypeOK, Proved!HumanDecides, Proved!SessionAllowBacked, NEW c \in Call
      PROVE  /\ row[c] = "auto-allow" => Decide(entry[c].level, command[c].class) = "auto-allow"
             /\ row[c] = "deny" =>
                   Decide(entry[c].level, command[c].class) = "deny" \/ Answered(c, "deny")
             /\ row[c] = "allow-once" => Answered(c, "allow-once")
             /\ row[c] = "session-grant" => Answered(c, "allow-session")
             /\ row[c] = "session-allow" =>
                   \E q \in Call : /\ Answered(q, "allow-session")
                                   /\ launcher[q] = launcher[c]
                                   /\ Gate!Covers(q, c)
  <2>1. row[c] # "none" => row[c] = outcome[c]
    BY <1>1 DEF CallInv, LogInv
  <2>2. row[c] \in {"allow-once", "session-grant", "session-allow"} => decision[c] = row[c]
    BY <1>1, <2>1 DEF CallInv, OutcomeInv
  <2>3. row[c] = "deny" => \/ Decide(entry[c].level, command[c].class) = "deny"
                            \/ decision[c] = "deny"
    BY <1>1, <2>1 DEF CallInv, OutcomeInv
  <2>4. row[c] = "auto-allow" => Decide(entry[c].level, command[c].class) = "auto-allow"
    BY <1>1, <2>1 DEF CallInv, OutcomeInv
  <2>5. row[c] = "session-allow" => \E q \in Call : /\ Answered(q, "allow-session")
                                                   /\ launcher[q] = launcher[c]
                                                   /\ Gate!Covers(q, c)
    BY <1>1, <2>2, SessionBehind
  <2>6. QED
    BY <1>1, <2>2, <2>3, <2>4, <2>5, AnswerBehind
<1>2. CallInv /\ Proved!TypeOK /\ Proved!HumanDecides /\ Proved!SessionAllowBacked
        => RowTellsWhoDecided
  BY <1>1 DEF RowTellsWhoDecided
<1>3. QED
  BY <1>2, CallsInvariant, GateAndTypes, GateProperties, PTL

-----------------------------------------------------------------------------
(* The classes that a gated call takes as given: what GhClassify makes of a    *)
(* command line                                                              *)

\* What a command line is made of.
TableWord == UNION {{p[n] : n \in 1..Len(p)} : p \in Path}
Word == TableWord \cup Operand \cup Flag

OneWordPath == {<<"browse">>, <<"status">>, <<"api">>}
ThreeWordPath == {<<"auth", "git-credential", "get">>, <<"auth", "git-credential", "store">>,
         <<"auth", "git-credential", "erase">>, <<"codespace", "ports", "forward">>}

\* A path of the table is a word, two words, or one of four longer ones.
LEMMA PathParts ==
    ASSUME NEW p \in Path
    PROVE  p \in OneWordPath \/ p \in ThreeWordPath \/ \E v, w : p = <<v, w>>
<1>1. CASE p \in ReadPath
  BY <1>1 DEF ReadPath, OneWordPath
<1>2. CASE p \in WritePath
  BY <1>2 DEF WritePath, ThreeWordPath
<1>3. CASE p \in SecretPath
  BY <1>3 DEF SecretPath, OneWordPath, ThreeWordPath
<1> QED BY <1>1, <1>2, <1>3 DEF Path

LEMMA PathLengths ==
    ASSUME NEW p \in Path
    PROVE  /\ Len(p) \in 1..3
           /\ Len(p) = 1 => p \in OneWordPath
           /\ Len(p) = 2 => p = <<p[1], p[2]>>
           /\ Len(p) = 3 => p \in ThreeWordPath
<1>1. CASE p \in OneWordPath
  <2>1. Len(p) = 1
    BY <1>1 DEF OneWordPath
  <2> QED BY <1>1, <2>1
<1>2. CASE p \in ThreeWordPath
  <2>1. Len(p) = 3
    BY <1>2 DEF ThreeWordPath
  <2> QED BY <1>2, <2>1
<1>3. CASE \E v, w : p = <<v, w>>
  <2>1. PICK v, w : p = <<v, w>>
    BY <1>3
  <2>2. Len(p) = 2 /\ p[1] = v /\ p[2] = w
    BY <2>1
  <2> QED BY <2>1, <2>2
<1> QED BY <1>1, <1>2, <1>3, PathParts

LEMMA PathIsSeq ==
    ASSUME NEW p \in Path
    PROVE  p \in Seq(Word) /\ \A n \in 1..Len(p) : p[n] \in Word
<1>1. ASSUME NEW n \in 1..Len(p) PROVE p[n] \in Word
  <2> DEFINE Own == {p[k] : k \in 1..Len(p)}
  <2>1. p[n] \in Own
    OBVIOUS
  <2>2. Own \in {{q[k] : k \in 1..Len(q)} : q \in Path}
    OBVIOUS
  <2> HIDE DEF Own
  <2>3. p[n] \in UNION {{q[k] : k \in 1..Len(q)} : q \in Path}
    BY <2>1, <2>2
  <2> QED BY <2>3 DEF Word, TableWord
<1>2. CASE p \in OneWordPath
  <2>1. Len(p) = 1 /\ p = <<p[1]>>
    BY <1>2 DEF OneWordPath
  <2>2. p[1] \in Word
    BY <2>1, <1>1
  <2>3. <<p[1]>> \in Seq(Word)
    BY <2>2
  <2> QED BY <1>1, <2>1, <2>3
<1>3. CASE p \in ThreeWordPath
  <2>1. Len(p) = 3 /\ p = <<p[1], p[2], p[3]>>
    BY <1>3 DEF ThreeWordPath
  <2>2. p[1] \in Word /\ p[2] \in Word /\ p[3] \in Word
    BY <2>1, <1>1
  <2>3. <<p[1], p[2], p[3]>> \in Seq(Word)
    BY <2>2
  <2> QED BY <1>1, <2>1, <2>3
<1>4. CASE \E v, w : p = <<v, w>>
  <2>1. PICK v, w : p = <<v, w>>
    BY <1>4
  <2>2. Len(p) = 2 /\ p[1] = v /\ p[2] = w
    BY <2>1
  <2>3. v \in Word /\ w \in Word
    BY <2>2, <1>1
  <2>4. <<v, w>> \in Seq(Word)
    BY <2>3
  <2> QED BY <1>1, <2>1, <2>4
<1> QED BY <1>2, <1>3, <1>4, PathParts

LEMMA ClassesApart == /\ ReadPath \cap WritePath = {}
                      /\ SecretPath \cap (ReadPath \cup WritePath) = {}
<1>1. ReadPath \cap WritePath = {} 
  BY DEF ReadPath, WritePath
<1>2. SecretPath \cap (ReadPath \cup WritePath) = {}
  BY DEF ReadPath, WritePath, SecretPath
<1> QED BY <1>1, <1>2

LEMMA NoSuchPaths == /\ \A w : /\ <<"browse", w>> \notin Path
                             /\ <<"status", w>> \notin Path
                             /\ <<"api", w>> \notin Path
                  /\ <<"auth", "git-credential">> \notin Path
                  /\ <<"codespace", "ports">> \in ReadPath
  BY DEF Path, ReadPath, WritePath, SecretPath

LEMMA FirstWords ==
    ASSUME NEW p \in Path
    PROVE  /\ p \in OneWordPath => p[1] \in {"browse", "status", "api"}
           /\ p[1] \in {"browse", "status", "api"} => Len(p) # 3 /\ ~(Len(p) = 2)
<1>1. p \in OneWordPath => p[1] \in {"browse", "status", "api"}
  BY DEF OneWordPath
<1>2. p \in ThreeWordPath => p[1] \in {"auth", "codespace"}
  BY DEF ThreeWordPath
<1>3. Len(p) = 3 => p[1] \in {"auth", "codespace"}
  BY <1>2, PathLengths
<1>4. ASSUME Len(p) = 2 PROVE p[1] \notin {"browse", "status", "api"}
  <2>1. p = <<p[1], p[2]>>
    BY <1>4, PathLengths
  <2> QED BY <2>1, NoSuchPaths
<1> QED BY <1>1, <1>3, <1>4

\* Only one path of the table goes on from another.
LEMMA OnlyForward ==
    ASSUME NEW p \in Path, NEW q \in Path, Len(q) < Len(p), \A i \in 1..Len(q) : q[i] = p[i]
    PROVE  p = <<"codespace", "ports", "forward">> /\ q = <<"codespace", "ports">>
<1>1. Len(p) \in 1..3 /\ Len(q) \in 1..3
  BY PathLengths
<1>2. Len(q) # 1
  <2> SUFFICES ASSUME Len(q) = 1 PROVE FALSE
    OBVIOUS
  <2>1. q[1] = p[1]
    OBVIOUS
  <2>2. q \in OneWordPath
    BY PathLengths
  <2>3. Len(p) # 3 /\ Len(p) # 2
    BY <2>1, <2>2, FirstWords
  <2>4. Len(p) = 1
    BY <1>1, <2>3
  <2> QED BY <2>4
<1>3. Len(q) = 2 /\ Len(p) = 3
  BY <1>1, <1>2
<1>4. p \in ThreeWordPath
  BY <1>3, PathLengths
<1>5. q = <<q[1], q[2]>>
  BY <1>3, PathLengths
<1>6. q[1] = p[1] /\ q[2] = p[2]
  BY <1>3
<1>7. q = <<p[1], p[2]>>
  BY <1>5, <1>6
<1>8. \/ p[1] = "auth" /\ p[2] = "git-credential"
      \/ p = <<"codespace", "ports", "forward">>
  BY <1>4 DEF ThreeWordPath
<1>9. p = <<"codespace", "ports", "forward">>
  BY <1>7, <1>8, NoSuchPaths
<1> QED BY <1>7, <1>9

\* A bounded set of numbers has a greatest.
LEMMA LongestIs ==
    ASSUME NEW S, NEW k \in Nat, S \subseteq 0..k, S # {}
    PROVE  Longest(S) \in S /\ \A j \in S : j <= Longest(S)
<1> DEFINE Bounds == {b \in Nat : \A j \in S : j <= b}
<1>1. PICK b \in Bounds : \A a \in Bounds : b <= a
  <2>1. k \in Bounds
    OBVIOUS
  <2>2. IsWellFoundedOn(OpToRel(<, Nat), Nat)
    BY NatLessThanWellFounded
  <2>3. PICK m \in Bounds : \A a \in Bounds : <<a, m>> \notin OpToRel(<, Nat)
    BY <2>1, <2>2, WFMin
  <2>4. ASSUME NEW a \in Bounds PROVE m <= a
    <3>1. ~(a < m)
      BY <2>3 DEF OpToRel
    <3>2. a \in Nat /\ m \in Nat
      OBVIOUS
    <3> QED BY <3>1, <3>2
  <2> QED BY <2>4
<1>2. b \in S
  <2> SUFFICES ASSUME b \notin S PROVE FALSE
    OBVIOUS
  <2>1. PICK j \in S : TRUE
    OBVIOUS
  <2>2. b # 0
    BY <1>1, <2>1
  <2>3. b - 1 \in Bounds
    BY <1>1, <2>2
  <2> QED BY <1>1, <2>3
<1>3. \E n \in S : \A j \in S : j <= n
  BY <1>1, <1>2
<1> QED BY <1>3 DEF Longest

\* The words before the first flag.
FlagFree(ws) == Longest({n \in 0..Len(ws) : \A i \in 1..n : ws[i] \notin Flag})

LEMMA FlagFreeIs ==
    ASSUME NEW ws \in Seq(Word)
    PROVE  /\ FlagFree(ws) \in 0..Len(ws)
           /\ \A i \in 1..FlagFree(ws) : ws[i] \notin Flag
           /\ FlagFree(ws) < Len(ws) => ws[FlagFree(ws) + 1] \in Flag
<1> DEFINE S == {n \in 0..Len(ws) : \A i \in 1..n : ws[i] \notin Flag}
<1>1. Len(ws) \in Nat /\ S \subseteq 0..Len(ws) /\ 0 \in S
  OBVIOUS
<1>2. FlagFree(ws) \in S /\ \A j \in S : j <= FlagFree(ws)
  <2> HIDE DEF S
  <2>1. Longest(S) \in S /\ \A j \in S : j <= Longest(S)
    BY <1>1, LongestIs
  <2> QED BY <2>1 DEF FlagFree, S
<1>3. ASSUME FlagFree(ws) < Len(ws), ws[FlagFree(ws) + 1] \notin Flag PROVE FALSE
  <2>1. FlagFree(ws) + 1 \in S
    BY <1>2, <1>3
  <2> QED BY <1>2, <2>1
<1> QED BY <1>2, <1>3

LEMMA FlagFreeUnique ==
    ASSUME NEW ws \in Seq(Word), NEW m \in 0..Len(ws), \A i \in 1..m : ws[i] \notin Flag,
           m < Len(ws) => ws[m + 1] \in Flag
    PROVE  FlagFree(ws) = m
<1>1. ~(FlagFree(ws) < m)
  BY FlagFreeIs
<1>2. ~(m < FlagFree(ws))
  BY FlagFreeIs
<1> QED BY <1>1, <1>2, FlagFreeIs

\* The lengths of the paths that a command line begins with.
Hits(ws) == {n \in 1..3 : n <= FlagFree(ws) /\ SubSeq(ws, 1, n) \in Path}

\* Classify in terms of the lengths of the paths, not of the tokens.
LEMMA ClassifyIs ==
    ASSUME NEW ws \in Seq(Word)
    PROVE  /\ Hits(ws) = {} => Classify(ws) = "unknown"
           /\ Hits(ws) # {} => 
                \E n \in Hits(ws) : /\ \A k \in Hits(ws) : k <= n
                   /\ Classify(ws) =
                          applyFlagOverrides(SubSeq(ws, 1, n), ws, table[SubSeq(ws, 1, n)])
<1> DEFINE tokens == nonFlagTokens(ws)
<1> DEFINE lengths == {n \in 1..3 : n <= Len(tokens) /\ SubSeq(tokens, 1, n) \in Path}
<1>1. tokens = SubSeq(ws, 1, FlagFree(ws))
  BY DEF nonFlagTokens, FlagFree
<1>2. Len(tokens) = FlagFree(ws) /\ tokens \in Seq(Word)
  BY <1>1, FlagFreeIs
<1>3. ASSUME NEW n \in 1..3, n <= FlagFree(ws) PROVE SubSeq(tokens, 1, n) = SubSeq(ws, 1, n)
  <2>1. /\ 1 \in 1..Len(ws) /\ FlagFree(ws) \in 1..Len(ws)
        /\ 1 \in 1..(FlagFree(ws) - 1 + 1) /\ n \in 1..(FlagFree(ws) - 1 + 1)
    BY <1>3, FlagFreeIs
  <2>2. SubSeq(SubSeq(ws, 1, FlagFree(ws)), 1, n) = SubSeq(ws, 1 + 1 - 1, 1 + n - 1)
    BY <2>1, <1>1, <1>2, SubSeqOfSubSeq
  <2>3. 1 + 1 - 1 = 1 /\ 1 + n - 1 = n
    OBVIOUS
  <2>4. SubSeq(SubSeq(ws, 1, FlagFree(ws)), 1, n) = SubSeq(ws, 1, n)
    BY <2>2, <2>3
  <2> QED BY <1>1, <2>4
<1>4. lengths = Hits(ws)
  BY <1>2, <1>3 DEF Hits
<1> HIDE DEF tokens
<1>5. /\ lengths = {} => Classify(ws) = "unknown"
      /\ lengths # {} =>
           Classify(ws) = applyFlagOverrides(SubSeq(tokens, 1, Longest(lengths)), ws,
                                                   table[SubSeq(tokens, 1, Longest(lengths))])
  BY DEF Classify, tokens
<1>6. ASSUME Hits(ws) # {}
      PROVE  Longest(Hits(ws)) \in Hits(ws) /\ \A k \in Hits(ws) : k <= Longest(Hits(ws))
  <2>1. Hits(ws) \subseteq 0..3 /\ 3 \in Nat
    BY DEF Hits
  <2> QED BY <1>6, <2>1, LongestIs
<1>7. ASSUME Hits(ws) # {}
      PROVE  SubSeq(tokens, 1, Longest(Hits(ws))) = SubSeq(ws, 1, Longest(Hits(ws)))
  BY <1>7, <1>6, <1>3 DEF Hits
<1> QED BY <1>4, <1>5, <1>6, <1>7

\* A command line that starts with a path has no flag in it.
LEMMA StartsHits ==
    ASSUME NEW ws \in Seq(Word), NEW p \in Path, Starts(ws, p)
    PROVE  Len(p) \in Hits(ws) /\ SubSeq(ws, 1, Len(p)) = p
<1>1. Len(p) \in 1..3 /\ Len(p) <= Len(ws) /\ SubSeq(ws, 1, Len(p)) = p
  BY PathLengths DEF Starts
<1>2. \A i \in 1..Len(p) : ws[i] = p[i]
  BY <1>1
<1>3. ~(FlagFree(ws) < Len(p))
  BY <1>1, <1>2, FlagFreeIs, FlagAssumption
<1>4. Len(p) <= FlagFree(ws)
  BY <1>1, <1>3, FlagFreeIs
<1>5. SubSeq(ws, 1, Len(p)) \in Path
  BY <1>1
<1> QED BY <1>1, <1>4, <1>5 DEF Hits

-----------------------------------------------------------------------------
\* The path that settles the class of a command line, if there is one.
Settles(ws, p) ==
    /\ p \in Path /\ Len(p) \in Hits(ws) /\ p = SubSeq(ws, 1, Len(p))
    /\ \A k \in Hits(ws) : k <= Len(p)
    /\ Classify(ws) = applyFlagOverrides(p, ws, table[p])

LEMMA HitLength ==
    ASSUME NEW ws \in Seq(Word), NEW n \in Hits(ws)
    PROVE  /\ n \in 1..3 /\ n <= Len(ws) /\ SubSeq(ws, 1, n) \in Path
           /\ Len(SubSeq(ws, 1, n)) = n /\ \A i \in 1..n : SubSeq(ws, 1, n)[i] = ws[i]
<1>1. n \in 1..3 /\ n <= Len(ws) /\ SubSeq(ws, 1, n) \in Path
  BY FlagFreeIs DEF Hits
<1> QED BY <1>1

LEMMA Settled ==
    ASSUME NEW ws \in Seq(Word)
    PROVE  (Classify(ws) = "unknown" /\ Hits(ws) = {}) \/ \E p : Settles(ws, p)
<1> SUFFICES ASSUME Hits(ws) # {} PROVE \E p : Settles(ws, p)
  BY ClassifyIs
<1>1. PICK n \in Hits(ws) : /\ \A k \in Hits(ws) : k <= n
                   /\ Classify(ws) =
                          applyFlagOverrides(SubSeq(ws, 1, n), ws, table[SubSeq(ws, 1, n)])
  BY ClassifyIs
<1> DEFINE p == SubSeq(ws, 1, n)
<1>2. p \in Path /\ Len(p) = n
  BY HitLength
<1> HIDE DEF p
<1>3. p = SubSeq(ws, 1, Len(p))
  BY <1>2 DEF p
<1>4. Classify(ws) = applyFlagOverrides(p, ws, table[p])
  BY <1>1 DEF p
<1>5. Settles(ws, p)
  BY <1>1, <1>2, <1>3, <1>4 DEF Settles
<1> QED BY <1>5

\* Whatever path it begins with, the one that settles it is that or prints.
LEMMA SettlesAll ==
    ASSUME NEW ws \in Seq(Word), NEW p, Settles(ws, p),
           NEW q \in Path, Starts(ws, q)
    PROVE  q = p \/ (p = <<"codespace", "ports", "forward">> /\ q = <<"codespace", "ports">>)
<1>1. Len(q) \in Hits(ws) /\ SubSeq(ws, 1, Len(q)) = q
  BY StartsHits
<1>2. Len(q) <= Len(p) /\ Len(q) \in 1..3 /\ Len(p) \in 1..3
  BY <1>1, PathLengths DEF Settles
<1>3. Len(q) = Len(p) => q = p
  BY <1>1 DEF Settles
<1>4. (\A i \in 1..Len(q) : q[i] = ws[i])
  BY <1>1, HitLength
<1>5. (\A i \in 1..Len(p) : p[i] = ws[i])
  BY HitLength DEF Settles
<1>6. \A i \in 1..Len(q) : q[i] = p[i]
  BY <1>2, <1>4, <1>5
<1>7. Len(q) < Len(p) => p = <<"codespace", "ports", "forward">> /\ q = <<"codespace", "ports">>
  BY <1>6, OnlyForward DEF Settles
<1> QED BY <1>2, <1>3, <1>7

\* The table gives each path one class.
LEMMA TableClasses ==
    ASSUME NEW p \in Path
    PROVE  /\ table[p] \in {"read", "write", "secret-reveal"}
           /\ table[p] = "read" <=> p \in ReadPath
           /\ table[p] = "write" <=> p \in WritePath
           /\ table[p] = "secret-reveal" <=> p \in SecretPath
<1>1. \/ p \in ReadPath /\ p \notin WritePath /\ p \notin SecretPath
      \/ p \notin ReadPath /\ p \in WritePath /\ p \notin SecretPath
      \/ p \notin ReadPath /\ p \notin WritePath /\ p \in SecretPath
  BY ClassesApart DEF Path
<1>2. table[p] = IF p \in ReadPath THEN "read"
                 ELSE IF p \in WritePath THEN "write" ELSE "secret-reveal"
  BY DEF table
<1> QED BY <1>1, <1>2

\* The class of a line that runs unasked.
LEMMA UnaskedClass ==
    ASSUME NEW level \in Level \ {"Full"}, NEW c, Decide(level, c) = "auto-allow"
    PROVE  c \in {"read", "write"} /\ (level = "Read" => c = "read")
  BY DEF Level, Decide, matrix

\* No path of class read is called by a verb that changes something.
LEMMA ReadVerbs ==
    ASSUME NEW p \in ReadPath
    PROVE  p \in {<<"browse">>, <<"status">>} \/ \E v, w : p = <<v, w>> /\ w \notin ChangingVerb
<1> DEFINE Verb == {"view", "list", "deploy-key", "autolink", "gitignore", "license", "credits",
              "status", "diff", "checks", "download", "get", "watch", "ports", "logs", "check",
              "prs", "issues", "repos", "code", "commits"}
<1>1. Verb \cap ChangingVerb = {}
  BY DEF ChangingVerb
<1>2. p \in {<<"browse">>, <<"status">>} \/ \E v, w : p = <<v, w>> /\ w \in Verb
  BY DEF ReadPath
<1> QED BY <1>1, <1>2

\* Nor is a line that begins with such a path.
LEMMA ReadChangesNothing ==
    ASSUME NEW ws \in Seq(Word), NEW p \in ReadPath, Starts(ws, p), Len(ws) > 1,
           ws[1] \notin {"browse", "status"}
    PROVE  ws[2] \notin ChangingVerb
<1>1. Len(p) <= Len(ws) /\ \A n \in 1..Len(p) : p[n] = ws[n]
  BY DEF Starts
<1>2. ASSUME p \in {<<"browse">>, <<"status">>} PROVE FALSE
  <2>1. Len(p) = 1 /\ p[1] \in {"browse", "status"}
    BY <1>2
  <2> QED BY <1>1, <2>1
<1>3. ASSUME NEW v, NEW w, p = <<v, w>>, w \notin ChangingVerb PROVE ws[2] \notin ChangingVerb
  <2>1. Len(p) = 2 /\ p[2] = w
    BY <1>3
  <2> QED BY <1>1, <1>3, <2>1
<1> QED BY <1>2, <1>3, ReadVerbs

\* Such a line begins with a path, and with none that prints or, for read, whose
\* verb changes something.
LEMMA Harmless ==
    ASSUME NEW ws \in Seq(Word), Classify(ws) \in {"read", "write"}
    PROVE  /\ ~Reveals(ws) /\ \E p \in Path : Starts(ws, p)
           /\ Classify(ws) = "read" => ~Changes(ws)
<1>1. PICK p : Settles(ws, p)
  BY Settled
<1>2. p \in Path /\ Starts(ws, p)
  <2>1. Len(p) <= Len(ws) /\ p \in Path
    BY <1>1, HitLength DEF Settles
  <2> QED BY <1>1, <2>1 DEF Settles, Starts
<1>3. Classify(ws) = table[p] /\ p # <<"auth", "status">>
      /\ ~(p = <<"run", "view">> /\ (hasFlag(ws, "--log") \/ hasFlag(ws, "--log-failed")))
  BY <1>1 DEF Settles, applyFlagOverrides
<1>4. p \notin SecretPath
  BY <1>2, <1>3, TableClasses
<1>5. ASSUME NEW q \in SecretPath PROVE ~Starts(ws, q)
  <2>1. q \in Path /\ <<"codespace", "ports", "forward">> \in SecretPath
    BY DEF Path, SecretPath
  <2> QED BY <1>1, <1>4, <2>1, SettlesAll
<1>6. ASSUME Starts(ws, <<"run", "view">>), NEW i \in 3..Len(ws),
             ws[i] \in {"--log", "--log-failed"}
      PROVE  FALSE
  <2>1. <<"run", "view">> \in Path /\ <<"codespace", "ports", "forward">> \in SecretPath
    BY DEF Path, ReadPath, SecretPath
  <2>2. p = <<"run", "view">>
    BY <1>1, <1>4, <1>6, <2>1, SettlesAll
  <2>3. hasFlag(ws, "--log") \/ hasFlag(ws, "--log-failed")
    BY <1>6 DEF hasFlag
  <2> QED BY <1>3, <2>2, <2>3
<1>7. {<<"auth", "token">>, <<"auth", "status">>, <<"auth", "git-credential", "get">>,
                <<"codespace", "ports", "forward">>, <<"api">>} \subseteq SecretPath
  BY DEF SecretPath
<1>8. ~Reveals(ws)
  BY <1>5, <1>6, <1>7 DEF Reveals
<1>9. ASSUME Classify(ws) = "read", NEW q \in WritePath PROVE ~Starts(ws, q)
  <2>1. p \in ReadPath
    BY <1>2, <1>3, <1>9, TableClasses
  <2>2. q \in Path /\ q \notin ReadPath
    BY ClassesApart DEF Path
  <2>3. <<"codespace", "ports", "forward">> \in SecretPath
    BY DEF SecretPath
  <2> QED BY <1>1, <1>4, <2>1, <2>2, <2>3, SettlesAll
<1>10. ASSUME Classify(ws) = "read" PROVE ~Changes(ws)
  <2>1. p \in ReadPath
    BY <1>2, <1>3, <1>10, TableClasses
  <2>2. {<<"workflow", "run">>, <<"codespace", "code">>, <<"auth", "git-credential", "store">>,
         <<"auth", "git-credential", "erase">>} \subseteq WritePath
    BY DEF WritePath
  <2>3. ~(Len(ws) > 1 /\ ws[1] \notin {"browse", "status"} /\ ws[2] \in ChangingVerb)
    BY <1>2, <2>1, ReadChangesNothing
  <2> QED BY <1>9, <1>10, <2>2, <2>3 DEF Changes
<1> QED BY <1>2, <1>8, <1>10

-----------------------------------------------------------------------------
(* One word more                                                             *)

LEMMA Appended ==
    ASSUME NEW ws \in Seq(Word), NEW x \in Word
    PROVE  /\ Append(ws, x) \in Seq(Word) /\ Len(Append(ws, x)) = Len(ws) + 1
           /\ \A n \in 1..Len(ws) : Append(ws, x)[n] = ws[n]
           /\ \A n \in 1..Len(ws) : SubSeq(Append(ws, x), 1, n) = SubSeq(ws, 1, n)
<1>1. /\ Append(ws, x) \in Seq(Word) /\ Len(Append(ws, x)) = Len(ws) + 1
      /\ \A n \in 1..Len(ws) : Append(ws, x)[n] = ws[n]
  OBVIOUS
<1>2. ASSUME NEW n \in 1..Len(ws) PROVE SubSeq(Append(ws, x), 1, n) = SubSeq(ws, 1, n)
  <2> DEFINE f == SubSeq(Append(ws, x), 1, n)
             g == SubSeq(ws, 1, n)
  <2>1. f \in Seq(Word) /\ g \in Seq(Word) /\ Len(f) = n /\ Len(g) = n
    BY <1>1
  <2>2. \A k \in 1..n : f[k] = g[k]
    BY <1>1
  <2> HIDE DEF f, g
  <2>3. f = g
    BY <2>1, <2>2, SeqEqual
  <2> QED BY <2>3 DEF f, g
<1> QED BY <1>1, <1>2

LEMMA FlagsStay ==
    ASSUME NEW ws \in Seq(Word), NEW x \in Word, NEW flag, hasFlag(ws, flag)
    PROVE  hasFlag(Append(ws, x), flag)
  BY Appended DEF hasFlag

\* A word more leaves the path that settles a line, but for that one.
LEMMA SettlesOn ==
    ASSUME NEW ws \in Seq(Word), NEW x \in Word, NEW p, Settles(ws, p)
    PROVE  \E q : /\ Settles(Append(ws, x), q)
                  /\ \/ q = p
                     \/ q = <<"codespace", "ports", "forward">> /\ p = <<"codespace", "ports">>
<1>1. p \in Path /\ Len(p) \in 1..Len(ws) /\ p = SubSeq(ws, 1, Len(p))
  BY HitLength DEF Settles
<1>2. Append(ws, x) \in Seq(Word) /\ Len(p) <= Len(Append(ws, x))
  BY <1>1, Appended
<1>3. SubSeq(Append(ws, x), 1, Len(p)) = SubSeq(ws, 1, Len(p))
  BY <1>1, Appended
<1>4. Starts(Append(ws, x), p)
  BY <1>1, <1>2, <1>3 DEF Starts
<1>5. Hits(Append(ws, x)) # {}
  BY <1>1, <1>2, <1>4, StartsHits
<1>6. PICK q : Settles(Append(ws, x), q)
  BY <1>2, <1>5, Settled
<1>7. p = q \/ (q = <<"codespace", "ports", "forward">> /\ p = <<"codespace", "ports">>)
  BY <1>1, <1>2, <1>4, <1>6, SettlesAll
<1> QED BY <1>6, <1>7

\* A line that a path settles is of a class of the order.
LEMMA KnownClass ==
    ASSUME NEW ws \in Seq(Word), NEW p, Settles(ws, p)
    PROVE  /\ Classify(ws) \in {"read", "write", "secret-reveal"}
           /\ p \in SecretPath => Classify(ws) = "secret-reveal"
  BY TableClasses DEF Settles, applyFlagOverrides

LEMMA SecretCovers ==
    ASSUME NEW c \in {"read", "write", "secret-reveal"}
    PROVE  classCoveredBy(c, c) /\ classCoveredBy(c, "secret-reveal")
  BY DEF classCoveredBy, classRank

\* A word more never lowers the class.
LEMMA LineRises ==
    ASSUME NEW ws \in Seq(Word), NEW x \in Word, Classify(ws) # "unknown"
    PROVE  /\ Classify(Append(ws, x)) # "unknown"
           /\ classCoveredBy(Classify(ws), Classify(Append(ws, x)))
<1>1. PICK p : Settles(ws, p)
  BY Settled
<1>2. PICK q : /\ Settles(Append(ws, x), q)
               /\ q = p \/ (q = <<"codespace", "ports", "forward">> /\ p = <<"codespace", "ports">>)
  BY <1>1, SettlesOn
<1>3. Append(ws, x) \in Seq(Word)
  BY Appended
<1>4. Classify(ws) \in {"read", "write", "secret-reveal"}
      /\ Classify(Append(ws, x)) \in {"read", "write", "secret-reveal"}
  BY <1>1, <1>2, <1>3, KnownClass
<1>5. Classify(Append(ws, x)) = Classify(ws) \/ Classify(Append(ws, x)) = "secret-reveal"
  <2>1. CASE q = p
    <3>1. /\ Classify(ws) = applyFlagOverrides(p, ws, table[p])
          /\ Classify(Append(ws, x)) = applyFlagOverrides(p, Append(ws, x), table[p])
      BY <1>1, <1>2, <2>1 DEF Settles
    <3> QED BY <3>1, FlagsStay DEF applyFlagOverrides
  <2>2. CASE q = <<"codespace", "ports", "forward">>
    <3>1. q \in SecretPath
      BY <2>2 DEF SecretPath
    <3> QED BY <1>2, <1>3, <3>1, KnownClass
  <2> QED BY <1>2, <2>1, <2>2
<1> QED BY <1>4, <1>5, SecretCovers

\* Behind a flag a word changes the class only if it is one that prints a log.
LEMMA SettledByFlag ==
    ASSUME NEW ws \in Seq(Word), NEW x \in Word, NEW i \in 1..Len(ws), ws[i] \in Flag,
           Classify(Append(ws, x)) # Classify(ws)
    PROVE  /\ Classify(ws) # "unknown" /\ ws[1] = "run"
           /\ Classify(Append(ws, x)) = "secret-reveal"
<1>1. Append(ws, x) \in Seq(Word)
  BY Appended
<1>2. FlagFree(ws) < Len(ws)
  BY FlagFreeIs
<1>3. FlagFree(Append(ws, x)) = FlagFree(ws)
  <2> DEFINE m == FlagFree(ws)
             vs == Append(ws, x)
  <2>1. m \in 0..Len(vs) /\ m < Len(ws) /\ vs \in Seq(Word)
    BY <1>2, FlagFreeIs, Appended
  <2>2. \A k \in 1..m : vs[k] \notin Flag
    BY <2>1, FlagFreeIs, Appended
  <2>3. vs[m + 1] \in Flag
    BY <2>1, <1>2, FlagFreeIs, Appended
  <2> HIDE DEF m, vs
  <2>4. FlagFree(vs) = m
    BY <2>1, <2>2, <2>3, FlagFreeUnique
  <2> QED BY <2>4 DEF m, vs
<1>4. Hits(Append(ws, x)) = Hits(ws)
  <2>1. ASSUME NEW n \in 1..3, n <= FlagFree(ws)
        PROVE  SubSeq(Append(ws, x), 1, n) = SubSeq(ws, 1, n)
    BY <2>1, <1>2, FlagFreeIs, Appended
  <2> QED BY <1>3, <2>1 DEF Hits
<1>5. Hits(ws) # {}
  BY <1>1, <1>4, ClassifyIs
<1>6. PICK p : Settles(ws, p)
  BY <1>5, Settled
<1>7. PICK q : Settles(Append(ws, x), q)
  BY <1>1, <1>4, <1>5, Settled
<1>8. Len(p) = Len(q) /\ Len(p) \in 1..Len(ws)
  <2>1. Len(p) \in Hits(ws) /\ Len(q) \in Hits(ws) /\ Len(p) <= Len(q) /\ Len(q) <= Len(p)
    BY <1>4, <1>6, <1>7 DEF Settles
  <2> QED BY <2>1, HitLength
<1>9. q = p
  BY <1>6, <1>7, <1>8, Appended DEF Settles
<1>10. p = <<"run", "view">> /\ Classify(Append(ws, x)) = "secret-reveal"
  BY <1>6, <1>7, <1>9, FlagsStay DEF Settles, applyFlagOverrides
<1>11. ws[1] = p[1]
  BY <1>6, <1>8, HitLength DEF Settles
<1>12. Classify(ws) # "unknown"
  BY <1>6, KnownClass
<1> QED BY <1>10, <1>11, <1>12

-----------------------------------------------------------------------------
(* Command lines                                                             *)

WordInv == args \in Seq(Word)

LEMMA OneMoreWord ==
    ASSUME WordInv, [LineNext]_<<tool, args>>
    PROVE  \/ UNCHANGED <<tool, args>>
           \/ UNCHANGED tool /\ \E x \in Word : args' = Append(args, x)
<1> SUFFICES ASSUME LineNext PROVE UNCHANGED tool /\ \E x \in Word : args' = Append(args, x)
  OBVIOUS
<1>1. PICK word \in Continuing(args) \cup Operand \cup Flag : Spell(word)
  BY DEF LineNext
<1>2. word \in Word
  <2>1. CASE word \in Operand \/ word \in Flag
    BY <2>1 DEF Word
  <2>2. CASE word \in Continuing(args)
    <3>1. PICK p \in Path : Len(p) > Len(args) /\ word = p[Len(args) + 1]
      BY <2>2 DEF Continuing
    <3>2. Len(args) + 1 \in 1..Len(p)
      BY <3>1, PathLengths DEF WordInv
    <3> QED BY <3>1, <3>2, PathIsSeq
  <2> QED BY <1>1, <2>1, <2>2
<1> QED BY <1>1, <1>2 DEF Spell

LEMMA WordsInvariant == LineSpec => []WordInv
<1>1. LineInit => WordInv
  BY DEF LineInit, WordInv
<1>2. WordInv /\ [LineNext]_<<tool, args>> => WordInv'
  BY OneMoreWord, Appended DEF WordInv
<1> QED BY <1>1, <1>2, PTL DEF LineSpec

\* No level short of Full runs, unasked, a command line that prints a secret, or
\* one that is no command of the table; and Read runs none whose verb, its second
\* word, changes something. (Classify and Decide)
THEOREM UnaskedLinesAreHarmless == LineSpec => []UnaskedIsHarmless
<1>1. WordInv => UnaskedIsHarmless
  <2> SUFFICES ASSUME WordInv, NEW level \in Level \ {"Full"},
                      Decide(level, class(tool, args)) = "auto-allow"
               PROVE  /\ tool = "gh" /\ ~Reveals(args)
                      /\ \E p \in Path : Starts(args, p)
                      /\ level = "Read" => ~Changes(args)
    BY DEF UnaskedIsHarmless
  <2>1. class(tool, args) \in {"read", "write"}
        /\ (level = "Read" => class(tool, args) = "read")
    BY UnaskedClass
  <2>2. tool = "gh" /\ class(tool, args) = Classify(args)
    BY <2>1 DEF class
  <2> QED BY <2>1, <2>2, Harmless DEF WordInv
<1> QED BY <1>1, WordsInvariant, PTL

\* A longer command line is never of a less privileged class than one it starts
\* with, unless that was no command yet. (the order of table, Classify)
THEOREM LongerLinesRise == LineSpec => ClassOnlyRises
<1>1. ASSUME WordInv, [LineNext]_<<tool, args>>, args' # args, class(tool, args) # "unknown"
      PROVE  /\ class(tool, args)' # "unknown"
             /\ classCoveredBy(class(tool, args), class(tool, args)')
  <2>1. PICK x \in Word : tool' = tool /\ args' = Append(args, x)
    BY <1>1, OneMoreWord
  <2>2. tool = "gh" /\ class(tool, args) = Classify(args)
    BY <1>1 DEF class
  <2>3. class(tool, args)' = Classify(Append(args, x))
    BY <2>1, <2>2 DEF class
  <2> QED BY <1>1, <2>2, <2>3, LineRises DEF WordInv
<1>2. WordInv /\ [LineNext]_<<tool, args>> =>
        [class(tool, args) # "unknown" =>
          /\ class(tool, args)' # "unknown"
          /\ classCoveredBy(class(tool, args), class(tool, args)')]_args
  BY <1>1
<1> QED BY <1>2, WordsInvariant, PTL DEF LineSpec, ClassOnlyRises

\* Once a flag is given, the subcommand is settled: only printing a log changes
\* its class. (nonFlagTokens, applyFlagOverrides)
THEOREM FlagSettlesThePath == LineSpec => FlagEndsThePath
<1>1. ASSUME WordInv, [LineNext]_<<tool, args>>, args' # args,
             NEW i \in 1..Len(args), args[i] \in Flag,
             class(tool, args)' # class(tool, args)
      PROVE  class(tool, args) # "unknown" /\ args[1] = "run"
             /\ class(tool, args)' = "secret-reveal"
  <2>1. PICK x \in Word : tool' = tool /\ args' = Append(args, x)
    BY <1>1, OneMoreWord
  <2>2. tool = "gh" /\ class(tool, args) = Classify(args)
        /\ class(tool, args)' = Classify(Append(args, x))
    BY <1>1, <2>1 DEF class
  <2> QED BY <1>1, <2>2, SettledByFlag DEF WordInv
<1>2. WordInv /\ [LineNext]_<<tool, args>> =>
        [(\E i \in 1..Len(args) : args[i] \in Flag) /\ class(tool, args)' # class(tool, args) =>
          /\ class(tool, args) # "unknown" /\ args[1] = "run"
          /\ class(tool, args)' = "secret-reveal"]_args
  BY <1>1
<1> QED BY <1>2, WordsInvariant, PTL DEF LineSpec, FlagEndsThePath

-----------------------------------------------------------------------------
(* The two together                                                          *)

LEMMA RevealsIsSecret ==
    ASSUME NEW ws \in Seq(Word), Reveals(ws)
    PROVE  Classify(ws) = "secret-reveal"
<1>1. Classify(ws) \notin {"read", "write"}
  BY Harmless
<1>2. PICK p \in Path : Starts(ws, p)
  <2>1. {<<"auth", "token">>, <<"auth", "status">>, <<"auth", "git-credential", "get">>,
         <<"codespace", "ports", "forward">>, <<"api">>, <<"run", "view">>} \subseteq Path
    BY DEF Path, SecretPath, ReadPath
  <2> QED BY <2>1 DEF Reveals
<1>3. Hits(ws) # {}
  BY <1>2, StartsHits
<1> QED BY <1>1, <1>3, Settled, KnownClass

\* A gh command line that prints a secret runs only at level Full or on an
\* approval of its own, never unasked below that nor on a session grant, whatever
\* the lines of the calls are. (Run: Classify, Decide, offerSession)
THEOREM SecretLinesAreAskedFor ==
    ASSUME NEW line \in [Call -> Seq(Word)]
    PROVE  Spec => [](\A c \in Call :
                        /\ shim[c] = "ran" /\ Reveals(line[c])
                        /\ command[c].class = class("gh", line[c])
                        => entry[c].level = "Full" \/ Answered(c, "allow-once"))
<1>1. ASSUME SecretsAskEachTime, NEW c \in Call, shim[c] = "ran", Reveals(line[c]),
             command[c].class = class("gh", line[c])
      PROVE  entry[c].level = "Full" \/ Answered(c, "allow-once")
  <2>1. command[c].class = "secret-reveal"
    BY <1>1, RevealsIsSecret DEF class
  <2> QED BY <1>1, <2>1 DEF SecretsAskEachTime
<1>2. SecretsAskEachTime =>
        \A c \in Call : /\ shim[c] = "ran" /\ Reveals(line[c])
                        /\ command[c].class = class("gh", line[c])
                        => entry[c].level = "Full" \/ Answered(c, "allow-once")
  BY <1>1
<1> QED BY <1>2, SecretsAreAskedFor, PTL
================================================================================
