------------------------------- MODULE GatedCall -------------------------------
(* A gated command from the shim to the real binary: internal/shimexec,      *)
(* composed with the agent's gate (ApprovalGate) and the policy store.       *)
(* Each Call is one cw shim-exec process, which makes at most one            *)
(* RequestGate call. Policy reads and writes are atomic here (save replaces  *)
(* the file by a rename), and an audit row is what audit.Log did or did not  *)
(* make durable.                                                             *)
EXTENDS Policy, FiniteSets

CONSTANTS
    Call, Pid, ReaperPid, Command, MaxStart, MaxPress, MayStop, None,
    IdentityKey,  \* launcher identities, e.g. mise:claude, pacman:systemd
    Program,      \* [process -> its identity key]
    EntryRange,   \* entries the policy store takes in this instance
    MaxChanges    \* bound: policy changes

VARIABLES up, process, parent, command, offer, pc, launcher, pending,
          resultCh, window, press, decision, sessions

Gate == INSTANCE ApprovalGate

\* A launcher that is not enrolled reads as Deny.
Entry == [level: Level, enrolled: BOOLEAN]
Unenrolled == [level |-> "Deny", enrolled |-> FALSE]
Enrolled(level) == [level |-> level, enrolled |-> TRUE]

ASSUME GateAssumption == /\ Gate!PidAssumption /\ Gate!BoundAssumption
                         /\ Gate!NoneAssumption /\ Gate!CommandAssumption
ASSUME ProgramAssumption == Program \in [Gate!Launcher -> IdentityKey]
ASSUME EntryAssumption == EntryRange \subseteq Entry /\ Unenrolled \in EntryRange
ASSUME ChangesAssumption == MaxChanges \in Nat

VARIABLES
    policy,    \* [IdentityKey -> Entry], the policy file
    changes,   \* policy changes so far
    shim,      \* [Call -> place in shimexec.Run]
    identity,  \* [Call -> identity key resolved, None before]
    entry,     \* [Call -> the entry read]
    outcome,   \* [Call -> the decision Run acts on]
    row,       \* [Call -> the decision durably in the audit log, "none"]
    released   \* calls that were handed the vaulted token

shimVars == <<shim, identity, entry, outcome, row, released>>
\* The gate's state, spelled out: TLC cannot leave an instance's tuple unchanged.
gateState == <<up, process, parent, command, offer, pc, launcher, decision,
               pending, resultCh, window, press, sessions>>
vars == <<gateState, policy, changes, shimVars>>

-----------------------------------------------------------------------------
Init ==
    /\ Gate!Init
    /\ policy \in [IdentityKey -> EntryRange]
    /\ changes = 0
    /\ shim = [c \in Call |-> "start"]
    /\ identity = [c \in Call |-> None]
    /\ entry = [c \in Call |-> Unenrolled]
    /\ outcome = [c \in Call |-> "none"]
    /\ row = [c \in Call |-> "none"]
    /\ released = {}

\* cw policy enroll, set or unenroll of one identity key.
ChangePolicy(k, e) ==
    /\ changes < MaxChanges
    /\ policy[k] # e
    /\ policy' = [policy EXCEPT ![k] = e]
    /\ changes' = changes + 1
    /\ UNCHANGED <<gateState, shimVars>>

-----------------------------------------------------------------------------
(* shimexec.Run                                                              *)

Step(c, from, to) == shim[c] = from /\ shim' = [shim EXCEPT ![c] = to]

\* The agent walks up from the caller's pid. With no agent on the bus, or on
\* any other error, the command is denied; that is no gate decision and is
\* not logged.
ResolveIdentity(c) ==
    /\ parent[c] # None
    /\ \/ /\ up
          /\ identity' = [identity EXCEPT ![c] = Program[parent[c]]]
          /\ Step(c, "start", "policy")
       \/ /\ Step(c, "start", "exited")
          /\ UNCHANGED identity
    /\ UNCHANGED <<gateState, policy, changes, entry, outcome, row, released>>

\* policy.GetEntry and Decide; a store that cannot be read denies.
ReadPolicy(c) ==
    LET e == policy[identity[c]]
        d == Decide(e.level, command[c].class)
    IN
    /\ \/ /\ Step(c, "policy", IF d = "prompt" THEN "ask" ELSE "log")
          /\ entry' = [entry EXCEPT ![c] = e]
          /\ outcome' = [outcome EXCEPT ![c] = IF d = "prompt" THEN @ ELSE d]
       \/ /\ Step(c, "policy", "exited")
          /\ UNCHANGED <<entry, outcome>>
    /\ UNCHANGED <<gateState, policy, changes, identity, row, released>>

\* "Allow for Session" is offered to enrolled launchers, never for a secret.
offerSessionAlways(c) == entry[c].enrolled               \* mutant
offerSession(c) == entry[c].enrolled /\ command[c].class # "secret-reveal"

AskGate(c) ==
    /\ Step(c, "ask", "gate")
    /\ Gate!RequestGate(c, offerSession(c))
    /\ UNCHANGED <<policy, changes, identity, entry, outcome, row, released>>

\* Whatever is not one of a gate's four decisions is Unavailable.
ConcludedAsDeny(c, d) ==                                 \* mutant
    /\ outcome' = [outcome EXCEPT ![c] = IF d \in AllowDecision THEN d ELSE "deny"]
    /\ UNCHANGED <<gateState, policy, changes, identity, entry, row, released>>
Concluded(c, d) ==
    /\ outcome' = [outcome EXCEPT ![c] =
         IF d \in {"allow-once", "session-grant", "session-allow", "deny"}
         THEN d ELSE "unavailable"]
    /\ UNCHANGED <<gateState, policy, changes, identity, entry, row, released>>

GateReplies(c) ==
    /\ Step(c, "gate", "log")
    /\ pc[c] = "done"
    /\ Concluded(c, decision[c])

\* The call itself fails: no agent on the bus, or the 6-minute deadline.
GateErrorAllows(c) ==                                    \* mutant
    /\ \/ Step(c, "ask", "log") /\ ~up
       \/ Step(c, "gate", "log") /\ pc[c] # "done"
    /\ Concluded(c, "allow-once")
GateErrorNoDeadline(c) ==                                \* mutant
    /\ Step(c, "ask", "log") /\ ~up
    /\ Concluded(c, "unavailable")
GateError(c) ==
    /\ \/ Step(c, "ask", "log") /\ ~up
       \/ Step(c, "gate", "log") /\ pc[c] # "done"
    /\ Concluded(c, "unavailable")

\* audit.Log; when it fails the row may have reached the file all the same.
LogDecisionBestEffort(c) ==                              \* mutant
    /\ Step(c, "log", IF outcome[c] \in AllowDecision THEN "release" ELSE "exited")
    /\ row' \in {row, [row EXCEPT ![c] = outcome[c]]}
    /\ UNCHANGED <<gateState, policy, changes, identity, entry, outcome, released>>
LogDecision(c) ==
    /\ \/ /\ Step(c, "log", IF outcome[c] \in AllowDecision THEN "release" ELSE "exited")
          /\ row' = [row EXCEPT ![c] = outcome[c]]
       \/ /\ Step(c, "log", "exited")
          /\ row' \in {row, [row EXCEPT ![c] = outcome[c]]}
    /\ UNCHANGED <<gateState, policy, changes, identity, entry, outcome, released>>

\* execReal: gh gets the vaulted token if the agent has it to give, and its
\* own token resolution if not.
ReleaseSecret(c) ==
    /\ Step(c, "release", "exec")
    /\ \/ up /\ command[c].tool = "gh" /\ released' = released \cup {c}
       \/ UNCHANGED released
    /\ UNCHANGED <<gateState, policy, changes, identity, entry, outcome, row>>

Exec(c) ==
    /\ \/ Step(c, "exec", "ran")
       \/ Step(c, "exec", "exited")
    /\ UNCHANGED <<gateState, policy, changes, identity, entry, outcome, row, released>>

-----------------------------------------------------------------------------
Shim(c) == \/ ResolveIdentity(c) \/ ReadPolicy(c) \/ AskGate(c)
           \/ GateReplies(c) \/ GateError(c)
           \/ LogDecision(c) \/ ReleaseSecret(c) \/ Exec(c)

Outside == \/ \E c \in Call, l \in Gate!Launcher : Gate!Invoke(c, l)
           \/ Gate!World
           \/ Gate!Agent

Next == \/ \E c \in Call : Shim(c)
        \/ \E k \in IdentityKey, e \in EntryRange : ChangePolicy(k, e)
        \/ Outside /\ UNCHANGED <<policy, changes, shimVars>>

Spec == Init /\ [][Next]_vars

\* Shim processes run and their calls' deadlines pass. Nothing is assumed of
\* the agent.
FairSpec == Spec /\ \A c \in Call : WF_vars(Shim(c))

-----------------------------------------------------------------------------
TypeOK ==
    /\ Gate!TypeOK
    /\ policy \in [IdentityKey -> Entry]
    /\ changes \in 0..MaxChanges
    /\ shim \in [Call -> {"start", "policy", "ask", "gate", "log", "release",
                         "exec", "ran", "exited"}]
    /\ identity \in [Call -> IdentityKey \cup {None}]
    /\ entry \in [Call -> Entry]
    /\ outcome \in [Call -> Decision \cup {"none"}]
    /\ row \in [Call -> Decision \cup {"none"}]
    /\ released \in SUBSET Call

\* "a" was the answer a human gave in c's own window, and the agent took it.
Answered(c, a) == \E n \in 1..MaxPress : press[c][n] = [state |-> "delivered", answer |-> a]

\* A command runs only if the policy its launcher had when it was read lets its
\* class through, or does not deny it and a human approved: this command, or
\* for a session one of the same launcher process that covers it. The gate
\* decided by another process, a crash, a deadline and a policy change may
\* come in between. (shimexec.Run, resolveDecision, RequestGate)
Authorized ==
    \A c \in Call : shim[c] = "ran" =>
        \/ Decide(entry[c].level, command[c].class) = "auto-allow"
        \/ /\ entry[c].level # "Deny"
           /\ \/ Answered(c, "allow-once") \/ Answered(c, "allow-session")
              \/ \E q \in Call : /\ Answered(q, "allow-session")
                                /\ launcher[q] = launcher[c]
                                /\ Gate!Covers(q, c)

\* Neither the token is released nor the command run before its own allow
\* decision is durably in the audit log. (Run, logDecision, audit.Log)
LoggedBeforeEffect ==
    \A c \in Call : c \in released \/ shim[c] = "ran" => row[c] \in AllowDecision

\* A command that reveals a secret runs only at level Full or by an approval of
\* its own; sessions never cover it. (offerSession, classCoveredBy, matrix)
SecretsAskEachTime ==
    \A c \in Call : shim[c] = "ran" /\ command[c].class = "secret-reveal" =>
        entry[c].level = "Full" \/ Answered(c, "allow-once")

\* Deny means "never even ask": no window shows for a launcher that was read as
\* denied, and no grant it held before its policy was lowered lets it pass.
\* (Decide, resolveDecision)
DenyNeverAsks ==
    \A c \in Call : entry[c].level = "Deny" =>
        window[c] = "none" /\ shim[c] # "ran" /\ c \notin released

\* The audit log never puts down to a human what no human decided: a row says
\* "deny" or "allow" only where policy decided that or somebody answered so in
\* the window of this call, or of the one whose session it passed on; what an
\* error, a deadline or a closed window decided is "unavailable".
\* (resolveDecision, logDecision, RequestGate)
RowTellsWhoDecided ==
    \A c \in Call :
        /\ row[c] = "auto-allow" => Decide(entry[c].level, command[c].class) = "auto-allow"
        /\ row[c] = "deny" =>
              Decide(entry[c].level, command[c].class) = "deny" \/ Answered(c, "deny")
        /\ row[c] = "allow-once" => Answered(c, "allow-once")
        /\ row[c] = "session-grant" => Answered(c, "allow-session")
        /\ row[c] = "session-allow" =>
              \E q \in Call : /\ Answered(q, "allow-session")
                              /\ launcher[q] = launcher[c]
                              /\ Gate!Covers(q, c)

\* Every invocation ends in the real command or an exit, whatever happens to
\* the agent and whether or not anybody answers. (the timeouts of shimexec)
EveryCallEnds ==
    \A c \in Call : parent[c] # None ~> shim[c] \in {"ran", "exited"}

-----------------------------------------------------------------------------
(* What the documents say and the code does not do.                          *)

\* docs/architecture.md: "a decision that can't be durably audited doesn't get
\* to proceed". A command that passes on a session grant has that grant logged.
GrantIsLogged ==
    \A c \in Call : row[c] = "session-allow" =>
        \E q \in Call : row[q] = "session-grant" /\ launcher[q] = launcher[c]

\* README.md: policy decides "by who's calling". The launcher a session grant
\* lets through is the one whose identity the window of that grant showed.
GrantKeepsIdentity ==
    \A c \in Call : outcome[c] = "session-allow" =>
        \E q \in Call : decision[q] = "session-grant" /\ identity[q] = identity[c]

\* The same. The launcher that the shim had resolved for the policy is the one
\* the agent resolves for the grant, or the reaper, if a shell between exited.
OnlyTheReaperInherits ==
    \A c \in Call : launcher[c] # None =>
        Program[launcher[c]] = identity[c] \/ launcher[c].pid = ReaperPid
=============================================================================
