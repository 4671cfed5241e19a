-------------------------- MODULE ApprovalGateProofs --------------------------
(* Type correctness and the safety invariants of ApprovalGate, and that it    *)
(* implements GatePromise, for every set of calls, pids and commands and     *)
(* every bound.                                                              *)
EXTENDS ApprovalGate, TLAPS

\* How a call's answers got where they are.
AnswerInv(c) ==
    /\ pc[c] = "idle" => /\ window[c] = "none"
                         /\ \A n \in 1..MaxPress : press[c][n].state = "none"
    /\ offer[c] => command[c].class # "secret-reveal"
    /\ \A n \in 1..MaxPress :
          /\ press[c][n].state = "none" <=> press[c][n].answer = "none"
          /\ press[c][n].answer = "allow-session" => offer[c]

\* The buffer holds the one answer that was delivered.
BufferInv(c) ==
    /\ resultCh[c] = "none" => \A n \in 1..MaxPress : press[c][n].state # "delivered"
    /\ resultCh[c] # "none" =>
          \E n \in 1..MaxPress :
             /\ press[c][n].state = "delivered"
             /\ press[c][n].answer = resultCh[c]
             /\ \A m \in 1..MaxPress \ {n} : press[c][m].state # "delivered"

\* How a call's decision came about.
DecisionInv(c) ==
    /\ pc[c] = "check" => launcher[c] # None
    /\ pc[c] \notin {"close", "done"} => decision[c] = "none"
    /\ decision[c] \in {"deny", "allow-once", "session-grant"} =>
          resultCh[c] # "none" /\ decision[c] = DecisionOf(resultCh[c])
    /\ decision[c] = "session-allow" => pc[c] = "done" /\ launcher[c] # None

\* A grant in the table was the answer to a call that has returned.
GrantedBy(k, q) ==
    /\ pc[q] = "done" /\ decision[q] = "session-grant"
    /\ launcher[q] # None /\ KeyOf(launcher[q]) = k
    /\ command[q].tool = sessions[k].tool
    /\ command[q].class = sessions[k].class

GrantInv == \A k \in Key : sessions[k] # None => \E q \in Call : GrantedBy(k, q)

\* SessionAllowBacked is not inductive alone: CheckSessionGrant passes a call
\* on the table, so the table must be backed by answers (GrantInv), those by
\* the buffers (DecisionInv), and those by the windows (BufferInv, AnswerInv).
IInv == /\ TypeOK
        /\ \A c \in Call : AnswerInv(c) /\ BufferInv(c) /\ DecisionInv(c)
        /\ GrantInv
        /\ SessionAllowBacked

USE PidAssumption, BoundAssumption, NoneAssumption, CommandAssumption

-----------------------------------------------------------------------------
\* Two live launchers with the same key are the same process.
LEMMA KeyOfInjective ==
    ASSUME NEW k \in Launcher, NEW l \in Launcher, KeyOf(k) = KeyOf(l)
    PROVE  k = l
BY DEF Launcher, KeyOf, sessionKey

LEMMA KeyOfType == ASSUME NEW l \in Launcher PROVE KeyOf(l) \in Key
BY DEF Launcher, KeyOf, sessionKey, Key

LEMMA ReaperType == Reaper \in Launcher
BY DEF Reaper, Launcher

LEMMA NewGrantType ==
    ASSUME NEW m \in Command, NEW b \in BOOLEAN
    PROVE  [tool |-> m.tool, class |-> m.class, idle |-> b] \in Grant
BY DEF Grant, Tool

LEMMA DecisionOfType == ASSUME NEW a \in Answer PROVE DecisionOf(a) \in Decision
BY DEF DecisionOf, Answer, Decision

-----------------------------------------------------------------------------
LEMMA InitTypeOK == Init => TypeOK
BY ReaperType DEF Init, TypeOK, NoSessions, Press, PressState, Launcher

\* The step lemma: one step per action.
LEMMA TypeOKStep == TypeOK /\ [Next]_gvars => TypeOK'
<1> SUFFICES ASSUME TypeOK, [Next]_gvars PROVE TypeOK'
  OBVIOUS
<1> USE DEF TypeOK, requestVars, callVars, gateVars
<1>1. ASSUME NEW c \in Call, Request(c) PROVE TypeOK'
  BY <1>1 DEF Request, RequestGate
<1>2. ASSUME NEW c \in Call, NEW l \in Launcher, Invoke(c, l) PROVE TypeOK'
  BY <1>2 DEF Invoke
<1>3. ASSUME NEW i \in Pid, Exit(i) PROVE TypeOK'
  <2>1. process' \in [Pid -> [start: 0..MaxStart, up: BOOLEAN]]
    BY <1>3 DEF Exit
  <2>2. parent' \in [Call -> Launcher \cup {None}]
    BY <1>3, ReaperType DEF Exit
  <2>3. QED
    BY <1>3, <2>1, <2>2 DEF Exit
<1>4. ASSUME NEW i \in Pid, Fork(i) PROVE TypeOK'
  BY <1>4 DEF Fork
<1>5. ASSUME NEW c \in Call, Orphan(c) PROVE TypeOK'
  BY <1>5, ReaperType DEF Orphan
<1>24. ASSUME NEW i \in Pid, NEW l \in Launcher, NEW S \in SUBSET Call, Become(i, l, S) PROVE TypeOK'
  <2>1. process' \in [Pid -> [start: 0..MaxStart, up: BOOLEAN]]
    BY <1>24 DEF Become
  <2>2. [pid |-> i, start |-> process'[i].start] \in Launcher
    BY <2>1 DEF Launcher
  <2>3. parent' \in [Call -> Launcher \cup {None}]
    BY <1>24, <2>2 DEF Become
  <2>4. QED
    BY <1>24, <2>1, <2>3 DEF Become
<1>6. ASSUME NEW k \in Key, GoIdle(k) PROVE TypeOK'
  BY <1>6 DEF GoIdle, Renewed, Grant
<1>7. ASSUME NEW c \in Call, Resolve(c) PROVE TypeOK'
  BY <1>7 DEF Resolve, ResolveLauncher
<1>8. ASSUME NEW c \in Call, CheckSessionGrant(c) PROVE TypeOK'
  <2>1. sessions' \in [Key -> Grant \cup {None}]
    <3>1. CASE Matches(c) /\ Usable(c)
      <4>1. PICK k \in {KeyOf(launcher[c])} : k = KeyOf(launcher[c])
        OBVIOUS
      <4>2. sessions[k] # None /\ sessions' = [sessions EXCEPT ![k] = Renewed(@, FALSE)]
        BY <1>8, <3>1, <4>1 DEF CheckSessionGrant, Matches
      <4>3. QED
        BY <4>2 DEF Grant, Renewed
    <3>2. CASE ~(Matches(c) /\ Usable(c))
      BY <1>8, <3>2 DEF CheckSessionGrant
    <3>3. QED
      BY <3>1, <3>2
  <2>2. QED
    BY <1>8, <2>1 DEF CheckSessionGrant, Decision
<1>9. ASSUME NEW c \in Call, CannotShow(c) \/ Show(c) PROVE TypeOK'
  BY <1>9 DEF CannotShow, Show, Decision
<1>10. ASSUME NEW c \in Call, TakeAnswer(c) \/ WindowGone(c) \/ Timeout(c) PROVE TypeOK'
  <2>1. \E d \in Decision : Leave(c, d)
    BY <1>10, DecisionOfType DEF TakeAnswer, WindowGone, Timeout, Decision
  <2>2. QED
    BY <2>1 DEF Leave
<1>11. ASSUME NEW c \in Call, Return(c) PROVE TypeOK'
  BY <1>11, NewGrantType DEF Return, ForgetRequest, IsGrant
<1>12. ASSUME NEW c \in Call, NEW n \in 1..MaxPress, NEW a \in Answer,
              LookUp(c, n) \/ Submit(c, n) \/ Answers(c, n, a)
       PROVE TypeOK'
  <2>1. press' \in [Call -> [1..MaxPress -> Press]]
    <3>1. CASE LookUp(c, n)
      BY <3>1 DEF LookUp, Mark, Marked, Press, PressState
    <3>2. CASE Submit(c, n)
      BY <3>2 DEF Submit, Mark, Marked, Press, PressState
    <3>3. CASE Answers(c, n, a)
      BY <3>3 DEF Answers, Press, PressState
    <3>4. QED
      BY <1>12, <3>1, <3>2, <3>3
  <2>2. resultCh' \in [Call -> Answer \cup {"none"}]
    BY <1>12 DEF LookUp, Submit, Answers, Press, PressState
  <2>3. QED
    BY <1>12, <2>1, <2>2 DEF LookUp, Submit, Answers
<1>13. ASSUME NEW c \in Call, CloseWindow(c) PROVE TypeOK'
  BY <1>13 DEF CloseWindow
<1>14. CASE Crash
  <2>1. press' \in [Call -> [1..MaxPress -> Press]]
    BY <1>14 DEF Crash, Marked, Press, PressState
  <2>2. /\ pc' \in [Call -> {"idle", "resolve", "check", "open", "wait", "close", "done"}]
        /\ decision' \in [Call -> Decision \cup {"none", "no-reply"}]
    BY <1>14 DEF Crash, InFlight
  <2>3. window' \in [Call -> {"none", "open", "gone"}]
    BY <1>14 DEF Crash
  <2>4. sessions' \in [Key -> Grant \cup {None}]
    BY <1>14 DEF Crash, NoSessions
  <2>5. QED
    BY <1>14, <2>1, <2>2, <2>3, <2>4 DEF Crash
<1>15. CASE Start
  BY <1>15 DEF Start
<1>16. CASE UNCHANGED gvars
  BY <1>16 DEF gvars
<1>17. ASSUME NEW c \in Call, Goroutine(c) PROVE TypeOK'
  BY <1>17, <1>7, <1>8, <1>9, <1>10, <1>11 DEF Goroutine
<1>18. ASSUME NEW c \in Call, Window(c) PROVE TypeOK'
  BY <1>18, <1>12, <1>13 DEF Window, Answer
<1>19. CASE World
  BY <1>19, <1>3, <1>4, <1>5, <1>24, <1>6 DEF World
<1>20. QED
  BY <1>1, <1>2, <1>14, <1>15, <1>16, <1>17, <1>18, <1>19 DEF Next, Agent

\* Every variable of the gate keeps its type.
THEOREM TypeCorrect == Spec => []TypeOK
BY InitTypeOK, TypeOKStep, PTL DEF Spec

-----------------------------------------------------------------------------
LEMMA InitIInv == Init => IInv
<1> SUFFICES ASSUME Init PROVE IInv
  OBVIOUS
<1>1. TypeOK
  BY InitTypeOK
<1>2. \A c \in Call : AnswerInv(c) /\ BufferInv(c) /\ DecisionInv(c)
  BY DEF Init, AnswerInv, BufferInv, DecisionInv
<1>3. GrantInv /\ SessionAllowBacked
  BY DEF Init, NoSessions, GrantInv, SessionAllowBacked
<1>4. QED
  BY <1>1, <1>2, <1>3 DEF IInv

\* An answer enters a window only while it is open, and only if offered there.
LEMMA AnswerStep ==
    ASSUME TypeOK, TypeOK', [Next]_gvars, NEW d \in Call, AnswerInv(d)
    PROVE  AnswerInv(d)'
<1> USE DEF TypeOK, AnswerInv, requestVars, callVars, gateVars
<1>1. ASSUME NEW c \in Call, Request(c) PROVE AnswerInv(d)'
  BY <1>1 DEF Request, RequestGate
<1>2. ASSUME NEW c \in Call, NEW l \in Launcher, Invoke(c, l) PROVE AnswerInv(d)'
  BY <1>2 DEF Invoke
<1>3. CASE World
  <2>1. UNCHANGED <<pc, window, press, offer, command>>
    BY <1>3 DEF World, Exit, Fork, Orphan, Become, GoIdle
  <2>2. QED
    BY <2>1
<1>4. ASSUME NEW c \in Call, Resolve(c) \/ CheckSessionGrant(c) \/ CannotShow(c) \/ Show(c)
      PROVE AnswerInv(d)'
  <2>1. UNCHANGED <<press, offer, command>>
    BY <1>4 DEF Resolve, CheckSessionGrant, CannotShow, Show
  <2>2. pc[c] # "idle" /\ \E p \in {"check", "open", "wait", "done"} : pc' = [pc EXCEPT ![c] = p]
    BY <1>4 DEF Resolve, CheckSessionGrant, CannotShow, Show
  <2>3. CASE Show(c)
    BY <2>1, <2>2, <2>3 DEF Show
  <2>4. CASE window' = window
    BY <2>1, <2>2, <2>4
  <2>5. QED
    BY <1>4, <2>3, <2>4 DEF Resolve, CheckSessionGrant, CannotShow
<1>5. ASSUME NEW c \in Call, TakeAnswer(c) \/ WindowGone(c) \/ Timeout(c) \/ Return(c)
      PROVE AnswerInv(d)'
  BY <1>5 DEF TakeAnswer, WindowGone, Timeout, Leave, Return, ForgetRequest
<1>6. ASSUME NEW c \in Call, NEW n \in 1..MaxPress, LookUp(c, n) \/ Submit(c, n)
      PROVE AnswerInv(d)'
  <2>1. PICK s \in PressState \ {"none"} :
           press' = [press EXCEPT ![c][n] = [state |-> s, answer |-> press[c][n].answer]]
    BY <1>6 DEF LookUp, Submit, Mark, Marked, PressState
  <2>2. press[c][n].state # "none" /\ pc' = pc /\ window' = window
        /\ offer' = offer /\ command' = command
    BY <1>6 DEF LookUp, Submit
  <2>3. QED
    BY <2>1, <2>2
<1>7. ASSUME NEW c \in Call, NEW n \in 1..MaxPress, NEW a \in Answer, Answers(c, n, a)
      PROVE AnswerInv(d)'
  BY <1>7 DEF Answers, Offered, Answer
<1>8. ASSUME NEW c \in Call, CloseWindow(c) PROVE AnswerInv(d)'
  BY <1>8 DEF CloseWindow
<1>9. CASE Crash
  BY <1>9 DEF Crash, InFlight, Marked
<1>10. CASE Start
  BY <1>10 DEF Start
<1>11. CASE UNCHANGED gvars
  BY <1>11 DEF gvars
<1>12. ASSUME NEW c \in Call, Goroutine(c) PROVE AnswerInv(d)'
  BY <1>12, <1>4, <1>5 DEF Goroutine
<1>13. ASSUME NEW c \in Call, Window(c) PROVE AnswerInv(d)'
  BY <1>13, <1>6, <1>7, <1>8 DEF Window
<1>14. QED
  BY <1>1, <1>2, <1>3, <1>9, <1>10, <1>11, <1>12, <1>13 DEF Next, Agent

\* The first answer fills the buffer and nothing empties it.
LEMMA BufferStep ==
    ASSUME TypeOK, TypeOK', [Next]_gvars, NEW d \in Call, AnswerInv(d), BufferInv(d)
    PROVE  BufferInv(d)'
<1> USE DEF TypeOK, BufferInv, requestVars, callVars, gateVars
<1>1. ASSUME NEW c \in Call, NEW n \in 1..MaxPress, Submit(c, n) PROVE BufferInv(d)'
  <2>1. CASE c = d /\ resultCh[d] = "none"
    <3>1. /\ press'[d][n].state = "delivered"
          /\ press'[d][n].answer = press[d][n].answer
          /\ \A m \in 1..MaxPress \ {n} : press'[d][m] = press[d][m]
      BY <1>1, <2>1 DEF Submit, Mark, Marked
    <3>2. resultCh'[d] = press[d][n].answer
      BY <1>1, <2>1 DEF Submit
    <3>3. press[d][n].answer # "none"
      BY <1>1, <2>1 DEF Submit, AnswerInv
    <3>4. \A m \in 1..MaxPress : press[d][m].state # "delivered"
      BY <2>1
    <3>5. \A m \in 1..MaxPress \ {n} : press'[d][m].state # "delivered"
      BY <3>1, <3>4
    <3>6. QED
      BY <3>1, <3>2, <3>3, <3>5
  <2>2. CASE ~(c = d /\ resultCh[d] = "none")
    <3>1. resultCh'[d] = resultCh[d]
      BY <1>1, <2>2 DEF Submit
    <3>2. /\ c = d => resultCh[d] # "none"
          /\ \A m \in 1..MaxPress : /\ press'[d][m].answer = press[d][m].answer
                                    /\ press'[d][m].state = "delivered"
                                         <=> press[d][m].state = "delivered"
      BY <1>1, <2>2 DEF Submit, Mark, Marked
    <3>3. QED
      BY <3>1, <3>2
  <2>3. QED
    BY <2>1, <2>2
<1>2. ASSUME NEW c \in Call, NEW n \in 1..MaxPress, NEW a \in Answer,
             LookUp(c, n) \/ Answers(c, n, a)
      PROVE  BufferInv(d)'
  <2>1. resultCh' = resultCh
    BY <1>2 DEF LookUp, Answers
  <2>2. PICK p \in Press : /\ press' = [press EXCEPT ![c][n] = p]
                           /\ p.state # "delivered" /\ press[c][n].state # "delivered"
    <3>1. CASE LookUp(c, n)
      <4>1. PICK s \in {"found", "refused"} : Mark(c, n, s)
        BY <3>1 DEF LookUp
      <4>2. Marked(c, n, s) \in Press /\ press[c][n].state = "sent"
        BY <3>1 DEF LookUp, Marked, Press, PressState
      <4>3. QED
        BY <4>1, <4>2 DEF Mark, Marked
    <3>2. CASE Answers(c, n, a)
      <4>1. [state |-> "sent", answer |-> a] \in Press
        BY DEF Press, PressState
      <4>2. QED
        BY <3>2, <4>1 DEF Answers
    <3>3. QED
      BY <1>2, <3>1, <3>2
  <2>3. \A m \in 1..MaxPress : \/ press'[d][m] = press[d][m]
                               \/ /\ press'[d][m].state # "delivered"
                                  /\ press[d][m].state # "delivered"
    BY <2>2
  <2>4. \A m \in 1..MaxPress : press[d][m].state = "delivered" => press'[d][m] = press[d][m]
    BY <2>3
  <2>5. \A m \in 1..MaxPress : press'[d][m].state = "delivered" => press'[d][m] = press[d][m]
    BY <2>3
  <2>6. CASE resultCh[d] = "none"
    BY <2>1, <2>5, <2>6
  <2>7. CASE resultCh[d] # "none"
    <3>1. PICK m \in 1..MaxPress :
             /\ press[d][m].state = "delivered" /\ press[d][m].answer = resultCh[d]
             /\ \A k \in 1..MaxPress \ {m} : press[d][k].state # "delivered"
      BY <2>7
    <3>2. \A k \in 1..MaxPress \ {m} : press'[d][k].state # "delivered"
      BY <2>5, <3>1
    <3>3. QED
      BY <2>1, <2>4, <2>7, <3>1, <3>2
  <2>8. QED
    BY <2>6, <2>7
<1>3. CASE Crash
  BY <1>3 DEF Crash, Marked
<1>4. CASE resultCh' = resultCh /\ press' = press
  BY <1>4
<1>5. ASSUME NEW c \in Call, Goroutine(c) PROVE resultCh' = resultCh /\ press' = press
  BY <1>5 DEF Goroutine, Resolve, CheckSessionGrant, CannotShow, Show, TakeAnswer,
              WindowGone, Timeout, Leave, Return
<1>6. ASSUME NEW c \in Call, Window(c) PROVE BufferInv(d)'
  <2>1. CASE CloseWindow(c)
    BY <2>1, <1>4 DEF CloseWindow
  <2> HIDE DEF BufferInv, TypeOK
  <2>2. ASSUME NEW n \in 1..MaxPress, LookUp(c, n) PROVE BufferInv(d)'
    BY <2>2, <1>2 DEF Answer
  <2>3. QED
    BY <1>6, <1>1, <1>2, <2>1, <2>2 DEF Window
<1>7. CASE World \/ Start \/ UNCHANGED gvars
  BY <1>7, <1>4 DEF World, Exit, Fork, Orphan, Become, GoIdle, Start, gvars
<1>8. ASSUME NEW c \in Call, Request(c) \/ \E l \in Launcher : Invoke(c, l)
      PROVE BufferInv(d)'
  BY <1>8, <1>4 DEF Request, RequestGate, Invoke
<1>9. QED
  BY <1>3, <1>4, <1>5, <1>6, <1>7, <1>8 DEF Next, Agent

\* A buffer that is filled is never filled again.
LEMMA BufferStable ==
    ASSUME TypeOK, [Next]_gvars, NEW d \in Call, resultCh[d] # "none"
    PROVE  resultCh'[d] = resultCh[d]
<1> USE DEF TypeOK, requestVars, callVars, gateVars
<1>1. ASSUME NEW c \in Call, NEW n \in 1..MaxPress, Submit(c, n)
      PROVE  resultCh'[d] = resultCh[d]
  BY <1>1 DEF Submit
<1>2. ASSUME NEW c \in Call, Goroutine(c) PROVE resultCh' = resultCh
  BY <1>2 DEF Goroutine, Resolve, CheckSessionGrant, CannotShow, Show, TakeAnswer,
              WindowGone, Timeout, Leave, Return
<1>3. ASSUME NEW c \in Call, Window(c) PROVE resultCh'[d] = resultCh[d]
  BY <1>1, <1>3 DEF Window, LookUp, Answers, CloseWindow
<1>4. CASE World \/ Crash \/ Start \/ UNCHANGED gvars
  BY <1>4 DEF World, Exit, Fork, Orphan, Become, GoIdle, Crash, Start, gvars
<1>5. ASSUME NEW c \in Call, Request(c) \/ \E l \in Launcher : Invoke(c, l)
      PROVE resultCh' = resultCh
  BY <1>5 DEF Request, RequestGate, Invoke
<1>6. QED
  BY <1>2, <1>3, <1>4, <1>5 DEF Next, Agent

\* A decision is the answer in the buffer, a grant's, or a failure.
LEMMA DecisionStep ==
    ASSUME TypeOK, TypeOK', [Next]_gvars, NEW d \in Call, DecisionInv(d)
    PROVE  DecisionInv(d)'
<1> USE DEF DecisionInv, requestVars, callVars, gateVars
<1>0. resultCh[d] # "none" => resultCh'[d] = resultCh[d]
  BY BufferStable
<1>1. ASSUME NEW c \in Call, Request(c) PROVE DecisionInv(d)'
  BY <1>1 DEF Request, RequestGate, TypeOK
<1>2. CASE UNCHANGED callVars
  BY <1>0, <1>2
<1>3. ASSUME NEW c \in Call, Resolve(c) PROVE DecisionInv(d)'
  BY <1>3 DEF Resolve, TypeOK
<1>4. ASSUME NEW c \in Call, CheckSessionGrant(c) \/ CannotShow(c) \/ Show(c)
      PROVE DecisionInv(d)'
  <2>1. UNCHANGED <<launcher, resultCh>>
    BY <1>4 DEF CheckSessionGrant, CannotShow, Show
  <2>2. \/ /\ CheckSessionGrant(c)
           /\ pc' = [pc EXCEPT ![c] = "done"]
           /\ decision' = [decision EXCEPT ![c] = "session-allow"]
        \/ /\ pc' = [pc EXCEPT ![c] = "done"]
           /\ decision' = [decision EXCEPT ![c] = "unavailable"]
        \/ /\ \E p \in {"open", "wait"} : pc' = [pc EXCEPT ![c] = p]
           /\ decision' = decision
    BY <1>4 DEF CheckSessionGrant, CannotShow, Show
  <2>3. pc[c] \in {"check", "open"} /\ (CheckSessionGrant(c) => pc[c] = "check")
    BY <1>4 DEF CheckSessionGrant, CannotShow, Show
  <2>4. QED
    BY <2>1, <2>2, <2>3 DEF TypeOK
<1>5. ASSUME NEW c \in Call, TakeAnswer(c) \/ WindowGone(c) \/ Timeout(c)
      PROVE DecisionInv(d)'
  <2>1. PICK v : /\ Leave(c, v)
                 /\ \/ v = "unavailable"
                    \/ resultCh[c] # "none" /\ v = DecisionOf(resultCh[c])
    BY <1>5 DEF TakeAnswer, WindowGone, Timeout
  <2>2. v # "session-allow"
    BY <2>1 DEF DecisionOf, TypeOK, Answer
  <2>3. QED
    BY <2>1, <2>2 DEF Leave, TypeOK
<1>6. ASSUME NEW c \in Call, Return(c) PROVE DecisionInv(d)'
  BY <1>6 DEF Return, TypeOK
<1>7. CASE Crash
  BY <1>7 DEF Crash, InFlight, TypeOK
<1>8. ASSUME NEW c \in Call, Goroutine(c) PROVE DecisionInv(d)'
  <2> HIDE DEF DecisionInv
  <2> QED BY <1>8, <1>3, <1>4, <1>5, <1>6 DEF Goroutine
<1>9. ASSUME NEW c \in Call, Window(c) \/ \E l \in Launcher : Invoke(c, l)
      PROVE UNCHANGED callVars
  BY <1>9 DEF Window, LookUp, Submit, Answers, CloseWindow, Invoke
<1>10. CASE World \/ Start \/ UNCHANGED gvars
  <2>1. UNCHANGED callVars
    BY <1>10 DEF World, Exit, Fork, Orphan, Become, GoIdle, Start, gvars
  <2>2. QED
    BY <1>2, <2>1
<1>11. QED
  <2> HIDE DEF DecisionInv
  <2> QED BY <1>1, <1>2, <1>7, <1>8, <1>9, <1>10 DEF Next, Agent

\* What a call that has returned came to stands; what it asked about always did.
LEMMA DoneStable ==
    ASSUME TypeOK, [Next]_gvars
    PROVE  /\ command' = command
           /\ \A q \in Call : pc[q] = "done" => /\ pc'[q] = "done"
                                                /\ decision'[q] = decision[q]
                                                /\ launcher'[q] = launcher[q]
<1> DEFINE Goal == /\ command' = command
                   /\ \A q \in Call : pc[q] = "done" => /\ pc'[q] = "done"
                                                        /\ decision'[q] = decision[q]
                                                        /\ launcher'[q] = launcher[q]
<1> USE DEF requestVars, callVars, gateVars
<1>1. ASSUME NEW c \in Call, Request(c) PROVE Goal
  BY <1>1 DEF Request, RequestGate, TypeOK
<1>2. ASSUME NEW c \in Call, Resolve(c) PROVE Goal
  BY <1>2 DEF Resolve, TypeOK
<1>3. ASSUME NEW c \in Call, CheckSessionGrant(c) PROVE Goal
  BY <1>3 DEF CheckSessionGrant, TypeOK
<1>4. ASSUME NEW c \in Call, CannotShow(c) \/ Show(c) \/ Return(c) PROVE Goal
  BY <1>4 DEF CannotShow, Show, Return, TypeOK
<1>5. ASSUME NEW c \in Call, TakeAnswer(c) \/ WindowGone(c) \/ Timeout(c) PROVE Goal
  BY <1>5 DEF TakeAnswer, WindowGone, Timeout, Leave, TypeOK
<1>6. ASSUME Crash PROVE Goal
  BY <1>6 DEF Crash, InFlight, TypeOK
<1>7. ASSUME NEW c \in Call, Window(c) \/ \E l \in Launcher : Invoke(c, l)
      PROVE Goal
  BY <1>7 DEF Window, LookUp, Submit, Answers, CloseWindow, Invoke
<1>8. ASSUME World \/ Start \/ UNCHANGED gvars PROVE Goal
  BY <1>8 DEF World, Exit, Fork, Orphan, Become, GoIdle, Start, gvars
<1> HIDE DEF Goal
<1>9. ASSUME NEW c \in Call, Goroutine(c) PROVE Goal
  BY <1>9, <1>2, <1>3, <1>4, <1>5 DEF Goroutine
<1>10. Goal
  <2>1. CASE \E c \in Call : Request(c) \/ \E l \in Launcher : Invoke(c, l)
    BY <2>1, <1>1, <1>7
  <2>2. CASE \E c \in Call : Goroutine(c) \/ Window(c)
    BY <2>2, <1>7, <1>9
  <2>3. QED
    BY <1>6, <1>8, <2>1, <2>2 DEF Next, Agent
<1>11. QED
  BY <1>10 DEF Goal

\* A grant enters the table when the call it answers returns, and only then.
LEMMA GrantStep ==
    ASSUME TypeOK, [Next]_gvars, GrantInv
    PROVE  GrantInv'
<1> USE DEF requestVars, callVars, gateVars
<1>1. ASSUME NEW k \in Key, sessions'[k] # None, sessions[k] # None,
             sessions'[k].tool = sessions[k].tool, sessions'[k].class = sessions[k].class
      PROVE  \E q \in Call : GrantedBy(k, q)'
  <2>1. PICK q \in Call : GrantedBy(k, q)
    BY <1>1 DEF GrantInv
  <2>2. GrantedBy(k, q)'
    BY <1>1, <2>1, DoneStable DEF GrantedBy, KeyOf, sessionKey
  <2>3. QED
    BY <2>2
<1>2. CASE UNCHANGED sessions
  BY <1>1, <1>2 DEF GrantInv
<1>3. ASSUME NEW i \in Key, NEW b \in BOOLEAN, sessions[i] # None,
             sessions' = [sessions EXCEPT ![i] = Renewed(@, b)]
      PROVE  GrantInv'
  <2>1. ASSUME NEW k \in Key, sessions'[k] # None
        PROVE  /\ sessions[k] # None
               /\ sessions'[k].tool = sessions[k].tool
               /\ sessions'[k].class = sessions[k].class
    BY <1>3, <2>1 DEF Renewed, TypeOK
  <2>2. QED
    BY <1>1, <2>1 DEF GrantInv
<1>4. ASSUME NEW c \in Call, CheckSessionGrant(c) PROVE GrantInv'
  <2>1. CASE Matches(c) /\ Usable(c)
    <3>1. launcher[c] # None => KeyOf(launcher[c]) \in Key
      BY KeyOfType DEF TypeOK
    <3>2. /\ sessions[KeyOf(launcher[c])] # None
          /\ sessions' = [sessions EXCEPT ![KeyOf(launcher[c])] = Renewed(@, FALSE)]
      BY <1>4, <2>1 DEF CheckSessionGrant, Matches
    <3>3. CASE KeyOf(launcher[c]) \in Key
      BY <1>3, <3>2, <3>3
    <3>4. CASE KeyOf(launcher[c]) \notin Key
      <4>1. sessions' = sessions
        <5>1. sessions \in [Key -> Grant \cup {None}]
          BY DEF TypeOK
        <5>2. QED
          BY <3>2, <3>4, <5>1
      <4>2. QED
        BY <4>1, <1>2
    <3>5. QED
      BY <3>3, <3>4
  <2>2. CASE Matches(c) /\ ~Usable(c)
    <3>1. sessions' = [sessions EXCEPT ![KeyOf(launcher[c])] = None]
      BY <1>4, <2>2 DEF CheckSessionGrant
    <3>2. \A k \in Key : sessions'[k] # None => sessions'[k] = sessions[k]
      BY <3>1 DEF TypeOK
    <3>3. QED
      BY <1>1, <3>2 DEF GrantInv
  <2>3. CASE ~Matches(c)
    BY <1>2, <1>4, <2>3 DEF CheckSessionGrant
  <2>4. QED
    BY <2>1, <2>2, <2>3
<1>5. ASSUME NEW c \in Call, Return(c), IsGrant(c) PROVE GrantInv'
  <2> DEFINE h == KeyOf(launcher[c])
             g == [tool |-> command[c].tool, class |-> command[c].class, idle |-> FALSE]
  <2>1. launcher[c] \in Launcher /\ h \in Key
    BY <1>5, KeyOfType DEF IsGrant, TypeOK
  <2>2. sessions' = [sessions EXCEPT ![h] = g]
    BY <1>5 DEF Return
  <2>3. /\ pc'[c] = "done" /\ decision'[c] = "session-grant" /\ launcher'[c] = launcher[c]
        /\ command' = command /\ launcher[c] # None
    BY <1>5 DEF Return, IsGrant, TypeOK
  <2>4. g.tool = command[c].tool /\ g.class = command[c].class
    OBVIOUS
  <2> HIDE DEF g
  <2>5. sessions'[h] = g
    BY <2>1, <2>2 DEF TypeOK
  <2>6. GrantedBy(h, c)'
    BY <2>3, <2>4, <2>5 DEF GrantedBy, KeyOf, sessionKey
  <2>7. \A k \in Key \ {h} : sessions'[k] = sessions[k]
    BY <2>1, <2>2 DEF TypeOK
  <2>8. ASSUME NEW k \in Key, sessions'[k] # None
        PROVE  \E q \in Call : GrantedBy(k, q)'
    <3>1. CASE k = h
      BY <2>3, <2>6, <3>1 DEF GrantedBy, KeyOf, sessionKey
    <3>2. CASE k # h
      BY <1>1, <2>7, <2>8, <3>2
    <3>3. QED
      BY <3>1, <3>2
  <2>9. QED
    BY <2>8 DEF GrantInv
<1>6. ASSUME NEW c \in Call, Return(c), ~IsGrant(c) PROVE UNCHANGED sessions
  BY <1>6 DEF Return
<1>7. ASSUME NEW c \in Call, Goroutine(c) PROVE GrantInv'
  <2>1. Resolve(c) \/ CannotShow(c) \/ Show(c) \/ TakeAnswer(c) \/ WindowGone(c) \/ Timeout(c)
          => UNCHANGED sessions
    BY DEF Resolve, CannotShow, Show, TakeAnswer, WindowGone, Timeout, Leave
  <2>2. QED
    BY <1>2, <1>4, <1>5, <1>6, <1>7, <2>1 DEF Goroutine
<1>8. CASE World
  BY <1>2, <1>3, <1>8 DEF World, Exit, Fork, Orphan, Become, GoIdle
<1>9. CASE Crash
  BY <1>9 DEF Crash, NoSessions, GrantInv
<1>10. ASSUME NEW c \in Call, Window(c) \/ Request(c) \/ \E l \in Launcher : Invoke(c, l)
       PROVE  UNCHANGED sessions
  BY <1>10 DEF Window, LookUp, Submit, Answers, CloseWindow, Request, RequestGate, Invoke
<1>11. CASE Start \/ UNCHANGED gvars
  BY <1>2, <1>11 DEF Start, gvars
<1>12. QED
  BY <1>2, <1>7, <1>8, <1>9, <1>10, <1>11 DEF Next, Agent

\* Who passes on a grant passes on the table, and the table is backed.
LEMMA BackedStep ==
    ASSUME TypeOK, TypeOK', [Next]_gvars, GrantInv, SessionAllowBacked,
           \A c \in Call : DecisionInv(c)
    PROVE  SessionAllowBacked'
<1> SUFFICES ASSUME NEW c \in Call, decision'[c] = "session-allow"
             PROVE  \E q \in Call : /\ pc'[q] = "done" /\ decision'[q] = "session-grant"
                                    /\ launcher'[q] = launcher'[c]
                                    /\ Covers(q, c)'
  BY DEF SessionAllowBacked
<1>1. CASE decision[c] = "session-allow"
  <2>1. pc[c] = "done"
    BY <1>1 DEF DecisionInv
  <2>2. PICK q \in Call : /\ pc[q] = "done" /\ decision[q] = "session-grant"
                          /\ launcher[q] = launcher[c] /\ Covers(q, c)
    BY <1>1 DEF SessionAllowBacked
  <2>3. QED
    BY <2>1, <2>2, DoneStable DEF Covers
<1>2. CASE decision[c] # "session-allow"
  <2>1. CheckSessionGrant(c) /\ Matches(c)
    <3>1. ASSUME NEW e \in Call, Goroutine(e) PROVE e = c /\ CheckSessionGrant(c) /\ Matches(c)
      <4>1. CASE CheckSessionGrant(e)
        <5>1. e = c
          <6>1. /\ decision \in [Call -> Decision \cup {"none", "no-reply"}]
                /\ \/ decision' = decision
                   \/ decision' = [decision EXCEPT ![e] = "session-allow"]
            BY <4>1 DEF CheckSessionGrant, TypeOK
          <6>2. QED
            BY <1>2, <6>1
        <5>2. Matches(e)
          BY <1>2, <4>1, <5>1 DEF CheckSessionGrant
        <5>3. QED
          BY <4>1, <5>1, <5>2
      <4>2. CASE TakeAnswer(e) \/ WindowGone(e) \/ Timeout(e)
        <5>1. resultCh[e] \in Answer \cup {"none"}
          BY DEF TypeOK
        <5>2. PICK v : Leave(e, v) /\ v # "session-allow"
          BY <4>2, <5>1 DEF TakeAnswer, WindowGone, Timeout, DecisionOf, Answer
        <5>3. decision \in [Call -> Decision \cup {"none", "no-reply"}]
          BY DEF TypeOK
        <5>4. QED
          BY <1>2, <5>2, <5>3 DEF Leave
      <4>3. CASE Resolve(e) \/ CannotShow(e) \/ Show(e) \/ Return(e)
        BY <1>2, <4>3 DEF Resolve, CannotShow, Show, Return, TypeOK
      <4>4. QED
        BY <3>1, <4>1, <4>2, <4>3 DEF Goroutine
    <3>2. ASSUME NEW e \in Call, Window(e) \/ Request(e) \/ \E l \in Launcher : Invoke(e, l)
          PROVE  decision' = decision
      BY <3>2 DEF Window, LookUp, Submit, Answers, CloseWindow, Request, RequestGate, Invoke,
                  callVars
    <3>3. World \/ Start \/ UNCHANGED gvars => decision' = decision
      BY DEF World, Exit, Fork, Orphan, Become, GoIdle, Start, gvars, callVars
    <3>4. ~Crash
      BY <1>2 DEF Crash
    <3>5. QED
      BY <1>2, <3>1, <3>2, <3>3, <3>4 DEF Next, Agent
  <2>2. launcher[c] # None /\ launcher[c] \in Launcher
    BY <2>1 DEF CheckSessionGrant, DecisionInv, TypeOK
  <2>3. PICK q \in Call : GrantedBy(KeyOf(launcher[c]), q)
    BY <2>1, <2>2, KeyOfType DEF GrantInv, Matches
  <2>4. launcher[q] = launcher[c]
    BY <2>2, <2>3, KeyOfInjective DEF GrantedBy, TypeOK
  <2>5. Covers(q, c)
    BY <2>1, <2>3 DEF GrantedBy, Matches, Covers
  <2>6. launcher' = launcher
    BY <2>1 DEF CheckSessionGrant
  <2>7. QED
    BY <2>3, <2>4, <2>5, <2>6, DoneStable DEF GrantedBy, Covers
<1>3. QED
  BY <1>1, <1>2

LEMMA IInvStep == IInv /\ [Next]_gvars => IInv'
<1> SUFFICES ASSUME IInv, [Next]_gvars PROVE IInv'
  OBVIOUS
<1>1. TypeOK /\ TypeOK' /\ GrantInv /\ SessionAllowBacked
  BY TypeOKStep DEF IInv
<1>2. \A c \in Call : AnswerInv(c) /\ BufferInv(c) /\ DecisionInv(c)
  BY DEF IInv
<1>3. \A c \in Call : AnswerInv(c)'
  BY <1>1, <1>2, AnswerStep
<1>4. \A c \in Call : BufferInv(c)'
  BY <1>1, <1>2, BufferStep
<1>5. \A c \in Call : DecisionInv(c)'
  BY <1>1, <1>2, DecisionStep
<1>6. GrantInv' /\ SessionAllowBacked'
  BY <1>1, <1>2, GrantStep, BackedStep
<1>7. QED
  BY <1>1, <1>3, <1>4, <1>5, <1>6 DEF IInv

LEMMA Inductive == Spec => []IInv
BY InitIInv, IInvStep, PTL DEF Spec

-----------------------------------------------------------------------------
\* A call passes on a session grant only if a human gave it to the very same
\* launcher process, for that tool and a class that covers the call's.
THEOREM SessionAllowIsBacked == Spec => []SessionAllowBacked
<1>1. IInv => SessionAllowBacked
  BY DEF IInv
<1>2. QED
  BY Inductive, <1>1, PTL

\* A decision returned as the human's is the one answer its window delivered.
THEOREM HumanHasDecided == Spec => []HumanDecides
<1>1. IInv => HumanDecides
  BY DEF IInv, BufferInv, DecisionInv, HumanDecides
<1>2. QED
  BY Inductive, <1>1, PTL

\* No session grant lets a secret-reveal command through.
THEOREM SecretsNeedAnAnswer == Spec => []SecretNeedsAnAnswer
<1>1. IInv => SecretNeedsAnAnswer
  <2> SUFFICES ASSUME IInv PROVE SecretNeedsAnAnswer
    OBVIOUS
  <2>1. ASSUME NEW q \in Call, decision[q] = "session-grant"
        PROVE  command[q].class # "secret-reveal"
    <3>1. resultCh[q] \in Answer /\ DecisionOf(resultCh[q]) = "session-grant"
      BY <2>1 DEF IInv, DecisionInv, TypeOK
    <3>2. resultCh[q] = "allow-session"
      BY <3>1 DEF DecisionOf, Answer
    <3>3. \E n \in 1..MaxPress : press[q][n].answer = "allow-session"
      BY <3>2 DEF IInv, BufferInv
    <3>4. QED
      BY <3>3 DEF IInv, AnswerInv
  <2>2. ASSUME NEW c \in Call, decision[c] = "session-allow"
        PROVE  command[c].class # "secret-reveal"
    <3>1. PICK q \in Call : decision[q] = "session-grant" /\ Covers(q, c)
      BY <2>2 DEF IInv, SessionAllowBacked
    <3>2. command[q].class # "secret-reveal" /\ command[q].class \in Class
      BY <2>1, <3>1 DEF IInv, TypeOK
    <3>3. QED
      BY <3>1, <3>2 DEF Covers, classCoveredBy, classRank, Class
  <2>3. ASSUME NEW k \in Key, sessions[k] # None
        PROVE  sessions[k].class # "secret-reveal"
    BY <2>1, <2>3 DEF IInv, GrantInv, GrantedBy
  <2>4. QED
    BY <2>1, <2>2, <2>3 DEF SecretNeedsAnAnswer
<1>2. QED
  BY Inductive, <1>1, PTL

-----------------------------------------------------------------------------
(* What the gate promises                                                    *)

\* What the promise sees of the gate: the mapping of Promise.
Given == [c \in Call |-> {press[c][n].answer : n \in 1..MaxPress} \ {"none"}]
Outcome == [c \in Call |-> IF pc[c] = "done" THEN decision[c] ELSE "none"]

\* How far a call has come in RequestGate.
ProgressInv(c) ==
    /\ pc[c] \in {"idle", "resolve"} => launcher[c] = None
    /\ pc[c] = "close" =>
          decision[c] \in {"deny", "allow-once", "session-grant", "unavailable"}
    /\ c \in pending => pc[c] \in {"wait", "close"}

PInv == IInv /\ \A c \in Call : ProgressInv(c)

-----------------------------------------------------------------------------
LEMMA InitPInv == Init => PInv
BY InitIInv DEF Init, PInv, ProgressInv

\* A request is pending only while RequestGate waits for its answer.
LEMMA ProgressStep ==
    ASSUME TypeOK, [Next]_gvars, NEW d \in Call, ProgressInv(d)
    PROVE  ProgressInv(d)'
<1> USE DEF TypeOK, ProgressInv, requestVars, callVars, gateVars
<1>1. ASSUME NEW c \in Call, Request(c) PROVE ProgressInv(d)'
  BY <1>1 DEF Request, RequestGate
<1>2. CASE UNCHANGED <<callVars, pending>>
  BY <1>2
<1>3. ASSUME NEW c \in Call, Resolve(c) \/ CannotShow(c) \/ Show(c) PROVE ProgressInv(d)'
  BY <1>3 DEF Resolve, CannotShow, Show
<1>4. ASSUME NEW c \in Call, CheckSessionGrant(c) PROVE ProgressInv(d)'
  BY <1>4 DEF CheckSessionGrant
<1>5. ASSUME NEW c \in Call, TakeAnswer(c) \/ WindowGone(c) \/ Timeout(c) PROVE ProgressInv(d)'
  <2>1. \E v \in {"deny", "allow-once", "session-grant", "unavailable"} : Leave(c, v)
    BY <1>5 DEF TakeAnswer, WindowGone, Timeout, DecisionOf, Answer
  <2>2. QED
    BY <2>1 DEF Leave
<1>6. ASSUME NEW c \in Call, Return(c) PROVE ProgressInv(d)'
  BY <1>6 DEF Return, ForgetRequest
<1>7. CASE Crash
  BY <1>7 DEF Crash, InFlight
<1> HIDE DEF ProgressInv, TypeOK
<1>8. ASSUME NEW c \in Call, Goroutine(c) PROVE ProgressInv(d)'
  BY <1>8, <1>3, <1>4, <1>5, <1>6 DEF Goroutine
<1>9. ASSUME NEW c \in Call, Window(c) \/ \E l \in Launcher : Invoke(c, l)
      PROVE  UNCHANGED <<callVars, pending>>
  BY <1>9 DEF Window, LookUp, Submit, Answers, CloseWindow, Invoke
<1>10. World \/ Start \/ UNCHANGED gvars => UNCHANGED <<callVars, pending>>
  BY DEF World, Exit, Fork, Orphan, Become, GoIdle, Start, gvars
<1>11. QED
  BY <1>1, <1>2, <1>7, <1>8, <1>9, <1>10 DEF Next, Agent

LEMMA PInvStep == PInv /\ [Next]_gvars => PInv'
<1> SUFFICES ASSUME PInv, [Next]_gvars PROVE PInv'
  OBVIOUS
<1>1. IInv' /\ TypeOK
  BY IInvStep DEF PInv, IInv
<1>2. \A c \in Call : ProgressInv(c)'
  BY <1>1, ProgressStep DEF PInv
<1>3. QED
  BY <1>1, <1>2 DEF PInv

LEMMA ProgressInvariance == Spec => []PInv
BY InitPInv, PInvStep, PTL DEF Spec

-----------------------------------------------------------------------------
(* An answer that is looked up late is refused                               *)

LEMMA LateStep ==
    ASSUME PInv, [Next]_gvars, NEW c \in Call, NEW n \in 1..MaxPress,
           pc[c] = "done", press[c][n].state = "sent"
    PROVE  press'[c][n].state \in {"sent", "refused"}
<1> USE DEF requestVars, callVars, gateVars
<1>0. TypeOK /\ c \notin pending
  BY DEF PInv, IInv, ProgressInv
<1>1. ASSUME NEW d \in Call, NEW m \in 1..MaxPress,
             LookUp(d, m) \/ Submit(d, m) \/ \E a \in Answer : Answers(d, m, a)
      PROVE  press'[c][n].state \in {"sent", "refused"}
  <2>1. CASE d = c /\ m = n
    BY <1>0, <1>1, <2>1 DEF LookUp, Submit, Answers, Mark, Marked, TypeOK
  <2>2. CASE ~(d = c /\ m = n)
    <3>1. press'[c][n] = press[c][n]
      BY <1>0, <1>1, <2>2 DEF LookUp, Submit, Answers, Mark, TypeOK
    <3>2. QED
      BY <3>1
  <2>3. QED
    BY <2>1, <2>2
<1>2. CASE Crash
  BY <1>2 DEF Crash
<1>3. ASSUME NEW d \in Call, Goroutine(d) \/ CloseWindow(d) \/ Request(d)
                             \/ \E l \in Launcher : Invoke(d, l)
      PROVE  press' = press
  BY <1>3 DEF Goroutine, Resolve, CheckSessionGrant, CannotShow, Show, TakeAnswer,
              WindowGone, Timeout, Leave, Return, CloseWindow, Request, RequestGate, Invoke
<1>4. World \/ Start \/ UNCHANGED gvars => press' = press
  BY DEF World, Exit, Fork, Orphan, Become, GoIdle, Start, gvars
<1>5. QED
  BY <1>1, <1>2, <1>3, <1>4 DEF Next, Agent, Window

\* An answer looked up after its request has returned is refused, whatever
\* restarts the agent has been through. (SubmitGateDecision, runGate's defer)
THEOREM LateAnswersAreRefused == Spec => LateAnswerRefused
<1>1. PInv /\ [Next]_gvars =>
        [\A c \in Call, n \in 1..MaxPress :
           pc[c] = "done" /\ press[c][n].state = "sent" =>
              press'[c][n].state \in {"sent", "refused"}]_gvars
  BY LateStep
<1>2. QED
  BY <1>1, ProgressInvariance, PTL DEF Spec, LateAnswerRefused

-----------------------------------------------------------------------------
(* The refinement: which step of the promise each step of the gate is        *)

LEMMA GrantIsThere == ASSUME NEW g \in Grant PROVE g # None
BY DEF Grant, Tool

\* A function that differs from another in one place.
LEMMA OnePlace ==
    ASSUME NEW S, NEW f, NEW g, NEW x, NEW v, f = [y \in S |-> f[y]],
           g = [y \in S |-> IF y = x THEN v ELSE f[y]]
    PROVE  g = [f EXCEPT ![x] = v]
OBVIOUS

LEMMA SeenAs ==
    /\ Promise!pvars = <<command, launcher, Given, Outcome, HeldGrants>>
    /\ Promise!pvars' = <<command', launcher', Given', Outcome', HeldGrants'>>
BY DEF Promise!pvars, Given, Outcome

\* A step that touches neither tables nor answers, and ends no call.
LEMMA Unseen ==
    ASSUME TypeOK, UNCHANGED <<command, launcher, press, sessions, decision>>,
           \A c \in Call : pc'[c] = "done" <=> pc[c] = "done"
    PROVE  UNCHANGED Promise!pvars
<1>1. Given' = Given
  BY DEF Given
<1>2. Outcome' = Outcome
  BY DEF Outcome
<1>3. HeldGrants' = HeldGrants
  BY DEF HeldGrants
<1>4. QED
  BY <1>1, <1>2, <1>3, SeenAs

\* The grants held name the process, tool and class of a slot of the table.
LEMMA HeldGrant ==
    ASSUME NEW k \in Key, sessions[k] # None
    PROVE  [process |-> [pid |-> k[1], start |-> k[2]],
            tool |-> sessions[k].tool, class |-> sessions[k].class] \in HeldGrants
BY DEF HeldGrants

\* Grants that are renewed or thrown away leave no grant that was not there.
LEMMA FewerGrants ==
    ASSUME \A k \in Key : sessions'[k] # None =>
               /\ sessions[k] # None
               /\ sessions'[k].tool = sessions[k].tool
               /\ sessions'[k].class = sessions[k].class
    PROVE  HeldGrants' \in SUBSET HeldGrants
<1>1. ASSUME NEW g \in HeldGrants' PROVE g \in HeldGrants
  <2>1. PICK k \in Key : /\ sessions'[k] # None
                         /\ g = [process |-> [pid |-> k[1], start |-> k[2]],
                                 tool |-> sessions'[k].tool, class |-> sessions'[k].class]
    BY <1>1 DEF HeldGrants
  <2>2. QED
    BY <2>1, HeldGrant
<1>2. QED
  BY <1>1

\* The answer behind a decision was given in the call's own window.
LEMMA DecisionGiven ==
    ASSUME PInv, NEW c \in Call, pc[c] = "close", decision[c] # "unavailable"
    PROVE  \E a \in Given[c] : a \in Answer /\ decision[c] = DecisionOf(a)
<1>1. /\ resultCh[c] # "none" /\ decision[c] = DecisionOf(resultCh[c])
      /\ resultCh[c] \in Answer
  BY DEF PInv, ProgressInv, IInv, DecisionInv, TypeOK
<1>2. PICK n \in 1..MaxPress : press[c][n].answer = resultCh[c]
  BY <1>1 DEF PInv, IInv, BufferInv
<1>3. resultCh[c] \in Given[c]
  BY <1>1, <1>2 DEF Given
<1>4. QED
  BY <1>1, <1>3

-----------------------------------------------------------------------------
LEMMA ReturnKeeps ==
    ASSUME PInv, NEW c \in Call, Return(c)
    PROVE  Promise!Next
<1> USE DEF requestVars
<1>1. TypeOK /\ ProgressInv(c) /\ pc[c] = "close"
  BY DEF PInv, IInv, Return
<1>2. /\ Outcome[c] = "none" /\ UNCHANGED <<command, launcher, Given>>
      /\ Outcome' = [d \in Call |-> IF d = c THEN decision[c] ELSE Outcome[d]]
  BY <1>1 DEF Return, Outcome, Given, TypeOK
<1>3. Outcome' = [Outcome EXCEPT ![c] = decision[c]]
  BY <1>2, OnePlace DEF Outcome
<1>4. ~IsGrant(c) => HeldGrants' = HeldGrants
  BY DEF Return, HeldGrants
<1>5. CASE decision[c] = "unavailable"
  <2>1. Promise!Fail({c})
    BY <1>2, <1>4, <1>5 DEF IsGrant, Promise!Fail, Promise!Undecided, Promise!Failure,
                                  Outcome, Given
  <2>2. QED
    BY <2>1 DEF Promise!Next
<1>6. CASE decision[c] \in {"deny", "allow-once"}
  <2>1. decision[c] \in Given[c]
    BY <1>1, <1>6, DecisionGiven DEF DecisionOf, Answer
  <2>2. Promise!Decided(c)
    BY <1>2, <1>3, <1>4, <1>6, <2>1 DEF IsGrant, Promise!Decided, Promise!Undecided, Outcome, Given
  <2>3. QED
    BY <2>2 DEF Promise!Next
<1>7. CASE decision[c] = "session-grant"
  <2>1. "allow-session" \in Given[c]
    BY <1>1, <1>7, DecisionGiven DEF DecisionOf, Answer
  <2>2. \E kept \in SUBSET HeldGrants :
          HeldGrants' = IF launcher[c] = None THEN kept ELSE kept \cup {Promise!GrantOf(c)}
    <3>1. CASE launcher[c] = None
      BY <1>4, <3>1 DEF IsGrant
    <3>2. CASE launcher[c] # None
      <4> DEFINE h == KeyOf(launcher[c])
                 Held(k) == [process |-> [pid |-> k[1], start |-> k[2]],
                             tool |-> sessions[k].tool, class |-> sessions[k].class]
                 kept == {Held(k) : k \in {j \in Key \ {h} : sessions[j] # None}}
                 g == [tool |-> command[c].tool, class |-> command[c].class, idle |-> FALSE]
      <4>1. launcher[c] \in Launcher /\ h \in Key
        BY <1>1, <3>2, KeyOfType DEF TypeOK
      <4>2. sessions' = [sessions EXCEPT ![h] = g]
        BY <1>7, <3>2 DEF Return, IsGrant
      <4>3. g # None /\ g.tool = command[c].tool /\ g.class = command[c].class
        BY <1>1, NewGrantType, GrantIsThere DEF TypeOK
      <4>4. launcher[c] = [pid |-> h[1], start |-> h[2]]
        BY <4>1 DEF KeyOf, sessionKey, Launcher
      <4> HIDE DEF g, h
      <4>5. sessions'[h] = g /\ \A k \in Key \ {h} : sessions'[k] = sessions[k]
        BY <1>1, <4>1, <4>2 DEF TypeOK
      <4>6. HeldGrants' = {[process |-> [pid |-> k[1], start |-> k[2]],
                            tool |-> sessions'[k].tool, class |-> sessions'[k].class] :
                           k \in {j \in Key : sessions'[j] # None}}
        BY DEF HeldGrants
      <4>7. [process |-> [pid |-> h[1], start |-> h[2]], tool |-> sessions'[h].tool,
             class |-> sessions'[h].class] = Promise!GrantOf(c)
        BY <4>3, <4>4, <4>5 DEF Promise!GrantOf
      <4>9. HeldGrants' = kept \cup {Promise!GrantOf(c)}
        <5>1. \A x \in HeldGrants' : x \in kept \/ x = Promise!GrantOf(c)
          BY <4>5, <4>6, <4>7
        <5>2. \A x \in kept : x \in HeldGrants'
          BY <4>5, <4>6
        <5>3. Promise!GrantOf(c) \in HeldGrants'
          BY <4>1, <4>3, <4>5, <4>6, <4>7
        <5>4. QED
          BY <5>1, <5>2, <5>3
      <4>10. kept \in SUBSET HeldGrants
        BY DEF HeldGrants
      <4>11. QED
        BY <3>2, <4>9, <4>10
    <3>3. QED
      BY <3>1, <3>2
  <2>3. Promise!GrantSession(c)
    BY <1>2, <1>3, <1>7, <2>1, <2>2 DEF Promise!GrantSession, Promise!Undecided, Outcome, Given
  <2>4. QED
    BY <2>3 DEF Promise!Next
<1>8. QED
  BY <1>1, <1>5, <1>6, <1>7 DEF ProgressInv

LEMMA CheckKeeps ==
    ASSUME PInv, NEW c \in Call, CheckSessionGrant(c)
    PROVE  [Promise!Next]_(Promise!pvars)
<1> USE DEF requestVars, gateVars
<1>1. TypeOK /\ launcher[c] \in Launcher /\ pc[c] = "check"
  BY DEF PInv, IInv, DecisionInv, TypeOK, CheckSessionGrant
<1>2. UNCHANGED <<command, launcher, press, Given>>
  BY DEF CheckSessionGrant, Given
<1>3. KeyOf(launcher[c]) \in Key
        /\ launcher[c] = [pid |-> KeyOf(launcher[c])[1], start |-> KeyOf(launcher[c])[2]]
  BY <1>1, KeyOfType DEF KeyOf, sessionKey, Launcher
<1>4. CASE Matches(c) /\ Usable(c)
  <2>1. HeldGrants' = HeldGrants
    <3>1. sessions' = [sessions EXCEPT ![KeyOf(launcher[c])] = Renewed(@, FALSE)]
            /\ sessions[KeyOf(launcher[c])] # None
      BY <1>4 DEF CheckSessionGrant, Matches
    <3>2. Renewed(sessions[KeyOf(launcher[c])], FALSE) # None
      BY <1>1, <1>3, <3>1, GrantIsThere DEF Renewed, TypeOK, Grant
    <3>3. \A k \in Key : /\ sessions'[k] # None <=> sessions[k] # None
                         /\ sessions[k] # None => /\ sessions'[k].tool = sessions[k].tool
                                                 /\ sessions'[k].class = sessions[k].class
      BY <1>1, <1>3, <3>1, <3>2 DEF Renewed, TypeOK
    <3>4. QED
      BY <3>3 DEF HeldGrants
  <2>2. /\ Outcome[c] = "none"
        /\ Outcome' = [d \in Call |-> IF d = c THEN "session-allow" ELSE Outcome[d]]
    BY <1>1, <1>4 DEF CheckSessionGrant, Outcome, TypeOK
  <2>3. Outcome' = [Outcome EXCEPT ![c] = "session-allow"]
    BY <2>2, OnePlace DEF Outcome
  <2>4. \E g \in HeldGrants : /\ g.process = launcher[c]
                              /\ g.tool = command[c].tool
                              /\ classCoveredBy(command[c].class, g.class)
    BY <1>3, <1>4, HeldGrant DEF Matches
  <2>5. Promise!UseSession(c)
    BY <1>2, <2>1, <2>2, <2>3, <2>4 DEF Promise!UseSession, Promise!Undecided,
                                       Promise!classCoveredBy, classCoveredBy,
                                       Promise!classRank, classRank, Outcome, Given
  <2>6. QED
    BY <2>5 DEF Promise!Next
<1>5. CASE Matches(c) /\ ~Usable(c)
  <2>1. sessions' = [sessions EXCEPT ![KeyOf(launcher[c])] = None]
    BY <1>5 DEF CheckSessionGrant
  <2>2. HeldGrants' \in SUBSET HeldGrants
    BY <1>1, <2>1, FewerGrants DEF TypeOK
  <2>3. Outcome' = [d \in Call |-> Outcome[d]]
    BY <1>1, <1>5 DEF CheckSessionGrant, Outcome, TypeOK
  <2>4. Promise!Fail({})
    BY <1>2, <2>2, <2>3 DEF Promise!Fail, Promise!Failure, Outcome, Given
  <2>5. QED
    BY <2>4 DEF Promise!Next
<1>6. CASE ~Matches(c)
  BY <1>1, <1>2, <1>6, Unseen DEF CheckSessionGrant, TypeOK
<1>7. QED
  BY <1>4, <1>5, <1>6

LEMMA GoroutineKeeps ==
    ASSUME PInv, NEW c \in Call, Goroutine(c)
    PROVE  [Promise!Next]_(Promise!pvars)
<1> USE DEF requestVars, gateVars
<1>1. TypeOK /\ ProgressInv(c)
  BY DEF PInv, IInv
<1>2. CASE Resolve(c)
  <2>1. PICK l \in ResolveLauncher(c) :
           /\ launcher' = [launcher EXCEPT ![c] = l]
           /\ pc' = [pc EXCEPT ![c] = IF l = None THEN "open" ELSE "check"]
    BY <1>2 DEF Resolve
  <2>2. /\ l \in Launcher \cup {None} /\ launcher[c] = None /\ pc[c] = "resolve"
        /\ UNCHANGED <<command, press, sessions, decision>>
    BY <1>1, <1>2, <2>1 DEF Resolve, ResolveLauncher, TypeOK, ProgressInv
  <2>3. CASE l = None
    <3>1. launcher' = launcher
      BY <1>1, <2>1, <2>2, <2>3 DEF TypeOK
    <3>2. QED
      BY <1>1, <2>1, <2>2, <3>1, Unseen DEF TypeOK
  <2>4. CASE l \in Launcher
    <3>1. Outcome[c] = "none" /\ UNCHANGED <<Outcome, Given, HeldGrants>>
      BY <1>1, <2>1, <2>2 DEF Outcome, Given, HeldGrants, TypeOK
    <3>2. Promise!Account(c, l)
      BY <2>1, <2>2, <3>1 DEF Promise!Account, Promise!Undecided, Outcome, Given
    <3>3. QED
      BY <2>4, <3>2 DEF Promise!Next
  <2>5. QED
    BY <2>2, <2>3, <2>4
<1>3. CASE CannotShow(c)
  <2>1. /\ Outcome[c] = "none" /\ UNCHANGED <<command, launcher, Given, HeldGrants>>
        /\ Outcome' = [d \in Call |-> IF d \in {c} THEN "unavailable" ELSE Outcome[d]]
    BY <1>1, <1>3 DEF CannotShow, Outcome, Given, HeldGrants, TypeOK
  <2>2. Promise!Fail({c})
    BY <2>1 DEF Promise!Fail, Promise!Undecided, Promise!Failure, Outcome, Given
  <2>3. QED
    BY <2>2 DEF Promise!Next
<1>4. CASE Show(c)
  BY <1>1, <1>4, Unseen DEF Show, TypeOK
<1>5. CASE TakeAnswer(c) \/ WindowGone(c) \/ Timeout(c)
  <2>1. PICK v : Leave(c, v)
    BY <1>5 DEF TakeAnswer, WindowGone, Timeout
  <2>2. UNCHANGED <<command, launcher, Given, HeldGrants>>
    BY <2>1 DEF Leave, Given, HeldGrants
  <2>3. Outcome' = Outcome
    BY <1>1, <2>1 DEF Leave, Outcome, TypeOK
  <2>4. QED
    BY <2>2, <2>3, SeenAs
<1>6. QED
  BY <1>2, <1>3, <1>4, <1>5, CheckKeeps, ReturnKeeps DEF Goroutine

LEMMA WindowKeeps ==
    ASSUME PInv, NEW c \in Call, Window(c)
    PROVE  [Promise!Next]_(Promise!pvars)
<1> USE DEF requestVars, callVars
<1>1. TypeOK
  BY DEF PInv, IInv
<1>2. ASSUME NEW n \in 1..MaxPress, LookUp(c, n) \/ Submit(c, n)
      PROVE  UNCHANGED Promise!pvars
  <2>1. UNCHANGED <<command, launcher, Outcome, HeldGrants>>
    BY <1>2 DEF LookUp, Submit, Outcome, HeldGrants
  <2>2. \A d \in Call, m \in 1..MaxPress : press'[d][m].answer = press[d][m].answer
    <3>1. \E s \in PressState : Mark(c, n, s)
      BY <1>2 DEF LookUp, Submit, PressState
    <3>2. QED
      BY <1>1, <3>1 DEF Mark, Marked, TypeOK, Press
  <2>3. Given' = Given
    BY <2>2 DEF Given
  <2>4. QED
    BY <2>1, <2>3, SeenAs
<1>3. ASSUME NEW n \in 1..MaxPress, NEW a \in Answer, Answers(c, n, a)
      PROVE  Promise!Next
  <2>1. UNCHANGED <<command, launcher, Outcome, HeldGrants>>
    BY <1>3 DEF Answers, Outcome, HeldGrants
  <2>2. press[c][n].answer = "none"
    BY <1>3 DEF Answers, PInv, IInv, AnswerInv
  <2>3. /\ press'[c][n].answer = a
        /\ \A m \in 1..MaxPress \ {n} : press'[c][m] = press[c][m]
        /\ \A d \in Call \ {c} : press'[d] = press[d]
    BY <1>1, <1>3 DEF Answers, TypeOK
  <2>4. Given'[c] = Given[c] \cup {a}
    BY <2>2, <2>3 DEF Given, Answer
  <2>5. Given' = [Given EXCEPT ![c] = @ \cup {a}]
    <3>1. Given' = [d \in Call |-> IF d = c THEN Given[c] \cup {a} ELSE Given[d]]
      BY <2>3, <2>4 DEF Given
    <3>2. QED
      BY <3>1, OnePlace DEF Given
  <2>6. Promise!Give(c, a)
    BY <2>1, <2>5 DEF Promise!Give, Outcome, Given
  <2>7. QED
    BY <2>6 DEF Promise!Next, Promise!Answer, Answer
<1>4. CASE CloseWindow(c)
  BY <1>1, <1>4, Unseen DEF CloseWindow
<1>5. QED
  BY <1>2, <1>3, <1>4 DEF Window

LEMMA CrashKeeps == ASSUME PInv, Crash PROVE Promise!Next
<1>0. PICK S \in SUBSET Call : S = {c \in Call : InFlight(c)}
  OBVIOUS
<1>1. TypeOK
  BY DEF PInv, IInv
<1>2. \A c \in S : Outcome[c] = "none"
  BY <1>0 DEF InFlight, Outcome
<1>3. Outcome' = [c \in Call |-> IF c \in S THEN "no-reply" ELSE Outcome[c]]
  BY <1>0, <1>1 DEF Crash, InFlight, Outcome, TypeOK
<1>4. HeldGrants' \in SUBSET HeldGrants
  <2>1. \A k \in Key : sessions'[k] = None
    BY DEF Crash, NoSessions
  <2>2. QED
    BY <2>1, FewerGrants
<1>5. UNCHANGED <<command, launcher, Given>>
  <2>1. \A d \in Call, m \in 1..MaxPress : press'[d][m].answer = press[d][m].answer
    BY DEF Crash, Marked
  <2>2. QED
    BY <2>1 DEF Crash, Given, requestVars
<1>6. Promise!Fail(S)
  BY <1>2, <1>3, <1>4, <1>5 DEF Promise!Fail, Promise!Undecided, Promise!Failure, Outcome, Given
<1>7. QED
  BY <1>6 DEF Promise!Next

LEMMA StepKeeps == PInv /\ [Next]_gvars => [Promise!Next]_(Promise!pvars)
<1> SUFFICES ASSUME PInv, [Next]_gvars PROVE [Promise!Next]_(Promise!pvars)
  OBVIOUS
<1> USE DEF requestVars, callVars, gateVars
<1>1. TypeOK
  BY DEF PInv, IInv
<1>2. ASSUME NEW c \in Call, Request(c) PROVE UNCHANGED Promise!pvars
  BY <1>1, <1>2, Unseen DEF Request, RequestGate, TypeOK
<1>3. ASSUME NEW c \in Call, NEW l \in Launcher, Invoke(c, l) PROVE UNCHANGED Promise!pvars
  BY <1>1, <1>3, Unseen DEF Invoke
<1>4. ASSUME NEW k \in Key, GoIdle(k) PROVE UNCHANGED Promise!pvars
  <2>1. Renewed(sessions[k], TRUE) # None
    BY <1>1, <1>4, GrantIsThere DEF GoIdle, Renewed, TypeOK, Grant
  <2>2. \A j \in Key : /\ sessions'[j] # None <=> sessions[j] # None
                       /\ sessions[j] # None => /\ sessions'[j].tool = sessions[j].tool
                                               /\ sessions'[j].class = sessions[j].class
    BY <1>1, <1>4, <2>1 DEF GoIdle, Renewed, TypeOK
  <2>3. HeldGrants' = HeldGrants
    BY <2>2 DEF HeldGrants
  <2>4. UNCHANGED <<command, launcher, Given, Outcome>>
    BY <1>4 DEF GoIdle, Given, Outcome
  <2>5. QED
    BY <2>3, <2>4, SeenAs
<1>5. CASE World
  <2>1. ASSUME NEW i \in Pid, Exit(i) \/ Fork(i) PROVE UNCHANGED Promise!pvars
    BY <1>1, <2>1, Unseen DEF Exit, Fork
  <2>2. ASSUME NEW c \in Call, Orphan(c) PROVE UNCHANGED Promise!pvars
    BY <1>1, <2>2, Unseen DEF Orphan
  <2>3. ASSUME NEW i \in Pid, NEW l \in Launcher, NEW S \in SUBSET Call, Become(i, l, S)
        PROVE  UNCHANGED Promise!pvars
    BY <1>1, <2>3, Unseen DEF Become
  <2>4. QED
    BY <1>4, <1>5, <2>1, <2>2, <2>3 DEF World
<1>6. CASE Start \/ UNCHANGED gvars
  BY <1>1, <1>6, Unseen DEF Start, gvars
<1>7. QED
  BY <1>2, <1>3, <1>5, <1>6, CrashKeeps, GoroutineKeeps, WindowKeeps DEF Next, Agent

\* The gate implements its promise: each request gets one outcome, which is an
\* answer its own window was given, a grant its launcher process holds, or a
\* failure; and grants come only from "Allow for Session". (RequestGate)
THEOREM GateKeepsPromise == Spec => KeepsPromise
<1>1. Init => Promise!Init
  BY DEF Init, Promise!Init, NoSessions, HeldGrants
<1>2. QED
  BY <1>1, StepKeeps, ProgressInvariance, PTL DEF Spec, KeepsPromise, Promise!Spec
=============================================================================
