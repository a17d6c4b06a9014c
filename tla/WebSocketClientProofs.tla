----------------------- MODULE WebSocketClientProofs ------------------------
(***************************************************************************)
(* Proofs about the page's connection, for any limit and any sockets.      *)
(*                                                                         *)
(* The limit on attempts holds however late sockets are closed: a minute's *)
(* timer is armed only while the failures counted cover the attempts made  *)
(* and are below the limit (Counting).  That one thing at a time is on its *)
(* way needs prompt closes: a timer is then armed only when no socket can  *)
(* connect any more (OneThingAtATime itself), so the socket a timer opens  *)
(* is alone (Prompt).  A flag that is set has a connected socket (Limited, *)
(* without any condition); that the flag is exact needs prompt closes.     *)
(***************************************************************************)
EXTENDS WebSocketClient, TLAPS

\* What the counter says while the component is mounted without hourly retry.
Counting ==
  /\ delayTimer => isDelayConnect
  /\ life = "new" => attempts = 0 /\ ~timer /\ ~delayTimer /\ Live = {} /\ ~connected
  /\ life = "mounted" /\ ~isDelayConnect =>
       /\ attempts <= connectCnt + 1
       /\ timer => attempts <= connectCnt /\ connectCnt < limitCnt

Limited == TypeOK /\ Counting /\ AttemptsAreLimited /\ SetFlagIsTrue

-----------------------------------------------------------------------------
LEMMA InitLimited == Init => Limited
<1> SUFFICES ASSUME Init PROVE Limited
  OBVIOUS
<1>1. timer \in BOOLEAN /\ delayTimer \in BOOLEAN /\ connected \in BOOLEAN
  BY Zenon DEF Init
<1>2. TypeOK
  BY <1>1, WebSocketAssumption DEF Init, TypeOK, SocketStates
<1>3. Counting
  BY DEF Init, Counting, Live
<1>4. AttemptsAreLimited /\ SetFlagIsTrue
  BY DEF Init, AttemptsAreLimited, SetFlagIsTrue
<1> QED
  BY <1>2, <1>3, <1>4 DEF Limited

\* What the error callback does to the timers and the counter.
LEMMA ErrorCallbackFacts ==
  ASSUME TypeOK, errorCallback
  PROVE  /\ ~connected' /\ connected' \in BOOLEAN
         /\ timer' \in BOOLEAN /\ delayTimer' \in BOOLEAN
         /\ connectCnt' \in 0 .. limitCnt /\ connectCnt <= connectCnt'
         /\ timer' => connectCnt' = connectCnt + 1 /\ connectCnt' < limitCnt
         /\ delayTimer' => delayTimer \/ isDelayConnect
         /\ timer' /\ delayTimer' => delayTimer /\ connectCnt < limitCnt
         /\ delayTimer' => connectCnt' = limitCnt \/ (delayTimer /\ connectCnt < limitCnt)
<1>1. CASE connectCnt + 1 < limitCnt
  <2>1. connectCnt' = connectCnt + 1 /\ UNCHANGED delayTimer
    BY <1>1 DEF errorCallback, reconnect
  <2>2. timer' = TRUE /\ connected' = FALSE
    BY <1>1, Zenon DEF errorCallback, reconnect
  <2>3. connectCnt' \in 0 .. limitCnt /\ connectCnt <= connectCnt' /\ connectCnt' < limitCnt
                     /\ connectCnt < limitCnt
    BY <1>1, <2>1, WebSocketAssumption DEF TypeOK
  <2> QED
    BY <2>1, <2>2, <2>3, Zenon DEF TypeOK
<1>2. CASE ~(connectCnt + 1 < limitCnt)
  <2>1. connectCnt' = limitCnt
    BY <1>2 DEF errorCallback
  <2>2. timer' = FALSE /\ connected' = FALSE /\ delayTimer' = isDelayConnect
    BY <1>2, Zenon DEF errorCallback, reconnect
  <2>3. connectCnt' \in 0 .. limitCnt /\ connectCnt <= connectCnt'
    BY <2>1, WebSocketAssumption DEF TypeOK
  <2> QED
    BY <2>1, <2>2, <2>3, Zenon DEF TypeOK
<1> QED
  BY <1>1, <1>2

LEMMA ConnectionFacts ==
  ASSUME TypeOK, connection
  PROVE  /\ socket' \in [Socket -> SocketStates]
         /\ stompClient' \in Socket
         /\ attempts' \in Nat /\ attempts' <= attempts + 1
         /\ \A s \in Socket : socket[s] = "connected" => socket'[s] = "connected"
  BY WebSocketAssumption DEF TypeOK, connection, SocketStates, attemptBound

LEMMA StepLimited == Limited /\ [Next]_vars => Limited'
<1> SUFFICES ASSUME Limited, [Next]_vars PROVE Limited'
  OBVIOUS
<1> USE WebSocketAssumption
<1>1. CASE UNCHANGED vars
  BY <1>1 DEF vars, Limited, TypeOK, Counting, Live, AttemptsAreLimited, SetFlagIsTrue
<1>2. CASE Mount
  <2>1. /\ socket' \in [Socket -> SocketStates]
        /\ stompClient' \in Socket \cup {NoSocket}
        /\ attempts' \in Nat /\ attempts' <= 1
    BY <1>2, ConnectionFacts DEF Mount, Limited, TypeOK, Counting
  <2>2. TypeOK'
    BY <1>2, <2>1 DEF Mount, Limited, TypeOK
  <2>3. Counting' /\ AttemptsAreLimited'
    BY <1>2, <2>1 DEF Mount, Limited, TypeOK, Counting, AttemptsAreLimited
  <2>4. SetFlagIsTrue'
    BY <1>2 DEF Mount, Limited, Counting, SetFlagIsTrue
  <2> QED
    BY <2>2, <2>3, <2>4 DEF Limited
<1>3. CASE Destroy
  <2>1. TypeOK'
    <3>1. timer' \in BOOLEAN /\ delayTimer' \in BOOLEAN
      BY <1>3, Zenon DEF Destroy, Limited, TypeOK
    <3>2. socket' \in [Socket -> SocketStates] /\ connectCnt' \in 0 .. limitCnt
      BY <1>3 DEF Destroy, Limited, TypeOK, SocketStates
    <3> QED
      BY <1>3, <3>1, <3>2 DEF Destroy, Limited, TypeOK
  <2>2. Counting' /\ AttemptsAreLimited'
    BY <1>3 DEF Destroy, Limited, TypeOK, Counting, AttemptsAreLimited
  <2>3. SetFlagIsTrue'
    BY <1>3 DEF Destroy, SetFlagIsTrue
  <2> QED
    BY <2>1, <2>2, <2>3 DEF Limited
<1>4. CASE TimerFires
  <2>1. /\ socket' \in [Socket -> SocketStates]
        /\ stompClient' \in Socket \cup {NoSocket}
        /\ attempts' \in Nat /\ attempts' <= attempts + 1
        /\ \A s \in Socket : socket[s] = "connected" => socket'[s] = "connected"
        /\ UNCHANGED <<isDelayConnect, life, connectCnt, connected, delayTimer>>
        /\ timer /\ timer' = FALSE
    BY <1>4, ConnectionFacts DEF TimerFires, RetryUnlessConnected, Limited, TypeOK
  <2>2. TypeOK'
    BY <2>1 DEF Limited, TypeOK
  <2>3. Counting' /\ AttemptsAreLimited'
    BY <2>1 DEF Limited, TypeOK, Counting, AttemptsAreLimited
  <2>4. SetFlagIsTrue'
    BY <2>1 DEF Limited, SetFlagIsTrue
  <2> QED
    BY <2>2, <2>3, <2>4 DEF Limited
<1>5. CASE DelayTimerFires
  <2>1. /\ socket' \in [Socket -> SocketStates]
        /\ stompClient' \in Socket \cup {NoSocket}
        /\ attempts' \in Nat
        /\ \A s \in Socket : socket[s] = "connected" => socket'[s] = "connected"
        /\ UNCHANGED <<isDelayConnect, life, connectCnt, connected, timer>>
        /\ delayTimer /\ delayTimer' = FALSE
    BY <1>5, ConnectionFacts DEF DelayTimerFires, RetryUnlessConnected, Limited, TypeOK
  <2>2. TypeOK'
    BY <2>1 DEF Limited, TypeOK
  <2>3. Counting' /\ AttemptsAreLimited'
    BY <2>1 DEF Limited, TypeOK, Counting, AttemptsAreLimited
  <2>4. SetFlagIsTrue'
    BY <2>1 DEF Limited, SetFlagIsTrue
  <2> QED
    BY <2>2, <2>3, <2>4 DEF Limited
<1>6. ASSUME NEW s \in Socket, Open(s)
      PROVE  Limited'
  <2>1. TypeOK'
    BY <1>6 DEF Open, Become, Limited, TypeOK, SocketStates
  <2>2. Counting' /\ AttemptsAreLimited'
    BY <1>6 DEF Open, Become, Limited, TypeOK, Counting, Live, AttemptsAreLimited
  <2>3. SetFlagIsTrue'
    BY <1>6 DEF Open, Become, Limited, TypeOK, SetFlagIsTrue
  <2> QED
    BY <2>1, <2>2, <2>3 DEF Limited
<1>7. ASSUME NEW s \in Socket, Connected(s)
      PROVE  Limited'
  <2>1. TypeOK'
    <3>1. /\ socket' \in [Socket -> SocketStates]
          /\ connectCnt' \in 0 .. limitCnt /\ attempts' \in Nat
      BY <1>7 DEF Connected, Become, Limited, TypeOK, SocketStates
    <3>2. connected' \in BOOLEAN /\ timer' \in BOOLEAN /\ delayTimer' \in BOOLEAN
      BY <1>7, Zenon DEF Connected, Limited, TypeOK
    <3> QED
      BY <1>7, <3>1, <3>2 DEF Connected, Limited, TypeOK
  <2>2. life # "new"
    BY <1>7 DEF Connected, Become, Limited, Counting, Live
  <2>3. Counting' /\ AttemptsAreLimited'
    BY <1>7, <2>2 DEF Connected, Limited, TypeOK, Counting, AttemptsAreLimited
  <2>4. SetFlagIsTrue'
    BY <1>7 DEF Connected, Become, Limited, TypeOK, SetFlagIsTrue
  <2> QED
    BY <2>1, <2>3, <2>4 DEF Limited
<1>8. ASSUME NEW s \in Socket, Error(s) \/ Close(s)
      PROVE  Limited'
  <2>1. /\ socket' \in [Socket -> SocketStates]
        /\ socket[s] # "closed"
        /\ errorCallback
        /\ UNCHANGED <<isDelayConnect, life, stompClient, attempts>>
    BY <1>8 DEF Error, Close, Become, Limited, TypeOK, SocketStates
  <2>2. TypeOK'
    BY <2>1, ErrorCallbackFacts DEF Limited, TypeOK
  <2>3. life # "new"
    BY <2>1 DEF Limited, Counting, Live
  <2>4. TypeOK /\ Counting /\ AttemptsAreLimited
    BY DEF Limited
  <2>5. Counting'
    BY <2>1, <2>3, <2>4, ErrorCallbackFacts DEF TypeOK, Counting
  <2>6. AttemptsAreLimited'
    BY <2>1, <2>4 DEF AttemptsAreLimited
  <2>7. SetFlagIsTrue'
    BY <2>1, <2>4, ErrorCallbackFacts DEF SetFlagIsTrue
  <2> QED
    BY <2>2, <2>5, <2>6, <2>7 DEF Limited
<1> QED
  BY <1>1, <1>2, <1>3, <1>4, <1>5, <1>6, <1>7, <1>8 DEF Next, SocketNext

THEOREM LimitedInvariance == SafetySpec => []Limited
  BY InitLimited, StepLimited, PTL DEF SafetySpec

\* Every variable of the component keeps its type.
THEOREM TypeCorrect == SafetySpec => []TypeOK
<1>1. Limited => TypeOK
  BY DEF Limited
<1> QED
  BY <1>1, LimitedInvariance, PTL

\* Whatever the limit and however late sockets are closed, no more than limitCnt
\* connections are begun in a row, of which none lets the connect callback come to its
\* end (reconnect and the connect callback in WebSocket.vue).
THEOREM AttemptsStayLimited == SafetySpec => []AttemptsAreLimited
<1>1. Limited => AttemptsAreLimited
  BY DEF Limited
<1> QED
  BY <1>1, LimitedInvariance, PTL

\* A flag connected that is set is never a lie, however late sockets are closed and in
\* whatever order their callbacks come (connect, its callbacks in WebSocket.vue).
THEOREM FlagIsTrue == SafetySpec => []SetFlagIsTrue
<1>1. Limited => SetFlagIsTrue
  BY DEF Limited
<1> QED
  BY <1>1, LimitedInvariance, PTL

-----------------------------------------------------------------------------
\* With prompt closes: what is live is the last client's socket, and an armed
\* timer means that no socket can connect.
Prompt ==
  /\ life = "new" => Quiet /\ stompClient = NoSocket /\ ~connected
  /\ \A s \in Live : s = stompClient
  /\ ~(timer /\ delayTimer)
  /\ timer \/ delayTimer => ~connected /\ \A s \in Live : socket[s] = "failed"
  /\ delayTimer => connectCnt = limitCnt
  /\ FlagIsAccurate
  /\ connected /\ life = "destroyed" /\ Live # {} => socket[stompClient] = "connected"

PromptInv == TypeOK /\ Prompt

LEMMA InitPrompt == Init => PromptInv
<1> SUFFICES ASSUME Init PROVE PromptInv
  OBVIOUS
<1>1. TypeOK
  BY InitLimited DEF Limited
<1>2. Prompt
  BY DEF Init, Prompt, Live, Quiet, FlagIsAccurate, SetFlagIsTrue
<1> QED
  BY <1>1, <1>2 DEF PromptInv

\* A timer that fires finds no live socket.
LEMMA TimerIsAlone ==
  ASSUME PromptClose, PromptInv, timer \/ delayTimer, RetryUnlessConnected
  PROVE  Live = {} /\ ~connected /\ connection
  BY DEF PromptInv, Prompt, RetryUnlessConnected, Live

\* A connection begun while no socket is live is alone.
LEMMA ConnectionIsAlone ==
  ASSUME TypeOK, Live = {}, connection
  PROVE  /\ stompClient' \in Socket /\ socket'[stompClient'] = "connecting"
         /\ \A s \in Socket : socket'[s] # "closed" => s = stompClient'
  BY DEF TypeOK, Live, connection

LEMMA StepPrompt ==
  ASSUME PromptClose
  PROVE  Limited /\ PromptInv /\ [Next]_vars => PromptInv'
<1> SUFFICES ASSUME Limited, PromptInv, [Next]_vars PROVE Prompt'
  BY StepLimited DEF Limited, PromptInv
<1>0. TypeOK /\ Prompt
  BY DEF PromptInv
<1>1. CASE UNCHANGED vars
  BY <1>0, <1>1 DEF vars, Prompt, Live, Quiet, FlagIsAccurate, SetFlagIsTrue
<1>2. CASE Mount
  <2>1. Quiet /\ stompClient = NoSocket /\ ~connected
    BY <1>0, <1>2 DEF Mount, Prompt
  <2>2. CASE connection
    BY <1>0, <1>2, <2>1, <2>2, ConnectionIsAlone, WebSocketAssumption
    DEF Mount, Prompt, Live, Quiet, FlagIsAccurate, SetFlagIsTrue
  <2>3. CASE UNCHANGED <<socket, stompClient, attempts>>
    BY <1>0, <1>2, <2>1, <2>3, WebSocketAssumption
    DEF Mount, Prompt, Live, Quiet, FlagIsAccurate, SetFlagIsTrue
  <2> QED
    BY <1>2, <2>2, <2>3 DEF Mount
<1>3. CASE Destroy
  <2>1. CASE stompClient \in Socket /\ socket[stompClient] = "connecting"
    BY <1>0, <1>3, <2>1 DEF Destroy, Prompt, Live, FlagIsAccurate, SetFlagIsTrue
  <2>2. CASE ~(stompClient \in Socket /\ socket[stompClient] = "connecting")
    <3>1. Quiet'
      BY <1>0, <1>3, <2>2 DEF Destroy, Prompt, Live, Quiet, TypeOK
    <3> QED
      BY <1>3, <3>1 DEF Destroy, Prompt, Quiet, FlagIsAccurate, SetFlagIsTrue
  <2> QED
    BY <2>1, <2>2
<1>4. CASE TimerFires \/ DelayTimerFires
  <2>1. (timer \/ delayTimer) /\ RetryUnlessConnected
    BY <1>4 DEF TimerFires, DelayTimerFires
  <2>2. Live = {} /\ ~connected /\ connection
    BY <2>1, TimerIsAlone
  <2>3. ~timer' /\ ~delayTimer'
    BY <1>0, <1>4 DEF TimerFires, DelayTimerFires, Prompt
  <2>4. life # "new" /\ UNCHANGED <<life, connected>>
    BY <1>0, <2>1 DEF Prompt, Quiet, RetryUnlessConnected
  <2> QED
    BY <1>0, <2>2, <2>3, <2>4, ConnectionIsAlone DEF Prompt, Live, FlagIsAccurate, SetFlagIsTrue
<1>5. ASSUME NEW s \in Socket, Open(s)
      PROVE  Prompt'
  <2>1. s \in Live /\ s = stompClient /\ ~timer /\ ~delayTimer /\ life # "new"
    BY <1>0, <1>5 DEF Open, Become, Prompt, Live, Quiet
  <2>2. ~connected
    BY <1>0, <1>5, <2>1 DEF Open, Become, Prompt, FlagIsAccurate, SetFlagIsTrue, TypeOK
  <2> QED
    BY <1>0, <1>5, <2>1, <2>2 DEF Open, Become, Prompt, Live, FlagIsAccurate, SetFlagIsTrue, TypeOK
<1>6. ASSUME NEW s \in Socket, Connected(s)
      PROVE  Prompt'
  <2>1. s \in Live /\ s = stompClient /\ ~timer /\ ~delayTimer /\ life # "new"
    BY <1>0, <1>6 DEF Connected, Become, Prompt, Live, Quiet
  <2>2. connected' /\ UNCHANGED <<life, stompClient, timer, delayTimer>>
    BY <1>6, <2>1 DEF Connected, Become
  <2>3. socket' = [socket EXCEPT ![s] = "connected"]
    BY <1>6 DEF Connected, Become
  <2> QED
    BY <1>0, <2>1, <2>2, <2>3 DEF Prompt, Live, FlagIsAccurate, SetFlagIsTrue, TypeOK
<1>7. ASSUME NEW s \in Socket, Error(s) \/ Close(s)
      PROVE  Prompt'
  <2>1. /\ socket[s] # "closed" /\ errorCallback
        /\ UNCHANGED <<isDelayConnect, life, stompClient>>
        /\ \/ socket' = [socket EXCEPT ![s] = "failed"]
           \/ socket' = [socket EXCEPT ![s] = "closed"]
    BY <1>7 DEF Error, Close, Become
  <2>2. s = stompClient /\ life # "new"
    BY <1>0, <2>1 DEF Prompt, Live, Quiet
  <2>3. \A u \in Socket : socket'[u] # "closed" => u = stompClient /\ socket'[u] = "failed"
    BY <1>0, <2>1, <2>2 DEF Prompt, Live, TypeOK
  <2>4. delayTimer => ~(connectCnt < limitCnt)
    BY <1>0, WebSocketAssumption DEF Prompt, TypeOK
  <2>5. ~connected' /\ ~(timer' /\ delayTimer') /\ (delayTimer' => connectCnt' = limitCnt)
    BY <1>0, <2>1, <2>4, ErrorCallbackFacts
  <2>6. ~(stompClient \in Socket /\ socket'[stompClient] = "connected")
    BY <2>3
  <2> QED
    BY <2>1, <2>2, <2>3, <2>5, <2>6 DEF Prompt, Live, FlagIsAccurate, SetFlagIsTrue
<1> QED
  BY <1>1, <1>2, <1>3, <1>4, <1>5, <1>6, <1>7 DEF Next, SocketNext

THEOREM PromptInvariance == ASSUME PromptClose PROVE SafetySpec => []PromptInv
<1>1. Limited /\ PromptInv /\ [Next]_vars => PromptInv'
  BY StepPrompt
<1> QED
  BY <1>1, InitPrompt, LimitedInvariance, PTL DEF SafetySpec

\* When sockets are closed promptly after an error, the component never has two
\* connections or timers on their way (connection, reconnect in WebSocket.vue).
THEOREM OneThing == ASSUME PromptClose PROVE SafetySpec => []OneThingAtATime
<1>1. PromptInv => OneThingAtATime
  BY DEF PromptInv, Prompt, OneThingAtATime
<1> QED
  BY <1>1, PromptInvariance, PTL

\* Under the same condition the flag connected of a mounted component is right.
THEOREM Flag == ASSUME PromptClose PROVE SafetySpec => []FlagIsAccurate
<1>1. PromptInv => FlagIsAccurate
  BY DEF PromptInv, Prompt
<1> QED
  BY <1>1, PromptInvariance, PTL

\* Under the same condition a component destroyed while it is not connecting
\* leaves nothing that connects again (beforeDestroy in WebSocket.vue).
THEOREM CleanDestroy == ASSUME PromptClose PROVE SafetySpec => DestroyIsClean
<1> DEFINE Clean == IF life = "mounted" THEN \A s \in Socket : socket[s] # "connecting"
                    ELSE Quiet
<1>1. ASSUME PromptInv, [Next]_vars, life' = "destroyed", Clean
      PROVE  Quiet'
  <2>1. CASE life = "mounted"
    <3>1. Destroy
      BY <1>1, <2>1 DEF Next, SocketNext, vars, Mount, TimerFires, DelayTimerFires,
        RetryUnlessConnected, Open, Connected, Error, Close
    <3> QED
      BY <1>1, <2>1, <3>1 DEF Destroy, PromptInv, Prompt, TypeOK, Live, Quiet
  <2>2. CASE life # "mounted"
    <3>1. Quiet
      BY <1>1, <2>2
    <3>2. UNCHANGED vars
      BY <1>1, <2>2, <3>1 DEF Next, SocketNext, Mount, Destroy, TimerFires,
        DelayTimerFires, Open, Connected, Error, Close, Become, Live, Quiet
    <3> QED
      BY <3>1, <3>2 DEF vars, Quiet, Live
  <2> QED
    BY <2>1, <2>2
<1>2. PromptInv /\ [Next]_vars => [life' = "destroyed" /\ Clean => Quiet']_vars
  BY <1>1
<1> QED
  BY <1>2, PromptInvariance, PTL DEF SafetySpec, DestroyIsClean
=============================================================================
