-------------------------- MODULE WebSocketClient ---------------------------
(***************************************************************************)
(* The page's connection to the starter: the component WebSocket.vue with  *)
(* its two timers, its counter of failures and the sockets it has opened.  *)
(* The callbacks given to a socket stay with it when the component opens   *)
(* another one or is destroyed.                                            *)
(*                                                                         *)
(* SockJS, webstomp and Vue are external: a socket that is still           *)
(* connecting throws when something is sent over it, which subscribing and *)
(* disconnecting do; a socket that is disconnected later loses its close   *)
(* callback; Vue catches what a hook throws and goes on destroying.        *)
(***************************************************************************)
EXTENDS Naturals

CONSTANTS
  Socket,           \* the sockets alive at one time; a closed one is used again
  NoSocket,         \* the stompClient of a component that has not connected
  limitCnt,         \* the prop of that name
  PromptClose       \* the close that follows an ERROR frame comes within a minute

ASSUME WebSocketAssumption ==
  NoSocket \notin Socket /\ limitCnt \in Nat /\ PromptClose \in BOOLEAN

VARIABLES
  isDelayConnect,   \* the prop of that name
  life,             \* of the component: "new", "mounted", "destroyed"
  socket,           \* socket[s]: where socket s is in its life
  stompClient,      \* the socket of the stomp client made last
  timer, delayTimer,  \* whether the timer is armed
  connectCnt,       \* failures since the last success
  connected,        \* the flag of that name
  attempts          \* history: connections begun since the connect callback last
                    \* came to its end; counts up to attemptBound

vars == <<isDelayConnect, life, socket, stompClient, timer, delayTimer,
          connectCnt, connected, attempts>>

\* "connecting": SockJS looks for a transport.  "open": CONNECT was sent.
\* "connected": CONNECTED was received.  "failed": ERROR was received.
SocketStates == {"connecting", "open", "connected", "failed", "closed"}

TypeOK ==
  /\ isDelayConnect \in BOOLEAN
  /\ life \in {"new", "mounted", "destroyed"}
  /\ socket \in [Socket -> SocketStates]
  /\ stompClient \in Socket \cup {NoSocket}
  /\ timer \in BOOLEAN /\ delayTimer \in BOOLEAN
  /\ connectCnt \in 0 .. limitCnt
  /\ connected \in BOOLEAN
  /\ attempts \in Nat

Init ==
  /\ isDelayConnect \in BOOLEAN
  /\ life = "new"
  /\ socket = [s \in Socket |-> "closed"]
  /\ stompClient = NoSocket
  /\ timer = FALSE /\ delayTimer = FALSE
  /\ connectCnt = 0
  /\ connected = FALSE
  /\ attempts = 0

-----------------------------------------------------------------------------
attemptBound == limitCnt + 2

\* A new socket and a new stomp client over it.
connection ==
  \E s \in Socket :
    /\ socket[s] = "closed"
    /\ socket' = [socket EXCEPT ![s] = "connecting"]
    /\ stompClient' = s
    /\ attempts' = IF attempts < attemptBound THEN attempts + 1 ELSE attempts

\* mounted: connect, if the browser has WebSockets.
Mount ==
  /\ life = "new"
  /\ life' = "mounted"
  /\ connection \/ UNCHANGED <<socket, stompClient, attempts>>
  /\ UNCHANGED <<isDelayConnect, timer, delayTimer, connectCnt, connected>>

\* Faulty variant: one attempt more.
ReconnectOnceMore(cnt) ==
  IF cnt <= limitCnt
  THEN timer' = TRUE /\ UNCHANGED delayTimer
  ELSE timer' = FALSE /\ delayTimer' = isDelayConnect

\* Faulty variant: giving up leaves the minute's timer armed.
ReconnectLeavesTimer(cnt) ==
  IF cnt < limitCnt
  THEN timer' = TRUE /\ UNCHANGED delayTimer
  ELSE delayTimer' = isDelayConnect /\ UNCHANGED timer

\* After cnt failures: in a minute, or in an hour, or never.  A timer that is
\* set again starts anew.
reconnect(cnt) ==
  IF cnt < limitCnt
  THEN timer' = TRUE /\ UNCHANGED delayTimer
  ELSE timer' = FALSE /\ delayTimer' = isDelayConnect

\* Faulty variant: the flag is not taken back.
errorCallbackKeepsFlag ==
  LET cnt == connectCnt + 1
  IN  /\ connectCnt' = IF cnt < limitCnt THEN cnt ELSE limitCnt
      /\ reconnect(cnt)
      /\ UNCHANGED connected

\* The error callback.  No one looks at how far connectCnt is past limitCnt.
errorCallback ==
  LET cnt == connectCnt + 1
  IN  /\ connected' = FALSE
      /\ connectCnt' = IF cnt < limitCnt THEN cnt ELSE limitCnt
      /\ reconnect(cnt)

-----------------------------------------------------------------------------
Become(s, from, to) ==
  /\ socket[s] \in from
  /\ socket' = [socket EXCEPT ![s] = to]

\* SockJS has a transport; webstomp sends CONNECT.
Open(s) ==
  /\ Become(s, {"connecting"}, "open")
  /\ UNCHANGED <<isDelayConnect, life, stompClient, timer, delayTimer, connectCnt,
                 connected, attempts>>

\* CONNECTED: the connect callback subscribes, sets the flag and resets the counter.
\* It subscribes over the client made last, which need not be its own: while that one
\* is still connecting, subscribing throws, and the callback goes no further.
Connected(s) ==
  /\ Become(s, {"open"}, "connected")
  /\ IF socket[stompClient] = "connecting"
     THEN UNCHANGED <<connected, connectCnt, attempts>>
     ELSE connected' = TRUE /\ connectCnt' = 0 /\ attempts' = 0
  /\ UNCHANGED <<isDelayConnect, life, stompClient, timer, delayTimer>>

\* ERROR: the broker refuses the connection or a message, and will close it.
Error(s) ==
  /\ Become(s, {"open", "connected"}, "failed")
  /\ errorCallback
  /\ UNCHANGED <<isDelayConnect, life, stompClient, attempts>>

\* The socket is closed, or could not be opened: the callback is called again
\* after an ERROR.
Close(s) ==
  /\ Become(s, {"connecting", "open", "connected", "failed"}, "closed")
  /\ errorCallback
  /\ UNCHANGED <<isDelayConnect, life, stompClient, attempts>>

\* What either timer does.
RetryUnlessConnected ==
  /\ PromptClose => \A s \in Socket : socket[s] # "failed"
  /\ IF connected THEN UNCHANGED <<socket, stompClient, attempts>> ELSE connection
  /\ UNCHANGED <<isDelayConnect, life, connectCnt, connected>>

TimerFires ==
  /\ timer
  /\ timer' = FALSE
  /\ RetryUnlessConnected
  /\ UNCHANGED delayTimer

DelayTimerFires ==
  /\ delayTimer
  /\ delayTimer' = FALSE
  /\ RetryUnlessConnected
  /\ UNCHANGED timer

\* Faulty variant: the timers are left to run.
DestroyKeepsTimers ==
  /\ life = "mounted"
  /\ life' = "destroyed"
  /\ IF stompClient \in Socket /\ socket[stompClient] = "connecting"
     THEN UNCHANGED <<socket, connectCnt>>
     ELSE /\ socket' = [s \in Socket |-> IF s = stompClient THEN "closed" ELSE socket[s]]
          /\ connectCnt' = 0
  /\ UNCHANGED <<isDelayConnect, stompClient, timer, delayTimer, connected, attempts>>

\* beforeDestroy: disconnect throws when the socket is still connecting, and the
\* rest of the hook is skipped.
Destroy ==
  /\ life = "mounted"
  /\ life' = "destroyed"
  /\ IF stompClient \in Socket /\ socket[stompClient] = "connecting"
     THEN UNCHANGED <<socket, timer, delayTimer, connectCnt>>
     ELSE /\ socket' = [s \in Socket |-> IF s = stompClient THEN "closed" ELSE socket[s]]
          /\ timer' = FALSE /\ delayTimer' = FALSE
          /\ connectCnt' = 0
  /\ UNCHANGED <<isDelayConnect, stompClient, connected, attempts>>

SocketNext(s) == Open(s) \/ Connected(s) \/ Error(s) \/ Close(s)

Next ==
  \/ Mount
  \/ Destroy
  \/ TimerFires
  \/ DelayTimerFires
  \/ \E s \in Socket : SocketNext(s)

\* An armed timer fires, and a socket that is connecting or has failed does not
\* stay so.  Nobody has to mount or to destroy the component.
Fairness ==
  /\ WF_vars(TimerFires)
  /\ WF_vars(DelayTimerFires)
  /\ \A s \in Socket : WF_vars(socket[s] = "failed" /\ Close(s))

SafetySpec == Init /\ [][Next]_vars
Spec == SafetySpec /\ Fairness

-----------------------------------------------------------------------------
\* The sockets that may still call back.
Live == {s \in Socket : socket[s] # "closed"}

Quiet == Live = {} /\ ~timer /\ ~delayTimer

\* Property (safety).  Without the hourly retry a mounted component begins at most
\* limitCnt connections in a row (one, if that is zero), although a failure may be
\* counted twice and callbacks of several sockets may interleave.
AttemptsAreLimited ==
  life = "mounted" /\ ~isDelayConnect => attempts <= IF limitCnt = 0 THEN 1 ELSE limitCnt

\* Property (safety).  When a close follows an ERROR promptly, one thing at most
\* is on its way: one socket, or one timer.
OneThingAtATime ==
  /\ \A s, t \in Live : s = t
  /\ ~(timer /\ delayTimer)
  /\ timer \/ delayTimer => \A s \in Live : socket[s] = "failed"

\* Property (safety).  A flag that is set is not a lie: some socket of the component is
\* connected, however late closes come and whichever socket called back last.  When a
\* close follows an ERROR promptly, the flag tells exactly whether the client that is
\* used to send is connected; a late close of an older socket takes it back although
\* the newer one lives.
SetFlagIsTrue == life = "mounted" /\ connected => \E s \in Socket : socket[s] = "connected"

FlagIsAccurate ==
  /\ SetFlagIsTrue
  /\ PromptClose /\ life = "mounted" =>
       (connected <=> stompClient \in Socket /\ socket[stompClient] = "connected")

\* Property (action).  A component that is destroyed while it is not connecting is
\* disconnected for good: nothing it has left behind connects again.
DestroyIsClean ==
  [][life' = "destroyed"
       /\ (IF life = "mounted" THEN \A s \in Socket : socket[s] # "connecting" ELSE Quiet)
     => Quiet']_vars

\* Property (liveness).  A connection that was lost is tried again, until the
\* limit is reached; with the hourly retry, always.
Lost == life = "mounted" /\ stompClient \in Socket /\ Live = {}
LossIsRetried ==
  Lost /\ (connectCnt < limitCnt \/ isDelayConnect) ~> Live # {} \/ life = "destroyed"

\* Claim of beforeDestroy ("when the page is left, disconnect and clear the
\* timers"), refuted: nothing of a destroyed component is left.
DestroyedIsQuiet == life = "destroyed" => Quiet
=============================================================================
