----------------------------- MODULE HeartBeat ------------------------------
(***************************************************************************)
(* The client's heartbeat on one connection: HeartBeatReqHandler, which    *)
(* starts a periodic task of the channel's event loop when the server      *)
(* accepts the client, and drops it after an error.  Reads, errors and the *)
(* task run on the one thread of the event loop; the server, which sends   *)
(* the answers, is external (nothing in the repository sends               *)
(* AUTH_CHANNEL_RES).                                                      *)
(***************************************************************************)
EXTENDS Naturals, Sequences

CONSTANTS
  Timer,            \* the tasks that the event loop may hold for this handler
  NoTimer,          \* the null reference
  MaxInbox          \* bound: messages that the server has sent ahead

HeartBeatAssumption == NoTimer \notin Timer /\ MaxInbox \in Nat

VARIABLES
  heartBeat,        \* the field: a timer, or NoTimer
  timer,            \* timer[t]: "idle" (not scheduled), "armed" or "failed"
  inbox,            \* the messages not yet read
  open,             \* whether the connection is open
  requested         \* whether a heartbeat request was ever sent

vars == <<heartBeat, timer, inbox, open, requested>>

\* AUTH_CHANNEL_RES, HEART_BEAT_RES, and everything that is passed on, messages
\* without a header among it.
Message == {"auth", "beat", "other"}

Armed == {t \in Timer : timer[t] = "armed"}

TypeOK ==
  /\ heartBeat \in Timer \cup {NoTimer}
  /\ timer \in [Timer -> {"idle", "armed", "failed"}]
  /\ inbox \in Seq(Message) /\ Len(inbox) <= MaxInbox
  /\ open \in BOOLEAN
  /\ requested \in BOOLEAN

Init ==
  /\ heartBeat = NoTimer
  /\ timer = [t \in Timer |-> "idle"]
  /\ inbox = <<>>
  /\ open = TRUE
  /\ requested = FALSE

-----------------------------------------------------------------------------
\* The server sends a message.
Send(m) ==
  /\ open /\ Len(inbox) < MaxInbox
  /\ inbox' = Append(inbox, m)
  /\ UNCHANGED <<heartBeat, timer, open, requested>>

\* Faulty variant: a flag is kept, not the task.
ScheduleFlag(t) ==
  /\ t # heartBeat /\ t \notin Armed
  /\ timer' = [timer EXCEPT ![t] = "armed"]
  /\ heartBeat' = TRUE

\* Schedules a task: one that is not scheduled, and that the field does not hold.
Schedule(t) ==
  /\ t # heartBeat /\ t \notin Armed
  /\ timer' = [timer EXCEPT ![t] = "armed"]
  /\ heartBeat' = t

\* Faulty variant: every acceptance starts a task.
AuthStartsAnother ==
  /\ Head(inbox) = "auth"
  /\ \E t \in Timer : Schedule(t)

\* The server accepts the client: the task is started unless the field holds one,
\* be it dead or alive.
Auth ==
  /\ Head(inbox) = "auth"
  /\ IF heartBeat = NoTimer THEN \E t \in Timer : Schedule(t)
                            ELSE UNCHANGED <<heartBeat, timer>>

\* Any other message is consumed here or by the next handler.
Pass ==
  /\ Head(inbox) # "auth"
  /\ UNCHANGED <<heartBeat, timer>>

channelRead ==
  /\ inbox # <<>>
  /\ Auth \/ Pass
  /\ inbox' = Tail(inbox)
  /\ UNCHANGED <<open, requested>>

\* A read has thrown in this handler (an error of the JVM: nothing in the handler
\* throws by itself).  A task that is held is cancelled and forgotten, and the handler
\* at the end of the pipeline, which the error is passed on to, closes the connection.
exceptionCaught ==
  /\ timer' = [t \in Timer |-> IF t = heartBeat THEN "idle" ELSE timer[t]]
  /\ heartBeat' = NoTimer
  /\ open' = FALSE
  /\ UNCHANGED <<inbox, requested>>

\* getProtocolMessage(type, status) returns what getProtocolMessage(type, status)
\* returns.
FactoryReturns == FALSE

\* The task runs, half a second after its start and then every five minutes, open
\* connection or not.  What it throws ends it without a notice, and the event
\* loop never runs it again.
Beat(t) ==
  /\ timer[t] = "armed"
  /\ IF FactoryReturns
     THEN requested' = TRUE /\ UNCHANGED timer
     ELSE timer' = [timer EXCEPT ![t] = "failed"] /\ UNCHANGED requested
  /\ UNCHANGED <<heartBeat, inbox, open>>

\* The connection ends; no handler is told of it, and what was sent before is read.
Close ==
  /\ open
  /\ open' = FALSE
  /\ UNCHANGED <<heartBeat, timer, inbox, requested>>

Next ==
  \/ \E m \in Message : Send(m)
  \/ channelRead
  \/ exceptionCaught
  \/ \E t \in Timer : Beat(t)
  \/ Close

\* The event loop runs what is due and reads what has arrived.
Fairness == WF_vars(channelRead) /\ \A t \in Timer : WF_vars(Beat(t))

SafetySpec == Init /\ [][Next]_vars
Spec == SafetySpec /\ Fairness

-----------------------------------------------------------------------------
\* Property (safety).  Repeated acceptances, errors and failed tasks in any order
\* leave no second task running, and none that an error could not cancel: a task
\* that runs is the one that the field holds.
RunningIsHeld == \A t \in Armed : heartBeat = t

\* Claim of the handler ("the heartbeat timer is started", "the client sends a
\* heartbeat request"), refuted: a task that was started sends a request, unless an
\* error cancels it or the connection ends.
HeartBeatIsSent ==
  \A t \in Timer : timer[t] = "armed" ~> requested \/ timer[t] = "idle" \/ ~open
=============================================================================
