----------------------------- MODULE AgentLink ------------------------------
(***************************************************************************)
(* Messages between one client process (Client.main and the callers of     *)
(* Client.sendMessage) and the server that answers them: the write tasks   *)
(* of the client's event loop, the frames on their way in each direction,  *)
(* the two pipelines and their limits, and what happens to all of that     *)
(* when the connection cannot be made or ends.                             *)
(*                                                                         *)
(* A message is its number and the size of its payload, the msgpack bytes  *)
(* between the length prefix and the next frame.  The operating system's   *)
(* streams are external.                                                   *)
(***************************************************************************)
EXTENDS Naturals, Sequences

CONSTANTS
  Size,             \* payload sizes of the messages that callers send
  MaxMessages       \* bound: how many messages are sent

ASSUME LinkAssumption == Size \subseteq Nat /\ MaxMessages \in Nat

\* LengthFieldPrepender(2) fails on payloads that two bytes cannot count.
MaxPrepended == 65535

\* LengthFieldBasedFrameDecoder(65535, 0, 2, 0, 2) counts the prefix as well.
MaxDecoded == 65533

\* The bytes that the answer's prefix adds to the body.  (The length field of
\* short bodies may grow by one or two bytes, far from any limit.)
AnswerPrefix == 7

VARIABLES
  conn,             \* "connecting", "refused", "open" or "closed", for the client
  channel,          \* whether the field Client.channel is set
  main,             \* "sleeping", "reading", or "dead" after a null channel
  seen,             \* whether the main thread has seen the field set
  server,           \* "up" or "gone"
  sent,             \* how many messages were given to writeAndFlush
  tasks,            \* the write tasks of the client's event loop
  requests,         \* the frames on their way to the server
  answers,          \* the frames on their way to the client
  last              \* the message whose answer was received last, or 0

clientVars == <<conn, channel, main, seen>>
vars == <<clientVars, server, sent, tasks, requests, answers, last>>

Message == [id : 1 .. MaxMessages, size : Nat]

TypeOK ==
  /\ conn \in {"connecting", "refused", "open", "closed"}
  /\ channel \in BOOLEAN
  /\ main \in {"sleeping", "reading", "dead"}
  /\ seen \in BOOLEAN
  /\ server \in {"up", "gone"}
  /\ sent \in 0 .. MaxMessages
  /\ tasks \in Seq(Message) /\ requests \in Seq(Message) /\ answers \in Seq(Message)
  /\ last \in 0 .. MaxMessages

Init ==
  /\ conn = "connecting"
  /\ channel = FALSE
  /\ main = "sleeping"
  /\ seen = FALSE
  /\ server = "up"
  /\ sent = 0
  /\ tasks = <<>> /\ requests = <<>> /\ answers = <<>>
  /\ last = 0

-----------------------------------------------------------------------------
ConnectSucceeds ==
  /\ conn = "connecting" /\ server = "up"
  /\ conn' = "open"
  /\ UNCHANGED <<channel, main, seen, server, sent, tasks, requests, answers, last>>

\* Refused, or not answered within 3 s.
ConnectFails ==
  /\ conn = "connecting"
  /\ conn' = "refused"
  /\ UNCHANGED <<channel, main, seen, server, sent, tasks, requests, answers, last>>

\* The listener on the connect runs some time after the connect.
SetChannel ==
  /\ conn \in {"open", "closed"} /\ ~channel
  /\ channel' = TRUE
  /\ UNCHANGED <<conn, main, seen, server, sent, tasks, requests, answers, last>>

\* The main thread has slept for a second; the connect may take three.
WakeUp ==
  /\ main = "sleeping"
  /\ main' = "reading"
  /\ UNCHANGED <<conn, channel, seen, server, sent, tasks, requests, answers, last>>

\* writeAndFlush from outside the event loop leaves a task there; the future it
\* returns is dropped.
Write(z) ==
  /\ sent < MaxMessages
  /\ sent' = sent + 1
  /\ tasks' = Append(tasks, [id |-> sent + 1, size |-> z])
  /\ UNCHANGED <<server, requests, answers, last>>

\* A line is read and sent.
MainSends(z) ==
  /\ main = "reading" /\ channel
  /\ seen' = TRUE
  /\ Write(z)
  /\ UNCHANGED <<conn, channel, main>>

\* A line is read while the field is null, or seen as null: the field is not
\* volatile.  The exception ends the thread.
MainFails ==
  /\ main = "reading" /\ ~seen
  /\ main' = "dead"
  /\ UNCHANGED <<conn, channel, seen, server, sent, tasks, requests, answers, last>>

\* Another caller hands the field's channel to sendMessage, which is content with
\* any channel but null.
SendMessage(z) ==
  /\ channel
  /\ Write(z)
  /\ UNCHANGED clientVars

\* Faulty variant: the loop takes the newest task first.
RunTaskNewestFirst ==
  /\ tasks # <<>>
  /\ tasks' = SubSeq(tasks, 1, Len(tasks) - 1)
  /\ requests' = IF conn = "open" /\ server = "up"
                    /\ tasks[Len(tasks)].size <= MaxPrepended
                 THEN Append(requests, tasks[Len(tasks)]) ELSE requests
  /\ UNCHANGED <<clientVars, server, sent, answers, last>>

\* The loop encodes and writes the oldest message, or fails the future that
\* nobody has kept.
RunTask ==
  /\ tasks # <<>>
  /\ tasks' = Tail(tasks)
  /\ requests' = IF conn = "open" /\ server = "up" /\ Head(tasks).size <= MaxPrepended
                 THEN Append(requests, Head(tasks)) ELSE requests
  /\ UNCHANGED <<clientVars, server, sent, answers, last>>

-----------------------------------------------------------------------------
\* The server reads a frame.  One that is too long is skipped, and the exception
\* is dropped; any other is answered, if the answer can be encoded.
Serve ==
  /\ server = "up" /\ requests # <<>>
  /\ requests' = Tail(requests)
  /\ LET size == Head(requests).size + AnswerPrefix
     IN  answers' = IF Head(requests).size <= MaxDecoded /\ size <= MaxPrepended
                    THEN Append(answers, [id |-> Head(requests).id, size |-> size])
                    ELSE answers
  /\ UNCHANGED <<clientVars, server, sent, tasks, last>>

\* The server's process ends, and with it what it has not read; what it has
\* written may be lost as well, from some frame on.
ServerExit ==
  /\ server = "up"
  /\ server' = "gone"
  /\ requests' = <<>>
  /\ \E n \in 0 .. Len(answers) : answers' = SubSeq(answers, 1, n)
  /\ UNCHANGED <<clientVars, sent, tasks, last>>

\* Faulty variant: an answer is received and left to be received again.
ReceiveKeeps ==
  /\ conn = "open" /\ answers # <<>>
  /\ UNCHANGED answers
  /\ last' = IF Head(answers).size <= MaxDecoded THEN Head(answers).id ELSE last
  /\ UNCHANGED <<clientVars, server, sent, tasks, requests>>

\* Faulty variant: the decoder stops at a frame that is too long.
ReceiveStops ==
  /\ conn = "open" /\ answers # <<>>
  /\ Head(answers).size <= MaxDecoded
  /\ answers' = Tail(answers)
  /\ last' = Head(answers).id
  /\ UNCHANGED <<clientVars, server, sent, tasks, requests>>

\* The client reads a frame, or skips one that is too long.
Receive ==
  /\ conn = "open" /\ answers # <<>>
  /\ answers' = Tail(answers)
  /\ last' = IF Head(answers).size <= MaxDecoded THEN Head(answers).id ELSE last
  /\ UNCHANGED <<clientVars, server, sent, tasks, requests>>

\* The client reads the end of the stream.
Closed ==
  /\ conn = "open" /\ server = "gone" /\ answers = <<>>
  /\ conn' = "closed"
  /\ UNCHANGED <<channel, main, seen, server, sent, tasks, requests, answers, last>>

ClientNext ==
  \/ ConnectSucceeds
  \/ ConnectFails
  \/ SetChannel
  \/ WakeUp
  \/ \E z \in Size : MainSends(z) \/ SendMessage(z)
  \/ MainFails
  \/ RunTask
  \/ Receive
  \/ Closed

Next == ClientNext \/ Serve \/ ServerExit

\* The event loops at both ends run.  Nobody has to send, and the server may stay.
Fairness == WF_vars(RunTask) /\ WF_vars(Serve) /\ WF_vars(Receive) /\ WF_vars(Closed)

SafetySpec == Init /\ [][Next]_vars
Spec == SafetySpec /\ Fairness

-----------------------------------------------------------------------------
\* Property (refinement).  Answers come in order, once at most, and only to what
\* was sent, although requests and answers are lost on the way at five places.
Echo == INSTANCE EchoService WITH over <- conn = "closed"
ImplementsEcho == Echo!Spec

\* The messages that are on their way, nearest to their answer first.
OnTheWay == answers \o requests \o tasks

\* Property (safety).  Nothing that is on its way overtakes: what is nearer to its
\* answer was sent earlier, and nothing answered is still on its way.
InOrder ==
  /\ \A i \in 1 .. Len(OnTheWay) : last < OnTheWay[i].id /\ OnTheWay[i].id <= sent
  /\ \A i, j \in 1 .. Len(OnTheWay) : i < j => OnTheWay[i].id < OnTheWay[j].id

\* Property (liveness).  A message that is small enough for its answer to be read
\* by the client, and that was not written in vain, is answered unless the
\* server ends; messages that are too large before or behind it do no harm.
Fits(n) ==
  \E i \in 1 .. Len(requests \o tasks) :
    /\ (requests \o tasks)[i].id = n
    /\ (requests \o tasks)[i].size + AnswerPrefix <= MaxDecoded

FittingIsAnswered ==
  \A n \in 1 .. MaxMessages :
    conn = "open" /\ server = "up" /\ Fits(n) ~> last = n \/ server = "gone"
=============================================================================
