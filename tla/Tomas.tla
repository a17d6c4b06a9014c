------------------------------- MODULE Tomas --------------------------------
(***************************************************************************)
(* The whole system: the starter process (web front end and TCP server),   *)
(* the JVMs on the same host with the agent in them, and the one           *)
(* connection that each agent opens to the server.                         *)
(*                                                                         *)
(* An /attach request loads the agent into a JVM and waits until the       *)
(* agent's entry point has returned (IndexController.attachJvm,            *)
(* AttachVirtualMachine.attachJvm); a JVM may also be started with the     *)
(* agent.  The boot itself is BootOnce, which TomasAgentBoot.tla is shown  *)
(* to implement; what follows is Client.connect, once, on a thread of its  *)
(* own.  The server side is NettyServer.tla.  Both processes can end at    *)
(* any point.                                                              *)
(*                                                                         *)
(* Left out: the messages on a connection, and NettyServer.stop, which     *)
(* nothing in the repository calls.                                        *)
(***************************************************************************)
EXTENDS SessionMap

CONSTANTS
  Jvm,              \* the JVMs on the host of the starter
  NoJvm,            \* the peer of a channel whose JVM has gone
  NoChannel         \* the channel of a client that has none

ASSUME JvmAssumption == NoJvm \notin Jvm /\ NoChannel \notin Channel

VARIABLES
  starter,          \* "down", "up" (requests are served), "serving" (and the
                    \* thread that runs NettyServer.start was started)
  listening, groups, chan, closeRequested,   \* NettyServer
  phase,            \* the boot of each JVM, as in BootOnce
  conn,             \* conn[j]: the connecting thread of j's agent
  channel,          \* channel[j]: the field Client.channel
  peer,             \* peer[c]: the JVM at the other end of channel c
  request           \* request[j]: the /attach request for j being served

serverVars == <<listening, groups, chan, channelSessionCache, closeRequested>>
agentVars == <<conn, channel, peer>>
vars == <<starter, serverVars, phase, agentVars, request>>

Server == INSTANCE NettyServer
Boot == INSTANCE BootOnce

\* "none": no connecting thread yet; "connecting"; "up": waiting for the channel
\* to close; "lost": the channel was closed and the thread has returned;
\* "refused": the connect failed and the thread has died.
ConnStates == {"none", "connecting", "up", "lost", "refused"}

\* "attaching": before loadAgent; "loading": in loadAgent; "failing": the JVM
\* has gone in the meantime; "ok": answered.  One request per JVM at a time:
\* TomasAgentBoot.tla has the concurrent ones.
Unanswered == {"attaching", "loading", "failing"}
RequestStates == {"idle", "ok"} \cup Unanswered

TypeOK ==
  /\ starter \in {"down", "up", "serving"}
  /\ Server!TypeOK
  /\ Boot!TypeOK
  /\ conn \in [Jvm -> ConnStates]
  /\ channel \in [Jvm -> Channel \cup {NoChannel}]
  /\ peer \in [Channel -> Jvm \cup {NoJvm}]
  /\ request \in [Jvm -> RequestStates]

Init ==
  /\ starter = "down"
  /\ Server!Init
  /\ Boot!Init
  /\ conn = [j \in Jvm |-> "none"]
  /\ channel = [j \in Jvm |-> NoChannel]
  /\ peer = [c \in Channel |-> NoJvm]
  /\ request = [j \in Jvm |-> "idle"]

-----------------------------------------------------------------------------
\* StarterApplication.main: first the web application, which serves requests
\* from then on, then the thread that starts the TCP server.
RunApplication ==
  /\ starter = "down"
  /\ starter' = "up"
  /\ UNCHANGED <<serverVars, phase, agentVars, request>>

StartServer ==
  /\ starter = "up"
  /\ starter' = "serving"
  /\ UNCHANGED <<serverVars, phase, agentVars, request>>

\* The server's own steps, once its thread runs; nothing stops it again.
ServerStep ==
  /\ starter = "serving"
  /\ \/ Server!Bind
     \/ Server!BindFails
     \/ \E c \in Channel : Server!Accept(c) \/ Server!InitChannel(c)
  /\ UNCHANGED <<starter, phase, agentVars, request>>

\* The starter ends or is killed.  Its sockets are closed, its cache and the
\* requests it was serving are gone; the next one starts from nothing.
StarterExit ==
  /\ starter # "down"
  /\ starter' = "down"
  /\ listening' = "new"
  /\ groups' = "running"
  /\ chan' = [c \in Channel |-> IF chan[c] = "free" THEN "free" ELSE "closed"]
  /\ channelSessionCache' = EmptyMap
  /\ UNCHANGED closeRequested
  /\ request' = [j \in Jvm |-> "idle"]
  /\ UNCHANGED <<phase, agentVars>>

-----------------------------------------------------------------------------
\* An /attach request arrives for JVM j.
Attach(j) ==
  /\ starter # "down"
  /\ request[j] \in {"idle", "ok"}
  /\ request' = [request EXCEPT ![j] = "attaching"]
  /\ UNCHANGED <<starter, serverVars, phase, agentVars>>

\* VirtualMachine.attach or loadAgent throws: the exception is printed, and the
\* controller answers ok.
AttachThrows(j) ==
  /\ request[j] \in {"attaching", "failing"}
  /\ request' = [request EXCEPT ![j] = "ok"]
  /\ UNCHANGED <<starter, serverVars, phase, agentVars>>

\* Faulty variant: a later call connects an agent that has lost its connection.
LoadAgentReconnects(j) ==
  /\ request[j] = "attaching"
  /\ request' = [request EXCEPT ![j] = "loading"]
  /\ Boot!Begin(j) \/ (phase[j] # "fresh" /\ UNCHANGED phase)
  /\ conn' = IF conn[j] \in {"lost", "refused"}
             THEN [conn EXCEPT ![j] = "connecting"] ELSE conn
  /\ UNCHANGED <<starter, serverVars, channel, peer>>

\* loadAgent calls agentmain in the JVM, which begins the boot unless an
\* earlier call has.
LoadAgent(j) ==
  /\ request[j] = "attaching"
  /\ request' = [request EXCEPT ![j] = "loading"]
  /\ Boot!Begin(j) \/ (phase[j] # "fresh" /\ UNCHANGED phase)
  /\ UNCHANGED <<starter, serverVars, agentVars>>

\* Faulty variant: loadAgent waits for a boot that succeeds.
LoadAgentReturnsBooted(j) ==
  /\ request[j] = "loading"
  /\ phase[j] = "booted"
  /\ request' = [request EXCEPT ![j] = "ok"]
  /\ UNCHANGED <<starter, serverVars, phase, agentVars>>

\* agentmain has returned: the controller answers ok.
LoadAgentReturns(j) ==
  /\ request[j] = "loading"
  /\ phase[j] # "booting"
  /\ request' = [request EXCEPT ![j] = "ok"]
  /\ UNCHANGED <<starter, serverVars, phase, agentVars>>

-----------------------------------------------------------------------------
\* The JVM is started with the agent.
Premain(j) ==
  /\ Boot!Begin(j)
  /\ UNCHANGED <<starter, serverVars, agentVars, request>>

\* The boot ends: with Client.startConnect, or with a swallowed failure.
Booted(j) ==
  /\ Boot!Succeed(j)
  /\ conn' = [conn EXCEPT ![j] = "connecting"]
  /\ UNCHANGED <<starter, serverVars, channel, peer, request>>

BootFails(j) ==
  /\ Boot!Fail(j)
  /\ UNCHANGED <<starter, serverVars, agentVars, request>>

\* Client.connect succeeds as soon as the kernel at the other end completes the
\* connection, and the listener sets the field channel.
ClientConnects(j, c) ==
  /\ conn[j] = "connecting"
  /\ Server!Connect(c)
  /\ conn' = [conn EXCEPT ![j] = "up"]
  /\ channel' = [channel EXCEPT ![j] = c]
  /\ peer' = [peer EXCEPT ![c] = j]
  /\ UNCHANGED <<starter, phase, request>>

\* Faulty variant: the client tries again until it is let in.
ClientRetries(j) ==
  /\ conn[j] = "connecting"
  /\ UNCHANGED vars

\* Nobody listens, or no answer comes within 3 s: connect throws, and with it
\* ends the thread.  There is no second attempt.
ClientRefused(j) ==
  /\ conn[j] = "connecting"
  /\ conn' = [conn EXCEPT ![j] = "refused"]
  /\ UNCHANGED <<starter, serverVars, phase, channel, peer, request>>

\* Faulty variant: the client gives a connection up before it is closed.
ClientGivesUp(j) ==
  /\ conn[j] = "up"
  /\ conn' = [conn EXCEPT ![j] = "lost"]
  /\ UNCHANGED <<starter, serverVars, phase, channel, peer, request>>

\* Faulty variant: the client connects again when its connection is closed.
ClientReconnects(j) ==
  /\ conn[j] = "up"
  /\ chan[channel[j]] = "closed"
  /\ conn' = [conn EXCEPT ![j] = "connecting"]
  /\ UNCHANGED <<starter, serverVars, phase, channel, peer, request>>

\* closeFuture().sync() returns and with it the thread; the field channel keeps
\* the closed channel.
ClientLoses(j) ==
  /\ conn[j] = "up"
  /\ chan[channel[j]] = "closed"
  /\ conn' = [conn EXCEPT ![j] = "lost"]
  /\ UNCHANGED <<starter, serverVars, phase, channel, peer, request>>

\* Faulty variant: the server is told of peers only while it accepts others.
PeerGoneWhileAccepting(c) ==
  /\ starter = "serving"
  /\ \E d \in Channel : chan[d] = "pending"
  /\ peer[c] = NoJvm
  /\ Server!PeerClose(c)
  /\ UNCHANGED <<starter, phase, agentVars, request>>

\* The server notices that the JVM at the other end is gone.
PeerGone(c) ==
  /\ starter = "serving"
  /\ peer[c] = NoJvm
  /\ Server!PeerClose(c)
  /\ UNCHANGED <<starter, phase, agentVars, request>>

\* The JVM ends; a new one without an agent takes its place.
JvmExit(j) ==
  /\ Boot!Exit(j)
  /\ conn' = [conn EXCEPT ![j] = "none"]
  /\ channel' = [channel EXCEPT ![j] = NoChannel]
  /\ peer' = [c \in Channel |-> IF peer[c] = j THEN NoJvm ELSE peer[c]]
  /\ request' = [request EXCEPT ![j] = IF @ \in Unanswered THEN "failing" ELSE @]
  /\ UNCHANGED <<starter, serverVars>>

StarterNext == RunApplication \/ StartServer \/ ServerStep \/ StarterExit

RequestNext(j) == Attach(j) \/ AttachThrows(j) \/ LoadAgent(j) \/ LoadAgentReturns(j)

JvmNext(j) ==
  \/ Premain(j)
  \/ Booted(j)
  \/ BootFails(j)
  \/ \E c \in Channel : ClientConnects(j, c)
  \/ ClientRefused(j)
  \/ ClientLoses(j)
  \/ JvmExit(j)

Next ==
  \/ StarterNext
  \/ \E j \in Jvm : RequestNext(j) \/ JvmNext(j)
  \/ \E c \in Channel : PeerGone(c)

\* Threads that have something to do do it: a request is worked on, a boot ends
\* (BootOnce), a connect succeeds or fails within its timeout, both ends of a
\* connection learn of its end.  Nobody has to attach, start or exit.
Fairness ==
  /\ \A j \in Jvm :
       /\ WF_vars(AttachThrows(j) \/ LoadAgent(j))
       /\ WF_vars(LoadAgentReturns(j))
       /\ WF_vars(Booted(j) \/ BootFails(j))
       /\ WF_vars(ClientRefused(j) \/ \E c \in Channel : ClientConnects(j, c))
       /\ WF_vars(ClientLoses(j))
  /\ \A c \in Channel : WF_vars(PeerGone(c))

SafetySpec == Init /\ [][Next]_vars
Spec == SafetySpec /\ Fairness

-----------------------------------------------------------------------------
\* Property (safety).  However often a JVM is attached to, and however often the
\* starter restarts, its agent opens at most one connection in the life of the
\* JVM, and the agent's field channel is that connection.
OneConnectionPerLife ==
  \A j \in Jvm, c \in Channel : peer[c] = j => channel[j] = c

\* Property (safety).  The two ends agree: a channel that is being served is
\* cached, and belongs to a JVM that has gone unnoticed so far, or to one whose
\* boot succeeded and whose client is waiting on this very channel.
ServedIsConnected ==
  \A c \in Channel : chan[c] = "open" =>
    /\ asLongText(c) \in DOMAIN channelSessionCache
    /\ \/ peer[c] = NoJvm
       \/ \E j \in Jvm : peer[c] = j /\ phase[j] = "booted" /\ conn[j] = "up"

\* Property (action).  A connection that was lost or refused is never made again
\* in the life of the JVM: attaching again does not help, only a new JVM does.
LossIsFinal ==
  [][\A j \in Jvm :
       conn[j] \in {"lost", "refused"} => conn'[j] = conn[j] \/ phase'[j] = "fresh"]_vars

AttachIsAnswered == \A j \in Jvm : request[j] \in Unanswered ~> request[j] \notin Unanswered
ConnectEnds == \A j \in Jvm : conn[j] = "connecting" ~> conn[j] # "connecting"
EndIsNoticed ==
  /\ \A c \in Channel : chan[c] = "open" /\ peer[c] = NoJvm ~> chan[c] = "closed"
  /\ \A j \in Jvm :
       conn[j] = "up" /\ (\E c \in Channel : channel[j] = c /\ chan[c] = "closed")
         ~> conn[j] # "up"

\* Property (liveness).  Nobody waits for ever: every /attach request is answered,
\* whether the agent's boot succeeds, fails, or is cut short by the end of the JVM,
\* unless the starter ends first; a connecting thread does not hang; and whichever
\* end of a connection goes first, the other learns of it.
NobodyWaits == AttachIsAnswered /\ ConnectEnds /\ EndIsNoticed
=============================================================================
