----------------------------- MODULE NettyServer ----------------------------
(***************************************************************************)
(* The TCP server inside the monitor: NettyServer.start and stop, the life *)
(* of each of its channels from the kernel's backlog to the close, and the *)
(* session cache that the channels are entered in.                         *)
(*                                                                         *)
(* A channel is accepted by the boss loop and initialised later, on its    *)
(* worker loop; the peer may close it, and the server may be stopped, in   *)
(* between.  Netty itself is external: that channels are accepted,         *)
(* registered, closed on end of stream, and closed without passing through *)
(* the pipeline's close handlers when their loop shuts down, is taken from *)
(* how NettyServer uses it.                                                *)
(*                                                                         *)
(* Requests that are answered, or dropped because they cannot be decoded,  *)
(* change none of this state and are left out.                             *)
(***************************************************************************)
EXTENDS SessionMap

VARIABLES
  listening,            \* "new", "bound" or "closed": the server channel
  groups,               \* "running" or "stopping": both event loop groups
  chan,                 \* chan[c]: where channel c is in its life
  closeRequested        \* closeRequested[c]: a handler has asked to close c

vars == <<listening, groups, chan, channelSessionCache, closeRequested>>

\* "free": not yet used.  "pending": in the kernel's backlog.  "accepted":
\* handed to the worker group.  "open": initialised and served.
ChannelStates == {"free", "pending", "accepted", "open", "closed"}

TypeOK ==
  /\ listening \in {"new", "bound", "closed"}
  /\ groups \in {"running", "stopping"}
  /\ chan \in [Channel -> ChannelStates]
  /\ channelSessionCache \in SessionMaps
  /\ closeRequested \in [Channel -> BOOLEAN]

Init ==
  /\ listening = "new"
  /\ groups = "running"
  /\ chan = [c \in Channel |-> "free"]
  /\ channelSessionCache = EmptyMap
  /\ closeRequested = [c \in Channel |-> FALSE]

-----------------------------------------------------------------------------
Move(c, from, to) ==
  /\ chan[c] \in from
  /\ chan' = [chan EXCEPT ![c] = to]

\* start: bootstrap.bind(port).sync() succeeds.
Bind ==
  /\ listening = "new" /\ groups = "running"
  /\ listening' = "bound"
  /\ UNCHANGED <<groups, chan, channelSessionCache, closeRequested>>

\* start: the bind throws (the port is taken, the groups are shut down); the
\* finally block shuts the groups down.
BindFails ==
  /\ listening = "new"
  /\ listening' = "closed"
  /\ groups' = "stopping"
  /\ UNCHANGED <<chan, channelSessionCache, closeRequested>>

\* A peer connects: the kernel completes the connection by itself.
Connect(c) ==
  /\ listening = "bound"
  /\ Move(c, {"free"}, "pending")
  /\ UNCHANGED <<listening, groups, channelSessionCache, closeRequested>>

\* The boss loop accepts the connection and registers it with a worker loop,
\* or closes it when the worker loops no longer take registrations.
Accept(c) ==
  /\ listening = "bound"
  /\ \/ Move(c, {"pending"}, "accepted")
     \/ groups = "stopping" /\ Move(c, {"pending"}, "closed")
  /\ UNCHANGED <<listening, groups, channelSessionCache, closeRequested>>

\* Faulty variant: a channel is entered in the cache only when its peer sends.
InitChannelUncached(c) ==
  /\ Move(c, {"accepted"}, "open")
  /\ UNCHANGED <<listening, groups, channelSessionCache, closeRequested>>

\* The worker loop initialises the channel.
InitChannel(c) ==
  /\ Move(c, {"accepted"}, "open")
  /\ channelSessionCache' = Put(channelSessionCache, c)
  /\ UNCHANGED <<listening, groups, closeRequested>>

\* CloseChannelAdapter.close stands in for the close of the channel: it asks
\* the cache to forget the channel, and passes the request on to no one.
Close(c) ==
  /\ channelSessionCache' = RemoveSession(channelSessionCache, asLongText(c))
  /\ closeRequested' = [closeRequested EXCEPT ![c] = TRUE]
  /\ UNCHANGED chan

\* A Throwable of a handler behind the decoder goes down the pipeline to
\* MsgpackServerHandler, which calls ctx.close().
HandlerFails(c) == Close(c)

\* A heartbeat request arrives: making the response overflows the stack, as the
\* two-argument getProtocolMessage calls itself.
HeartBeatReq(c) ==
  /\ chan[c] = "open"
  /\ HandlerFails(c)
  /\ UNCHANGED <<listening, groups>>

\* The peer is gone.  Netty closes the channel; no handler has channelInactive.
PeerClose(c) ==
  /\ Move(c, {"open"}, "closed")
  /\ UNCHANGED <<listening, groups, channelSessionCache, closeRequested>>

\* stop: both groups begin to shut down.
Stop ==
  /\ groups = "running"
  /\ groups' = "stopping"
  /\ UNCHANGED <<listening, chan, channelSessionCache, closeRequested>>

\* The boss loop closes the server channel, and the kernel the backlog; start returns.
ServerChannelClosed ==
  /\ listening = "bound" /\ groups = "stopping"
  /\ listening' = "closed"
  /\ chan' = [c \in Channel |-> IF chan[c] = "pending" THEN "closed" ELSE chan[c]]
  /\ UNCHANGED <<groups, channelSessionCache, closeRequested>>

\* A worker loop that shuts down closes its channels, below the pipeline.
LoopCloses(c) ==
  /\ groups = "stopping"
  /\ Move(c, {"accepted", "open"}, "closed")
  /\ UNCHANGED <<listening, groups, channelSessionCache, closeRequested>>

ChannelNext(c) ==
  \/ Connect(c)
  \/ Accept(c)
  \/ InitChannel(c)
  \/ HeartBeatReq(c)
  \/ PeerClose(c)
  \/ LoopCloses(c)

ServerNext == Bind \/ BindFails \/ Stop \/ ServerChannelClosed

Next == ServerNext \/ \E c \in Channel : ChannelNext(c)

\* The event loops run: what is accepted is initialised, and a loop that is
\* told to shut down does.  Peers, binds and stops owe nothing.
Fairness ==
  /\ WF_vars(ServerChannelClosed)
  /\ \A c \in Channel :
       WF_vars(Accept(c)) /\ WF_vars(InitChannel(c)) /\ WF_vars(LoopCloses(c))

SafetySpec == Init /\ [][Next]_vars
Spec == SafetySpec /\ Fairness

-----------------------------------------------------------------------------
\* Property (safety).  The cache can be trusted in both directions: a channel
\* that is served is found under its own id, and what is found under an id is
\* the channel of that id, which was initialised, never one that was refused or
\* is still waiting.
CacheMatchesChannels ==
  /\ \A c \in Channel : chan[c] = "open" =>
       /\ asLongText(c) \in DOMAIN channelSessionCache
       /\ channelSessionCache[asLongText(c)] = c
  /\ \A k \in DOMAIN channelSessionCache :
       /\ k = asLongText(channelSessionCache[k])
       /\ chan[channelSessionCache[k]] \in {"open", "closed"}

\* Claim of CloseChannelAdapter ("the client has left abnormally, the cached data is
\* removed"), refuted: a channel that a handler has asked to close is no longer cached.
SessionIsReleased ==
  \A c \in Channel : closeRequested[c] => asLongText(c) \notin DOMAIN channelSessionCache

\* Claim of CloseChannelAdapter ("the handle must be closed by hand"), refuted:
\* a channel that a handler has asked to close is closed in the end.
CloseCloses == \A c \in Channel : closeRequested[c] ~> chan[c] = "closed"
=============================================================================
