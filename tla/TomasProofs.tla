---------------------------- MODULE TomasProofs -----------------------------
(***************************************************************************)
(* Proofs about the whole system, for any JVMs and channels.               *)
(*                                                                         *)
(* The argument.  A JVM's agent connects at most once because a connecting *)
(* thread has no channel before its connect succeeds, and a channel from   *)
(* then on until the JVM ends (Clients): the step that connects finds no   *)
(* older connection.  A served channel whose peer lives is therefore the   *)
(* channel of that peer, and the client of a lost channel has seen it      *)
(* closed.                                                                 *)
(***************************************************************************)
EXTENDS Tomas, TLAPS

-----------------------------------------------------------------------------
(* The session map. *)

\* A session map, unfolded.
LEMMA SessionMapType ==
  ASSUME NEW map \in SessionMaps
  PROVE  /\ map \in [DOMAIN map -> Channel]
         /\ DOMAIN map \subseteq ChannelId
  BY DEF SessionMaps

\* put: the channel is found under its id, and every other session is kept.
LEMMA PutFacts ==
  ASSUME NEW map \in SessionMaps, NEW c \in Channel
  PROVE  /\ Put(map, c) \in SessionMaps
         /\ DOMAIN Put(map, c) = DOMAIN map \cup {asLongText(c)}
         /\ Put(map, c)[asLongText(c)] = c
         /\ \A k \in DOMAIN map : k # asLongText(c) => Put(map, c)[k] = map[k]
<1> DEFINE D == DOMAIN map \cup {asLongText(c)}
<1>1. D \in SUBSET ChannelId
  BY SessionMapType DEF ChannelId
<1>2. Put(map, c) \in [D -> Channel]
  BY SessionMapType DEF Put
<1>3. Put(map, c) \in SessionMaps
  BY <1>1, <1>2 DEF SessionMaps
<1> QED
  BY <1>2, <1>3 DEF Put

\* The cache of a server that has just begun.
LEMMA EmptyMapType == EmptyMap \in SessionMaps
<1>1. EmptyMap \in [{} -> Channel] /\ {} \in SUBSET ChannelId
  BY DEF EmptyMap
<1> QED
  BY <1>1 DEF SessionMaps

-----------------------------------------------------------------------------
\* What each state of the connecting thread says of the client's fields.
Client(j) ==
  /\ conn[j] \in {"none", "connecting", "refused"} => channel[j] = NoChannel
  /\ conn[j] \in {"up", "lost"} => channel[j] \in Channel
  /\ conn[j] = "lost" => chan[channel[j]] = "closed"
  /\ conn[j] # "none" => phase[j] = "booted"

Clients == \A j \in Jvm : Client(j)

\* A channel nobody has connected has no peer.
FreeHasNoPeer == \A c \in Channel : chan[c] = "free" => peer[c] = NoJvm

\* What is served is cached.
ServedIsCached ==
  \A c \in Channel : chan[c] = "open" => asLongText(c) \in DOMAIN channelSessionCache

Inductive == TypeOK /\ Clients /\ FreeHasNoPeer /\ ServedIsCached /\ OneConnectionPerLife

-----------------------------------------------------------------------------
\* The server's instance of SessionMap is that of the whole system.
LEMMA SameMaps ==
  /\ Server!SessionMaps = SessionMaps
  /\ Server!EmptyMap = EmptyMap
  /\ \A c \in Channel : Server!Put(channelSessionCache, c) = Put(channelSessionCache, c)
  BY DEF Server!SessionMaps, SessionMaps, Server!ChannelId, ChannelId,
         Server!EmptyMap, EmptyMap, Server!Put, Put, Server!asLongText, asLongText

LEMMA InitInductive == Init => Inductive
<1> SUFFICES ASSUME Init PROVE Inductive
  OBVIOUS
<1>1. TypeOK
  BY EmptyMapType, SameMaps
  DEF Init, TypeOK, ConnStates, RequestStates, Unanswered, Server!Init, Server!TypeOK,
      Server!ChannelStates, Boot!Init, Boot!TypeOK, Boot!BootPhases
<1>2. Clients
  BY DEF Init, Clients, Client
<1>3. FreeHasNoPeer /\ ServedIsCached /\ OneConnectionPerLife
  BY JvmAssumption DEF Init, Server!Init, FreeHasNoPeer, ServedIsCached, OneConnectionPerLife
<1> QED
  BY <1>1, <1>2, <1>3 DEF Inductive

\* The server's own steps use no free channel and reopen no closed one, cache
\* what they open, and forget nothing.
ServerMoves ==
  /\ Server!TypeOK'
  /\ \A c \in Channel :
       /\ chan'[c] = "free" <=> chan[c] = "free"
       /\ chan[c] = "closed" => chan'[c] = "closed"
       /\ chan'[c] = "open" => chan[c] = "open" \/ asLongText(c) \in DOMAIN channelSessionCache'
  /\ DOMAIN channelSessionCache \subseteq DOMAIN channelSessionCache'

LEMMA ServerStepMoves ==
  ASSUME Server!TypeOK, ServerStep
  PROVE  ServerMoves
<1> USE DEF Server!TypeOK, Server!ChannelStates, ServerMoves
<1>1. CASE Server!Bind \/ Server!BindFails
  BY <1>1 DEF Server!Bind, Server!BindFails
<1>2. ASSUME NEW c \in Channel, Server!Accept(c)
      PROVE  ServerMoves
  BY <1>2 DEF Server!Accept, Server!Move
<1>3. ASSUME NEW c \in Channel, Server!InitChannel(c)
      PROVE  ServerMoves
  <2>1. /\ channelSessionCache' = Put(channelSessionCache, c)
        /\ channelSessionCache \in SessionMaps
    BY <1>3, SameMaps DEF Server!InitChannel
  <2>2. /\ channelSessionCache' \in Server!SessionMaps
        /\ DOMAIN channelSessionCache' = DOMAIN channelSessionCache \cup {asLongText(c)}
    BY <2>1, PutFacts, SameMaps
  <2> QED
    BY <1>3, <2>2 DEF Server!InitChannel, Server!Move
<1> QED
  BY <1>1, <1>2, <1>3 DEF ServerStep

LEMMA PeerCloseMoves ==
  ASSUME Server!TypeOK, NEW c \in Channel, Server!PeerClose(c)
  PROVE  ServerMoves
  BY DEF Server!TypeOK, Server!ChannelStates, ServerMoves, Server!PeerClose, Server!Move

\* Steps of the server alone preserve the invariant.
LEMMA ServerMovesInductive ==
  ASSUME Inductive, ServerMoves, starter' \in {"down", "up", "serving"},
         UNCHANGED <<phase, agentVars, request>>
  PROVE  Inductive'
<1>1. TypeOK'
  BY DEF Inductive, TypeOK, ServerMoves, agentVars, Boot!TypeOK
<1>2. Clients'
  BY DEF Inductive, Clients, Client, ServerMoves, agentVars
<1>3. FreeHasNoPeer' /\ OneConnectionPerLife'
  BY DEF Inductive, FreeHasNoPeer, OneConnectionPerLife, ServerMoves, agentVars
<1>4. ServedIsCached'
  BY DEF Inductive, ServedIsCached, ServerMoves
<1> QED
  BY <1>1, <1>2, <1>3, <1>4 DEF Inductive

\* Steps of the starter's life, outside its server.
LEMMA StarterInductive == ASSUME Inductive, StarterNext PROVE Inductive'
<1>1. CASE RunApplication \/ StartServer
  BY <1>1 DEF RunApplication, StartServer, serverVars, agentVars, Inductive, TypeOK,
     Server!TypeOK, Boot!TypeOK, Clients, Client, FreeHasNoPeer, ServedIsCached,
     OneConnectionPerLife
<1>2. CASE ServerStep
  <2>1. ServerMoves
    BY <1>2, ServerStepMoves DEF Inductive, TypeOK
  <2> QED
    BY <1>2, <2>1, ServerMovesInductive DEF ServerStep, Inductive, TypeOK
<1>3. CASE StarterExit
  <2>1. \A c \in Channel : chan'[c] = IF chan[c] = "free" THEN "free" ELSE "closed"
    BY <1>3 DEF StarterExit
  <2>2. TypeOK'
    BY <1>3, EmptyMapType, SameMaps
    DEF StarterExit, agentVars, Inductive, TypeOK, RequestStates, Unanswered,
        Server!TypeOK, Server!ChannelStates, Boot!TypeOK
  <2>3. Clients'
    BY <1>3, <2>1 DEF StarterExit, agentVars, Inductive, TypeOK, Clients, Client
  <2>4. FreeHasNoPeer' /\ ServedIsCached' /\ OneConnectionPerLife'
    BY <1>3, <2>1
    DEF StarterExit, agentVars, Inductive, FreeHasNoPeer, ServedIsCached,
        OneConnectionPerLife
  <2> QED
    BY <2>2, <2>3, <2>4 DEF Inductive
<1> QED
  BY <1>1, <1>2, <1>3 DEF StarterNext

\* Steps that only serve a request or begin or fail a boot.
LEMMA RequestInductive ==
  ASSUME Inductive, NEW j \in Jvm, RequestNext(j) \/ Premain(j) \/ BootFails(j)
  PROVE  Inductive'
<1>1. /\ UNCHANGED <<starter, serverVars, agentVars>>
      /\ request' \in [Jvm -> RequestStates]
      /\ Boot!Begin(j) \/ Boot!Fail(j) \/ UNCHANGED phase
  BY DEF RequestNext, Attach, AttachThrows, LoadAgent, LoadAgentReturns, Premain,
         BootFails, Inductive, TypeOK, RequestStates, Unanswered
<1>2. Boot!TypeOK' /\ \A i \in Jvm : phase[i] = "booted" => phase'[i] = "booted"
  BY <1>1 DEF Boot!Begin, Boot!Fail, Boot!Move, Boot!TypeOK, Boot!BootPhases,
              Inductive, TypeOK
<1>3. TypeOK'
  BY <1>1, <1>2 DEF Inductive, TypeOK, Server!TypeOK, serverVars, agentVars
<1>4. Clients'
  BY <1>1, <1>2 DEF Inductive, Clients, Client, serverVars, agentVars
<1>5. FreeHasNoPeer' /\ ServedIsCached' /\ OneConnectionPerLife'
  BY <1>1 DEF Inductive, FreeHasNoPeer, ServedIsCached, OneConnectionPerLife,
              serverVars, agentVars
<1> QED
  BY <1>3, <1>4, <1>5 DEF Inductive

\* Steps of the connecting thread, and the end of the JVM.
LEMMA ClientInductive ==
  ASSUME Inductive, NEW j \in Jvm,
         \/ Booted(j) \/ ClientRefused(j) \/ ClientLoses(j) \/ JvmExit(j)
         \/ \E c \in Channel : ClientConnects(j, c)
  PROVE  Inductive'
<1>1. CASE Booted(j)
  <2> USE <1>1 DEF Booted, serverVars, Inductive, TypeOK, Boot!Succeed, Boot!Move
  <2>1. TypeOK'
    BY DEF Server!TypeOK, Boot!TypeOK, Boot!BootPhases, ConnStates
  <2>2. Clients'
    BY DEF Clients, Client, Boot!TypeOK
  <2>3. FreeHasNoPeer' /\ ServedIsCached' /\ OneConnectionPerLife'
    BY DEF FreeHasNoPeer, ServedIsCached, OneConnectionPerLife
  <2> QED
    BY <2>1, <2>2, <2>3
<1>2. CASE ClientRefused(j)
  <2> USE <1>2 DEF ClientRefused, serverVars, Inductive, TypeOK
  <2>1. TypeOK'
    BY DEF Server!TypeOK, Boot!TypeOK, ConnStates
  <2>2. Clients'
    BY DEF Clients, Client
  <2>3. FreeHasNoPeer' /\ ServedIsCached' /\ OneConnectionPerLife'
    BY DEF FreeHasNoPeer, ServedIsCached, OneConnectionPerLife
  <2> QED
    BY <2>1, <2>2, <2>3
<1>3. CASE ClientLoses(j)
  <2> USE <1>3 DEF ClientLoses, serverVars, Inductive, TypeOK
  <2>1. TypeOK'
    BY DEF Server!TypeOK, Boot!TypeOK, ConnStates
  <2>2. Clients'
    BY DEF Clients, Client
  <2>3. FreeHasNoPeer' /\ ServedIsCached' /\ OneConnectionPerLife'
    BY DEF FreeHasNoPeer, ServedIsCached, OneConnectionPerLife
  <2> QED
    BY <2>1, <2>2, <2>3
<1>4. CASE JvmExit(j)
  <2> USE <1>4 DEF JvmExit, serverVars, Inductive, TypeOK
  <2>1. TypeOK'
    BY DEF Server!TypeOK, Boot!Exit, Boot!TypeOK, Boot!BootPhases, ConnStates,
           RequestStates, Unanswered
  <2>2. Clients'
    BY DEF Clients, Client, Boot!Exit, Boot!TypeOK
  <2>3. FreeHasNoPeer' /\ ServedIsCached'
    BY DEF FreeHasNoPeer, ServedIsCached
  <2>4. OneConnectionPerLife'
    BY JvmAssumption DEF OneConnectionPerLife
  <2> QED
    BY <2>1, <2>2, <2>3, <2>4
<1>5. ASSUME NEW c \in Channel, ClientConnects(j, c)
      PROVE  Inductive'
  <2> USE <1>5 DEF ClientConnects, Server!Connect, Server!Move, Inductive, TypeOK
  <2>1. TypeOK'
    BY DEF Server!TypeOK, Server!ChannelStates, Boot!TypeOK, ConnStates
  <2>2. Clients'
    BY DEF Clients, Client, Server!TypeOK
  <2>3. FreeHasNoPeer' /\ ServedIsCached'
    BY DEF FreeHasNoPeer, ServedIsCached, Server!TypeOK
  <2>4. \A d \in Channel : peer[d] # j
    BY JvmAssumption DEF Clients, Client, OneConnectionPerLife
  <2>5. OneConnectionPerLife'
    BY <2>4, JvmAssumption DEF OneConnectionPerLife, FreeHasNoPeer
  <2> QED
    BY <2>1, <2>2, <2>3, <2>5
<1> QED
  BY <1>1, <1>2, <1>3, <1>4, <1>5

LEMMA StepInductive == Inductive /\ [Next]_vars => Inductive'
<1> SUFFICES ASSUME Inductive, [Next]_vars PROVE Inductive'
  OBVIOUS
<1>1. CASE UNCHANGED vars
  BY <1>1 DEF vars, serverVars, agentVars, Inductive, TypeOK, Server!TypeOK,
     Boot!TypeOK, Clients, Client, FreeHasNoPeer, ServedIsCached, OneConnectionPerLife
<1>2. ASSUME NEW c \in Channel, PeerGone(c)
      PROVE  Inductive'
  <2>1. ServerMoves
    BY <1>2, PeerCloseMoves DEF PeerGone, Inductive, TypeOK
  <2> QED
    BY <1>2, <2>1, ServerMovesInductive DEF PeerGone, Inductive, TypeOK
<1> QED
  BY <1>1, <1>2, StarterInductive, RequestInductive, ClientInductive
  DEF Next, JvmNext

THEOREM Invariance == SafetySpec => []Inductive
  BY InitInductive, StepInductive, PTL DEF SafetySpec

-----------------------------------------------------------------------------
\* Every variable of the system keeps its type.
THEOREM TypeCorrect == SafetySpec => []TypeOK
<1>1. Inductive => TypeOK
  BY DEF Inductive
<1> QED
  BY <1>1, Invariance, PTL

\* However often JVMs are attached to and the starter restarts, for any number of
\* JVMs, an agent connects at most once in the life of its JVM (Client.connect).
THEOREM ConnectsOncePerLife == SafetySpec => []OneConnectionPerLife
<1>1. Inductive => OneConnectionPerLife
  BY DEF Inductive
<1> QED
  BY <1>1, Invariance, PTL

\* The server serves nobody but the booted agents that wait on that very
\* channel, and JVMs that have just gone (NettyServer.initChannel, Client.connect).
THEOREM ServedChannelsAreConnected == SafetySpec => []ServedIsConnected
<1>1. ASSUME Inductive, NEW c \in Channel, chan[c] = "open", peer[c] # NoJvm
      PROVE  \E j \in Jvm : peer[c] = j /\ phase[j] = "booted" /\ conn[j] = "up"
  <2>1. PICK j \in Jvm : peer[c] = j
    BY <1>1 DEF Inductive, TypeOK
  <2>2. channel[j] = c
    BY <1>1, <2>1 DEF Inductive, OneConnectionPerLife
  <2>3. conn[j] \in {"up", "lost"}
    BY <1>1, <2>2, JvmAssumption DEF Inductive, TypeOK, ConnStates, Clients, Client
  <2>4. conn[j] = "up" /\ phase[j] = "booted"
    BY <1>1, <2>2, <2>3 DEF Inductive, Clients, Client
  <2> QED
    BY <2>1, <2>4
<1>2. Inductive => ServedIsConnected
  BY <1>1 DEF Inductive, ServedIsCached, ServedIsConnected
<1> QED
  BY <1>2, Invariance, PTL

\* A connection once lost or refused stays so until the JVM ends, whoever
\* attaches (TomasAgentBoot.main boots once, Client.connect tries once).
THEOREM LossesAreFinal == SafetySpec => LossIsFinal
<1>1. ASSUME Inductive, [Next]_vars, NEW j \in Jvm, conn[j] \in {"lost", "refused"}
      PROVE  conn'[j] = conn[j] \/ phase'[j] = "fresh"
  <2>1. phase[j] = "booted"
    BY <1>1 DEF Inductive, Clients, Client
  <2>2. conn \in [Jvm -> ConnStates] /\ phase \in [Jvm -> Boot!BootPhases]
    BY <1>1 DEF Inductive, TypeOK, Boot!TypeOK
  <2>3. CASE UNCHANGED conn
    BY <2>3
  <2>4. ASSUME NEW i \in Jvm, Booted(i) PROVE conn'[j] = conn[j]
    BY <2>1, <2>2, <2>4 DEF Booted, Boot!Succeed, Boot!Move
  <2>5. ASSUME NEW i \in Jvm, ClientRefused(i) \/ ClientLoses(i) PROVE conn'[j] = conn[j]
    BY <1>1, <2>2, <2>5 DEF ClientRefused, ClientLoses
  <2>6. ASSUME NEW i \in Jvm, NEW c \in Channel, ClientConnects(i, c)
        PROVE  conn'[j] = conn[j]
    BY <1>1, <2>2, <2>6 DEF ClientConnects
  <2>7. ASSUME NEW i \in Jvm, JvmExit(i) PROVE conn'[j] = conn[j] \/ phase'[j] = "fresh"
    BY <2>2, <2>7 DEF JvmExit, Boot!Exit
  <2>8. CASE StarterNext
    BY <2>3, <2>8 DEF StarterNext, RunApplication, StartServer, ServerStep, StarterExit,
                      agentVars
  <2>9. ASSUME NEW i \in Jvm, RequestNext(i) \/ Premain(i) \/ BootFails(i)
        PROVE  UNCHANGED conn
    BY <2>9 DEF RequestNext, Attach, AttachThrows, LoadAgent, LoadAgentReturns, Premain,
                BootFails, agentVars
  <2>10. ASSUME NEW c \in Channel, PeerGone(c) PROVE UNCHANGED conn
    BY <2>10 DEF PeerGone, agentVars
  <2> QED
    BY <1>1, <2>3, <2>4, <2>5, <2>6, <2>7, <2>8, <2>9, <2>10
    DEF Next, JvmNext, vars, agentVars
<1>2. Inductive /\ [Next]_vars =>
        [\A j \in Jvm : conn[j] \in {"lost", "refused"} =>
           conn'[j] = conn[j] \/ phase'[j] = "fresh"]_vars
  BY <1>1
<1> QED
  BY <1>2, Invariance, PTL DEF SafetySpec, LossIsFinal
=============================================================================
