---------------------------- MODULE ServerProofs ----------------------------
(***************************************************************************)
(* Proofs about the server side: the session cache and its lock, for any   *)
(* number of threads and channels, and the server that uses the cache, for *)
(* any number of channels.                                                 *)
(*                                                                         *)
(* The cache.  GetIsAtomic holds because a thread between the two accesses *)
(* of getSession holds the read lock (Locking), and a thread that changes  *)
(* the map holds the write lock, which excludes all readers.  That         *)
(* getSession answers null when it has found nothing needs NoAnswerYet.    *)
(*                                                                         *)
(* The server.  The type invariant and CacheMatchesChannels are together   *)
(* inductive: an id enters the cache in the step that opens its channel    *)
(* (InitChannel), no step takes one out, because removeSession does        *)
(* nothing (RemoveSessionDoesNothing), and an initialised channel only     *)
(* ever goes from open to closed.                                          *)
(***************************************************************************)
EXTENDS MCHelpers, TLAPS

-----------------------------------------------------------------------------
(* The session map. *)

\* Ids identify channels.
LEMMA IdsAreUnique ==
  ASSUME NEW c \in Channel, NEW d \in Channel, asLongText(c) = asLongText(d)
  PROVE  c = d
  BY DEF asLongText

\* A session map, unfolded.
LEMMA SessionMapType ==
  ASSUME NEW sessions \in SessionMaps
  PROVE  /\ sessions \in [DOMAIN sessions -> Channel]
         /\ DOMAIN sessions \subseteq ChannelId
  BY DEF SessionMaps

\* put: the channel is found under its id, and every other session is kept.
LEMMA PutFacts ==
  ASSUME NEW sessions \in SessionMaps, NEW c \in Channel
  PROVE  /\ Put(sessions, c) \in SessionMaps
         /\ DOMAIN Put(sessions, c) = DOMAIN sessions \cup {asLongText(c)}
         /\ Put(sessions, c)[asLongText(c)] = c
         /\ \A k \in DOMAIN sessions : k # asLongText(c) => Put(sessions, c)[k] = sessions[k]
<1> DEFINE D == DOMAIN sessions \cup {asLongText(c)}
<1>1. D \in SUBSET ChannelId
  BY SessionMapType DEF ChannelId
<1>2. Put(sessions, c) \in [D -> Channel]
  BY SessionMapType DEF Put
<1>3. Put(sessions, c) \in SessionMaps
  BY <1>1, <1>2 DEF SessionMaps
<1> QED
  BY <1>2, <1>3 DEF Put

\* The cache of a server that has just begun.
LEMMA EmptyMapType == EmptyMap \in SessionMaps
<1>1. EmptyMap \in [{} -> Channel] /\ {} \in SUBSET ChannelId
  BY DEF EmptyMap
<1> QED
  BY <1>1 DEF SessionMaps

\* No id is among the values: the id is a String, the values are Channels.
LEMMA NoIdIsAValue ==
  ASSUME NEW sessions \in SessionMaps, NEW k \in ChannelId
  PROVE  ~ContainsValue(sessions, k)
  BY SessionMapType, ChannelAssumption DEF ContainsValue

\* removeSession changes nothing, whatever the id (ChannelCache.removeSession
\* tests containsValue).
THEOREM RemoveSessionDoesNothing ==
  ASSUME NEW sessions \in SessionMaps, NEW k \in ChannelId
  PROVE  RemoveSession(sessions, k) = sessions
  BY NoIdIsAValue DEF RemoveSession

-----------------------------------------------------------------------------
(* The cache. *)

Holding == {"test", "use", "unlock"}

\* Who holds the lock is in the middle of an operation of the lock's kind, and
\* conversely; the write lock excludes readers.
Locking ==
  /\ \A t \in Thread : writer = t <=> pc[t] \in Holding /\ Writing(op[t])
  /\ \A t \in Thread : t \in readers <=> pc[t] \in Holding /\ ~Writing(op[t])
  /\ writer # NoThread => readers = {}

\* An operation has no answer before its second access.
NoAnswerYet ==
  \A t \in Thread : pc[t] \in {"locking", "test", "use"} => answer[t] = Null

\* Only getSession gets to a second access: removeSession never finds its id.
TwoAccesses ==
  \A t \in Thread : pc[t] = "use" =>
    op[t].name = "getSession" /\ op[t].arg \in ChannelId

CacheInductive == CacheTypeOK /\ Locking /\ NoAnswerYet /\ TwoAccesses /\ GetIsAtomic

-----------------------------------------------------------------------------
LEMMA CacheInitInductive == CacheInit => CacheInductive
<1> SUFFICES ASSUME CacheInit PROVE CacheInductive
  OBVIOUS
<1>1. CacheTypeOK
  BY EmptyMapType DEF CacheInit, CacheTypeOK, Operations, Locations
<1>2. Locking
  BY CacheAssumption DEF CacheInit, Locking, Holding
<1>3. NoAnswerYet /\ TwoAccesses /\ GetIsAtomic
  BY DEF CacheInit, NoAnswerYet, TwoAccesses, GetIsAtomic, Getting
<1> QED
  BY <1>1, <1>2, <1>3 DEF CacheInductive

\* A thread that changes the map holds the write lock, so no thread is getting.
LEMMA WriterExcludesGetting ==
  ASSUME CacheInductive, NEW t \in Thread, pc[t] \in Holding, Writing(op[t]),
         NEW u \in Thread, pc[u] \in Holding
  PROVE  Writing(op[u])
  BY CacheAssumption DEF CacheInductive, Locking

LEMMA CacheStepInductive == CacheInductive /\ [CacheNext]_cacheVars => CacheInductive'
<1> SUFFICES ASSUME CacheInductive, [CacheNext]_cacheVars PROVE CacheInductive'
  OBVIOUS
<1>1. CASE UNCHANGED cacheVars
  BY <1>1 DEF cacheVars, CacheInductive, CacheTypeOK, Locking, NoAnswerYet, TwoAccesses,
              GetIsAtomic, Getting
<1>2. ASSUME NEW t \in Thread, NEW o \in Operations, Call(t, o)
      PROVE  CacheInductive'
  <2> USE <1>2 DEF Call, Goto, CacheInductive, CacheTypeOK
  <2>1. CacheTypeOK'
    BY DEF Locations
  <2>2. Locking'
    BY DEF Locking, Holding
  <2>3. NoAnswerYet' /\ TwoAccesses'
    BY DEF NoAnswerYet, TwoAccesses
  <2>4. GetIsAtomic'
    BY DEF GetIsAtomic, Getting
  <2> QED
    BY <2>1, <2>2, <2>3, <2>4
<1>3. ASSUME NEW t \in Thread, Lock(t)
      PROVE  CacheInductive'
  <2> USE <1>3 DEF Lock, Goto, CacheInductive, CacheTypeOK
  <2>1. CacheTypeOK'
    BY DEF Locations
  <2>2. Locking'
    BY CacheAssumption DEF Locking, Holding
  <2>3. NoAnswerYet' /\ TwoAccesses'
    BY DEF NoAnswerYet, TwoAccesses
  <2>4. GetIsAtomic'
    BY DEF GetIsAtomic, Getting
  <2> QED
    BY <2>1, <2>2, <2>3, <2>4
<1>4. ASSUME NEW t \in Thread, Throw(t)
      PROVE  CacheInductive'
  <2> USE <1>4 DEF Throw, Goto, CacheInductive, CacheTypeOK
  <2>1. CacheTypeOK'
    BY DEF Locations
  <2>2. Locking'
    BY DEF Locking, Holding
  <2>3. NoAnswerYet' /\ TwoAccesses'
    BY DEF NoAnswerYet, TwoAccesses
  <2>4. GetIsAtomic'
    BY DEF GetIsAtomic, Getting
  <2> QED
    BY <2>1, <2>2, <2>3, <2>4
<1>5. ASSUME NEW t \in Thread, Access(t)
      PROVE  CacheInductive'
  <2>1. Writing(op[t]) /\ pc[t] = "test"
    BY <1>5 DEF Access, Writing
  <2>2. channelSessionCache' \in SessionMaps
    <3>1. op[t] \in Operations /\ channelSessionCache \in SessionMaps
      BY DEF CacheInductive, CacheTypeOK
    <3>2. op[t].name = "addSession" /\ op[t].arg # Null => op[t].arg \in Channel
      BY <3>1 DEF Operations
    <3> QED
      BY <1>5, <3>1, <3>2, PutFacts, EmptyMapType DEF Access
  <2>3. CacheTypeOK'
    BY <1>5, <2>2 DEF Access, Goto, CacheInductive, CacheTypeOK, Locations
  <2>4. Locking'
    BY <1>5 DEF Access, Goto, CacheInductive, CacheTypeOK, Locking, Holding
  <2>5. NoAnswerYet' /\ TwoAccesses'
    BY <1>5 DEF Access, Goto, CacheInductive, CacheTypeOK, NoAnswerYet, TwoAccesses
  <2>6. GetIsAtomic'
    <3>1. \A u \in Thread : pc[u] \in Holding => Writing(op[u])
      BY <2>1, WriterExcludesGetting DEF Holding
    <3>2. \A u \in Thread : pc'[u] \in Holding => Writing(op'[u])
      BY <1>5, <2>1, <3>1 DEF Access, Goto, CacheInductive, CacheTypeOK, Holding
    <3> QED
      BY <3>2 DEF GetIsAtomic, Getting, Writing, Holding
  <2> QED
    BY <2>3, <2>4, <2>5, <2>6 DEF CacheInductive
<1>6. ASSUME NEW t \in Thread, Test(t)
      PROVE  CacheInductive'
  <2>1. op[t].arg \in ChannelId
    BY <1>6 DEF Test, CacheInductive, CacheTypeOK, Operations
  <2>2. /\ pc[t] = "test" /\ op[t].name \in {"removeSession", "getSession"}
        /\ UNCHANGED <<channelSessionCache, writer, readers, op, answer>>
        /\ Goto(t, "use") \/ Goto(t, "unlock")
    BY <1>6 DEF Test
  <2>3. CacheTypeOK'
    BY <2>2 DEF Goto, CacheInductive, CacheTypeOK, Locations
  <2>4. Locking'
    BY <2>2 DEF Goto, CacheInductive, CacheTypeOK, Locking, Holding
  <2>5. NoAnswerYet' /\ TwoAccesses'
    <3>1. op[t].name = "removeSession" => Goto(t, "unlock")
      BY <1>6, <2>1, NoIdIsAValue DEF Test, CacheInductive, CacheTypeOK
    <3> QED
      BY <2>1, <2>2, <3>1 DEF Goto, CacheInductive, CacheTypeOK, NoAnswerYet, TwoAccesses
  <2>6. GetIsAtomic'
    <3>1. op[t].name = "getSession" =>
            IF ContainsKey(channelSessionCache, op[t].arg)
            THEN Goto(t, "use") ELSE Goto(t, "unlock")
      BY <1>6 DEF Test
    <3>2. answer[t] = Null
      BY <2>2 DEF CacheInductive, NoAnswerYet
    <3> QED
      BY <2>2, <3>1, <3>2 DEF Goto, CacheInductive, CacheTypeOK, GetIsAtomic, Getting
  <2> QED
    BY <2>3, <2>4, <2>5, <2>6 DEF CacheInductive
<1>7. ASSUME NEW t \in Thread, Use(t)
      PROVE  CacheInductive'
  <2>1. /\ pc[t] = "use" /\ Goto(t, "unlock")
        /\ op[t].name = "getSession" /\ op[t].arg \in ChannelId
        /\ UNCHANGED <<writer, readers, op>>
    BY <1>7 DEF Use, CacheInductive, TwoAccesses
  <2>2. ContainsKey(channelSessionCache, op[t].arg)
    BY <2>1, CacheAssumption DEF CacheInductive, GetIsAtomic, Getting
  <2>3. /\ UNCHANGED channelSessionCache
        /\ answer' = [answer EXCEPT ![t] = channelSessionCache[op[t].arg]]
    BY <1>7, <2>1, <2>2 DEF Use
  <2>4. channelSessionCache[op[t].arg] \in Channel
    BY <2>2, SessionMapType DEF CacheInductive, CacheTypeOK, ContainsKey
  <2>5. CacheTypeOK'
    BY <2>1, <2>3, <2>4 DEF Goto, CacheInductive, CacheTypeOK, Locations
  <2>6. Locking'
    BY <2>1 DEF Goto, CacheInductive, CacheTypeOK, Locking, Holding
  <2>7. NoAnswerYet' /\ TwoAccesses'
    BY <2>1, <2>3 DEF Goto, CacheInductive, CacheTypeOK, NoAnswerYet, TwoAccesses
  <2>8. GetIsAtomic'
    BY <2>1, <2>2, <2>3 DEF Goto, CacheInductive, CacheTypeOK, GetIsAtomic, Getting
  <2> QED
    BY <2>5, <2>6, <2>7, <2>8 DEF CacheInductive
<1>8. ASSUME NEW t \in Thread, Unlock(t)
      PROVE  CacheInductive'
  <2> USE <1>8 DEF Unlock, Goto, CacheInductive, CacheTypeOK
  <2>1. CacheTypeOK'
    BY DEF Locations
  <2>2. Locking'
    BY CacheAssumption DEF Locking, Holding
  <2>3. NoAnswerYet' /\ TwoAccesses'
    BY DEF NoAnswerYet, TwoAccesses
  <2>4. GetIsAtomic'
    BY DEF GetIsAtomic, Getting
  <2> QED
    BY <2>1, <2>2, <2>3, <2>4
<1> QED
  BY <1>1, <1>2, <1>3, <1>4, <1>5, <1>6, <1>7, <1>8 DEF CacheNext, Step

THEOREM CacheInvariance == CacheSafetySpec => []CacheInductive
  BY CacheInitInductive, CacheStepInductive, PTL DEF CacheSafetySpec

-----------------------------------------------------------------------------
\* Every variable of the cache keeps its type.
THEOREM CacheTypeCorrect == CacheSafetySpec => []CacheTypeOK
<1>1. CacheInductive => CacheTypeOK
  BY DEF CacheInductive
<1> QED
  BY <1>1, CacheInvariance, PTL

\* getSession is atomic for any number of threads (ChannelCache.getSession
\* accesses the map twice under the read lock).
THEOREM GetSessionIsAtomic == CacheSafetySpec => []GetIsAtomic
<1>1. CacheInductive => GetIsAtomic
  BY DEF CacheInductive
<1> QED
  BY <1>1, CacheInvariance, PTL

-----------------------------------------------------------------------------
(* The server. *)

\* The server's copies of the operators on the map are the cache's.
LEMMA SameMap ==
  /\ Server!SessionMaps = SessionMaps /\ Server!EmptyMap = EmptyMap
  /\ Server!ChannelId = ChannelId
  /\ \A c : Server!asLongText(c) = asLongText(c)
  /\ \A sessions, c : Server!Put(sessions, c) = Put(sessions, c)
  /\ \A sessions, k : Server!RemoveSession(sessions, k) = RemoveSession(sessions, k)
<1>1. \A c : Server!asLongText(c) = asLongText(c)
  BY DEF Server!asLongText, asLongText
<1>2. Server!ChannelId = ChannelId
  BY <1>1 DEF Server!ChannelId, ChannelId
<1>3. Server!SessionMaps = SessionMaps
  BY <1>2 DEF Server!SessionMaps, SessionMaps
<1>4. Server!EmptyMap = EmptyMap
  BY DEF Server!EmptyMap, EmptyMap
<1>5. ASSUME NEW sessions, NEW c PROVE Server!Put(sessions, c) = Put(sessions, c)
  BY <1>1 DEF Server!Put, Put
<1>6. ASSUME NEW sessions, NEW k
      PROVE  Server!RemoveSession(sessions, k) = RemoveSession(sessions, k)
  BY DEF Server!RemoveSession, RemoveSession, Server!ContainsValue, ContainsValue,
         Server!Without, Without
<1> QED
  BY <1>1, <1>2, <1>3, <1>4, <1>5, <1>6

ServerInductive == Server!TypeOK /\ Server!CacheMatchesChannels

LEMMA ServerInitInductive == Server!Init => ServerInductive
<1> SUFFICES ASSUME Server!Init PROVE ServerInductive
  OBVIOUS
<1>1. Server!TypeOK
  BY EmptyMapType, SameMap DEF Server!Init, Server!TypeOK, Server!ChannelStates
<1>2. Server!CacheMatchesChannels
  BY SameMap DEF Server!Init, Server!CacheMatchesChannels, EmptyMap
<1> QED
  BY <1>1, <1>2 DEF ServerInductive

\* A step that leaves the cache alone, opens no channel and undoes none.
LEMMA CacheUntouched ==
  ASSUME ServerInductive, Server!TypeOK', UNCHANGED channelSessionCache,
         \A c \in Channel : chan'[c] = "open" => chan[c] = "open",
         \A c \in Channel : chan[c] \in {"open", "closed"} => chan'[c] \in {"open", "closed"}
  PROVE  ServerInductive'
<1>1. \A k \in DOMAIN channelSessionCache : channelSessionCache[k] \in Channel
  BY SessionMapType, SameMap DEF ServerInductive, Server!TypeOK
<1> QED
  BY <1>1 DEF ServerInductive, Server!CacheMatchesChannels

\* Moving one channel on, within what CacheUntouched allows.
LEMMA MoveOn ==
  ASSUME ServerInductive, NEW c \in Channel, NEW from, NEW to, Server!Move(c, from, to),
         to \in Server!ChannelStates \ {"free", "open"},
         to = "closed" \/ from \cap {"open", "closed"} = {},
         UNCHANGED <<listening, groups, channelSessionCache, closeRequested>>
  PROVE  ServerInductive'
<1>1. chan' \in [Channel -> Server!ChannelStates]
  BY DEF ServerInductive, Server!TypeOK, Server!Move
<1>2. Server!TypeOK'
  BY <1>1 DEF ServerInductive, Server!TypeOK
<1>3. \A d \in Channel : chan'[d] = IF d = c THEN to ELSE chan[d]
  BY DEF ServerInductive, Server!TypeOK, Server!Move
<1>4. chan[c] \in from
  BY DEF Server!Move
<1> QED
  BY <1>2, <1>3, <1>4, CacheUntouched

LEMMA ServerStepInductive == ServerInductive /\ [Server!Next]_(Server!vars) => ServerInductive'
<1> SUFFICES ASSUME ServerInductive, [Server!Next]_(Server!vars) PROVE ServerInductive'
  OBVIOUS
<1>1. CASE UNCHANGED (Server!vars)
  BY <1>1 DEF Server!vars, ServerInductive, Server!TypeOK, Server!CacheMatchesChannels
<1>2. CASE Server!Bind \/ Server!BindFails \/ Server!Stop
  <2>1. Server!TypeOK'
    BY <1>2 DEF Server!Bind, Server!BindFails, Server!Stop, ServerInductive, Server!TypeOK
  <2> QED
    BY <1>2, <2>1, CacheUntouched DEF Server!Bind, Server!BindFails, Server!Stop
<1>3. CASE Server!ServerChannelClosed
  <2>1. chan' = [c \in Channel |-> IF chan[c] = "pending" THEN "closed" ELSE chan[c]]
    BY <1>3 DEF Server!ServerChannelClosed
  <2>2. Server!TypeOK'
    BY <1>3, <2>1
    DEF Server!ServerChannelClosed, ServerInductive, Server!TypeOK, Server!ChannelStates
  <2> QED
    BY <1>3, <2>1, <2>2, CacheUntouched DEF Server!ServerChannelClosed
<1>4. ASSUME NEW c \in Channel, Server!Connect(c)
      PROVE  ServerInductive'
  BY <1>4, MoveOn DEF Server!Connect, Server!ChannelStates
<1>5. ASSUME NEW c \in Channel, Server!Accept(c)
      PROVE  ServerInductive'
  <2>1. CASE Server!Move(c, {"pending"}, "accepted")
    BY <1>5, <2>1, MoveOn DEF Server!Accept, Server!ChannelStates
  <2>2. CASE Server!Move(c, {"pending"}, "closed")
    BY <1>5, <2>2, MoveOn DEF Server!Accept, Server!ChannelStates
  <2> QED
    BY <1>5, <2>1, <2>2 DEF Server!Accept
<1>6. ASSUME NEW c \in Channel, Server!InitChannel(c)
      PROVE  ServerInductive'
  <2> DEFINE cache == channelSessionCache
  <2>1. cache \in SessionMaps
    BY SameMap DEF ServerInductive, Server!TypeOK
  <2>2. /\ cache' \in SessionMaps
        /\ DOMAIN cache' = DOMAIN cache \cup {asLongText(c)}
        /\ cache'[asLongText(c)] = c
        /\ \A k \in DOMAIN cache : k # asLongText(c) => cache'[k] = cache[k]
    BY <1>6, <2>1, PutFacts, SameMap DEF Server!InitChannel
  <2>3. \A d \in Channel : chan'[d] = IF d = c THEN "open" ELSE chan[d]
    BY <1>6 DEF Server!InitChannel, Server!Move, ServerInductive, Server!TypeOK
  <2>4. Server!TypeOK'
    BY <1>6, <2>2, SameMap
    DEF Server!InitChannel, Server!Move, ServerInductive, Server!TypeOK, Server!ChannelStates
  <2>5. ASSUME NEW d \in Channel, chan'[d] = "open"
        PROVE  asLongText(d) \in DOMAIN cache' /\ cache'[asLongText(d)] = d
    <3>1. CASE d = c
      BY <2>2, <3>1
    <3>2. CASE d # c
      <4>1. asLongText(d) \in DOMAIN cache /\ cache[asLongText(d)] = d
        BY <2>3, <2>5, <3>2, SameMap DEF ServerInductive, Server!CacheMatchesChannels
      <4>2. asLongText(d) # asLongText(c)
        BY <3>2, IdsAreUnique
      <4> QED
        BY <2>2, <4>1, <4>2
    <3> QED
      BY <3>1, <3>2
  <2>6. ASSUME NEW k \in DOMAIN cache'
        PROVE  /\ k = asLongText(cache'[k])
               /\ chan'[cache'[k]] \in {"open", "closed"}
    <3>1. CASE k = asLongText(c)
      BY <2>2, <2>3, <3>1
    <3>2. CASE k # asLongText(c)
      <4>1. k \in DOMAIN cache /\ cache'[k] = cache[k] /\ cache[k] \in Channel
        BY <2>1, <2>2, <2>6, <3>2, SessionMapType
      <4>2. k = asLongText(cache[k]) /\ chan[cache[k]] \in {"open", "closed"}
        BY <4>1, SameMap DEF ServerInductive, Server!CacheMatchesChannels
      <4> QED
        BY <2>3, <4>1, <4>2
    <3> QED
      BY <3>1, <3>2
  <2> QED
    BY <2>4, <2>5, <2>6, SameMap DEF ServerInductive, Server!CacheMatchesChannels
<1>7. ASSUME NEW c \in Channel, Server!HeartBeatReq(c)
      PROVE  ServerInductive'
  <2>1. channelSessionCache' = channelSessionCache
    BY <1>7, RemoveSessionDoesNothing, SameMap
    DEF Server!HeartBeatReq, Server!HandlerFails, Server!Close, ServerInductive,
        Server!TypeOK, ChannelId
  <2>2. Server!TypeOK'
    BY <1>7, <2>1
    DEF Server!HeartBeatReq, Server!HandlerFails, Server!Close, ServerInductive, Server!TypeOK
  <2> QED
    BY <1>7, <2>1, <2>2, CacheUntouched
    DEF Server!HeartBeatReq, Server!HandlerFails, Server!Close
<1>8. ASSUME NEW c \in Channel, Server!PeerClose(c) \/ Server!LoopCloses(c)
      PROVE  ServerInductive'
  BY <1>8, MoveOn DEF Server!PeerClose, Server!LoopCloses, Server!ChannelStates
<1> QED
  BY <1>1, <1>2, <1>3, <1>4, <1>5, <1>6, <1>7, <1>8
  DEF Server!Next, Server!ServerNext, Server!ChannelNext

LEMMA ServerInvariance == Server!SafetySpec => []ServerInductive
  BY ServerInitInductive, ServerStepInductive, PTL DEF Server!SafetySpec

-----------------------------------------------------------------------------
\* NettyServer by itself: its variables keep their types, and the cache finds every
\* served channel under its own id and holds no channel that was never initialised, for
\* any number of channels (NettyServer.start, ChannelCache.addSession).
THEOREM ServerIsRight ==
  Server!SafetySpec => [](Server!TypeOK /\ Server!CacheMatchesChannels)
  BY ServerInvariance, PTL DEF ServerInductive

\* The same of the run's specification, in which the server shares the map with the
\* operations of ChannelCache.
THEOREM CacheIsSound == Spec => []CacheMatchesChannels
<1> DEFINE Part == helper = "NettyServer" => ServerInductive
<1>1. Init => Part
  BY ServerInitInductive DEF Init
<1>2. ASSUME Part, [Next]_vars PROVE Part'
  <2>1. CASE UNCHANGED <<helper, channelSessionCache, lockVars, channelVars>> \/ UNCHANGED vars
    <3>1. helper' = helper /\ UNCHANGED (Server!vars)
      BY <2>1 DEF vars, channelVars, Server!vars
    <3> QED
      BY <1>2, <3>1, ServerStepInductive
  <2>2. CASE ServerNext /\ UNCHANGED <<helper, agentVars>>
    <3>1. helper' = helper /\ (helper = "NettyServer" => Server!Next)
      BY <2>2 DEF ServerNext
    <3> QED
      BY <1>2, <3>1, ServerStepInductive
  <2> QED
    BY <1>2, <2>1, <2>2 DEF Next
<1>3. Part => CacheMatchesChannels
  BY DEF CacheMatchesChannels, ServerInductive
<1> QED
  BY <1>1, <1>2, <1>3, PTL DEF Spec
=============================================================================
