----------------------------- MODULE SessionMap -----------------------------
(***************************************************************************)
(* The map behind ChannelCache: which channels the server keeps, under     *)
(* which text, and what each of the four cache operations does to it when  *)
(* it runs alone.  ChannelCache.tla checks that the lock makes them run    *)
(* alone; NettyServer.tla uses them as single steps.                       *)
(***************************************************************************)
CONSTANT Channel          \* the channels (connections) of the server

VARIABLE channelSessionCache   \* ChannelCache.channelSessionCache: the map

\* channel.id().asLongText(): the text that identifies a channel, globally.
asLongText(c) == <<"long text", c>>

ChannelId == {asLongText(c) : c \in Channel}

\* A Channel object never equals a String.
ASSUME ChannelAssumption == Channel \cap ChannelId = {}

\* The maps from ids to channels.
SessionMaps == UNION {[S -> Channel] : S \in SUBSET ChannelId}

EmptyMap == [k \in {} |-> k]

ContainsKey(map, k) == k \in DOMAIN map
ContainsValue(map, v) == \E k \in DOMAIN map : map[k] = v

\* map.put(channel.id().asLongText(), channel)
Put(map, c) ==
  [k \in DOMAIN map \cup {asLongText(c)} |-> IF k = asLongText(c) THEN c ELSE map[k]]

\* map.remove(channelId)
Without(map, k) == [i \in DOMAIN map \ {k} |-> map[i]]

\* removeSession asks whether the id is one of the VALUES of the map.
RemoveSession(map, k) == IF ContainsValue(map, k) THEN Without(map, k) ELSE map
=============================================================================
