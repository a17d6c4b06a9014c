----------------------------- MODULE MCHelpers ------------------------------
(***************************************************************************)
(* The parts that meet no other one but by what they return, for TLC: on   *)
(* the agent's side HeartBeat, PathUtil and TomasClassloader, on the       *)
(* server's ChannelCache, step by step, and NettyServer, which uses the    *)
(* cache's operations as single steps.  A behaviour is one of a single     *)
(* part, chosen in its initial state; the others stay as they were         *)
(* created.                                                                *)
(***************************************************************************)
EXTENDS Naturals, ChannelCache

CONSTANTS
  Timer, NoTimer, MaxInbox,                 \* of HeartBeat
  Seeker, File, Loader, Threshold,          \* of PathUtil
  Name, Jdk, Own, Parents                   \* of TomasClassloader, with Thread

VARIABLES
  helper,           \* the one that runs
  heartBeat, timer, inbox, open, requested,
  exists, map, atSeeker, file, sought, loader, seen, vanished, raced,
  at, name, lock, defined, answers, unread, duplicates,
  listening, groups, chan, closeRequested

beatVars == <<heartBeat, timer, inbox, open, requested>>
pathVars == <<exists, map, atSeeker, file, sought, loader, seen, vanished, raced>>
loadVars == <<at, name, lock, defined, answers, unread, duplicates>>
lockVars == <<writer, readers, pc, op, answer>>
channelVars == <<listening, groups, chan, closeRequested>>
agentVars == <<beatVars, pathVars, loadVars>>
vars == <<helper, agentVars, channelSessionCache, lockVars, channelVars>>

Beats == INSTANCE HeartBeat
Paths == INSTANCE PathUtil WITH
  Thread <- Seeker, Name <- File, at <- atSeeker, name <- sought
Loads == INSTANCE TomasClassloader
Server == INSTANCE NettyServer

ASSUME HelpersAssumption ==
  Beats!HeartBeatAssumption /\ Paths!PathAssumption /\ Loads!LoaderAssumption

Init ==
  /\ helper \in {"HeartBeat", "PathUtil", "TomasClassloader", "ChannelCache", "NettyServer"}
  /\ helper # "PathUtil" => exists = [f \in File |-> {}]
  /\ Beats!Init /\ Paths!Init /\ Loads!Init
  /\ CacheInit /\ Server!Init

AgentNext ==
  \/ helper = "HeartBeat" /\ Beats!Next /\ UNCHANGED <<pathVars, loadVars>>
  \/ helper = "PathUtil" /\ Paths!Next /\ UNCHANGED <<beatVars, loadVars>>
  \/ helper = "TomasClassloader" /\ Loads!Next /\ UNCHANGED <<beatVars, pathVars>>

ServerNext ==
  \/ helper = "ChannelCache" /\ CacheNext /\ UNCHANGED channelVars
  \/ helper = "NettyServer" /\ Server!Next /\ UNCHANGED lockVars

Next ==
  \/ AgentNext /\ UNCHANGED <<helper, channelSessionCache, lockVars, channelVars>>
  \/ ServerNext /\ UNCHANGED <<helper, agentVars>>

Spec == Init /\ [][Next]_vars /\ CacheFairness

-----------------------------------------------------------------------------
\* Property (safety).  HeartBeat: the task that runs is the one that an error can
\* cancel, whatever acceptances, errors and failed tasks came before.
HeartBeatsAreContained == Beats!TypeOK /\ Beats!RunningIsHeld

\* Property (safety).  PathUtil: what is found was there at some moment of the call,
\* null is answered only in a race for the map, and only a file that vanishes is
\* cached, or makes the last two places be looked at.
PathAnswersAreRight ==
  /\ [](Paths!TypeOK /\ Paths!CacheNeedsVanishing /\ Paths!FallbackNeedsVanishing)
  /\ Paths!FoundWasThere
  /\ Paths!NullNeedsRace

\* Property (safety).  TomasClassloader: no class is defined twice, and but for reads
\* that fail one name is one class, the JDK's from the parent and the loader's own
\* from its URLs.
ClassesAreRight ==
  Loads!TypeOK /\ Loads!DefinedOnce /\ Loads!OneClassPerName /\ Loads!RightLoader

\* Property (safety).  NettyServer: a channel that is served is found in the cache under
\* its own id, and no channel is found that was never initialised.
CacheMatchesChannels ==
  helper = "NettyServer" => Server!TypeOK /\ Server!CacheMatchesChannels
=============================================================================
