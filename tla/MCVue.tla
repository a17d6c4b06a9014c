------------------------------- MODULE MCVue --------------------------------
(***************************************************************************)
(* The algorithms of the page's libraries that share no state here, for    *)
(* TLC: Reactive, VueScheduler and UpdateChildren.  A behaviour is one of  *)
(* a single part, chosen in its initial state; the others stay as they     *)
(* are.                                                                    *)
(*                                                                         *)
(* Getters that neither set data nor throw are in a chain of two computed  *)
(* properties; for the others there is one.  Lists are long and of one     *)
(* kind of child, or short and of two kinds.                               *)
(***************************************************************************)
EXTENDS Naturals, TLC

CONSTANTS
  Data, Computeds,                          \* of Reactive
  Watchers, User, Callback, MaxUpdateCount, \* of VueScheduler
  Key, NoKey, Kind, LongList, ShortList     \* of UpdateChildren

VARIABLES
  part,             \* the one that runs
  getter, pure, throws, val, cache, dirty, queued, shown, deps, newDeps, subs, targetStack, back, failed,
  life, stale, queue, has, current, stage, waiting, flushing, circular, callbacks, pending,
  copies, owed, dropped, changes,
  oldCh, newCh, cleared, oldStart, oldEnd, newStart, newEnd, oldKeyToIdx, elm, dom, phase

getterVars ==
  <<getter, pure, throws, val, cache, dirty, queued, shown, deps, newDeps, subs, targetStack, back, failed>>
queueVars ==
  <<life, stale, queue, has, current, stage, waiting, flushing, circular, callbacks, pending,
    copies, owed, dropped, changes>>
childVars ==
  <<oldCh, newCh, cleared, oldStart, oldEnd, newStart, newEnd, oldKeyToIdx, elm, dom, phase>>
vars == <<part, getterVars, queueVars, childVars>>

React == INSTANCE Reactive
Queue == INSTANCE VueScheduler WITH Limited <- FALSE, MaxChanges <- 0, CanThrow <- TRUE
Children == INSTANCE UpdateChildren WITH MaxChildren <- LongList, stage <- phase

ASSUME VueAssumption ==
  /\ React!ReactiveAssumption /\ Queue!SchedulerAssumption /\ Children!ChildrenAssumption

\* Bound: getters that set data or throw have one computed property; a second one is
\* like it, and nobody reads it.
FewGetters ==
  \/ pure /\ ~throws
  \/ throws /\ getter[2] = getter[1] /\ 2 \notin {getter[3][1], getter[3][2]}

Updates == part \in {"Long", "Short"}

\* Bound: lists are long and of one kind, or short.
Lists ==
  LET kinds == IF part = "Long" THEN {CHOOSE k \in Kind : TRUE} ELSE Kind
      longest == CASE part = "Long" -> LongList
                   [] part = "Short" -> ShortList
                   [] OTHER -> 0
  IN  UNION {[1 .. n -> [key : Key \cup {NoKey}, kind : kinds]] : n \in 0 .. longest}

Init ==
  /\ part \in {"Reactive", "Queue", "Long", "Short"}
  /\ part # "Reactive" => \E d \in Data :
       /\ val = [e \in Data |-> TRUE] /\ getter = [w \in React!Watcher |-> <<d, d>>]
       /\ pure = TRUE /\ throws = FALSE
  /\ React!Init
  /\ part = "Reactive" => FewGetters
  /\ Queue!Init
  /\ oldCh \in Lists /\ newCh \in Lists
  /\ Children!Init

Next ==
  \/ part = "Reactive" /\ React!Next /\ UNCHANGED <<part, queueVars, childVars>>
  \/ part = "Queue" /\ Queue!Next /\ UNCHANGED <<part, getterVars, childVars>>
  \/ Updates /\ Children!Next /\ UNCHANGED <<part, getterVars, queueVars>>

Spec == Init /\ [][Next]_vars

Symmetry == Permutations(Data)

-----------------------------------------------------------------------------
\* Property (safety).  Reactive: data notify exactly the watchers that depend on them;
\* with pure getters, dependencies are what was read, cached values are never stale,
\* and the view shows the data.
DependenciesAreRight ==
  /\ React!TypeOK /\ React!SubsAgree
  /\ React!DepsAreExact /\ React!CacheIsFresh /\ React!ViewIsFresh

\* Property (safety).  VueScheduler: no change is lost, wherever it is made; a flush runs
\* parents before children; callbacks of nextTick see the changes before them; and
\* after a patch that throws no watcher runs again.
ChangesAreKept ==
  /\ [](Queue!TypeOK /\ Queue!NothingIsLost /\ Queue!RunsInOrder)
  /\ Queue!TickSeesChanges
  /\ Queue!ThrowIsFinal

\* Property (safety).  UpdateChildren: the document is in order at every round, children
\* with one key and kind share an element, and a TypeError takes duplicate new keys.
ChildrenAreRight ==
  Updates =>
    /\ Children!TypeOK /\ Children!DocumentIsInOrder
    /\ Children!KeysKeepElements /\ Children!ThrowNeedsDuplicates
=============================================================================
