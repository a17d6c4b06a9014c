---------------------------- MODULE VueScheduler ----------------------------
(***************************************************************************)
(* How the page's view follows its data: the scheduler of Vue, with the    *)
(* queue of watchers, the flush that runs them, and nextTick, which calls  *)
(* the flush and the page's own callbacks.  A watcher is its id; ids rise  *)
(* with creation, so that a parent comes before its children.              *)
(*                                                                         *)
(* The page's code (watchers, render functions, hooks, callbacks) may      *)
(* change data, create and destroy watchers at every step.  JavaScript     *)
(* runs to completion, so the only concurrency is that of one flush with   *)
(* the code it calls.  The part of the queue that was run is left out:     *)
(* nothing but the calls of the hook "updated" depends on it.  Lazy and    *)
(* sync watchers do not enter the queue.                                   *)
(***************************************************************************)
EXTENDS Naturals, SequencesExt

CONSTANTS
  Watchers,         \* how many watchers there may be
  User,             \* those whose exceptions are caught: user watchers
  Callback,         \* callbacks that the page gives to nextTick
  MaxUpdateCount,   \* how often a watcher may requeue itself in a flush (100)
  Limited,          \* whether the page ever stops changing its data,
  MaxChanges,       \* and after how many changes
  CanThrow          \* whether the patch of a render watcher may throw

Watcher == 1 .. Watchers
None == 0

SchedulerAssumption ==
  /\ Watchers \in Nat /\ User \subseteq Watcher /\ MaxUpdateCount \in Nat
  /\ Limited \in BOOLEAN /\ MaxChanges \in Nat /\ CanThrow \in BOOLEAN
  /\ "flush" \notin Callback

VARIABLES
  life,             \* life[w]: "unborn", "active" or "gone"
  stale,            \* history: the watchers whose data have changed since they ran
  queue,            \* the watchers yet to be run, in order
  has,              \* the watchers that are known to be in the queue
  current,          \* the watcher at the index of the flush, or None
  stage,            \* "out" of the loop, at "next", in the "hook" before a run,
                    \* "before" one without a hook, or in the "run"
  waiting, flushing,
  circular,         \* circular[w]: how often w requeued itself in this flush
  callbacks,        \* what nextTick has collected
  pending,          \* whether a microtask will call it
  copies,           \* what that microtask has yet to call
  owed,             \* history: owed[c]: what was stale when c was given to nextTick
  dropped,          \* history: the watchers in the queue when a loop was broken off
  changes           \* how many changes the page has made

queueVars == <<queue, has, waiting>>
tickVars == <<callbacks, pending, copies>>
historyVars == <<owed, dropped, changes>>
vars ==
  <<life, stale, queueVars, current, stage, flushing, circular, tickVars, historyVars>>

Active == {w \in Watcher : life[w] = "active"}

TypeOK ==
  /\ life \in [Watcher -> {"unborn", "active", "gone"}]
  /\ stale \subseteq Watcher
  /\ queue \in Seq(Watcher)
  /\ has \subseteq Watcher
  /\ current \in Watcher \cup {None}
  /\ stage \in {"out", "next", "hook", "before", "run"}
  /\ waiting \in BOOLEAN /\ flushing \in BOOLEAN
  /\ circular \in [Watcher -> 0 .. MaxUpdateCount + 1]
  /\ callbacks \in Seq(Callback \cup {"flush"}) /\ copies \in Seq(Callback \cup {"flush"})
  /\ pending \in BOOLEAN
  /\ owed \in [Callback -> SUBSET Watcher]
  /\ dropped \subseteq Watcher
  /\ changes \in 0 .. MaxChanges

Init ==
  /\ life = [w \in Watcher |-> "unborn"]
  /\ stale = {} /\ queue = <<>> /\ has = {}
  /\ current = None /\ stage = "out"
  /\ waiting = FALSE /\ flushing = FALSE
  /\ circular = [w \in Watcher |-> 0]
  /\ callbacks = <<>> /\ pending = FALSE /\ copies = <<>>
  /\ owed = [c \in Callback |-> {}]
  /\ dropped = {} /\ changes = 0

-----------------------------------------------------------------------------
\* Faulty variant: the newest callback is called first.
NextTickNewestFirst(f) ==
  /\ callbacks' = <<f>> \o callbacks
  /\ pending' = TRUE
  /\ UNCHANGED copies

\* nextTick(f), before the microtask runs or while it does.
NextTick(f) ==
  /\ callbacks' = Append(callbacks, f)
  /\ pending' = TRUE
  /\ UNCHANGED copies

\* Faulty variant: a watcher is put behind all others, flushing or not.
SplicedAtEnd(w) == Append(queue, w)

\* Before a flush a watcher is pushed; during one it is put behind the last one
\* with a smaller id, at the earliest next to the one that is run.
Spliced(w) ==
  IF ~flushing THEN Append(queue, w)
  ELSE InsertAt(queue, 1 + Max({0} \cup {i \in DOMAIN queue : queue[i] <= w}), w)

\* queue.sort, by ids; no two are equal.
Sorted ==
  CHOOSE s \in [DOMAIN queue -> ToSet(queue)] :
    /\ ToSet(s) = ToSet(queue)
    /\ \A i, j \in DOMAIN s : i < j => s[i] < s[j]

queueWatcher(w) ==
  IF w \in has THEN UNCHANGED <<queueVars, tickVars>>
  ELSE /\ has' = has \cup {w}
       /\ queue' = Spliced(w)
       /\ waiting' = TRUE
       /\ IF waiting THEN UNCHANGED tickVars ELSE NextTick("flush")

\* Between two runs no code of the page runs.
PageRuns == stage \in {"out", "hook", "run"}

\* The page changes data of an active watcher, or forces the update of one, which
\* may be gone.
Update(w) ==
  /\ PageRuns
  /\ life[w] # "unborn"
  /\ Limited => changes < MaxChanges
  /\ changes' = IF Limited THEN changes + 1 ELSE changes
  /\ stale' = IF w \in Active THEN stale \cup {w} ELSE stale
  /\ dropped' = dropped \ {w}
  /\ queueWatcher(w)
  /\ UNCHANGED <<life, current, stage, flushing, circular, owed>>

\* A watcher is created, and evaluated at once.
Create(w) ==
  /\ PageRuns
  /\ life[w] = "unborn" /\ \A v \in 1 .. w - 1 : life[v] # "unborn"
  /\ life' = [life EXCEPT ![w] = "active"]
  /\ UNCHANGED <<stale, queueVars, current, stage, flushing, circular, tickVars, historyVars>>

\* A watcher is torn down, with its component or alone; it may stay in the queue.
Teardown(w) ==
  /\ PageRuns
  /\ life[w] = "active"
  /\ life' = [life EXCEPT ![w] = "gone"]
  /\ stale' = stale \ {w}
  /\ owed' = [c \in Callback |-> owed[c] \ {w}]
  /\ dropped' = dropped \ {w}
  /\ UNCHANGED <<queueVars, current, stage, flushing, circular, tickVars, changes>>

\* The page gives a callback to nextTick, to be called when its changes show.
CallNextTick(c) ==
  /\ PageRuns
  /\ c \notin ToSet(callbacks) \cup ToSet(copies)
  /\ NextTick(c)
  /\ owed' = [owed EXCEPT ![c] = stale \ dropped]
  /\ UNCHANGED <<life, stale, queueVars, current, stage, flushing, circular, dropped, changes>>

-----------------------------------------------------------------------------
\* Faulty variant: what was collected is emptied before it is copied.
flushCallbacksEmptied ==
  /\ pending /\ copies = <<>> /\ stage = "out"
  /\ pending' = FALSE
  /\ callbacks' = <<>>
  /\ UNCHANGED copies
  /\ UNCHANGED <<life, stale, queueVars, current, stage, flushing, circular, historyVars>>

\* The microtask takes over what was collected, and calls it in order.
flushCallbacks ==
  /\ pending /\ copies = <<>> /\ stage = "out"
  /\ pending' = FALSE
  /\ copies' = callbacks
  /\ callbacks' = <<>>
  /\ UNCHANGED <<life, stale, queueVars, current, stage, flushing, circular, historyVars>>

\* A callback of the page; what it does are the steps that follow.
RunCallback(c) ==
  /\ stage = "out" /\ copies # <<>> /\ Head(copies) = c
  /\ copies' = Tail(copies)
  /\ owed' = [owed EXCEPT ![c] = {}]
  /\ UNCHANGED <<life, stale, queueVars, current, stage, flushing, circular, callbacks,
                 pending, dropped, changes>>

\* The flush begins: the queue is sorted by id.
flushSchedulerQueue ==
  /\ stage = "out" /\ copies # <<>> /\ Head(copies) = "flush"
  /\ copies' = Tail(copies)
  /\ flushing' = TRUE
  /\ queue' = Sorted
  /\ stage' = "next"
  /\ UNCHANGED <<life, stale, has, waiting, current, circular, callbacks, pending, historyVars>>

\* The next watcher; its hook beforeUpdate, which a render watcher has until it is
\* destroyed, runs while the queue still has it.
Take ==
  /\ stage = "next" /\ queue # <<>>
  /\ current' = Head(queue)
  /\ queue' = Tail(queue)
  /\ stage' = IF Head(queue) \in Active \ User THEN "hook" ELSE "before"
  /\ UNCHANGED <<life, stale, has, waiting, flushing, circular, tickVars, historyVars>>

\* The watcher is run, if it is active: it reads its data, and the page's code that
\* is called does what the steps that follow say.
Run ==
  /\ stage \in {"hook", "before"}
  /\ has' = has \ {current}
  /\ stage' = IF current \in Active THEN "run" ELSE "next"
  /\ IF current \in Active
     THEN /\ stale' = stale \ {current}
          /\ owed' = [c \in Callback |-> owed[c] \ {current}]
          /\ dropped' = dropped \ {current}
     ELSE UNCHANGED <<stale, owed, dropped>>
  /\ UNCHANGED <<life, queue, waiting, current, flushing, circular, tickVars, changes>>

\* Faulty variant: the queue is emptied, and has still says what was in it.
ResetKeepsHas ==
  /\ current' = None /\ stage' = "out"
  /\ queue' = <<>> /\ UNCHANGED has
  /\ circular' = [w \in Watcher |-> 0]
  /\ waiting' = FALSE /\ flushing' = FALSE

\* resetSchedulerState
Reset ==
  /\ current' = None /\ stage' = "out"
  /\ queue' = <<>> /\ has' = {}
  /\ circular' = [w \in Watcher |-> 0]
  /\ waiting' = FALSE /\ flushing' = FALSE

\* Faulty variant: watchers that requeue themselves are counted, and go on.
RanUnchecked ==
  /\ stage = "run"
  /\ circular' = IF current \in has THEN [circular EXCEPT ![current] = @ + 1] ELSE circular
  /\ stage' = "next"
  /\ UNCHANGED <<life, stale, queueVars, current, flushing, tickVars, historyVars>>

\* The run is over.  A watcher that has requeued itself too often ends the flush,
\* and whatever else is in the queue is forgotten with it.
Ran ==
  /\ stage = "run"
  /\ LET again == current \in has
         count == circular[current] + 1
     IN  \/ /\ again /\ count > MaxUpdateCount
            /\ Reset
            /\ dropped' = dropped \cup (has \cap stale)
            /\ owed' = [c \in Callback |-> owed[c] \ has]
         \/ /\ again => count <= MaxUpdateCount
            /\ circular' = IF again THEN [circular EXCEPT ![current] = count] ELSE circular
            /\ stage' = "next"
            /\ UNCHANGED <<queueVars, current, flushing, dropped, owed>>
  /\ UNCHANGED <<life, stale, tickVars, changes>>

\* Variant: the flush resets the scheduler, however it ends.
ThrowResets ==
  /\ CanThrow
  /\ stage = "run" /\ current \notin User
  /\ Reset
  /\ UNCHANGED <<life, stale, tickVars, historyVars>>

\* The patch of a render watcher throws.  nextTick catches what left the flush, and
\* nobody resets the scheduler.
Throw ==
  /\ CanThrow
  /\ stage = "run" /\ current \notin User
  /\ stage' = "out"
  /\ UNCHANGED <<life, stale, queueVars, current, flushing, circular, tickVars, historyVars>>

\* The queue is empty.
Finish ==
  /\ stage = "next" /\ queue = <<>>
  /\ Reset
  /\ UNCHANGED <<life, stale, tickVars, historyVars>>

Page ==
  \/ \E w \in Watcher : Update(w) \/ Create(w) \/ Teardown(w)
  \/ \E c \in Callback : CallNextTick(c)

Loop ==
  \/ flushCallbacks
  \/ \E c \in Callback : RunCallback(c)
  \/ flushSchedulerQueue
  \/ Take \/ Run \/ Ran \/ Finish

Next == Page \/ Loop \/ Throw

\* Microtasks are run, and what they call goes on and returns.
Fairness == WF_vars(Loop)

SafetySpec == Init /\ [][Next]_vars
Spec == SafetySpec /\ Fairness

-----------------------------------------------------------------------------
\* A flush is on its way: it was given to nextTick, or it is in its loop.
FlushIsComing == stage # "out" \/ "flush" \in ToSet(callbacks \o copies)

\* An exception has left the flush.
Broken == flushing /\ stage = "out"

\* Property (safety).  No change is lost, wherever it is made: a watcher whose data
\* have changed is ahead of a flush that is on its way, or about to be run by it.
\* The exceptions are the two ways in which a flush may fail.
NothingIsLost ==
  \A w \in stale \ dropped :
    /\ w \in ToSet(queue) \/ (current = w /\ stage \in {"hook", "before"}) \/ Broken
    /\ FlushIsComing \/ Broken

\* Property (safety).  A flush runs parents before children and each watcher once
\* for any number of changes, changes made by watchers that run included.
RunsInOrder ==
  flushing => \A i, j \in DOMAIN queue : i < j => queue[i] < queue[j]

\* Property (action).  What nextTick calls finds the view up to date with all
\* changes that were made before it was given the callback.
TickSeesChanges ==
  [][\A c \in Callback :
       copies # <<>> /\ Head(copies) = c /\ copies' = Tail(copies) => owed[c] = {} \/ Broken]_vars

\* Property (action).  A patch that throws once ends all updates of the page: what is
\* queued then or later is never run, although the exception was caught.
ThrowIsFinal ==
  [][Broken => Broken' /\ \A w \in stale : w \in stale' \/ life'[w] = "gone"]_vars

\* Property (liveness).  The view catches up: if the page stops changing its data,
\* each change shows, unless its watcher is torn down.
ViewCatchesUp == \A w \in Watcher : w \in stale ~> w \notin stale
=============================================================================
