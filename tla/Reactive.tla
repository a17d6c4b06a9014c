------------------------------ MODULE Reactive ------------------------------
(***************************************************************************)
(* How Vue knows what to compute again: the dependencies of watchers on    *)
(* data, collected while a getter runs and compared with those of its last *)
(* run; computed properties, which keep their value until one of their     *)
(* dependencies changes; and the render watcher, which reads both.  When   *)
(* the render watcher runs is VueScheduler.tla.                            *)
(*                                                                         *)
(* A getter is "p && q" with any two operands, so that what it reads       *)
(* depends on what it has read.  Operands are data or computed properties  *)
(* created before.  Which getters there are, and whether they set data or  *)
(* throw, is chosen in Init.  Data are primitive: the dependencies of      *)
(* nested objects work the same way.  An array of dependencies without     *)
(* duplicates and the set of their ids are one set here.                   *)
(***************************************************************************)
EXTENDS Integers, Sequences

CONSTANTS
  Data,             \* data properties
  Computeds         \* how many computed properties there are

ReactiveAssumption == Computeds \in Nat /\ Data \cap (1 .. Computeds + 1) = {}

\* A watcher is its id.
Computed == 1 .. Computeds
View == Computeds + 1
Watcher == 1 .. View

VARIABLES
  getter,           \* getter[w]: the two operands
  pure, throws,     \* whether getters leave the data alone, and whether they may throw
  val,              \* val[d]: the value of d
  cache, dirty,     \* cache[c], dirty[c]: the value of the watcher of c, and whether
                    \* it has to be evaluated
  queued,           \* whether the render watcher is in the queue
  shown,            \* what was rendered
  deps, newDeps,    \* deps[w]: the dependencies of w's last run, and of this one
  subs,             \* subs[d]: the watchers that d notifies
  targetStack,      \* the evaluations in progress, the innermost first: a watcher,
                    \* the operand that it is at, 3 at the end, and its result
  back,             \* whether the evaluation of an operand has just returned
  failed            \* history: whether the last render has thrown

depVars == <<deps, newDeps, subs>>
stackVars == <<targetStack, back>>
getterVars == <<getter, pure, throws>>
vars == <<getterVars, val, cache, dirty, queued, shown, depVars, stackVars, failed>>

Operands(w) == Data \cup 1 .. w - 1

TypeOK ==
  /\ \A w \in Watcher : getter[w] \in Operands(w) \X Operands(w)
  /\ pure \in BOOLEAN /\ throws \in BOOLEAN
  /\ val \in [Data -> BOOLEAN]
  /\ cache \in [Computed -> BOOLEAN] /\ dirty \in [Computed -> BOOLEAN]
  /\ queued \in BOOLEAN /\ shown \in BOOLEAN
  /\ deps \in [Watcher -> SUBSET Data] /\ newDeps \in [Watcher -> SUBSET Data]
  /\ subs \in [Data -> SUBSET Watcher]
  /\ targetStack \in Seq([watcher : Watcher, operand : 1 .. 3, result : BOOLEAN])
  /\ \A i, j \in DOMAIN targetStack :
       i < j => targetStack[i].watcher < targetStack[j].watcher
  /\ back \in BOOLEAN /\ failed \in BOOLEAN

\* The component is created; its first render is about to begin.
Init ==
  /\ getter \in [Watcher -> (Data \cup Computed) \X (Data \cup Computed)]
  /\ \A w \in Watcher : getter[w] \in Operands(w) \X Operands(w)
  /\ pure \in BOOLEAN /\ throws \in BOOLEAN
  /\ val \in [Data -> BOOLEAN]
  /\ cache = [c \in Computed |-> FALSE] /\ dirty = [c \in Computed |-> TRUE]
  /\ queued = TRUE /\ shown = FALSE
  /\ deps = [w \in Watcher |-> {}] /\ newDeps = deps
  /\ subs = [d \in Data |-> {}]
  /\ targetStack = <<>>
  /\ back = FALSE /\ failed = FALSE

InGetter == targetStack # <<>>
frame == Head(targetStack)
target == frame.watcher
Reads(n) == InGetter /\ frame.operand # 3 /\ getter[target][frame.operand] = n

-----------------------------------------------------------------------------
\* get: the watcher becomes the target, and its getter begins.
Begin(w) ==
  /\ targetStack' = <<[watcher |-> w, operand |-> 1, result |-> FALSE]>> \o targetStack
  /\ back' = FALSE

\* The getter of the target has the value of an operand: "&&" goes on if it is true.
Continue(v) ==
  /\ LET operand == IF v THEN frame.operand + 1 ELSE 3
     IN  targetStack' = [targetStack EXCEPT
                           ![1] = [watcher |-> target, operand |-> operand, result |-> v]]
  /\ back' = FALSE

\* Faulty variant: a watcher that has dependencies already makes no subscription.
AddDepsOnce(ds) ==
  /\ newDeps' = [newDeps EXCEPT ![target] = @ \cup ds]
  /\ subs' = [d \in Data |-> IF d \in ds /\ deps[target] = {} THEN subs[d] \cup {target}
                             ELSE subs[d]]
  /\ UNCHANGED deps

\* addDep for some dependencies: the target subscribes to those it did not have.
AddDeps(ds) ==
  /\ newDeps' = [newDeps EXCEPT ![target] = @ \cup ds]
  /\ subs' = [d \in Data |-> IF d \in ds \ (newDeps[target] \cup deps[target])
                               THEN subs[d] \cup {target} ELSE subs[d]]
  /\ UNCHANGED deps

\* Faulty variant: what was not read this time stays.
KeepDeps(ws) ==
  /\ deps' = [w \in Watcher |-> IF w \in ws THEN deps[w] \cup newDeps[w] ELSE deps[w]]
  /\ newDeps' = [w \in Watcher |-> IF w \in ws THEN {} ELSE newDeps[w]]
  /\ UNCHANGED subs

\* cleanupDeps for some watchers: they leave what they did not read this time.
CleanupDeps(ws) ==
  /\ deps' = [w \in Watcher |-> IF w \in ws THEN newDeps[w] ELSE deps[w]]
  /\ newDeps' = [w \in Watcher |-> IF w \in ws THEN {} ELSE newDeps[w]]
  /\ subs' = [d \in Data |-> subs[d] \ {w \in ws : d \in deps[w] \ newDeps[w]}]

-----------------------------------------------------------------------------
\* Faulty variant: a computed property that is dirty already tells nobody.
NotifyClean(d) ==
  /\ dirty' = [c \in Computed |-> dirty[c] \/ c \in subs[d]]
  /\ queued' = (queued \/ (View \in subs[d] /\ \A c \in subs[d] \cap Computed : ~dirty[c]))

\* notify: lazy watchers become dirty, the render watcher is queued.
Notify(d) ==
  /\ dirty' = [c \in Computed |-> dirty[c] \/ c \in subs[d]]
  /\ queued' = (queued \/ View \in subs[d])

\* The page sets a property, between evaluations or in a getter.
Set(d) ==
  /\ InGetter => ~pure /\ ~back
  /\ val' = [val EXCEPT ![d] = ~@]
  /\ Notify(d)
  /\ UNCHANGED <<getterVars, cache, shown, depVars, stackVars, failed>>

\* The render watcher is run.
RunView ==
  /\ ~InGetter /\ queued
  /\ queued' = FALSE
  /\ Begin(View)
  /\ UNCHANGED <<getterVars, val, cache, dirty, shown, depVars, failed>>

\* The page reads a computed property that is dirty.
ReadOutside(c) ==
  /\ ~InGetter /\ dirty[c]
  /\ Begin(c)
  /\ UNCHANGED <<getterVars, val, cache, dirty, queued, shown, depVars, failed>>

ReadData(d) ==
  /\ Reads(d)
  /\ AddDeps({d})
  /\ Continue(val[d])
  /\ UNCHANGED <<getterVars, val, cache, dirty, queued, shown, failed>>

\* A getter reads a computed property that has to be evaluated first.
Evaluate(c) ==
  /\ Reads(c) /\ dirty[c] /\ ~back
  /\ Begin(c)
  /\ UNCHANGED <<getterVars, val, cache, dirty, queued, shown, depVars, failed>>

\* Faulty variant: the target depends on a computed property only when it evaluates it.
ReadCachedAlone(c) ==
  /\ Reads(c) /\ (back \/ ~dirty[c])
  /\ AddDeps(IF back THEN deps[c] ELSE {})
  /\ Continue(cache[c])
  /\ UNCHANGED <<getterVars, val, cache, dirty, queued, shown, failed>>

\* It has been evaluated just now or before: the target depends on its dependencies.
ReadCached(c) ==
  /\ Reads(c) /\ (back \/ ~dirty[c])
  /\ AddDeps(deps[c])
  /\ Continue(cache[c])
  /\ UNCHANGED <<getterVars, val, cache, dirty, queued, shown, failed>>

\* The getter of the target returns.
Return ==
  /\ InGetter /\ frame.operand = 3
  /\ targetStack' = Tail(targetStack)
  /\ back' = (Len(targetStack) > 1)
  /\ CleanupDeps({target})
  /\ IF target = View
       THEN /\ shown' = frame.result /\ failed' = FALSE
            /\ UNCHANGED <<cache, dirty>>
       ELSE /\ cache' = [cache EXCEPT ![target] = frame.result]
            /\ dirty' = [dirty EXCEPT ![target] = FALSE]
            /\ UNCHANGED <<shown, failed>>
  /\ UNCHANGED <<getterVars, val, queued>>

\* A getter throws: each watcher on the stack ends without a value, and the render,
\* if there is one, shows what it has shown.
Throw ==
  /\ throws /\ InGetter /\ ~back
  /\ LET evaluated == {targetStack[i].watcher : i \in DOMAIN targetStack}
     IN  /\ CleanupDeps(evaluated)
         /\ failed' = (failed \/ View \in evaluated)
  /\ targetStack' = <<>>
  /\ UNCHANGED <<getterVars, val, cache, dirty, queued, shown, back>>

Next ==
  \/ \E d \in Data : Set(d) \/ ReadData(d)
  \/ RunView
  \/ \E c \in Computed : ReadOutside(c) \/ Evaluate(c) \/ ReadCached(c)
  \/ Return
  \/ Throw

Spec == Init /\ [][Next]_vars

-----------------------------------------------------------------------------
\* What the getters stand for, by their definition alone: True[n] and Read[n] of a
\* watcher are its value and the data that its evaluation reads.
True ==
  LET value[w \in Watcher] ==
        LET of(n) == IF n \in Data THEN val[n] ELSE value[n]
        IN  of(getter[w][1]) /\ of(getter[w][2])
  IN  value

Read ==
  LET data[w \in Watcher] ==
        LET value(n) == IF n \in Data THEN val[n] ELSE True[n]
            of(n) == IF n \in Data THEN {n} ELSE data[n]
        IN  of(getter[w][1]) \cup IF value(getter[w][1]) THEN of(getter[w][2]) ELSE {}
  IN  data

\* Property (safety).  At every moment, during evaluations too, a property notifies
\* exactly the watchers that depend on it by their last run or by the present one.
SubsAgree ==
  \A d \in Data : subs[d] = {w \in Watcher : d \in deps[w] \cup newDeps[w]}

\* Property (safety).  With pure getters, a computed property that is not dirty has
\* the value that its getter would return now, however long the chain of computed
\* properties behind it, and whichever evaluations have thrown.
CacheIsFresh ==
  pure => \A c \in Computed : ~dirty[c] => cache[c] = True[c]

\* Property (safety).  With pure getters, a view that is not queued shows what
\* rendering would give now, unless the last render has thrown.
ViewIsFresh ==
  pure /\ ~InGetter /\ ~queued /\ ~failed => shown = True[View]

\* Property (safety).  With pure getters, dependencies are exact: those of the branch
\* taken, through computed properties, and none of a branch that is not taken any
\* longer.
DepsAreExact ==
  pure =>
    /\ \A c \in Computed : ~dirty[c] => deps[c] = Read[c]
    /\ ~InGetter /\ ~queued /\ ~failed => deps[View] = Read[View]
=============================================================================
