--------------------------- MODULE AsyncComponent ---------------------------
(***************************************************************************)
(* A component that Vue has to load (resolveAsyncComponent of vue.js): the *)
(* instances that render it before it is there, its owners, show a         *)
(* placeholder, and have to be rendered again when it comes.  One factory  *)
(* serves all of them.  The page's factory is that of http-vue-loader,     *)
(* which returns a promise alone (ComponentLoader.tla); Vue also takes     *)
(* factories with a component for errors, one for loading with a delay,    *)
(* and a timeout, and factories that return nothing and call resolve or    *)
(* reject, which may happen before they return.  Calling them later is     *)
(* what a promise does.  A factory that returns a promise and calls them   *)
(* as well is left out.                                                    *)
(*                                                                         *)
(* The queue of renders is VueScheduler.tla; here a forced render is to be *)
(* done at some time.  owners is a set: indexOf keeps its array free of    *)
(* duplicates, and its order has no effect.  A promise never settles while *)
(* the factory is being called: "sync" is on for a call of resolve alone.  *)
(***************************************************************************)
EXTENDS Naturals

CONSTANTS
  Owner,            \* the instances that may render the component
  NoOwner,
  ErrorComp,        \* what a factory may return beside its promise: a component
  LoadingComp,      \* for errors, one for loading ("none", "at once", "delayed"),
  Timeout,          \* and a timeout; each a set of possible values
  Early             \* what it may call before it returns: "none" if it returns a
                    \* promise, "resolve" or "reject" if it returns nothing

FactoryAssumption ==
  /\ NoOwner \notin Owner
  /\ ErrorComp \subseteq BOOLEAN /\ Timeout \subseteq BOOLEAN
  /\ LoadingComp \subseteq {"none", "at once", "delayed"}
  /\ Early \subseteq {"none", "resolve", "reject"}

VARIABLES
  life,             \* life[o]: "unborn", "live" or "gone"
  shows,            \* shows[o]: what o has rendered for the component
  dirty,            \* the owners whose render watcher is queued
  owners, first,    \* factory.owners, and the owner that called the factory
  promise,          \* the factory's: "none", "pending", "fulfilled" or "rejected"
  errorComp,        \* whether there is a factory.errorComp
  resolved, error, loading,  \* the other fields of the factory
  rejected,         \* whether reject was called
  timerLoading, timerTimeout \* whether the timer is set

fieldVars == <<errorComp, resolved, error, loading, rejected>>
timerVars == <<timerLoading, timerTimeout>>
factoryVars == <<owners, first, promise, fieldVars, timerVars>>
vars == <<life, shows, dirty, factoryVars>>

Live == {o \in Owner : life[o] = "live"}

TypeOK ==
  /\ life \in [Owner -> {"unborn", "live", "gone"}]
  /\ shows \in [Owner -> {"nothing", "placeholder", "loading", "error", "component"}]
  /\ dirty \subseteq Live
  /\ owners \subseteq Owner
  /\ first \in Owner \cup {NoOwner}
  /\ promise \in {"none", "pending", "fulfilled", "rejected"}
  /\ errorComp \in BOOLEAN /\ resolved \in BOOLEAN /\ error \in BOOLEAN
  /\ loading \in BOOLEAN /\ rejected \in BOOLEAN
  /\ timerLoading \in BOOLEAN /\ timerTimeout \in BOOLEAN

Init ==
  /\ life = [o \in Owner |-> "unborn"]
  /\ shows = [o \in Owner |-> "nothing"]
  /\ dirty = {}
  /\ owners = {} /\ first = NoOwner
  /\ promise = "none"
  /\ errorComp = FALSE /\ resolved = FALSE /\ error = FALSE
  /\ loading = FALSE /\ rejected = FALSE
  /\ timerLoading = FALSE /\ timerTimeout = FALSE

\* What the factory's fields stand for.
Answer(e, r, l) ==
  CASE e -> "error"
    [] ~e /\ r -> "component"
    [] ~e /\ ~r /\ l -> "loading"
    [] OTHER -> "placeholder"

Current == Answer(error, resolved, loading)

-----------------------------------------------------------------------------
Rendered(o, what) ==
  /\ life' = [life EXCEPT ![o] = "live"]
  /\ shows' = [shows EXCEPT ![o] = what]
  /\ dirty' = dirty \ {o}

\* The factory returns a promise, alone or with components and a timeout.
ReturnsPromise(o) ==
  /\ "none" \in Early
  /\ promise' = "pending"
  /\ owners' = {o}
  /\ errorComp' \in ErrorComp
  /\ \E l \in LoadingComp :
       /\ loading' = (l = "at once")
       /\ timerLoading' = (l = "delayed")
  /\ timerTimeout' \in Timeout
  /\ Rendered(o, IF loading' THEN "loading" ELSE "placeholder")
  /\ UNCHANGED <<resolved, error, rejected>>

\* It calls resolve and returns nothing: nobody has to wait, or to be rendered again.
ResolvesAtOnce(o) ==
  /\ "resolve" \in Early
  /\ promise' = "fulfilled" /\ resolved' = TRUE
  /\ owners' = {}
  /\ Rendered(o, "component")
  /\ UNCHANGED <<errorComp, error, loading, rejected, timerVars>>

\* It calls reject and returns nothing.  There is no component for errors.
RejectsAtOnce(o) ==
  /\ "reject" \in Early
  /\ promise' = "rejected" /\ rejected' = TRUE
  /\ owners' = {o}
  /\ Rendered(o, "placeholder")
  /\ UNCHANGED <<errorComp, error, loading, resolved, timerVars>>

\* The first owner calls the factory.
CallFactory(o) ==
  /\ promise = "none"
  /\ first' = o
  /\ ReturnsPromise(o) \/ ResolvesAtOnce(o) \/ RejectsAtOnce(o)

\* Faulty variant: the loading component is returned before the owner is noted.
NoteOwnerUnlessLoading(o) ==
  IF loading \/ error \/ resolved THEN owners ELSE owners \cup {o}

\* An owner that finds the component pending is noted for later.
NoteOwner(o) == IF error \/ resolved THEN owners ELSE owners \cup {o}

UseFactory(o) ==
  /\ promise # "none"
  /\ owners' = NoteOwner(o)
  /\ Rendered(o, Current)
  /\ UNCHANGED <<first, promise, fieldVars, timerVars>>

\* An owner is mounted, or rendered again, because it was forced to or because its
\* data have changed; it need not use the component any longer.
Render(o) ==
  /\ life[o] # "gone"
  /\ \/ CallFactory(o)
     \/ UseFactory(o)
     \/ Rendered(o, "nothing") /\ UNCHANGED factoryVars

\* Faulty variant: owners are emptied before they are rendered.
ForceNobody(completed, timeout) ==
  /\ dirty' = IF completed THEN dirty ELSE dirty \cup (owners \cap Live)
  /\ owners' = IF completed THEN {} ELSE owners
  /\ timerLoading' = (timerLoading /\ ~completed)
  /\ timerTimeout' = (timeout /\ ~completed)

\* Faulty variant: timers are left alone.
ForceKeepsTimers(completed, timeout) ==
  /\ dirty' = dirty \cup (owners \cap Live)
  /\ owners' = IF completed THEN {} ELSE owners
  /\ timerLoading' = timerLoading
  /\ timerTimeout' = timeout

\* $forceUpdate of a destroyed owner does nothing: its watcher is not active.
\* timeout tells whether the timeout is still set.
forceRender(completed, timeout) ==
  /\ dirty' = dirty \cup (owners \cap Live)
  /\ owners' = IF completed THEN {} ELSE owners
  /\ timerLoading' = (timerLoading /\ ~completed)
  /\ timerTimeout' = (timeout /\ ~completed)

\* Faulty variant: a component that comes after the timeout replaces the error.
ResolveClearsError ==
  /\ promise = "pending"
  /\ promise' = "fulfilled"
  /\ resolved' = TRUE
  /\ error' = FALSE
  /\ forceRender(TRUE, timerTimeout)
  /\ UNCHANGED <<life, shows, first, errorComp, loading, rejected>>

\* The promise is fulfilled.
Resolve ==
  /\ promise = "pending"
  /\ promise' = "fulfilled"
  /\ resolved' = TRUE
  /\ forceRender(TRUE, timerTimeout)
  /\ UNCHANGED <<life, shows, first, errorComp, error, loading, rejected>>

\* reject runs once.  Without an error component it only warns.
reject(timeout) ==
  /\ rejected' = TRUE
  /\ \/ /\ ~rejected /\ errorComp
        /\ error' = TRUE
        /\ forceRender(TRUE, timeout)
     \/ /\ rejected \/ ~errorComp
        /\ timerTimeout' = timeout
        /\ UNCHANGED <<error, dirty, owners, timerLoading>>

\* The promise is rejected.
Reject ==
  /\ promise = "pending"
  /\ promise' = "rejected"
  /\ reject(timerTimeout)
  /\ UNCHANGED <<life, shows, first, errorComp, resolved, loading>>

\* The delay is over.
LoadingTimer ==
  /\ timerLoading
  /\ timerLoading' = FALSE
  /\ LET goesOn == ~resolved /\ ~error
     IN  /\ loading' = (loading \/ goesOn)
         /\ dirty' = IF goesOn THEN dirty \cup (owners \cap Live) ELSE dirty
  /\ UNCHANGED <<life, shows, owners, first, promise, errorComp, resolved, error, rejected,
                 timerTimeout>>

\* The timeout is over.
TimeoutTimer ==
  /\ timerTimeout
  /\ IF resolved
       THEN timerTimeout' = FALSE /\ UNCHANGED <<error, rejected, dirty, owners, timerLoading>>
       ELSE reject(FALSE)
  /\ UNCHANGED <<life, shows, first, promise, errorComp, resolved, loading>>

\* Faulty variant: the watcher of a destroyed owner is still run.
DestroyStaysQueued(o) ==
  /\ life[o] = "live"
  /\ life' = [life EXCEPT ![o] = "gone"]
  /\ shows' = [shows EXCEPT ![o] = "nothing"]
  /\ owners' = IF o = first THEN owners \ {o} ELSE owners
  /\ UNCHANGED <<dirty, first, promise, fieldVars, timerVars>>

\* An owner is destroyed.  Only the first one is taken out of owners.
Destroy(o) ==
  /\ life[o] = "live"
  /\ life' = [life EXCEPT ![o] = "gone"]
  /\ shows' = [shows EXCEPT ![o] = "nothing"]
  /\ dirty' = dirty \ {o}
  /\ owners' = IF o = first THEN owners \ {o} ELSE owners
  /\ UNCHANGED <<first, promise, fieldVars, timerVars>>

Next ==
  \/ \E o \in Owner : Render(o) \/ Destroy(o)
  \/ Resolve
  \/ Reject
  \/ LoadingTimer
  \/ TimeoutTimer

\* Queued renders are done, timers fire.  The promise may stay pending for ever.
Fairness ==
  /\ \A o \in Owner : WF_vars(o \in dirty /\ Render(o))
  /\ WF_vars(LoadingTimer)
  /\ WF_vars(TimeoutTimer)

Spec == Init /\ [][Next]_vars /\ Fairness

-----------------------------------------------------------------------------
\* Property (safety).  Whatever the order of mounts, renders, answers, timers and
\* destructions, an owner that is not about to be rendered shows what the factory
\* stands for now: none is left with a placeholder when the component has come,
\* although owners are noted one by one and forgotten all at once.
ViewIsCurrent ==
  \A o \in Live \ dirty : shows[o] \in {"nothing", Current}

\* Property (safety).  A live owner that waits for the component is known to the
\* factory, so that it will be told.
WaitingIsKnown ==
  \A o \in Live \ dirty :
    shows[o] \in {"placeholder", "loading"} => o \in owners

\* Property (safety).  A factory that has an answer has no timer left that could
\* change it.
TimersAreOver == resolved \/ error => ~timerLoading /\ ~timerTimeout

\* Property (action).  A shown error is final: neither a component that comes after
\* the timeout, nor a timer, nor a later owner changes what the factory stands for.
ErrorIsFinal == [][error => Current' = "error" /\ \A o \in dirty' : o \in dirty]_vars

\* Property (liveness).  With a loading component or without, an owner does not
\* wait for a component that was loaded or has failed visibly, or timed out.
IsAnswered(o) == (resolved \/ error) /\ shows[o] \in {"placeholder", "loading"}
SeesAnswer(o) == shows[o] \in {"nothing", "component", "error"}
WaitEnds == \A o \in Owner : IsAnswered(o) ~> SeesAnswer(o)
=============================================================================
