---------------------------- MODULE PageComponent ---------------------------
(***************************************************************************)
(* The page's own asynchronous component: index.html names a .vue file,    *)
(* http-vue-loader's mixin makes a factory of it before the first instance *)
(* is created, and the first instance to render it makes Vue call that     *)
(* factory.  The promise of AsyncComponent is the one that ComponentLoader *)
(* settles; the factory returns nothing else, so that there are neither an *)
(* error component nor timers.                                             *)
(***************************************************************************)
EXTENDS Naturals

CONSTANTS
  Owner, NoOwner,   \* as in AsyncComponent
  Styles            \* as in ComponentLoader

VARIABLES
  life, shows, dirty, owners, first, promise, errorComp, resolved, error, loading,
  rejected, timerLoading, timerTimeout,  \* as in AsyncComponent
  stage, section, alien, scoped, rootless, scriptEnds, head, ran
                    \* as in ComponentLoader

viewVars ==
  <<life, shows, dirty, owners, first, promise, errorComp, resolved, error, loading,
    rejected, timerLoading, timerTimeout>>
loaderVars == <<stage, section, alien, scoped, rootless, scriptEnds, head, ran>>
vars == <<viewVars, loaderVars>>

View == INSTANCE AsyncComponent WITH
  ErrorComp <- {FALSE}, LoadingComp <- {"none"}, Timeout <- {FALSE}, Early <- {"none"}
Loader == INSTANCE ComponentLoader

TypeOK == View!TypeOK /\ Loader!TypeOK

Init == View!Init /\ Loader!Init

-----------------------------------------------------------------------------
\* Faulty variant: each owner calls the factory.
RenderLoads(o) ==
  /\ View!Render(o)
  /\ IF o \in owners' \ owners THEN stage' = "requested" ELSE UNCHANGED stage
  /\ UNCHANGED <<section, alien, scoped, rootless, scriptEnds, head, ran>>

\* An owner is rendered; the first that uses the component starts the loader.
Render(o) ==
  /\ View!Render(o)
  /\ IF promise = "none" /\ promise' = "pending"
       THEN Loader!load
       ELSE UNCHANGED loaderVars

Destroy(o) == View!Destroy(o) /\ UNCHANGED loaderVars

\* The loader goes on by itself.
Load ==
  /\ \/ Loader!FileFails
     \/ Loader!FileArrives
     \/ \E s \in Loader!Section : Loader!SectionArrives(s) \/ Loader!_normalizeSection(s)
     \/ Loader!compile
     \/ Loader!Finish
     \/ \E s \in Loader!Style : Loader!onStyleLoaded(s)
  /\ UNCHANGED viewVars

\* Faulty variant: the component is handed over when its file is there.
SettleEarly ==
  /\ stage \notin {"none", "requested", "rejected"} /\ View!Resolve
  /\ UNCHANGED loaderVars

\* Its promise is settled, and calls resolve or reject.
Settle ==
  /\ \/ stage = "fulfilled" /\ View!Resolve
     \/ stage = "rejected" /\ View!Reject
  /\ UNCHANGED loaderVars

Next ==
  \/ \E o \in Owner : Render(o) \/ Destroy(o)
  \/ Load
  \/ Settle

\* The fairness of both parts.
Fairness ==
  /\ \A o \in Owner : WF_vars(o \in dirty /\ Render(o))
  /\ WF_vars(Load)
  /\ WF_vars(Settle)

Spec == Init /\ [][Next]_vars /\ Fairness

-----------------------------------------------------------------------------
\* Property (safety).  An instance that shows the component shows a whole one: its
\* script was run and left exports, and each of its styles is in the document, scoped
\* or not yet enabled if it has to be.
ShownIsWhole ==
  \A o \in Owner : shows[o] = "component" =>
    /\ ran = 1 \/ Loader!Script \notin Loader!Present
    /\ scriptEnds = "well"
    /\ \A s \in Loader!Present \cap Loader!Style :
         /\ head[s] = "plain" => s \notin scoped
         /\ head[s] # "out"

\* Property (action).  However many instances use the component, come, and go, its
\* file is requested once; a failure is final, as no instance that comes later
\* asks again.
OneLoad ==
  /\ stage' = "requested" => stage \in {"none", "requested"}
  /\ stage = "rejected" => \A o \in Owner : shows'[o] # "component"
LoadedOnce == [][OneLoad]_vars

\* Property (liveness).  Every instance that uses the component is rendered with it
\* at last, unless loading it fails.
Uses(o) == shows[o] = "placeholder"
HasIt(o) == shows[o] \in {"nothing", "component"} \/ stage = "rejected"
UsersGetIt == \A o \in Owner : Uses(o) ~> HasIt(o)
=============================================================================
