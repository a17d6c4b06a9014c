------------------------------- MODULE MCPage -------------------------------
(***************************************************************************)
(* What the page has to do at last, for TLC: its components are loaded     *)
(* (AsyncComponent with each form of factory, ComponentLoader, and the     *)
(* two together in PageComponent), its lost connection is tried again      *)
(* although closes are late (WebSocketClient), its view catches up         *)
(* (VueScheduler), and its lists are updated (UpdateChildren).  A          *)
(* behaviour is one of a single part, chosen in its initial state; the     *)
(* others stay as they are.                                                *)
(*                                                                         *)
(* PageComponent is run with several instances and a file without styles,  *)
(* and with one instance and a file that may have one; ComponentLoader     *)
(* alone with a script and one style, or with several styles.              *)
(***************************************************************************)
EXTENDS Naturals

CONSTANTS
  Owner, NoOwner,               \* of AsyncComponent and PageComponent
  PageOwner,                    \* bound: those that use PageComponent
  Styles,                       \* of ComponentLoader
  Socket, NoSocket, limitCnt,   \* of WebSocketClient
  Watchers, User, Callback, MaxUpdateCount, MaxChanges, \* of VueScheduler
  Key, NoKey, Kind, MaxChildren \* of UpdateChildren

VARIABLES
  part,             \* the one that runs
  life, shows, dirty, owners, first, promise, errorComp, resolved, error, loading,
  rejected, timerLoading, timerTimeout,
  stage, section, alien, scoped, rootless, scriptEnds, head, ran,
  isDelayConnect, mounted, socket, stompClient, timer, delayTimer, connectCnt, connected,
  attempts,
  active, stale, queue, has, current, flush, waiting, flushing, circular, callbacks, pending,
  copies, owed, dropped, changes,
  oldCh, newCh, cleared, oldStart, oldEnd, newStart, newEnd, oldKeyToIdx, elm, dom, phase

viewVars ==
  <<life, shows, dirty, owners, first, promise, errorComp, resolved, error, loading,
    rejected, timerLoading, timerTimeout>>
fileVars == <<stage, section, alien, scoped, rootless, scriptEnds, head, ran>>
pageVars == <<viewVars, fileVars>>
socketVars ==
  <<isDelayConnect, mounted, socket, stompClient, timer, delayTimer, connectCnt, connected,
    attempts>>
queueVars ==
  <<active, stale, queue, has, current, flush, waiting, flushing, circular, callbacks, pending,
    copies, owed, dropped, changes>>
childVars ==
  <<oldCh, newCh, cleared, oldStart, oldEnd, newStart, newEnd, oldKeyToIdx, elm, dom, phase>>
vars == <<part, viewVars, fileVars, socketVars, queueVars, childVars>>

Factory == INSTANCE AsyncComponent WITH
  ErrorComp <- BOOLEAN, LoadingComp <- {"none", "at once", "delayed"}, Timeout <- BOOLEAN,
  Early <- {"none", "resolve", "reject"}
File == INSTANCE ComponentLoader
Page == INSTANCE PageComponent
Late == INSTANCE WebSocketClient WITH PromptClose <- FALSE, life <- mounted
Queue == INSTANCE VueScheduler WITH
  Limited <- TRUE, CanThrow <- FALSE, life <- active, stage <- flush
Children == INSTANCE UpdateChildren WITH stage <- phase

ASSUME PageAssumption ==
  /\ Factory!FactoryAssumption /\ File!LoaderAssumption
  /\ Queue!SchedulerAssumption /\ Children!ChildrenAssumption

UsesPage == part \in {"Page", "Styled"}

\* Bounds: the instances of PageComponent, and the styles in its file; and a file that
\* is loaded alone has a script or all its styles.
FewUsers(users, styles) ==
  /\ \A o \in Owner \ users : life[o] = "unborn"
  /\ File!Present \cap File!Style \subseteq styles
SmallFile == File!Script \in File!Present => ~(File!Style \subseteq File!Present)
SmallPage ==
  /\ part = "Page" => FewUsers(PageOwner, {})
  /\ part = "Styled" => FewUsers({CHOOSE o \in PageOwner : TRUE}, {3})

Init ==
  /\ part \in {"Factory", "File", "Page", "Styled", "Socket", "Queue", "Children"}
  /\ Factory!Init /\ File!Init
  /\ part # "Socket" => isDelayConnect = FALSE
  /\ Late!Init
  /\ Queue!Init
  /\ part # "Children" => oldCh = <<>> /\ newCh = <<>>
  /\ Children!Init

Next ==
  \/ /\ part = "Factory" /\ Factory!Next
     /\ UNCHANGED <<part, fileVars, socketVars, queueVars, childVars>>
  \/ /\ part = "File" /\ File!Next
     /\ UNCHANGED <<part, viewVars, socketVars, queueVars, childVars>>
     /\ SmallFile'
  \/ /\ UsesPage /\ Page!Next
     /\ UNCHANGED <<part, socketVars, queueVars, childVars>>
     /\ SmallPage'
  \/ /\ part = "Socket" /\ Late!Next
     /\ UNCHANGED <<part, viewVars, fileVars, queueVars, childVars>>
  \/ /\ part = "Queue" /\ Queue!Next
     /\ UNCHANGED <<part, viewVars, fileVars, socketVars, childVars>>
  \/ /\ part = "Children" /\ Children!Next
     /\ UNCHANGED <<part, viewVars, fileVars, socketVars, queueVars>>

\* The fairness that the modules state, of the part that runs.
Fairness ==
  /\ \A o \in Owner : WF_viewVars(part = "Factory" /\ o \in dirty /\ Factory!Render(o))
  /\ WF_viewVars(part = "Factory" /\ Factory!LoadingTimer)
  /\ WF_viewVars(part = "Factory" /\ Factory!TimeoutTimer)
  /\ WF_fileVars(part = "File" /\ (File!FileFails \/ File!FileArrives))
  /\ \A s \in File!Section :
       WF_fileVars(part = "File" /\ (File!SectionArrives(s) \/ File!_normalizeSection(s)))
  /\ WF_fileVars(part = "File" /\ File!compile)
  /\ WF_fileVars(part = "File" /\ File!Finish)
  /\ \A o \in Owner : WF_pageVars(UsesPage /\ o \in dirty /\ Page!Render(o))
  /\ WF_pageVars(UsesPage /\ Page!Load)
  /\ WF_pageVars(UsesPage /\ Page!Settle)
  /\ WF_socketVars(part = "Socket" /\ Late!TimerFires)
  /\ WF_socketVars(part = "Socket" /\ Late!DelayTimerFires)
  /\ \A s \in Socket : WF_socketVars(part = "Socket" /\ socket[s] = "failed" /\ Late!Close(s))
  /\ WF_queueVars(part = "Queue" /\ Queue!Loop)
  /\ WF_childVars(part = "Children" /\ Children!Next)

Spec == Init /\ [][Next]_vars /\ Fairness

-----------------------------------------------------------------------------
\* Property (safety).  AsyncComponent: what an owner shows is never out of date, one that
\* waits will be told, and an answer is final: no timer is left that could change it,
\* and a shown error stays.
OwnersAreServed ==
  /\ [](part = "Factory" =>
          /\ Factory!TypeOK /\ Factory!ViewIsCurrent
          /\ Factory!WaitingIsKnown /\ Factory!TimersAreOver)
  /\ Factory!ErrorIsFinal

\* Property (safety).  PageComponent: an instance shows a whole component only, whose
\* file is requested once.
ShownIsWhole ==
  /\ [](UsesPage => Page!TypeOK /\ Page!ShownIsWhole)
  /\ [][UsesPage => Page!OneLoad]_vars

\* Property (safety).  ComponentLoader: nothing is compiled before all of it is there, nor
\* after a failure; a component that was loaded is whole; and scoped styles are not in
\* effect for the page.
FileIsWholeOrRejected ==
  /\ [](File!TypeOK /\ File!CompiledIsNormalized /\ File!FulfilledIsWhole
          /\ File!ScopedStaysScoped)
  /\ File!RejectedIsFinal

\* Property (liveness).  AsyncComponent, ComponentLoader, PageComponent: the promise of a
\* file is settled, nobody waits for what was answered, and each user of the component
\* gets it.
LoadingEnds ==
  /\ File!LoadEnds
  /\ \A o \in Owner :
       part = "Factory" /\ Factory!IsAnswered(o) ~> part = "Factory" /\ Factory!SeesAnswer(o)
  /\ \A o \in Owner : UsesPage /\ Page!Uses(o) ~> UsesPage /\ Page!HasIt(o)

\* Property (liveness).  VueScheduler, UpdateChildren: the view catches up with a page
\* that stops changing its data, and every update of children ends.
ViewCatchesUp ==
  /\ Queue!ViewCatchesUp
  /\ part = "Children" ~> Children!IsOver

\* Property (liveness and safety).  WebSocketClient, with late closes: a lost connection
\* is tried again up to the limit, or always, a mounted component begins no more
\* connections in a row than the limit, and a flag that is set is true.
LossIsRetried == Late!LossIsRetried /\ [](Late!AttemptsAreLimited /\ Late!SetFlagIsTrue)
=============================================================================
