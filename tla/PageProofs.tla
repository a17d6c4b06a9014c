----------------------------- MODULE PageProofs -----------------------------
(***************************************************************************)
(* Proofs about the components that a page loads: Vue's asynchronous       *)
(* components with each form of factory (AsyncComponent), the file that    *)
(* http-vue-loader loads (ComponentLoader), and the two together           *)
(* (PageComponent), for any instances that use the component and any       *)
(* number of styles in its file.                                           *)
(*                                                                         *)
(* The argument.  The view (Views) and the loader (Files) are separate:    *)
(* what the loader does leaves the view alone, and conversely but for the  *)
(* first render, which starts it.  A live instance that is not queued      *)
(* shows nothing or what the factory stands for, and one that waits is     *)
(* known to the factory, so that the answer queues it; an answer leaves    *)
(* neither owners nor timers.  Sections are final once the script has run  *)
(* or a style has entered, since no section is under way then; what was    *)
(* compiled without an exception is whole.  The two parts meet in          *)
(* resolved, which takes a fulfilled promise.                              *)
(***************************************************************************)
EXTENDS MCPage, TLAPS

-----------------------------------------------------------------------------
(* The view. *)

\* Before the factory is called nobody uses the component.
Unused ==
  promise = "none" =>
    /\ ~resolved /\ ~error /\ ~loading /\ ~timerLoading /\ ~timerTimeout
    /\ \A o \in Owner : shows[o] = "nothing"

\* What an answer leaves behind.
Answered ==
  /\ resolved => promise = "fulfilled"
  /\ error => rejected
  /\ resolved \/ error => owners = {}
  /\ \A o \in Owner : shows[o] = "component" => resolved

Views ==
  /\ Factory!TypeOK
  /\ Unused
  /\ Answered
  /\ Factory!ViewIsCurrent
  /\ Factory!WaitingIsKnown
  /\ Factory!TimersAreOver

LEMMA ViewsInit == Factory!Init => Views
BY DEF Factory!Init, Views, Factory!TypeOK, Factory!Live, Unused, Answered,
       Factory!ViewIsCurrent, Factory!WaitingIsKnown, Factory!TimersAreOver

LEMMA ViewsStutter == Views /\ UNCHANGED viewVars => Views'
BY DEF Views, viewVars, Factory!TypeOK, Factory!Live, Unused, Answered,
       Factory!ViewIsCurrent, Factory!WaitingIsKnown, Factory!TimersAreOver,
       Factory!Current, Factory!Answer

\* What the factory stands for.
LEMMA Answers ==
  ASSUME NEW e \in BOOLEAN, NEW r \in BOOLEAN, NEW l \in BOOLEAN
  PROVE  /\ e => Factory!Answer(e, r, l) = "error"
         /\ ~e /\ r => Factory!Answer(e, r, l) = "component"
         /\ ~e /\ ~r /\ l => Factory!Answer(e, r, l) = "loading"
         /\ ~e /\ ~r /\ ~l => Factory!Answer(e, r, l) = "placeholder"
BY DEF Factory!Answer

LEMMA CurrentIs ==
  ASSUME Factory!TypeOK
  PROVE  /\ error => Factory!Current = "error"
         /\ ~error /\ resolved => Factory!Current = "component"
         /\ ~error /\ ~resolved /\ loading => Factory!Current = "loading"
         /\ ~error /\ ~resolved /\ ~loading => Factory!Current = "placeholder"
<1>1. error \in BOOLEAN /\ resolved \in BOOLEAN /\ loading \in BOOLEAN
  BY DEF Factory!TypeOK
<1> QED
  BY <1>1, Answers DEF Factory!Current

LEMMA NextCurrentIs ==
  ASSUME Factory!TypeOK'
  PROVE  /\ error' => Factory!Current' = "error"
         /\ ~error' /\ resolved' => Factory!Current' = "component"
         /\ ~error' /\ ~resolved' /\ loading' => Factory!Current' = "loading"
         /\ ~error' /\ ~resolved' /\ ~loading' => Factory!Current' = "placeholder"
<1>1. error' \in BOOLEAN /\ resolved' \in BOOLEAN /\ loading' \in BOOLEAN
  BY DEF Factory!TypeOK
<1> QED
  BY <1>1, Answers DEF Factory!Current

\* The first render.
LEMMA CallStep ==
  ASSUME Views, NEW o \in Owner, Factory!CallFactory(o), life[o] # "gone"
  PROVE  Views' /\ ~error
<1> USE DEF Views
<1>1. ~resolved /\ ~error /\ \A p \in Owner : shows[p] = "nothing"
  BY DEF Factory!CallFactory, Unused
<1>2. ~loading /\ ~timerLoading /\ ~timerTimeout
  BY DEF Factory!CallFactory, Unused
<1>3. PICK what \in {"placeholder", "loading", "component"} :
        /\ life' = [life EXCEPT ![o] = "live"]
        /\ shows' = [shows EXCEPT ![o] = what]
        /\ dirty' = dirty \ {o} /\ first' = o /\ owners' = IF resolved' THEN {} ELSE {o}
        /\ promise' \in {"pending", "fulfilled", "rejected"}
        /\ resolved' \in BOOLEAN /\ (resolved' => promise' = "fulfilled")
        /\ resolved' => what = "component"
        /\ ~resolved' => what = IF loading' THEN "loading" ELSE "placeholder"
        /\ errorComp' \in BOOLEAN /\ timerTimeout' \in BOOLEAN /\ rejected' \in BOOLEAN
        /\ loading' \in BOOLEAN /\ timerLoading' \in BOOLEAN
        /\ resolved' => ~timerLoading' /\ ~timerTimeout'
        /\ UNCHANGED error
  <2>1. CASE Factory!ReturnsPromise(o)
    <3>1. loading' \in BOOLEAN /\ timerLoading' \in BOOLEAN
          /\ errorComp' \in BOOLEAN /\ timerTimeout' \in BOOLEAN
      BY <2>1 DEF Factory!ReturnsPromise
    <3>2. /\ Factory!Rendered(o, IF loading' THEN "loading" ELSE "placeholder")
          /\ promise' = "pending" /\ owners' = {o} /\ first' = o
          /\ UNCHANGED <<resolved, error, rejected>>
      BY <2>1 DEF Factory!ReturnsPromise, Factory!CallFactory
    <3> QED
      BY <1>1, <3>1, <3>2 DEF Factory!Rendered, Factory!TypeOK
  <2>2. CASE Factory!ResolvesAtOnce(o)
    BY <1>1, <1>2, <2>2
    DEF Factory!ResolvesAtOnce, Factory!CallFactory, Factory!Rendered, Factory!TypeOK,
        Factory!timerVars
  <2>3. CASE Factory!RejectsAtOnce(o)
    BY <1>1, <1>2, <2>3
    DEF Factory!RejectsAtOnce, Factory!CallFactory, Factory!Rendered, Factory!TypeOK,
        Factory!timerVars
  <2> QED
    BY <2>1, <2>2, <2>3 DEF Factory!CallFactory
<1>4. Factory!TypeOK'
  BY <1>1, <1>3 DEF Factory!TypeOK, Factory!Live
<1>5. shows'[o] = what /\ \A p \in Owner : p # o => shows'[p] = "nothing"
  BY <1>1, <1>3 DEF Factory!TypeOK
<1>6. ~error'
  BY <1>1, <1>3
<1>7. Factory!ViewIsCurrent'
  <2>1. what = Factory!Current'
    BY <1>3, <1>4, <1>6, NextCurrentIs
  <2> QED
    BY <1>5, <2>1 DEF Factory!ViewIsCurrent, Factory!Live
<1>8. Factory!WaitingIsKnown'
  BY <1>3, <1>5 DEF Factory!WaitingIsKnown, Factory!Live
<1>9. Answered'
  BY <1>3, <1>5, <1>6 DEF Answered
<1> QED
  BY <1>1, <1>3, <1>4, <1>6, <1>7, <1>8, <1>9 DEF Unused, Factory!TimersAreOver

\* A render when the factory was called, or one that does not use the component.
LEMMA UseStep ==
  ASSUME Views, NEW o \in Owner, NEW what \in {"nothing", Factory!Current},
         life[o] # "gone", Factory!Rendered(o, what),
         what = "nothing" \/ promise # "none",
         owners' = owners \/ (~error /\ ~resolved /\ owners' = owners \cup {o}),
         what \in {"placeholder", "loading"} => o \in owners',
         UNCHANGED <<first, promise, errorComp, resolved, error, loading, rejected,
                     timerLoading, timerTimeout>>
  PROVE  Views' /\ dirty' \subseteq dirty /\ Factory!Current' = Factory!Current
<1> USE DEF Views
<1>1. Factory!Current' = Factory!Current
  BY DEF Factory!Current, Factory!Answer
<1>2. /\ shows' = [shows EXCEPT ![o] = what]
      /\ life' = [life EXCEPT ![o] = "live"]
      /\ dirty' = dirty \ {o}
  BY DEF Factory!Rendered
<1>3. shows'[o] = what /\ \A p \in Owner : p # o => shows'[p] = shows[p]
  BY <1>2 DEF Factory!TypeOK
<1>4. \A p \in Owner \ {o} : p \in (Factory!Live \ dirty)' => p \in Factory!Live \ dirty
  BY <1>2 DEF Factory!TypeOK, Factory!Live
<1>5. what \in {"nothing", "error", "component", "loading", "placeholder"}
      /\ (what = "component" => resolved)
  <2>1. error \in BOOLEAN /\ resolved \in BOOLEAN /\ loading \in BOOLEAN
    BY DEF Factory!TypeOK
  <2> QED
    BY <2>1, CurrentIs
<1>6. Factory!TypeOK'
  <2>1. shows' \in [Owner -> {"nothing", "placeholder", "loading", "error", "component"}]
    BY <1>2, <1>5 DEF Factory!TypeOK
  <2>2. life' \in [Owner -> {"unborn", "live", "gone"}] /\ dirty' \subseteq Factory!Live'
    BY <1>2 DEF Factory!TypeOK, Factory!Live
  <2>3. owners' \subseteq Owner
    BY DEF Factory!TypeOK
  <2> QED
    BY <2>1, <2>2, <2>3 DEF Factory!TypeOK
<1>7. Unused'
  BY <1>3 DEF Unused
<1>8. Factory!ViewIsCurrent'
  BY <1>1, <1>3, <1>4 DEF Factory!ViewIsCurrent, Factory!Live
<1>9. Factory!WaitingIsKnown'
  BY <1>3, <1>4 DEF Factory!WaitingIsKnown, Factory!Live
<1>10. Answered'
  BY <1>3, <1>5 DEF Answered
<1>11. Factory!TimersAreOver'
  BY DEF Factory!TimersAreOver
<1> QED
  BY <1>1, <1>2, <1>6, <1>7, <1>8, <1>9, <1>10, <1>11

LEMMA RenderStep ==
  ASSUME Views, NEW o \in Owner, Factory!Render(o)
  PROVE  /\ Views'
         /\ error => dirty' \subseteq dirty /\ Factory!Current' = Factory!Current
<1> USE DEF Views
<1>1. CASE Factory!CallFactory(o)
  BY <1>1, CallStep DEF Factory!Render
<1>2. CASE Factory!UseFactory(o)
  <2>1. Factory!Current \in {"placeholder", "loading"} => ~error /\ ~resolved
    BY CurrentIs
  <2>2. /\ owners' = IF error \/ resolved THEN owners ELSE owners \cup {o}
        /\ promise # "none" /\ Factory!Rendered(o, Factory!Current)
        /\ UNCHANGED <<first, promise, errorComp, resolved, error, loading, rejected,
                       timerLoading, timerTimeout>>
    BY <1>2 DEF Factory!UseFactory, Factory!NoteOwner, Factory!fieldVars, Factory!timerVars
  <2>3. life[o] # "gone"
    BY DEF Factory!Render
  <2> QED
    BY <2>1, <2>2, <2>3, UseStep
<1>3. CASE Factory!Rendered(o, "nothing") /\ UNCHANGED Factory!factoryVars
  <2>1. UNCHANGED <<owners, first, promise, errorComp, resolved, error, loading, rejected,
                    timerLoading, timerTimeout>>
    BY <1>3 DEF Factory!factoryVars, Factory!fieldVars, Factory!timerVars
  <2> QED
    BY <1>3, <2>1, UseStep DEF Factory!Render
<1> QED
  BY <1>1, <1>2, <1>3 DEF Factory!Render

LEMMA DestroyStep ==
  ASSUME Views, NEW o \in Owner, Factory!Destroy(o)
  PROVE  Views' /\ dirty' \subseteq dirty /\ Factory!Current' = Factory!Current
<1> USE DEF Views
<1>1. /\ shows' = [shows EXCEPT ![o] = "nothing"]
      /\ life' = [life EXCEPT ![o] = "gone"]
      /\ dirty' = dirty \ {o}
      /\ owners \ {o} \subseteq owners' /\ owners' \subseteq owners
      /\ UNCHANGED <<first, promise, errorComp, resolved, error, loading, rejected,
                     timerLoading, timerTimeout>>
  BY DEF Factory!Destroy, Factory!fieldVars, Factory!timerVars
<1>2. Factory!Current' = Factory!Current
  BY <1>1 DEF Factory!Current, Factory!Answer
<1>3. shows'[o] = "nothing" /\ \A p \in Owner : p # o => shows'[p] = shows[p]
  BY <1>1 DEF Factory!TypeOK
<1>4. \A p \in (Factory!Live \ dirty)' : p # o /\ p \in Factory!Live \ dirty
  BY <1>1 DEF Factory!TypeOK, Factory!Live
<1>5. Factory!TypeOK'
  <2>1. shows' \in [Owner -> {"nothing", "placeholder", "loading", "error", "component"}]
    BY <1>1 DEF Factory!TypeOK
  <2>2. life' \in [Owner -> {"unborn", "live", "gone"}] /\ dirty' \subseteq Factory!Live'
    BY <1>1 DEF Factory!TypeOK, Factory!Live
  <2> QED
    BY <1>1, <2>1, <2>2 DEF Factory!TypeOK
<1>6. Unused' /\ Answered'
  BY <1>1, <1>3 DEF Unused, Answered
<1>7. Factory!ViewIsCurrent'
  BY <1>2, <1>3, <1>4 DEF Factory!ViewIsCurrent, Factory!Live
<1>8. Factory!WaitingIsKnown'
  BY <1>1, <1>3, <1>4 DEF Factory!WaitingIsKnown, Factory!Live
<1>9. Factory!TimersAreOver'
  BY <1>1 DEF Factory!TimersAreOver
<1> QED
  BY <1>1, <1>2, <1>5, <1>6, <1>7, <1>8, <1>9

\* Those who are not told of an answer do not wait for one.
LEMMA NobodyWaits ==
  ASSUME Views, ~error, ~resolved
  PROVE  \A o \in Factory!Live \ (dirty \cup (owners \cap Factory!Live)) :
           shows[o] = "nothing"
BY CurrentIs DEF Views, Factory!TypeOK, Factory!ViewIsCurrent, Factory!WaitingIsKnown

\* The promise is fulfilled: who waits is known and is queued.
LEMMA ResolveStep ==
  ASSUME Views, Factory!Resolve
  PROVE  Views' /\ (error => error' /\ dirty' \subseteq dirty)
<1> USE DEF Views
<1>1. /\ dirty' = dirty \cup (owners \cap Factory!Live)
      /\ owners' = {} /\ resolved' = TRUE /\ promise = "pending" /\ promise' = "fulfilled"
      /\ UNCHANGED <<life, shows, first, errorComp, error, loading, rejected>>
  BY DEF Factory!Resolve, Factory!forceRender
<1>2. timerLoading' = FALSE /\ timerTimeout' = FALSE
  BY DEF Factory!Resolve, Factory!forceRender
<1>3. Factory!TypeOK'
  BY <1>1, <1>2 DEF Factory!TypeOK, Factory!Live
<1>4. ~resolved
  BY <1>1 DEF Answered
<1>5. CASE error
  <2>1. dirty' = dirty /\ Factory!Current = "error" /\ Factory!Current' = "error"
    BY <1>1, <1>3, <1>5, CurrentIs, NextCurrentIs DEF Answered
  <2>2. Factory!ViewIsCurrent'
    BY <1>1, <2>1 DEF Factory!ViewIsCurrent, Factory!Live
  <2>3. Factory!WaitingIsKnown'
    BY <1>1, <2>1 DEF Factory!ViewIsCurrent, Factory!WaitingIsKnown, Factory!Live
  <2> QED
    BY <1>1, <1>2, <1>3, <1>5, <2>1, <2>2, <2>3 DEF Unused, Answered, Factory!TimersAreOver
<1>6. CASE ~error
  <2>1. \A o \in (Factory!Live \ dirty)' : shows'[o] = "nothing"
    BY <1>1, <1>4, <1>6, NobodyWaits DEF Factory!Live
  <2>2. Factory!ViewIsCurrent' /\ Factory!WaitingIsKnown'
    BY <2>1 DEF Factory!ViewIsCurrent, Factory!WaitingIsKnown
  <2> QED
    BY <1>1, <1>2, <1>3, <1>6, <2>2 DEF Unused, Answered, Factory!TimersAreOver
<1> QED
  BY <1>5, <1>6

\* reject, by the promise or by the timeout: who waits is queued if there is something to
\* be shown, and goes on waiting otherwise.
LEMMA RejectIs ==
  ASSUME Views, ~resolved, promise # "none", promise' # "none",
         NEW t \in BOOLEAN, t => timerTimeout, Factory!reject(t),
         UNCHANGED <<life, shows, first, errorComp, resolved, loading>>,
         promise' \in {"pending", "fulfilled", "rejected"}
  PROVE  Views' /\ (error => error' /\ dirty' \subseteq dirty)
<1> USE DEF Views
<1>1. rejected' = TRUE
  BY DEF Factory!reject
<1>2. ~resolved'
  OBVIOUS
<1>3. CASE ~rejected /\ errorComp
  <2>1. /\ error' = TRUE /\ owners' = {}
        /\ dirty' = dirty \cup (owners \cap Factory!Live)
    BY <1>3 DEF Factory!reject, Factory!forceRender
  <2>2. timerLoading' = FALSE /\ timerTimeout' = FALSE
    BY <1>3 DEF Factory!reject, Factory!forceRender
  <2>3. Factory!TypeOK'
    BY <1>1, <2>1, <2>2 DEF Factory!TypeOK, Factory!Live
  <2>4. ~error
    BY <1>3 DEF Answered
  <2>5. \A o \in (Factory!Live \ dirty)' : shows'[o] = "nothing"
    BY <2>1, <2>4, NobodyWaits DEF Factory!Live
  <2>6. Factory!ViewIsCurrent' /\ Factory!WaitingIsKnown'
    BY <2>5 DEF Factory!ViewIsCurrent, Factory!WaitingIsKnown
  <2> QED
    BY <1>1, <1>2, <2>1, <2>2, <2>3, <2>4, <2>6
    DEF Unused, Answered, Factory!TimersAreOver
<1>4. CASE rejected \/ ~errorComp
  <2>1. timerTimeout' = t /\ UNCHANGED <<error, dirty, owners, timerLoading>>
    BY <1>4 DEF Factory!reject
  <2>2. Factory!TypeOK'
    BY <1>1, <2>1 DEF Factory!TypeOK, Factory!Live
  <2>3. Factory!Current' = Factory!Current
    BY <2>1 DEF Factory!Current, Factory!Answer
  <2>4. Factory!ViewIsCurrent' /\ Factory!WaitingIsKnown'
    BY <2>1, <2>3 DEF Factory!ViewIsCurrent, Factory!WaitingIsKnown, Factory!Live
  <2>5. Factory!TimersAreOver'
    BY <2>1 DEF Factory!TimersAreOver
  <2>6. Answered'
    BY <1>1, <2>1 DEF Answered
  <2> QED
    BY <2>1, <2>2, <2>4, <2>5, <2>6 DEF Unused
<1> QED
  BY <1>3, <1>4

LEMMA RejectStep ==
  ASSUME Views, Factory!Reject
  PROVE  Views' /\ resolved' = resolved /\ (error => error' /\ dirty' \subseteq dirty)
<1>1. /\ promise = "pending" /\ promise' = "rejected"
      /\ Factory!reject(timerTimeout)
      /\ UNCHANGED <<life, shows, first, errorComp, resolved, loading>>
  BY DEF Factory!Reject
<1>2. ~resolved /\ timerTimeout \in BOOLEAN
  BY <1>1 DEF Views, Answered, Factory!TypeOK
<1> QED
  BY <1>1, <1>2, RejectIs

LEMMA TimeoutStep ==
  ASSUME Views, Factory!TimeoutTimer
  PROVE  Views' /\ (error => error' /\ dirty' \subseteq dirty)
<1>1. timerTimeout /\ ~resolved /\ promise # "none"
  BY DEF Factory!TimeoutTimer, Views, Factory!TimersAreOver, Unused
<1>2. /\ Factory!reject(FALSE)
      /\ UNCHANGED <<life, shows, first, promise, errorComp, resolved, loading>>
  BY <1>1 DEF Factory!TimeoutTimer
<1>3. promise' \in {"pending", "fulfilled", "rejected"} /\ promise' # "none"
  BY <1>1, <1>2 DEF Views, Factory!TypeOK
<1> QED
  BY <1>1, <1>2, <1>3, RejectIs

\* The delay is over: whoever waits will show the loading component.
LEMMA LoadingStep ==
  ASSUME Views, Factory!LoadingTimer
  PROVE  Views' /\ ~error
<1> USE DEF Views
<1>1. timerLoading /\ ~resolved /\ ~error
  BY DEF Factory!LoadingTimer, Factory!TimersAreOver
<1>2. /\ timerLoading' = FALSE
      /\ dirty' = dirty \cup (owners \cap Factory!Live)
      /\ UNCHANGED <<life, shows, owners, first, promise, errorComp, resolved, error,
                     rejected, timerTimeout>>
  BY <1>1 DEF Factory!LoadingTimer
<1>3. loading'
  BY <1>1 DEF Factory!LoadingTimer
<1>4. loading' \in BOOLEAN
  BY DEF Factory!LoadingTimer
<1>5. Factory!TypeOK'
  BY <1>2, <1>4 DEF Factory!TypeOK, Factory!Live
<1>6. \A o \in (Factory!Live \ dirty)' : shows'[o] = "nothing"
  BY <1>1, <1>2, NobodyWaits DEF Factory!Live
<1>7. Factory!ViewIsCurrent' /\ Factory!WaitingIsKnown'
  BY <1>6 DEF Factory!ViewIsCurrent, Factory!WaitingIsKnown
<1> QED
  BY <1>1, <1>2, <1>5, <1>7 DEF Unused, Answered, Factory!TimersAreOver

\* A step keeps the invariant, and a shown error stays.
LEMMA FactoryStep ==
  ASSUME Views, [Factory!Next]_(Factory!vars)
  PROVE  Views' /\ (error => Factory!Current' = "error" /\ \A o \in dirty' : o \in dirty)
<1>1. Views' /\ (error => Factory!Current' = "error" /\ dirty' \subseteq dirty)
  <2>1. error => Factory!Current = "error"
    BY CurrentIs DEF Views
  <2>2. CASE UNCHANGED Factory!vars
    <3>1. UNCHANGED viewVars
      BY <2>2 DEF viewVars, Factory!vars, Factory!factoryVars, Factory!fieldVars,
                  Factory!timerVars
    <3>2. Factory!Current' = Factory!Current
      BY <3>1 DEF viewVars, Factory!Current, Factory!Answer
    <3> QED
      BY <2>1, <3>1, <3>2, ViewsStutter DEF viewVars
  <2>3. ASSUME NEW o \in Owner, Factory!Render(o)
        PROVE  Views' /\ (error => Factory!Current' = "error" /\ dirty' \subseteq dirty)
    BY <2>1, <2>3, RenderStep
  <2>4. ASSUME NEW o \in Owner, Factory!Destroy(o)
        PROVE  Views' /\ (error => Factory!Current' = "error" /\ dirty' \subseteq dirty)
    BY <2>1, <2>4, DestroyStep
  <2>5. CASE Factory!Resolve
    BY <2>5, ResolveStep, NextCurrentIs DEF Views
  <2>6. CASE Factory!Reject
    BY <2>6, RejectStep, NextCurrentIs DEF Views
  <2>7. CASE Factory!LoadingTimer
    BY <2>7, LoadingStep
  <2>8. CASE Factory!TimeoutTimer
    BY <2>8, TimeoutStep, NextCurrentIs DEF Views
  <2> QED
    BY <2>2, <2>3, <2>4, <2>5, <2>6, <2>7, <2>8 DEF Factory!Next
<1> QED
  BY <1>1

-----------------------------------------------------------------------------
(* The file. *)

\* Nothing is compiled before the sections are there.
Uncompiled ==
  stage \in {"none", "requested", "normalizing"} =>
    ran = 0 /\ \A s \in File!Style : head[s] = "out"

Whole ==
  stage \in {"compiled", "fulfilled"} =>
    /\ File!AllNormalized
    /\ scriptEnds \in {"well", "null"}
    /\ \A s \in scoped : head[s] # "plain"

Files ==
  /\ File!TypeOK
  /\ Uncompiled
  /\ File!CompiledIsNormalized
  /\ File!FulfilledIsWhole
  /\ Whole

LEMMA FilesInit == File!Init => Files
<1> SUFFICES ASSUME File!Init PROVE Files
  OBVIOUS
<1>1. /\ section \in [File!Section -> {"absent", "requested", "fetched", "done", "failed"}]
      /\ head \in [File!Style -> {"out", "plain", "scoped", "disabled"}]
  BY DEF File!Init
<1>2. alien \subseteq File!Section /\ scoped \subseteq File!Style
  BY DEF File!Init
<1>3. ran \in 0 .. 1
  BY DEF File!Init
<1>4. File!TypeOK
  BY <1>1, <1>2, <1>3 DEF File!Init, File!TypeOK
<1>5. stage = "none" /\ ran = 0 /\ \A s \in File!Style : head[s] = "out"
  BY DEF File!Init
<1> QED
  BY <1>4, <1>5 DEF Files, Uncompiled, File!CompiledIsNormalized, File!FulfilledIsWhole, Whole

LEMMA FilesStutter == Files /\ UNCHANGED fileVars => Files'
BY DEF Files, fileVars, File!TypeOK, Uncompiled, File!CompiledIsNormalized,
       File!FulfilledIsWhole, Whole, File!AllNormalized, File!Present, File!HasTemplate

\* The file is requested, or its request fails.
LEMMA RequestStep ==
  ASSUME Files, File!load \/ File!FileFails
  PROVE  Files'
<1>1. /\ stage \in {"none", "requested"} /\ stage' \in {"requested", "rejected"}
      /\ UNCHANGED <<section, alien, scoped, rootless, scriptEnds, head, ran>>
  BY DEF File!load, File!FileFails, File!fileVars
<1> QED
  BY <1>1
  DEF Files, File!TypeOK, Uncompiled, File!CompiledIsNormalized, File!FulfilledIsWhole,
      Whole, File!AllNormalized, File!Present

\* The file comes: nothing was compiled before.
LEMMA FileArrivesStep ==
  ASSUME Files, File!FileArrives
  PROVE  Files'
<1>1. /\ stage = "requested" /\ stage' = "normalizing"
      /\ UNCHANGED <<head, ran>>
  BY DEF File!FileArrives
<1>2. ran = 0 /\ \A s \in File!Style : head[s] = "out"
  BY <1>1 DEF Files, Uncompiled
<1>3. File!TypeOK'
  <2>1. PICK there \in SUBSET File!Section : \E src \in SUBSET there :
          /\ section' = [s \in File!Section |->
                           IF s \in src THEN "requested"
                           ELSE IF s \in there THEN "fetched" ELSE "absent"]
          /\ alien' \in SUBSET there
          /\ scoped' \in SUBSET (there \cap File!Style)
          /\ rootless' \in (IF File!Template \in there THEN BOOLEAN ELSE {FALSE})
          /\ scriptEnds' \in
               (IF File!Script \in there THEN {"well", "null", "with", "without"}
                                         ELSE {"well"})
    BY DEF File!FileArrives
  <2>2. section' \in [File!Section ->
                        {"absent", "requested", "fetched", "done", "failed"}]
    BY <2>1
  <2>3. rootless' \in BOOLEAN /\ scriptEnds' \in {"well", "null", "with", "without"}
    BY <2>1
  <2>4. alien' \subseteq File!Section /\ scoped' \subseteq File!Style
    BY <2>1
  <2> QED
    BY <1>1, <2>2, <2>3, <2>4 DEF Files, File!TypeOK
<1> QED
  BY <1>1, <1>2, <1>3
  DEF Files, Uncompiled, File!CompiledIsNormalized, File!FulfilledIsWhole, Whole

\* A section goes on or fails: it was not done, so that nothing was compiled.
LEMMA SectionStep ==
  ASSUME Files, NEW s \in File!Section,
         File!SectionArrives(s) \/ File!_normalizeSection(s)
  PROVE  Files' /\ stage \notin {"compiled", "fulfilled"}
<1>1. /\ section[s] \in {"requested", "fetched"}
      /\ \/ section' = [section EXCEPT ![s] = "fetched"]
         \/ section' = [section EXCEPT ![s] = "done"]
         \/ section' = [section EXCEPT ![s] = "failed"]
      /\ stage' \in {stage, "rejected"}
      /\ UNCHANGED <<alien, scoped, rootless, scriptEnds, head, ran>>
  BY DEF File!SectionArrives, File!_normalizeSection, File!FailSection, File!fileVars
<1>2. ~File!AllNormalized
  BY <1>1 DEF File!AllNormalized, File!Present
<1>3. ran = 0 /\ \A t \in File!Style : head[t] = "out"
  BY <1>2 DEF Files, File!CompiledIsNormalized, File!TypeOK
<1>4. stage \notin {"compiled", "fulfilled"}
  BY <1>2 DEF Files, Whole
<1>5. File!TypeOK'
  BY <1>1 DEF Files, File!TypeOK
<1> QED
  BY <1>1, <1>3, <1>4, <1>5
  DEF Files, Uncompiled, File!CompiledIsNormalized, File!FulfilledIsWhole, Whole

\* What is compiled without an exception is whole.
LEMMA CompileStep ==
  ASSUME Files, File!compile
  PROVE  Files' /\ stage = "normalizing" /\ stage' \in {"compiled", "rejected"}
<1>1. /\ stage = "normalizing" /\ stage' \in {"compiled", "rejected"}
      /\ File!AllNormalized
      /\ ran' = IF File!Script \in File!Present THEN ran + 1 ELSE ran
      /\ UNCHANGED <<section, alien, scoped, rootless, scriptEnds>>
  BY DEF File!compile, File!fileVars
<1>2. ran = 0
  BY <1>1 DEF Files, Uncompiled
<1>3. File!TypeOK'
  <2>1. head' \in [File!Style -> {"out", "plain", "scoped", "disabled"}]
    BY DEF Files, File!TypeOK, File!compile, File!CompileStyles
  <2> QED
    BY <1>1, <1>2, <2>1 DEF Files, File!TypeOK
<1>4. File!AllNormalized'
  BY <1>1 DEF File!AllNormalized, File!Present
<1>5. stage' = "compiled" =>
        /\ scriptEnds \in {"well", "null"}
        /\ \A s \in scoped : head'[s] # "plain"
        /\ \A s \in File!Present \cap File!Style : head'[s] # "out"
  <2> SUFFICES ASSUME stage' = "compiled"
               PROVE  /\ scriptEnds \in {"well", "null"}
                      /\ \A s \in scoped : head'[s] # "plain"
                      /\ \A s \in File!Present \cap File!Style : head'[s] # "out"
    OBVIOUS
  <2>1. File!CompileStyles(head') /\ \A s \in File!Style : ~File!Broken(s, head')
    BY DEF File!compile
  <2>2. \A s \in scoped : head'[s] # "plain"
    BY <2>1 DEF File!Broken, Files, File!TypeOK
  <2>3. \A s \in File!Present \cap File!Style : head'[s] \in File!CompiledStyle(s)
    BY <2>1 DEF File!CompileStyles
  <2>4. \A s \in File!Present \cap File!Style : head'[s] # "out"
    BY <2>3 DEF File!CompiledStyle
  <2>5. scriptEnds \in {"well", "null"}
    BY DEF File!compile, Files, File!TypeOK
  <2> QED
    BY <2>2, <2>4, <2>5
<1>6. (File!Script \in File!Present)' => ran' = 1
  BY <1>1, <1>2 DEF File!Present
<1>7. (File!FulfilledIsWhole /\ Whole)'
  BY <1>1, <1>4, <1>5, <1>6
  DEF File!FulfilledIsWhole, Whole, File!Present, File!HasTemplate
<1> QED
  BY <1>1, <1>3, <1>4, <1>7 DEF Files, Uncompiled, File!CompiledIsNormalized

\* The exports are handed over.
LEMMA FinishStep ==
  ASSUME Files, File!Finish
  PROVE  Files' /\ stage = "compiled" /\ stage' \in {"fulfilled", "rejected"}
<1>1. /\ stage = "compiled"
      /\ stage' \in {"fulfilled", "rejected"}
      /\ stage' = "fulfilled" => scriptEnds = "well"
      /\ UNCHANGED <<section, alien, scoped, rootless, scriptEnds, head, ran>>
  BY DEF File!Finish, File!fileVars, Files, Whole
<1>2. File!TypeOK' /\ Uncompiled'
  BY <1>1 DEF Files, File!TypeOK, Uncompiled
<1>3. File!CompiledIsNormalized' /\ Whole'
  BY <1>1
  DEF Files, File!CompiledIsNormalized, Whole, File!AllNormalized, File!Present
<1>4. File!FulfilledIsWhole'
  BY <1>1 DEF Files, File!FulfilledIsWhole, File!Present
<1> QED
  BY <1>1, <1>2, <1>3, <1>4 DEF Files

\* A style that was disabled is scoped: it was in the document before.
LEMMA StyleStep ==
  ASSUME Files, NEW s \in File!Style, File!onStyleLoaded(s)
  PROVE  Files' /\ stage' = stage
<1>1. /\ head[s] = "disabled" /\ head' = [head EXCEPT ![s] = "scoped"]
      /\ UNCHANGED <<stage, section, alien, scoped, rootless, scriptEnds, ran>>
  BY DEF File!onStyleLoaded, File!fileVars
<1>2. head'[s] = "scoped" /\ \A t \in File!Style : t # s => head'[t] = head[t]
  BY <1>1 DEF Files, File!TypeOK
<1>3. File!TypeOK'
  BY <1>1 DEF Files, File!TypeOK
<1>4. Uncompiled' /\ File!CompiledIsNormalized'
  BY <1>1, <1>2
  DEF Files, Uncompiled, File!CompiledIsNormalized, File!AllNormalized, File!Present
<1>5. File!FulfilledIsWhole' /\ Whole'
  BY <1>1, <1>2
  DEF Files, File!TypeOK, File!FulfilledIsWhole, Whole, File!AllNormalized,
      File!Present, File!HasTemplate
<1> QED
  BY <1>1, <1>3, <1>4, <1>5 DEF Files

\* A step keeps the invariant; a promise that is settled stays as it is, and a failure
\* stops all that changes something outside.
LEMMA FileStep ==
  ASSUME Files, [File!Next]_(File!vars)
  PROVE  /\ Files'
         /\ stage \in {"fulfilled", "rejected"} => stage' = stage
         /\ stage' = "requested" => stage \in {"none", "requested"}
         /\ stage = "rejected" =>
              /\ ran' = ran
              /\ \A s \in File!Style : head[s] = "out" => head'[s] = "out"
<1>1. CASE UNCHANGED File!vars
  <2>1. UNCHANGED fileVars
    BY <1>1 DEF fileVars, File!vars, File!fileVars
  <2> QED
    BY <2>1, FilesStutter DEF fileVars
<1>2. CASE File!load \/ File!FileFails
  BY <1>2, RequestStep DEF File!load, File!FileFails
<1>3. CASE File!FileArrives
  BY <1>3, FileArrivesStep DEF File!FileArrives
<1>4. ASSUME NEW s \in File!Section, File!SectionArrives(s) \/ File!_normalizeSection(s)
      PROVE  /\ Files' /\ UNCHANGED <<head, ran>>
             /\ stage \in {"fulfilled", "rejected"} => stage' = stage
             /\ stage' = "requested" => stage = "requested"
  <2>1. Files' /\ stage \notin {"compiled", "fulfilled"}
    BY <1>4, SectionStep
  <2>2. stage' \in {stage, "rejected"} /\ UNCHANGED <<head, ran>>
    BY <1>4 DEF File!SectionArrives, File!_normalizeSection, File!FailSection
  <2> QED
    BY <2>1, <2>2
<1>5. CASE File!compile
  BY <1>5, CompileStep
<1>6. CASE File!Finish
  BY <1>6, FinishStep
<1>7. ASSUME NEW s \in File!Style, File!onStyleLoaded(s)
      PROVE  /\ Files' /\ stage' = stage /\ ran' = ran
             /\ \A t \in File!Style : head[t] = "out" => head'[t] = "out"
  BY <1>7, StyleStep DEF File!onStyleLoaded, File!fileVars, Files, File!TypeOK
<1> QED
  BY <1>1, <1>2, <1>3, <1>4, <1>5, <1>6, <1>7 DEF File!Next

LEMMA FilesAreRight == Files => File!ScopedStaysScoped
BY DEF Files, Uncompiled, Whole, File!TypeOK, File!ScopedStaysScoped

\* ComponentLoader, with as many styles as one likes and without a bound on what the file
\* holds: http-vue-loader compiles nothing before all of the file is there, fulfils its
\* promise only for a component whose script left exports and whose styles are all in
\* the document, keeps scoped styles from the rest of it unless it rejects the promise,
\* and does nothing more after a failure.
THEOREM FileIsRight ==
  File!Init /\ [][File!Next]_(File!vars) =>
    /\ [](File!TypeOK /\ File!CompiledIsNormalized /\ File!FulfilledIsWhole
            /\ File!ScopedStaysScoped)
    /\ File!RejectedIsFinal
<1>1. File!Init => Files
  BY FilesInit
<1>2. Files /\ [File!Next]_(File!vars) =>
        /\ Files'
        /\ [stage = "rejected" =>
              /\ stage' = "rejected" /\ ran' = ran
              /\ \A s \in File!Style : head[s] = "out" => head'[s] = "out"]_(File!vars)
  BY FileStep
<1>3. Files => /\ File!TypeOK /\ File!CompiledIsNormalized /\ File!FulfilledIsWhole
               /\ File!ScopedStaysScoped
  BY FilesAreRight DEF Files
<1> QED
  BY <1>1, <1>2, <1>3, PTL DEF File!RejectedIsFinal

-----------------------------------------------------------------------------
(* PageComponent: its steps are steps of the two parts. *)

Inductive == Views /\ Files /\ (resolved => stage = "fulfilled")

LEMMA PageParts ==
  /\ \A o \in Owner : Page!View!Render(o) => Factory!Render(o)
  /\ \A o \in Owner : Page!View!Destroy(o) => Factory!Destroy(o)
  /\ Page!View!Resolve => Factory!Resolve
  /\ Page!View!Reject => Factory!Reject
  /\ Page!Loader!load => File!load
<1>1. ASSUME NEW o \in Owner, Page!View!Render(o)
      PROVE  Factory!Render(o)
  <2>1. Page!View!CallFactory(o) => Factory!CallFactory(o)
    BY DEF Page!View!CallFactory, Factory!CallFactory, Page!View!Rendered, Factory!Rendered,
           Page!View!ReturnsPromise, Factory!ReturnsPromise, Page!View!ResolvesAtOnce,
           Page!View!RejectsAtOnce
  <2>2. Page!View!UseFactory(o) => Factory!UseFactory(o)
    BY DEF Page!View!UseFactory, Factory!UseFactory, Page!View!Rendered, Factory!Rendered,
           Page!View!NoteOwner, Factory!NoteOwner, Page!View!Current, Factory!Current,
           Page!View!Answer, Factory!Answer, Page!View!fieldVars, Factory!fieldVars,
           Page!View!timerVars, Factory!timerVars
  <2>3. Page!View!Rendered(o, "nothing") /\ UNCHANGED Page!View!factoryVars =>
          Factory!Rendered(o, "nothing") /\ UNCHANGED Factory!factoryVars
    BY DEF Page!View!Rendered, Factory!Rendered, Page!View!factoryVars, Factory!factoryVars,
           Page!View!fieldVars, Factory!fieldVars, Page!View!timerVars, Factory!timerVars
  <2> QED
    BY <1>1, <2>1, <2>2, <2>3 DEF Page!View!Render, Factory!Render
<1>2. \A o \in Owner : Page!View!Destroy(o) => Factory!Destroy(o)
  BY DEF Page!View!Destroy, Factory!Destroy, Page!View!fieldVars, Factory!fieldVars,
         Page!View!timerVars, Factory!timerVars
<1>3. Page!View!Resolve => Factory!Resolve
  BY DEF Page!View!Resolve, Factory!Resolve, Page!View!forceRender, Factory!forceRender,
         Page!View!Live, Factory!Live
<1>4. Page!View!Reject => Factory!Reject
  BY DEF Page!View!Reject, Factory!Reject, Page!View!reject, Factory!reject,
         Page!View!forceRender, Factory!forceRender, Page!View!Live, Factory!Live
<1>5. Page!Loader!load => File!load
  BY DEF Page!Loader!load, File!load, Page!Loader!fileVars, File!fileVars
<1> QED
  BY <1>1, <1>2, <1>3, <1>4, <1>5

LEMMA LoadParts == Page!Load => File!Next /\ UNCHANGED viewVars
BY DEF Page!Load, Page!viewVars, viewVars, File!Next,
       Page!Loader!FileFails, File!FileFails,
       Page!Loader!FileArrives, File!FileArrives,
       Page!Loader!SectionArrives, File!SectionArrives,
       Page!Loader!_normalizeSection, File!_normalizeSection,
       Page!Loader!FailSection, File!FailSection,
       Page!Loader!compile, File!compile,
       Page!Loader!CompileStyles, File!CompileStyles,
       Page!Loader!CompiledStyle, File!CompiledStyle,
       Page!Loader!Unscopable, File!Unscopable,
       Page!Loader!Broken, File!Broken,
       Page!Loader!AllNormalized, File!AllNormalized,
       Page!Loader!Present, File!Present,
       Page!Loader!HasTemplate, File!HasTemplate,
       Page!Loader!Finish, File!Finish,
       Page!Loader!onStyleLoaded, File!onStyleLoaded,
       Page!Loader!fileVars, File!fileVars,
       Page!Loader!Section, File!Section, Page!Loader!Style, File!Style,
       Page!Loader!Template, File!Template, Page!Loader!Script, File!Script

LEMMA PageInit == Page!Init => Factory!Init /\ File!Init
BY DEF Page!Init, Page!View!Init, Factory!Init, Page!Loader!Init, File!Init,
       Page!Loader!Section, File!Section, Page!Loader!Style, File!Style

\* A step is a step of each part or leaves it alone; what is resolved was fulfilled.
LEMMA PageSteps ==
  ASSUME [Page!Next]_(Page!vars)
  PROVE  /\ [Factory!Next]_(Factory!vars)
         /\ [File!Next]_(File!vars)
         /\ UNCHANGED resolved \/ (stage = "fulfilled" /\ stage' = stage)
<1>1. UNCHANGED viewVars => UNCHANGED Factory!vars /\ UNCHANGED resolved
  BY DEF viewVars, Factory!vars, Factory!factoryVars, Factory!fieldVars, Factory!timerVars
<1>2. UNCHANGED fileVars => UNCHANGED File!vars /\ UNCHANGED stage
  BY DEF fileVars, File!vars, File!fileVars
<1>3. CASE UNCHANGED Page!vars
  BY <1>1, <1>2, <1>3
  DEF Page!vars, Page!viewVars, Page!loaderVars, viewVars, fileVars
<1>4. ASSUME NEW o \in Owner, Page!Render(o)
      PROVE  Factory!Next /\ [File!Next]_(File!vars) /\ UNCHANGED resolved
  <2>1. Page!View!Render(o) /\ (Page!Loader!load \/ UNCHANGED fileVars)
    BY <1>4 DEF Page!Render, Page!loaderVars, fileVars
  <2>2. Factory!Render(o) /\ [File!Next]_(File!vars)
    BY <1>2, <2>1, PageParts DEF File!Next
  <2>3. UNCHANGED resolved
    BY <2>1 DEF Page!View!Render, Page!View!CallFactory, Page!View!ReturnsPromise,
                Page!View!ResolvesAtOnce, Page!View!RejectsAtOnce, Page!View!UseFactory,
                Page!View!factoryVars, Page!View!fieldVars
  <2> QED
    BY <2>2, <2>3 DEF Factory!Next
<1>5. ASSUME NEW o \in Owner, Page!Destroy(o)
      PROVE  Factory!Next /\ [File!Next]_(File!vars) /\ UNCHANGED resolved
  <2>1. Factory!Destroy(o) /\ UNCHANGED fileVars
    BY <1>5, PageParts DEF Page!Destroy, Page!loaderVars, fileVars
  <2>2. UNCHANGED resolved
    BY <2>1 DEF Factory!Destroy, Factory!fieldVars
  <2> QED
    BY <1>2, <2>1, <2>2 DEF Factory!Next
<1>6. CASE Page!Load
  BY <1>1, <1>6, LoadParts
<1>7. CASE Page!Settle
  <2>1. UNCHANGED fileVars
    BY <1>7 DEF Page!Settle, Page!loaderVars, fileVars
  <2>2. Factory!Next /\ (UNCHANGED resolved \/ stage = "fulfilled")
    BY <1>7, PageParts DEF Page!Settle, Factory!Next, Factory!Reject
  <2> QED
    BY <1>2, <2>1, <2>2
<1> QED
  BY <1>3, <1>4, <1>5, <1>6, <1>7 DEF Page!Next

\* A step keeps the invariant, asks for the file once, and leaves a settled promise.
LEMMA PageStep ==
  ASSUME Inductive, [Page!Next]_(Page!vars)
  PROVE  Inductive' /\ Page!OneLoad
<1>1. Views' /\ Files'
  BY PageSteps, FactoryStep, FileStep DEF Inductive
<1>2. /\ stage \in {"fulfilled", "rejected"} => stage' = stage
      /\ stage' = "requested" => stage \in {"none", "requested"}
  BY PageSteps, FileStep DEF Inductive
<1>3. resolved' => stage' = "fulfilled"
  BY <1>2, PageSteps DEF Inductive
<1>4. stage = "rejected" => \A o \in Owner : shows'[o] # "component"
  BY <1>1, <1>2, <1>3 DEF Views, Answered
<1> QED
  BY <1>1, <1>2, <1>3, <1>4 DEF Inductive, Page!OneLoad

\* What the invariant says in the terms of PageComponent.
LEMMA PageImplies ==
  ASSUME Inductive
  PROVE  Page!TypeOK /\ Page!ShownIsWhole
<1>1. Page!View!TypeOK
  BY DEF Inductive, Views, Factory!TypeOK, Page!View!TypeOK, Factory!Live, Page!View!Live
<1>2. Page!Loader!TypeOK
  BY DEF Inductive, Files, File!TypeOK, Page!Loader!TypeOK, File!Section,
         Page!Loader!Section, File!Style, Page!Loader!Style
<1>3. Page!ShownIsWhole
  <2> SUFFICES ASSUME NEW o \in Owner, shows[o] = "component"
               PROVE  /\ ran = 1 \/ Page!Loader!Script \notin Page!Loader!Present
                      /\ scriptEnds = "well"
                      /\ \A s \in Page!Loader!Present \cap Page!Loader!Style :
                           /\ head[s] = "plain" => s \notin scoped
                           /\ head[s] # "out"
    BY DEF Page!ShownIsWhole
  <2>1. stage = "fulfilled"
    BY DEF Inductive, Views, Answered
  <2>2. File!FulfilledIsWhole /\ Whole
    BY DEF Inductive, Files
  <2> QED
    BY <2>1, <2>2
    DEF File!FulfilledIsWhole, Whole, File!Script, Page!Loader!Script, File!Present,
        Page!Loader!Present, File!Section, Page!Loader!Section, File!Style,
        Page!Loader!Style
<1> QED
  BY <1>1, <1>2, <1>3 DEF Page!TypeOK

\* PageComponent, with as many instances and styles as one likes: an instance is never left
\* with an outdated view or unknown while it waits; http-vue-loader runs no script and
\* inserts no style before each section has its final content, nor after a failure, and
\* leaves no scoped style in effect for the document; what Vue shows is whole; and one
\* request for the file serves all instances.
THEOREM PageIsRight ==
  Page!Init /\ [][Page!Next]_(Page!vars) =>
    /\ [](/\ Page!TypeOK /\ Factory!ViewIsCurrent /\ Factory!WaitingIsKnown
          /\ File!CompiledIsNormalized /\ File!ScopedStaysScoped /\ Page!ShownIsWhole)
    /\ Page!LoadedOnce
    /\ File!RejectedIsFinal
<1>1. Page!Init => Inductive
  BY PageInit, ViewsInit, FilesInit DEF Inductive, Factory!Init
<1>2. Inductive /\ [Page!Next]_(Page!vars) =>
        /\ Inductive'
        /\ [Page!OneLoad]_(Page!vars)
        /\ [stage = "rejected" =>
              /\ stage' = "rejected" /\ ran' = ran
              /\ \A s \in File!Style : head[s] = "out" => head'[s] = "out"]_(File!vars)
  BY PageStep, PageSteps, FileStep DEF Inductive
<1>3. Inductive => /\ Page!TypeOK /\ Factory!ViewIsCurrent /\ Factory!WaitingIsKnown
                   /\ File!CompiledIsNormalized /\ File!ScopedStaysScoped
                   /\ Page!ShownIsWhole
  BY PageImplies, FilesAreRight DEF Inductive, Views, Files
<1> QED
  BY <1>1, <1>2, <1>3, PTL DEF Page!LoadedOnce, File!RejectedIsFinal

-----------------------------------------------------------------------------
(* All parts. *)

\* The view and the file are right whichever part runs.
Parts ==
  /\ Views /\ Files
  /\ UsesPage /\ resolved => stage = "fulfilled"

LEMMA PartsInit == Init => Parts
BY ViewsInit, FilesInit DEF Init, Parts, Factory!Init

LEMMA PartSteps ==
  ASSUME [Next]_vars
  PROVE  /\ part' = part
         /\ [Factory!Next]_(Factory!vars)
         /\ [File!Next]_(File!vars)
         /\ UsesPage => [Page!Next]_(Page!vars)
<1>1. UNCHANGED viewVars => UNCHANGED Factory!vars
  BY DEF viewVars, Factory!vars, Factory!factoryVars, Factory!fieldVars, Factory!timerVars
<1>2. UNCHANGED fileVars => UNCHANGED File!vars
  BY DEF fileVars, File!vars, File!fileVars
<1>3. UNCHANGED <<viewVars, fileVars>> => UNCHANGED Page!vars
  BY DEF Page!vars, Page!viewVars, Page!loaderVars, viewVars, fileVars
<1>4. part' = part
  BY DEF Next, vars
<1>5. CASE UsesPage /\ Page!Next
  BY <1>4, <1>5, PageSteps
<1>6. CASE part = "Factory" /\ Factory!Next /\ UNCHANGED fileVars
  BY <1>2, <1>4, <1>6 DEF UsesPage
<1>7. CASE part = "File" /\ File!Next /\ UNCHANGED viewVars
  BY <1>1, <1>4, <1>7 DEF UsesPage
<1>8. CASE UNCHANGED <<viewVars, fileVars>>
  BY <1>1, <1>2, <1>3, <1>4, <1>8
<1> QED
  BY <1>5, <1>6, <1>7, <1>8 DEF Next, vars

LEMMA PartsStep ==
  ASSUME Parts, [Next]_vars
  PROVE  /\ Parts'
         /\ [error =>
               Factory!Current' = "error" /\ \A o \in dirty' : o \in dirty]_(Factory!vars)
         /\ [stage = "rejected" =>
              /\ stage' = "rejected" /\ ran' = ran
              /\ \A s \in File!Style : head[s] = "out" => head'[s] = "out"]_(File!vars)
         /\ [UsesPage => Page!OneLoad]_vars
<1>1. /\ Views'
      /\ [error =>
            Factory!Current' = "error" /\ \A o \in dirty' : o \in dirty]_(Factory!vars)
  BY PartSteps, FactoryStep DEF Parts
<1>2. /\ Files'
      /\ [stage = "rejected" =>
            /\ stage' = "rejected" /\ ran' = ran
            /\ \A s \in File!Style : head[s] = "out" => head'[s] = "out"]_(File!vars)
  BY PartSteps, FileStep DEF Parts
<1>3. UsesPage => Inductive' /\ Page!OneLoad
  BY PartSteps, PageStep DEF Parts, Inductive
<1>4. UsesPage' = UsesPage
  BY PartSteps DEF UsesPage
<1> QED
  BY <1>1, <1>2, <1>3, <1>4 DEF Parts, Inductive

\* OwnersAreServed: with each form of factory (a promise, with or without an error component,
\* a loading one, a delay, a timeout, or none) and any number of instances, resolveAsyncComponent leaves no live instance
\* with an outdated view or unknown while it waits, and an answer is final.
THEOREM OwnersStayServed == Spec => OwnersAreServed
<1>1. Init => Parts
  BY PartsInit
<1>2. Parts /\ [Next]_vars =>
        /\ Parts'
        /\ [error =>
              Factory!Current' = "error" /\ \A o \in dirty' : o \in dirty]_(Factory!vars)
  BY PartsStep
<1>3. Parts => (part = "Factory" => /\ Factory!TypeOK /\ Factory!ViewIsCurrent
                                    /\ Factory!WaitingIsKnown /\ Factory!TimersAreOver)
  BY DEF Parts, Views
<1> QED
  BY <1>1, <1>2, <1>3, PTL DEF Spec, OwnersAreServed, Factory!ErrorIsFinal

\* ShownIsWhole: within the bounds of the run on what the file holds (PageIsRight has
\* none), what Vue shows is what the loader has compiled completely, and its file is
\* requested once for all instances.
THEOREM ShownStaysWhole == Spec => ShownIsWhole
<1>1. Init => Parts
  BY PartsInit
<1>2. Parts /\ [Next]_vars => Parts' /\ [UsesPage => Page!OneLoad]_vars
  BY PartsStep
<1>3. Parts => (UsesPage => Page!TypeOK /\ Page!ShownIsWhole)
  BY PageImplies DEF Parts, Inductive
<1> QED
  BY <1>1, <1>2, <1>3, PTL DEF Spec, ShownIsWhole

\* FileIsWholeOrRejected: within the bounds of the run on what the file holds (FileIsRight
\* has none), in whatever order the answers come, http-vue-loader compiles nothing before
\* all of the file is there, hands over whole components alone, and does nothing more
\* after a failure.
THEOREM FilesStayWhole == Spec => FileIsWholeOrRejected
<1>1. Init => Parts
  BY PartsInit
<1>2. Parts /\ [Next]_vars =>
        /\ Parts'
        /\ [stage = "rejected" =>
              /\ stage' = "rejected" /\ ran' = ran
              /\ \A s \in File!Style : head[s] = "out" => head'[s] = "out"]_(File!vars)
  BY PartsStep
<1>3. Parts => /\ File!TypeOK /\ File!CompiledIsNormalized /\ File!FulfilledIsWhole
               /\ File!ScopedStaysScoped
  BY FilesAreRight DEF Parts, Files
<1> QED
  BY <1>1, <1>2, <1>3, PTL DEF Spec, FileIsWholeOrRejected, File!RejectedIsFinal
=============================================================================
