--------------------------- MODULE HelpersProofs ----------------------------
(***************************************************************************)
(* Proofs about the helpers on the agent's side, for any number of         *)
(* threads, names, tasks and places, and any inbox (ServerProofs.tla has   *)
(* those about the cache and the server).                                  *)
(***************************************************************************)
EXTENDS MCHelpers, Sequences, TLAPS

-----------------------------------------------------------------------------
(* TomasClassloader.  Everything follows from the monitor: between Lookup  *)
(* and the end of a load only the thread that holds it defines classes.    *)

\* The places between Lookup and the end of a load.
Inside == {"own", "parent", "again"}

\* A thread within a load holds the monitor, and the class it loads is not yet
\* defined.
Monitor ==
  \A t \in Thread :
    /\ at[t] \in Inside <=> lock = t
    /\ at[t] \in Inside => name[t] \notin defined

\* What the way to each place says of the name that is loaded.
Route ==
  \A t \in Thread :
    /\ at[t] = "own" => name[t] \notin Jdk
    /\ at[t] = "parent" /\ name[t] \in Own \ Jdk => name[t] \in unread
    /\ at[t] = "again" => name[t] \notin Parents

\* The answers: the loader's own classes are defined, those of the parent are found
\* there.
Answered ==
  \A n \in Name :
    /\ <<n, "own">> \in answers => n \in defined
    /\ <<n, "parent">> \in answers => n \in Parents

LoadInductive ==
  Loads!TypeOK /\ Monitor /\ Route /\ Answered /\ Loads!DefinedOnce /\ Loads!RightLoader

LEMMA LoadInit == Loads!Init => LoadInductive
<1> SUFFICES ASSUME Loads!Init PROVE LoadInductive
  OBVIOUS
<1>1. (CHOOSE n \in Name : TRUE) \in Name
  BY HelpersAssumption DEF Loads!LoaderAssumption
<1>2. Loads!TypeOK
  BY <1>1 DEF Loads!Init, Loads!TypeOK
<1>3. Monitor /\ Route
  BY HelpersAssumption DEF Loads!Init, Loads!LoaderAssumption, Monitor, Route, Inside
<1>4. Answered /\ Loads!DefinedOnce /\ Loads!RightLoader
  BY DEF Loads!Init, Answered, Loads!DefinedOnce, Loads!RightLoader
<1> QED
  BY <1>2, <1>3, <1>4 DEF LoadInductive

LEMMA LoadStep == LoadInductive /\ [Loads!Next]_loadVars => LoadInductive'
<1> SUFFICES ASSUME LoadInductive, [Loads!Next]_loadVars PROVE LoadInductive'
  OBVIOUS
<1> USE DEF LoadInductive, Loads!TypeOK
<1>1. CASE UNCHANGED loadVars
  BY <1>1 DEF loadVars, Monitor, Route, Answered, Loads!DefinedOnce, Loads!RightLoader
<1>2. ASSUME NEW t \in Thread, NEW n \in Name, Loads!loadClass(t, n)
      PROVE  LoadInductive'
  <2> USE <1>2 DEF Loads!loadClass, Loads!Goto
  <2>1. Loads!TypeOK'
    OBVIOUS
  <2>2. Monitor' /\ Route'
    BY DEF Monitor, Route, Inside
  <2>3. Answered' /\ Loads!DefinedOnce' /\ Loads!RightLoader'
    BY DEF Answered, Loads!DefinedOnce, Loads!RightLoader
  <2> QED
    BY <2>1, <2>2, <2>3
<1>3. ASSUME NEW t \in Thread, Loads!Lookup(t)
      PROVE  LoadInductive'
  <2> USE <1>3 DEF Loads!Lookup, Loads!Goto, Loads!Found
  <2>1. Loads!TypeOK'
    OBVIOUS
  <2>2. Monitor' /\ Route'
    BY HelpersAssumption DEF Monitor, Route, Inside, Loads!LoaderAssumption
  <2>3. Answered' /\ Loads!DefinedOnce' /\ Loads!RightLoader'
    BY DEF Answered, Loads!DefinedOnce, Loads!RightLoader
  <2> QED
    BY <2>1, <2>2, <2>3
<1>4. ASSUME NEW t \in Thread, Loads!Define(t)
      PROVE  LoadInductive'
  <2> USE <1>4 DEF Loads!Define, Loads!Goto, Loads!Found, Loads!Leave
  <2>1. Loads!TypeOK'
    OBVIOUS
  <2>2. Monitor' /\ Route'
    BY HelpersAssumption DEF Monitor, Route, Inside, Loads!LoaderAssumption
  <2>3. name[t] \notin defined /\ name[t] \notin Jdk \cap Parents
    BY DEF Monitor, Route, Inside
  <2>4. Answered' /\ Loads!DefinedOnce' /\ Loads!RightLoader'
    BY <2>3 DEF Answered, Loads!DefinedOnce, Loads!RightLoader
  <2> QED
    BY <2>1, <2>2, <2>4
<1>5. ASSUME NEW t \in Thread, Loads!Refuse(t)
      PROVE  LoadInductive'
  <2> USE <1>5 DEF Loads!Refuse, Loads!Goto, Loads!Leave
  <2>1. Loads!TypeOK'
    OBVIOUS
  <2>2. Monitor' /\ Route'
    BY HelpersAssumption DEF Monitor, Route, Inside, Loads!LoaderAssumption
  <2>3. Answered' /\ Loads!DefinedOnce' /\ Loads!RightLoader'
    BY DEF Answered, Loads!DefinedOnce, Loads!RightLoader
  <2> QED
    BY <2>1, <2>2, <2>3
<1>6. ASSUME NEW t \in Thread, Loads!Miss(t)
      PROVE  LoadInductive'
  <2> USE <1>6 DEF Loads!Miss, Loads!Goto, Loads!Leave
  <2>1. Loads!TypeOK'
    OBVIOUS
  <2>2. Monitor' /\ Route'
    BY HelpersAssumption DEF Monitor, Route, Inside, Loads!LoaderAssumption
  <2>3. Answered' /\ Loads!DefinedOnce' /\ Loads!RightLoader'
    BY DEF Answered, Loads!DefinedOnce, Loads!RightLoader
  <2> QED
    BY <2>1, <2>2, <2>3
<1>7. ASSUME NEW t \in Thread, Loads!AskParent(t)
      PROVE  LoadInductive'
  <2> USE <1>7 DEF Loads!AskParent, Loads!Goto, Loads!Leave, Loads!Found
  <2>1. Loads!TypeOK'
    OBVIOUS
  <2>2. Monitor' /\ Route'
    BY HelpersAssumption DEF Monitor, Route, Inside, Loads!LoaderAssumption
  <2>3. Answered' /\ Loads!DefinedOnce'
    BY DEF Answered, Loads!DefinedOnce
  <2>4. Loads!RightLoader'
    <3> SUFFICES ASSUME NEW n \in Own \ Jdk, <<n, "parent">> \in answers', n \notin unread
                 PROVE  FALSE
      BY DEF Loads!RightLoader
    <3>1. <<n, "parent">> \notin answers
      BY HelpersAssumption DEF Loads!RightLoader, Loads!LoaderAssumption
    <3>2. n # name[t]
      BY DEF Route
    <3> QED
      BY <3>1, <3>2
  <2> QED
    BY <2>1, <2>2, <2>3, <2>4
<1> QED
  BY <1>1, <1>2, <1>3, <1>4, <1>5, <1>6, <1>7 DEF Loads!Next, Loads!Step

\* The three things that are said of the classes.
LEMMA LoadInvariant == LoadInductive => ClassesAreRight
<1> SUFFICES ASSUME LoadInductive PROVE Loads!OneClassPerName
  BY DEF LoadInductive, ClassesAreRight
<1> SUFFICES ASSUME NEW n \in Name, <<n, "own">> \in answers, <<n, "parent">> \in answers
             PROVE  n \in unread
  BY DEF Loads!OneClassPerName
<1>1. n \in defined /\ n \in Parents /\ n \in Own
  BY DEF LoadInductive, Answered, Loads!TypeOK
<1> QED
  BY <1>1 DEF LoadInductive, Loads!RightLoader

-----------------------------------------------------------------------------
(* PathUtil.  A thread knows where its file was at some moment of its      *)
(* call; the cache is filled only after a file has vanished.               *)

\* Where the file of a call was, at every moment of the call so far.
History ==
  \A t \in Seeker : atSeeker[t] # "idle" =>
    /\ exists[sought[t]] \subseteq seen[t]
    /\ file[t] \in Paths!Place => file[t] \in seen[t]

\* What has been found so far: nothing before the first look, something after the
\* last one, and never an exception.
Progress ==
  \A t \in Seeker :
    /\ atSeeker[t] # "idle" => file[t] # "NPE"
    /\ atSeeker[t] \in {"put", "resize"} => file[t] # "null"
    /\ atSeeker[t] \notin {"idle", "again", "put", "resize"} => file[t] = "null"

\* What a call in the rare places has met: a file that vanished between two looks.
Vanishing ==
  \A t \in Seeker :
    /\ atSeeker[t] = "resource" => Paths!There(t, loader[t]) \/ vanished
    /\ atSeeker[t] = "again" /\ file[t] # "null" => Paths!There(t, file[t]) \/ vanished
    /\ atSeeker[t] \in {"get", "put", "resize"} => vanished

\* A call that has found its name cached still finds it, unless another thread changes
\* the map meanwhile, and such a call is noted.
Racing ==
  \A t \in Seeker : atSeeker[t] = "get" =>
    /\ Paths!Finds(t) \/ t \in raced
    /\ \A u \in Seeker \ {t} : atSeeker[u] \in Paths!Changing => t \in raced

PathInductive ==
  /\ Paths!TypeOK
  /\ History /\ Progress /\ Vanishing /\ Racing
  /\ Paths!CacheNeedsVanishing /\ Paths!FallbackNeedsVanishing

LEMMA PathInit == Paths!Init => PathInductive
<1> SUFFICES ASSUME Paths!Init PROVE PathInductive
  OBVIOUS
<1>1. map \in [{} -> Paths!Place] /\ {} \in SUBSET File
  BY DEF Paths!Init
<1>2. Paths!TypeOK
  BY <1>1 DEF Paths!Init, Paths!TypeOK, Paths!Locations
<1>3. History /\ Progress /\ Vanishing /\ Racing
  BY DEF Paths!Init, History, Progress, Vanishing, Racing
<1>4. Paths!CacheNeedsVanishing /\ Paths!FallbackNeedsVanishing
  BY <1>1 DEF Paths!Init, Paths!CacheNeedsVanishing, Paths!FallbackNeedsVanishing
<1> QED
  BY <1>2, <1>3, <1>4 DEF PathInductive

\* The cache, unfolded.
LEMMA CacheType ==
  ASSUME Paths!TypeOK
  PROVE  map \in [DOMAIN map -> Paths!Place] /\ DOMAIN map \subseteq File
  BY DEF Paths!TypeOK

\* put adds the thread's entry, whatever other entries are lost with it.
LEMMA PutType ==
  ASSUME Paths!TypeOK, NEW t \in Seeker, file[t] \in Paths!Place, Paths!Put(t)
  PROVE  /\ map' \in UNION {[S -> Paths!Place] : S \in SUBSET File}
         /\ DOMAIN map' # {}
<1>1. PICK S : map' = [n \in (DOMAIN map \ S) \cup {sought[t]} |-> Paths!With(t)[n]]
  BY DEF Paths!Put
<1> DEFINE D == (DOMAIN map \ S) \cup {sought[t]}
<1>2. D \in SUBSET File
  BY CacheType DEF Paths!TypeOK
<1>3. map' \in [D -> Paths!Place]
  BY <1>1, CacheType DEF Paths!With
<1> QED
  BY <1>2, <1>3

\* A thread that goes to a place is noted there if it races with another one.
LEMMA GotoRaces ==
  ASSUME Paths!TypeOK, Racing, NEW t \in Seeker, NEW l \in Paths!Locations, NEW f,
         Paths!Goto(t, l, f), UNCHANGED sought,
         l = "get" => Paths!Finds(t) /\ UNCHANGED map,
         UNCHANGED map \/ atSeeker[t] \in Paths!Changing
  PROVE  Racing'
<1>1. atSeeker' = [atSeeker EXCEPT ![t] = l]
  BY DEF Paths!Goto
<1>2. raced' = {u \in Seeker :
                  /\ atSeeker'[u] = "get"
                  /\ \/ u \in raced
                     \/ \E v \in Seeker \ {u} : atSeeker'[v] \in Paths!Changing}
  BY DEF Paths!Goto
<1> SUFFICES ASSUME NEW u \in Seeker, atSeeker'[u] = "get"
             PROVE  /\ Paths!Finds(u)' \/ u \in raced'
                    /\ \A v \in Seeker \ {u} :
                         atSeeker'[v] \in Paths!Changing => u \in raced'
  BY DEF Racing, Paths!Changing
<1>3. \A v \in Seeker \ {u} : atSeeker'[v] \in Paths!Changing => u \in raced'
  BY <1>2
<1>4. CASE u = t
  <2>1. l = "get"
    BY <1>1, <1>4 DEF Paths!TypeOK
  <2> QED
    BY <1>3, <1>4, <2>1 DEF Paths!Finds
<1>5. CASE u # t
  <2>1. atSeeker[u] = "get"
    BY <1>1, <1>5 DEF Paths!TypeOK
  <2>2. u \in raced => u \in raced'
    BY <1>2
  <2>3. Paths!Finds(u) /\ ~UNCHANGED map => u \in raced
    BY <1>5, <2>1 DEF Racing
  <2> QED
    BY <1>3, <2>1, <2>2, <2>3 DEF Racing, Paths!Finds
<1> QED
  BY <1>4, <1>5

LEMMA RacingStep ==
  ASSUME Paths!TypeOK, Racing, [Paths!Next]_pathVars
  PROVE  Racing'
<1> USE DEF Paths!TypeOK, Paths!Environment, Paths!Locations, Paths!Changing
<1>1. CASE UNCHANGED pathVars
  BY <1>1 DEF pathVars, Racing, Paths!Finds
<1>2. ASSUME NEW t \in Seeker, NEW n \in File, NEW l \in Loader, Paths!Call(t, n, l)
      PROVE  Racing'
  BY <1>2 DEF Paths!Call, Racing, Paths!Finds
<1>3. ASSUME NEW t \in Seeker, Paths!ContainsKey(t)
      PROVE  Racing'
  <2>1. CASE Paths!Finds(t) /\ Paths!Goto(t, "get", file[t])
    BY <1>3, <2>1, GotoRaces DEF Paths!ContainsKey
  <2>2. CASE Paths!Goto(t, "dir", file[t])
    BY <1>3, <2>2, GotoRaces DEF Paths!ContainsKey
  <2> QED
    BY <1>3, <2>1, <2>2 DEF Paths!ContainsKey
<1>4. ASSUME NEW t \in Seeker,
             \/ Paths!Get(t) \/ Paths!LookDir(t) \/ Paths!FindResource(t)
             \/ Paths!LookResource(t) \/ Paths!LookUserDir(t) \/ Paths!LookTmpDir(t)
             \/ Paths!Again(t) \/ Paths!Resized(t)
      PROVE  Racing'
  <2>1. UNCHANGED <<map, sought>>
    BY <1>4 DEF Paths!Get, Paths!LookDir, Paths!FindResource, Paths!LookResource,
                Paths!LookUserDir, Paths!LookTmpDir, Paths!Again, Paths!Resized
  <2>2. PICK l \in Paths!Locations \ {"get"}, f \in {file'[t]} \cup {file'} :
          Paths!Goto(t, l, f)
    BY <1>4 DEF Paths!Get, Paths!LookDir, Paths!FindResource, Paths!LookResource,
                Paths!LookUserDir, Paths!LookTmpDir, Paths!Again, Paths!Resized, Paths!Goto
  <2> QED
    BY <2>1, <2>2, GotoRaces
<1>5. ASSUME NEW t \in Seeker, Paths!Put(t)
      PROVE  Racing'
  <2>1. atSeeker[t] = "put" /\ UNCHANGED sought
    BY <1>5 DEF Paths!Put
  <2>2. Paths!Goto(t, "resize", file[t]) \/ Paths!Goto(t, "idle", file[t])
    BY <1>5 DEF Paths!Put
  <2> QED
    BY <2>1, <2>2, GotoRaces
<1>6. ASSUME NEW n \in File, NEW p \in Paths!Place, Paths!Create(n, p) \/ Paths!Delete(n, p)
      PROVE  Racing'
  BY <1>6 DEF Paths!Create, Paths!Delete, Racing, Paths!Finds
<1> QED
  BY <1>1, <1>2, <1>3, <1>4, <1>5, <1>6 DEF Paths!Next, Paths!ThreadNext

LEMMA PathStep == PathInductive /\ [Paths!Next]_pathVars => PathInductive'
<1> SUFFICES ASSUME PathInductive, [Paths!Next]_pathVars PROVE PathInductive'
  OBVIOUS
<1> USE DEF PathInductive, Paths!TypeOK
<1>1. CASE UNCHANGED pathVars
  BY <1>1 DEF pathVars, History, Progress, Vanishing, Paths!There,
              Paths!CacheNeedsVanishing, Paths!FallbackNeedsVanishing, Racing, Paths!Finds
<1>2. ASSUME NEW t \in Seeker, NEW n \in File, NEW l \in Loader, Paths!Call(t, n, l)
      PROVE  PathInductive'
  <2> USE <1>2 DEF Paths!Call, Paths!Goto, Paths!Environment
  <2>1. Paths!TypeOK'
    BY HelpersAssumption, CacheType DEF Paths!Locations, Paths!PathAssumption, Paths!Place
  <2>2. History'
    BY HelpersAssumption DEF History, Progress, Paths!There, Paths!PathAssumption, Paths!Place
  <2>3. Progress'
    BY HelpersAssumption, CacheType DEF Progress, Paths!PathAssumption, Paths!Place
  <2>4. Vanishing'
    BY HelpersAssumption, CacheType DEF Vanishing, Progress, Paths!There, Paths!Finds, Paths!CacheNeedsVanishing
  <2>5. Paths!CacheNeedsVanishing' /\ Paths!FallbackNeedsVanishing'
    BY HelpersAssumption, CacheType DEF Vanishing, Progress, Paths!CacheNeedsVanishing, Paths!FallbackNeedsVanishing, Paths!There, Paths!PathAssumption, Paths!Place
  <2> QED
    BY <2>1, <2>2, <2>3, <2>4, <2>5, RacingStep DEF PathInductive
<1>3. ASSUME NEW t \in Seeker, Paths!ContainsKey(t)
      PROVE  PathInductive'
  <2> USE <1>3 DEF Paths!ContainsKey, Paths!Goto, Paths!Environment
  <2>1. Paths!TypeOK'
    BY HelpersAssumption, CacheType DEF Paths!Locations, Paths!PathAssumption, Paths!Place
  <2>2. History'
    BY HelpersAssumption DEF History, Progress, Paths!There, Paths!PathAssumption, Paths!Place
  <2>3. Progress'
    BY HelpersAssumption, CacheType DEF Progress, Paths!PathAssumption, Paths!Place
  <2>4. Vanishing'
    BY HelpersAssumption, CacheType DEF Vanishing, Progress, Paths!There, Paths!Finds, Paths!CacheNeedsVanishing
  <2>5. Paths!CacheNeedsVanishing' /\ Paths!FallbackNeedsVanishing'
    BY HelpersAssumption, CacheType DEF Vanishing, Progress, Paths!CacheNeedsVanishing, Paths!FallbackNeedsVanishing, Paths!There, Paths!PathAssumption, Paths!Place
  <2> QED
    BY <2>1, <2>2, <2>3, <2>4, <2>5, RacingStep DEF PathInductive
<1>4. ASSUME NEW t \in Seeker, Paths!Get(t)
      PROVE  PathInductive'
  <2> USE <1>4 DEF Paths!Get, Paths!Goto, Paths!Environment
  <2>1. Paths!TypeOK'
    <3>1. PICK f \in Paths!Place \cup {"null"} : file' = [file EXCEPT ![t] = f]
      BY CacheType DEF Paths!Finds
    <3> QED
      BY <3>1 DEF Paths!Locations
  <2>2. History'
    BY HelpersAssumption DEF History, Progress, Paths!There, Paths!PathAssumption, Paths!Place
  <2>3. Progress'
    BY HelpersAssumption, CacheType DEF Progress, Paths!PathAssumption, Paths!Place
  <2>4. Vanishing'
    BY HelpersAssumption, CacheType DEF Vanishing, Progress, Paths!There, Paths!Finds, Paths!CacheNeedsVanishing
  <2>5. Paths!CacheNeedsVanishing' /\ Paths!FallbackNeedsVanishing'
    BY HelpersAssumption, CacheType DEF Vanishing, Progress, Paths!CacheNeedsVanishing, Paths!FallbackNeedsVanishing, Paths!There, Paths!PathAssumption, Paths!Place
  <2> QED
    BY <2>1, <2>2, <2>3, <2>4, <2>5, RacingStep DEF PathInductive
<1>5. ASSUME NEW t \in Seeker, Paths!LookDir(t)
      PROVE  PathInductive'
  <2> USE <1>5 DEF Paths!LookDir, Paths!Goto, Paths!Environment
  <2>1. Paths!TypeOK'
    BY HelpersAssumption, CacheType DEF Paths!Locations, Paths!PathAssumption, Paths!Place
  <2>2. History'
    BY HelpersAssumption DEF History, Progress, Paths!There, Paths!PathAssumption, Paths!Place
  <2>3. Progress'
    BY HelpersAssumption, CacheType DEF Progress, Paths!PathAssumption, Paths!Place
  <2>4. Vanishing'
    BY HelpersAssumption, CacheType DEF Vanishing, Progress, Paths!There, Paths!Finds, Paths!CacheNeedsVanishing
  <2>5. Paths!CacheNeedsVanishing' /\ Paths!FallbackNeedsVanishing'
    BY HelpersAssumption, CacheType DEF Vanishing, Progress, Paths!CacheNeedsVanishing, Paths!FallbackNeedsVanishing, Paths!There, Paths!PathAssumption, Paths!Place
  <2> QED
    BY <2>1, <2>2, <2>3, <2>4, <2>5, RacingStep DEF PathInductive
<1>6. ASSUME NEW t \in Seeker, Paths!FindResource(t)
      PROVE  PathInductive'
  <2> USE <1>6 DEF Paths!FindResource, Paths!Goto, Paths!Environment
  <2>1. Paths!TypeOK'
    BY HelpersAssumption, CacheType DEF Paths!Locations, Paths!PathAssumption, Paths!Place
  <2>2. History'
    BY HelpersAssumption DEF History, Progress, Paths!There, Paths!PathAssumption, Paths!Place
  <2>3. Progress'
    BY HelpersAssumption, CacheType DEF Progress, Paths!PathAssumption, Paths!Place
  <2>4. Vanishing'
    BY HelpersAssumption, CacheType DEF Vanishing, Progress, Paths!There, Paths!Finds, Paths!CacheNeedsVanishing
  <2>5. Paths!CacheNeedsVanishing' /\ Paths!FallbackNeedsVanishing'
    BY HelpersAssumption, CacheType DEF Vanishing, Progress, Paths!CacheNeedsVanishing, Paths!FallbackNeedsVanishing, Paths!There, Paths!PathAssumption, Paths!Place
  <2> QED
    BY <2>1, <2>2, <2>3, <2>4, <2>5, RacingStep DEF PathInductive
<1>7. ASSUME NEW t \in Seeker, Paths!LookResource(t)
      PROVE  PathInductive'
  <2> USE <1>7 DEF Paths!LookResource, Paths!Goto, Paths!Environment
  <2>1. Paths!TypeOK'
    BY HelpersAssumption, CacheType DEF Paths!Locations, Paths!PathAssumption, Paths!Place
  <2>2. History'
    BY HelpersAssumption DEF History, Progress, Paths!There, Paths!PathAssumption, Paths!Place
  <2>3. Progress'
    BY HelpersAssumption, CacheType DEF Progress, Paths!PathAssumption, Paths!Place
  <2>4. Vanishing'
    BY HelpersAssumption, CacheType DEF Vanishing, Progress, Paths!There, Paths!Finds, Paths!CacheNeedsVanishing
  <2>5. Paths!CacheNeedsVanishing' /\ Paths!FallbackNeedsVanishing'
    BY HelpersAssumption, CacheType DEF Vanishing, Progress, Paths!CacheNeedsVanishing, Paths!FallbackNeedsVanishing, Paths!There, Paths!PathAssumption, Paths!Place
  <2> QED
    BY <2>1, <2>2, <2>3, <2>4, <2>5, RacingStep DEF PathInductive
<1>8. ASSUME NEW t \in Seeker, Paths!LookUserDir(t)
      PROVE  PathInductive'
  <2> USE <1>8 DEF Paths!LookUserDir, Paths!Goto, Paths!Environment
  <2>1. Paths!TypeOK'
    BY HelpersAssumption, CacheType DEF Paths!Locations, Paths!PathAssumption, Paths!Place
  <2>2. History'
    BY HelpersAssumption DEF History, Progress, Paths!There, Paths!PathAssumption, Paths!Place
  <2>3. Progress'
    BY HelpersAssumption, CacheType DEF Progress, Paths!PathAssumption, Paths!Place
  <2>4. Vanishing'
    BY HelpersAssumption, CacheType DEF Vanishing, Progress, Paths!There, Paths!Finds, Paths!CacheNeedsVanishing
  <2>5. Paths!CacheNeedsVanishing' /\ Paths!FallbackNeedsVanishing'
    BY HelpersAssumption, CacheType DEF Vanishing, Progress, Paths!CacheNeedsVanishing, Paths!FallbackNeedsVanishing, Paths!There, Paths!PathAssumption, Paths!Place
  <2> QED
    BY <2>1, <2>2, <2>3, <2>4, <2>5, RacingStep DEF PathInductive
<1>9. ASSUME NEW t \in Seeker, Paths!LookTmpDir(t)
      PROVE  PathInductive'
  <2> USE <1>9 DEF Paths!LookTmpDir, Paths!Goto, Paths!Environment
  <2>1. Paths!TypeOK'
    BY HelpersAssumption, CacheType DEF Paths!Locations, Paths!PathAssumption, Paths!Place
  <2>2. History'
    BY HelpersAssumption DEF History, Progress, Paths!There, Paths!PathAssumption, Paths!Place
  <2>3. Progress'
    BY HelpersAssumption, CacheType DEF Progress, Paths!PathAssumption, Paths!Place
  <2>4. Vanishing'
    BY HelpersAssumption, CacheType DEF Vanishing, Progress, Paths!There, Paths!Finds, Paths!CacheNeedsVanishing
  <2>5. Paths!CacheNeedsVanishing' /\ Paths!FallbackNeedsVanishing'
    BY HelpersAssumption, CacheType DEF Vanishing, Progress, Paths!CacheNeedsVanishing, Paths!FallbackNeedsVanishing, Paths!There, Paths!PathAssumption, Paths!Place
  <2> QED
    BY <2>1, <2>2, <2>3, <2>4, <2>5, RacingStep DEF PathInductive
<1>10. ASSUME NEW t \in Seeker, Paths!Again(t)
      PROVE  PathInductive'
  <2> USE <1>10 DEF Paths!Again, Paths!Goto, Paths!Environment
  <2>1. Paths!TypeOK'
    BY HelpersAssumption, CacheType DEF Paths!Locations, Paths!PathAssumption, Paths!Place
  <2>2. History'
    BY HelpersAssumption DEF History, Progress, Paths!There, Paths!PathAssumption, Paths!Place
  <2>3. Progress'
    BY HelpersAssumption, CacheType DEF Progress, Paths!PathAssumption, Paths!Place
  <2>4. Vanishing'
    BY HelpersAssumption, CacheType DEF Vanishing, Progress, Paths!There, Paths!Finds, Paths!CacheNeedsVanishing
  <2>5. Paths!CacheNeedsVanishing' /\ Paths!FallbackNeedsVanishing'
    BY HelpersAssumption, CacheType DEF Vanishing, Progress, Paths!CacheNeedsVanishing, Paths!FallbackNeedsVanishing, Paths!There, Paths!PathAssumption, Paths!Place
  <2> QED
    BY <2>1, <2>2, <2>3, <2>4, <2>5, RacingStep DEF PathInductive
<1>11. ASSUME NEW t \in Seeker, Paths!Put(t)
      PROVE  PathInductive'
  <2>p. file[t] \in Paths!Place
    BY <1>11 DEF Progress, Paths!Put
  <2>m. map' \in UNION {[S -> Paths!Place] : S \in SUBSET File} /\ DOMAIN map' # {}
    BY <1>11, <2>p, PutType
  <2> USE <1>11 DEF Paths!Put, Paths!Goto, Paths!Environment
  <2>1. Paths!TypeOK'
    BY <2>m DEF Paths!Locations
  <2>2. History'
    BY HelpersAssumption DEF History, Progress, Paths!There, Paths!PathAssumption, Paths!Place
  <2>3. Progress'
    BY HelpersAssumption, CacheType DEF Progress, Paths!PathAssumption, Paths!Place
  <2>4. Vanishing'
    BY HelpersAssumption, CacheType DEF Vanishing, Progress, Paths!There, Paths!Finds, Paths!CacheNeedsVanishing
  <2>5. Paths!CacheNeedsVanishing' /\ Paths!FallbackNeedsVanishing'
    BY HelpersAssumption, CacheType DEF Vanishing, Progress, Paths!CacheNeedsVanishing, Paths!FallbackNeedsVanishing, Paths!There, Paths!PathAssumption, Paths!Place
  <2> QED
    BY <2>1, <2>2, <2>3, <2>4, <2>5, RacingStep DEF PathInductive
<1>12. ASSUME NEW t \in Seeker, Paths!Resized(t)
      PROVE  PathInductive'
  <2> USE <1>12 DEF Paths!Resized, Paths!Goto, Paths!Environment
  <2>1. Paths!TypeOK'
    BY HelpersAssumption, CacheType DEF Paths!Locations, Paths!PathAssumption, Paths!Place
  <2>2. History'
    BY HelpersAssumption DEF History, Progress, Paths!There, Paths!PathAssumption, Paths!Place
  <2>3. Progress'
    BY HelpersAssumption, CacheType DEF Progress, Paths!PathAssumption, Paths!Place
  <2>4. Vanishing'
    BY HelpersAssumption, CacheType DEF Vanishing, Progress, Paths!There, Paths!Finds, Paths!CacheNeedsVanishing
  <2>5. Paths!CacheNeedsVanishing' /\ Paths!FallbackNeedsVanishing'
    BY HelpersAssumption, CacheType DEF Vanishing, Progress, Paths!CacheNeedsVanishing, Paths!FallbackNeedsVanishing, Paths!There, Paths!PathAssumption, Paths!Place
  <2> QED
    BY <2>1, <2>2, <2>3, <2>4, <2>5, RacingStep DEF PathInductive
<1>13. ASSUME NEW n \in File, NEW p \in Paths!Place, Paths!Create(n, p)
       PROVE  PathInductive'
  <2> USE <1>13 DEF Paths!Create
  <2>1. Paths!TypeOK'
    OBVIOUS
  <2>2. History'
    BY DEF History
  <2>3. Progress'
    BY DEF Progress
  <2>4. Vanishing'
    BY DEF Vanishing, Paths!There
  <2>5. Paths!CacheNeedsVanishing' /\ Paths!FallbackNeedsVanishing'
    BY DEF Paths!CacheNeedsVanishing, Paths!FallbackNeedsVanishing
  <2> QED
    BY <2>1, <2>2, <2>3, <2>4, <2>5, RacingStep DEF PathInductive
<1>14. ASSUME NEW n \in File, NEW p \in Paths!Place, Paths!Delete(n, p)
       PROVE  PathInductive'
  <2> USE <1>14 DEF Paths!Delete
  <2>1. Paths!TypeOK'
    OBVIOUS
  <2>2. History'
    BY DEF History
  <2>3. Progress'
    BY DEF Progress
  <2>4. Vanishing'
    BY DEF Vanishing
  <2>5. Paths!CacheNeedsVanishing' /\ Paths!FallbackNeedsVanishing'
    BY DEF Paths!CacheNeedsVanishing, Paths!FallbackNeedsVanishing
  <2> QED
    BY <2>1, <2>2, <2>3, <2>4, <2>5, RacingStep DEF PathInductive
<1> QED
  BY <1>1, <1>2, <1>3, <1>4, <1>5, <1>6, <1>7, <1>8, <1>9, <1>10, <1>11, <1>12, <1>13, <1>14 DEF Paths!Next, Paths!ThreadNext

\* A call that answers: from the cache, after a look, or with an exception.
LEMMA AnswerSteps ==
  ASSUME [Paths!Next]_pathVars, Paths!TypeOK, NEW t \in Seeker, Paths!Answers(t)
  PROVE  Paths!Get(t) \/ Paths!Again(t) \/ Paths!Put(t) \/ Paths!Resized(t)
<1> USE DEF Paths!Answers, Paths!TypeOK, Paths!Goto
<1>1. ~UNCHANGED pathVars
  BY DEF pathVars
<1>2. ASSUME NEW n \in File, NEW p \in Paths!Place, Paths!Create(n, p) \/ Paths!Delete(n, p)
      PROVE  FALSE
  BY <1>2 DEF Paths!Create, Paths!Delete
<1>3. ASSUME NEW u \in Seeker, NEW n \in File, NEW l \in Loader, Paths!Call(u, n, l)
      PROVE  FALSE
  BY <1>3 DEF Paths!Call
<1>4. ASSUME NEW u \in Seeker,
             \/ Paths!ContainsKey(u) \/ Paths!LookDir(u) \/ Paths!FindResource(u)
             \/ Paths!LookResource(u) \/ Paths!LookUserDir(u) \/ Paths!LookTmpDir(u)
      PROVE  FALSE
  BY <1>4 DEF Paths!ContainsKey, Paths!LookDir, Paths!FindResource, Paths!LookResource,
              Paths!LookUserDir, Paths!LookTmpDir
<1>5. ASSUME NEW u \in Seeker,
             Paths!Get(u) \/ Paths!Again(u) \/ Paths!Put(u) \/ Paths!Resized(u)
      PROVE  u = t
  BY <1>5 DEF Paths!Get, Paths!Again, Paths!Put, Paths!Resized
<1> QED
  BY <1>1, <1>2, <1>3, <1>4, <1>5 DEF Paths!Next, Paths!ThreadNext

\* What a step that answers answers.
LEMMA AnswerFacts ==
  ASSUME PathInductive, [Paths!Next]_pathVars, NEW t \in Seeker, Paths!Answers(t)
  PROVE  /\ atSeeker[t] # "get" /\ file'[t] \in Paths!Place => file[t] \in seen[t]
         /\ file'[t] = "null" => atSeeker[t] = "get" /\ t \in raced
<1>1. Paths!Get(t) \/ Paths!Again(t) \/ Paths!Put(t) \/ Paths!Resized(t)
  BY AnswerSteps DEF PathInductive
<1> USE DEF PathInductive, Paths!TypeOK, Paths!Goto
<1>2. CASE Paths!Get(t)
  <2>1. atSeeker[t] = "get" /\ ~(atSeeker[t] # "get")
    BY <1>2 DEF Paths!Get
  <2>2. CASE Paths!Finds(t) /\ Paths!Goto(t, "idle", map[sought[t]])
    <3>1. file'[t] \in Paths!Place
      BY <2>2, CacheType DEF Paths!Finds
    <3> QED
      BY <2>1, <3>1, HelpersAssumption DEF Paths!Place, Paths!PathAssumption
  <2>3. CASE ~Paths!Finds(t)
    BY <2>1, <2>3 DEF Racing
  <2>4. CASE Paths!Resizing
    <3>1. PICK u \in Seeker : atSeeker[u] = "resize"
      BY <2>4 DEF Paths!Resizing
    <3> QED
      BY <2>1, <3>1 DEF Racing, Paths!Changing
  <2> QED
    BY <1>2, <2>2, <2>3, <2>4 DEF Paths!Get
<1>3. CASE Paths!Again(t)
  BY <1>3, HelpersAssumption
     DEF Paths!Again, History, Progress, Paths!Place, Paths!PathAssumption
<1>4. CASE Paths!Put(t)
  BY <1>4 DEF Paths!Put, History, Progress
<1>5. CASE Paths!Resized(t)
  BY <1>5 DEF Paths!Resized, History, Progress
<1> QED
  BY <1>1, <1>2, <1>3, <1>4, <1>5

-----------------------------------------------------------------------------
(* HeartBeat.  RunningIsHeld is inductive as it stands: a task is only     *)
(* started when the field holds none, so that none is running.             *)

BeatInductive == Beats!TypeOK /\ Beats!RunningIsHeld

LEMMA BeatInit == Beats!Init => BeatInductive
<1> SUFFICES ASSUME Beats!Init PROVE BeatInductive
  OBVIOUS
<1>1. inbox \in Seq(Beats!Message) /\ Len(inbox) <= MaxInbox
  BY HelpersAssumption DEF Beats!Init, Beats!HeartBeatAssumption
<1>2. Beats!TypeOK
  BY <1>1 DEF Beats!Init, Beats!TypeOK
<1>3. Beats!RunningIsHeld
  BY DEF Beats!Init, Beats!RunningIsHeld, Beats!Armed
<1> QED
  BY <1>2, <1>3 DEF BeatInductive

LEMMA BeatStep == BeatInductive /\ [Beats!Next]_beatVars => BeatInductive'
<1> SUFFICES ASSUME BeatInductive, [Beats!Next]_beatVars PROVE BeatInductive'
  OBVIOUS
<1> USE DEF BeatInductive, Beats!TypeOK, Beats!RunningIsHeld, Beats!Armed
<1>1. CASE UNCHANGED beatVars
  BY <1>1 DEF beatVars
<1>2. ASSUME NEW m \in Beats!Message, Beats!Send(m)
      PROVE  BeatInductive'
  BY <1>2, HelpersAssumption DEF Beats!Send, Beats!HeartBeatAssumption
<1>3. CASE Beats!channelRead
  <2>1. inbox' \in Seq(Beats!Message) /\ Len(inbox') <= MaxInbox
    BY <1>3, HelpersAssumption DEF Beats!channelRead, Beats!HeartBeatAssumption
  <2>2. CASE UNCHANGED <<heartBeat, timer>>
    BY <1>3, <2>1, <2>2 DEF Beats!channelRead
  <2>3. ASSUME NEW t \in Timer, heartBeat = NoTimer, Beats!Schedule(t)
        PROVE  BeatInductive'
    <3>1. \A u \in Timer : timer[u] # "armed"
      BY <2>3, HelpersAssumption DEF Beats!HeartBeatAssumption
    <3> QED
      BY <1>3, <2>1, <2>3, <3>1 DEF Beats!channelRead, Beats!Schedule
  <2> QED
    BY <1>3, <2>2, <2>3 DEF Beats!channelRead, Beats!Auth, Beats!Pass
<1>4. CASE Beats!exceptionCaught
  <2>1. timer' \in [Timer -> {"idle", "armed", "failed"}]
    BY <1>4 DEF Beats!exceptionCaught
  <2>2. \A u \in Timer : timer'[u] # "armed"
    BY <1>4 DEF Beats!exceptionCaught
  <2> QED
    BY <1>4, <2>1, <2>2 DEF Beats!exceptionCaught
<1>5. ASSUME NEW t \in Timer, Beats!Beat(t)
      PROVE  BeatInductive'
  BY <1>5 DEF Beats!Beat
<1>6. CASE Beats!Close
  BY <1>6 DEF Beats!Close
<1> QED
  BY <1>1, <1>2, <1>3, <1>4, <1>5, <1>6 DEF Beats!Next

-----------------------------------------------------------------------------
(* A step is one of a single part, and leaves the others as they are.      *)

LEMMA PartSteps ==
  ASSUME [Next]_vars
  PROVE  /\ [Beats!Next]_beatVars
         /\ [Paths!Next]_pathVars
         /\ [Loads!Next]_loadVars
<1>1. UNCHANGED agentVars => UNCHANGED beatVars /\ UNCHANGED pathVars /\ UNCHANGED loadVars
  BY DEF agentVars
<1>2. CASE AgentNext
  <2>1. UNCHANGED <<pathVars, loadVars>> => UNCHANGED pathVars /\ UNCHANGED loadVars
    OBVIOUS
  <2>2. UNCHANGED <<beatVars, loadVars>> => UNCHANGED beatVars /\ UNCHANGED loadVars
    OBVIOUS
  <2>3. UNCHANGED <<beatVars, pathVars>> => UNCHANGED beatVars /\ UNCHANGED pathVars
    OBVIOUS
  <2> QED
    BY <1>2, <2>1, <2>2, <2>3 DEF AgentNext
<1>3. CASE UNCHANGED agentVars
  BY <1>1, <1>3
<1>4. UNCHANGED vars => UNCHANGED agentVars
  BY DEF vars
<1> QED
  BY <1>2, <1>3, <1>4 DEF Next

\* The heartbeat that runs is the one the handler can cancel, for any tasks and
\* messages (HeartBeatReqHandler.heartBeat).
THEOREM HeartBeatsStayContained == Spec => []HeartBeatsAreContained
<1>1. Init => BeatInductive
  BY BeatInit DEF Init
<1>2. BeatInductive /\ [Next]_vars => BeatInductive'
  BY PartSteps, BeatStep
<1>3. BeatInductive => HeartBeatsAreContained
  BY DEF BeatInductive, HeartBeatsAreContained
<1> QED
  BY <1>1, <1>2, <1>3, PTL DEF Spec

\* One name is one class, no class is defined twice and the JDK's are the
\* parent's, for any threads and names (TomasClassloader.loadClass).
THEOREM ClassesStayRight == Spec => []ClassesAreRight
<1>1. Init => LoadInductive
  BY LoadInit DEF Init
<1>2. LoadInductive /\ [Next]_vars => LoadInductive'
  BY PartSteps, LoadStep
<1>3. LoadInductive => ClassesAreRight
  BY LoadInvariant
<1> QED
  BY <1>1, <1>2, <1>3, PTL DEF Spec

\* What PathUtil answers was there, null is answered only if another thread changed the
\* map between the call's containsKey and its get, and the cache
\* and the last two places need a file that vanished: for any threads, names and
\* loaders (PathUtil.getFile).
THEOREM PathAnswersStayRight == Spec => PathAnswersAreRight
<1>1. Init => PathInductive
  BY PathInit DEF Init
<1>2. [Next]_vars => [Paths!Next]_pathVars
  BY PartSteps
<1>3. PathInductive /\ [Next]_vars => PathInductive'
  BY <1>2, PathStep
<1>4. PathInductive =>
        Paths!TypeOK /\ Paths!CacheNeedsVanishing /\ Paths!FallbackNeedsVanishing
  BY DEF PathInductive
<1>5. PathInductive /\ [Next]_vars =>
        [\A t \in Seeker : Paths!Answers(t) /\ atSeeker[t] # "get" /\ file'[t] \in Paths!Place
                            => file[t] \in seen[t]]_(Paths!vars)
  BY <1>2, AnswerFacts
<1>6. PathInductive /\ [Next]_vars =>
        [\A t \in Seeker : Paths!Answers(t) /\ file'[t] = "null"
                            => atSeeker[t] = "get" /\ t \in raced]_(Paths!vars)
  BY <1>2, AnswerFacts
<1> QED
  BY <1>1, <1>3, <1>4, <1>5, <1>6, PTL
     DEF Spec, PathAnswersAreRight, Paths!FoundWasThere, Paths!NullNeedsRace
=============================================================================
