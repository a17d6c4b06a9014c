------------------------------ MODULE PathUtil ------------------------------
(***************************************************************************)
(* PathUtil: threads look files up by name in four places, while other     *)
(* processes create and delete them, and share a cache that no lock        *)
(* protects.  One action per look at the file system or at the map.        *)
(*                                                                         *)
(* A relative name and the same name under user.dir are one place, which   *)
(* is looked at twice.  A resource in a jar, or of a class without a       *)
(* loader, cannot be made a File: it counts as missing.                    *)
(***************************************************************************)
EXTENDS Naturals, FiniteSets

CONSTANTS
  Thread,           \* the threads that look files up
  Name,             \* the file names
  Loader,           \* where the class loaders in use keep their resources
  Threshold         \* how many more entries the map takes before it is resized

PathAssumption == Threshold \in Nat /\ {"dir", "tmp", "null", "NPE"} \cap Loader = {}

Place == {"dir", "tmp"} \cup Loader

VARIABLES
  exists,           \* exists[n]: the places where a file n is
  map,              \* the cache, from names to places
  at,               \* at[t]: where thread t is
  name, loader,     \* name[t], loader[t]: the arguments of its call
  file,             \* file[t]: its variable file, or its answer
  seen,             \* history: where the file was at some moment of t's call
  vanished,         \* history: whether any file was ever deleted
  raced             \* history: the threads that have another one change the map
                    \* between their containsKey and their get

vars == <<exists, map, at, name, loader, file, seen, vanished, raced>>

Locations ==
  {"idle", "contains", "get", "dir", "url", "resource", "userDir", "tmpDir", "again", "put",
   "resize"}

TypeOK ==
  /\ exists \in [Name -> SUBSET Place]
  /\ map \in UNION {[S -> Place] : S \in SUBSET Name}
  /\ at \in [Thread -> Locations]
  /\ name \in [Thread -> Name]
  /\ loader \in [Thread -> Loader]
  /\ file \in [Thread -> Place \cup {"null", "NPE"}]
  /\ seen \in [Thread -> SUBSET Place]
  /\ vanished \in BOOLEAN
  /\ raced \subseteq Thread

Init ==
  /\ exists \in [Name -> SUBSET Place]
  /\ map = [n \in {} |-> "null"]
  /\ at = [t \in Thread |-> "idle"]
  /\ name \in [Thread -> Name]
  /\ loader \in [Thread -> Loader]
  /\ file = [t \in Thread |-> "null"]
  /\ seen = [t \in Thread |-> {}]
  /\ vanished = FALSE
  /\ raced = {}

There(t, p) == p \in exists[name[t]]

\* Where a thread changes the map.
Changing == {"put", "resize"}

\* Thread t goes on to l, with f as its file; at "idle" f is its answer.
Goto(t, l, f) ==
  /\ at' = [at EXCEPT ![t] = l]
  /\ file' = [file EXCEPT ![t] = f]
  /\ seen' = IF l = "idle" THEN [seen EXCEPT ![t] = {}] ELSE seen
  /\ raced' = {u \in Thread :
                 at'[u] = "get" /\ (u \in raced \/ \E v \in Thread \ {u} : at'[v] \in Changing)}

Environment == <<exists, name, loader, vanished>>

-----------------------------------------------------------------------------
\* getFile(n), or getFileByClassLoader(n, cls).
Call(t, n, l) ==
  /\ at[t] = "idle"
  /\ at' = [at EXCEPT ![t] = "contains"]
  /\ file' = [file EXCEPT ![t] = "null"]
  /\ name' = [name EXCEPT ![t] = n]
  /\ loader' = [loader EXCEPT ![t] = l]
  /\ seen' = [seen EXCEPT ![t] = exists[n]]
  /\ UNCHANGED <<exists, map, vanished, raced>>

\* While a thread moves the map to a larger table, others may find it empty.
Resizing == \E u \in Thread : at[u] = "resize"
Finds(t) == name[t] \in DOMAIN map

ContainsKey(t) ==
  /\ at[t] = "contains"
  /\ \/ Finds(t) /\ Goto(t, "get", file[t])
     \/ (~Finds(t) \/ Resizing) /\ Goto(t, "dir", file[t])
  /\ UNCHANGED <<map, Environment>>

Get(t) ==
  /\ at[t] = "get"
  /\ \/ Finds(t) /\ Goto(t, "idle", map[name[t]])
     \/ (~Finds(t) \/ Resizing) /\ Goto(t, "idle", "null")
  /\ UNCHANGED <<map, Environment>>

\* new File(fileName)
LookDir(t) ==
  /\ at[t] = "dir"
  /\ IF There(t, "dir") THEN Goto(t, "again", "dir") ELSE Goto(t, "url", file[t])
  /\ UNCHANGED <<map, Environment>>

\* Faulty variant: a missing resource is no reason to give up.
FindResourceOrGoOn(t) ==
  /\ at[t] = "url"
  /\ IF There(t, loader[t]) THEN Goto(t, "resource", file[t]) ELSE Goto(t, "userDir", file[t])
  /\ UNCHANGED <<map, Environment>>

\* getResource: without one, the NullPointerException of url.toURI() is caught, and
\* the answer is null, whatever the other places hold.
FindResource(t) ==
  /\ at[t] = "url"
  /\ Goto(t, IF There(t, loader[t]) THEN "resource" ELSE "again", "null")
  /\ UNCHANGED <<map, Environment>>

LookResource(t) ==
  /\ at[t] = "resource"
  /\ IF There(t, loader[t]) THEN Goto(t, "again", loader[t]) ELSE Goto(t, "userDir", file[t])
  /\ UNCHANGED <<map, Environment>>

LookUserDir(t) ==
  /\ at[t] = "userDir"
  /\ IF There(t, "dir") THEN Goto(t, "again", "dir") ELSE Goto(t, "tmpDir", file[t])
  /\ UNCHANGED <<map, Environment>>

\* Faulty variant: the last place is not looked at.
LookTmpDirUnchecked(t) ==
  /\ at[t] = "tmpDir"
  /\ Goto(t, "again", "tmp")
  /\ UNCHANGED <<map, Environment>>

LookTmpDir(t) ==
  /\ at[t] = "tmpDir"
  /\ Goto(t, "again", IF There(t, "tmp") THEN "tmp" ELSE "null")
  /\ UNCHANGED <<map, Environment>>

\* Faulty variant: what is found is cached.
AgainCachesFound(t) ==
  /\ at[t] = "again"
  /\ IF file[t] = "null" THEN Goto(t, "idle", "NPE")
     ELSE Goto(t, IF There(t, file[t]) THEN "put" ELSE "idle", file[t])
  /\ UNCHANGED <<map, Environment>>

\* Faulty variant: null is tested for.
AgainAllowsNull(t) ==
  /\ at[t] = "again"
  /\ Goto(t, IF file[t] = "null" \/ There(t, file[t]) THEN "idle" ELSE "put", file[t])
  /\ UNCHANGED <<map, Environment>>

\* The caller looks again: it throws on null, answers a file that is there, and
\* caches one that is not.
Again(t) ==
  /\ at[t] = "again"
  /\ IF file[t] = "null" THEN Goto(t, "idle", "NPE")
     ELSE Goto(t, IF There(t, file[t]) THEN "idle" ELSE "put", file[t])
  /\ UNCHANGED <<map, Environment>>

With(t) == [n \in DOMAIN map \cup {name[t]} |-> IF n = name[t] THEN file[t] ELSE map[n]]

\* map.put: one more entry, or another thread's entries lost with it; the entry
\* that is one too many has the map resized.
Put(t) ==
  /\ at[t] = "put"
  /\ \E S \in SUBSET (IF \E u \in Thread \ {t} : at[u] \in Changing
                      THEN DOMAIN map ELSE {}) :
       map' = [n \in (DOMAIN map \ S) \cup {name[t]} |-> With(t)[n]]
  /\ Goto(t, IF ~Finds(t) /\ Cardinality(DOMAIN map') = Threshold + 1
             THEN "resize" ELSE "idle", file[t])
  /\ UNCHANGED Environment

Resized(t) ==
  /\ at[t] = "resize"
  /\ Goto(t, "idle", file[t])
  /\ UNCHANGED <<map, Environment>>

\* A file n comes to be at p, or is deleted there.
Create(n, p) ==
  /\ p \notin exists[n]
  /\ exists' = [exists EXCEPT ![n] = @ \cup {p}]
  /\ seen' = [t \in Thread |-> IF at[t] # "idle" /\ name[t] = n THEN seen[t] \cup {p} ELSE seen[t]]
  /\ UNCHANGED <<map, at, name, loader, file, vanished, raced>>

Delete(n, p) ==
  /\ p \in exists[n]
  /\ exists' = [exists EXCEPT ![n] = @ \ {p}]
  /\ vanished' = TRUE
  /\ UNCHANGED <<map, at, name, loader, file, seen, raced>>

ThreadNext(t) ==
  \/ \E n \in Name, l \in Loader : Call(t, n, l)
  \/ ContainsKey(t) \/ Get(t)
  \/ LookDir(t) \/ FindResource(t) \/ LookResource(t) \/ LookUserDir(t) \/ LookTmpDir(t)
  \/ Again(t) \/ Put(t) \/ Resized(t)

Next ==
  \/ \E t \in Thread : ThreadNext(t)
  \/ \E n \in Name, p \in Place : Create(n, p) \/ Delete(n, p)

Spec == Init /\ [][Next]_vars

-----------------------------------------------------------------------------
\* The step in which t answers.
Answers(t) == at[t] # "idle" /\ at'[t] = "idle"

\* Property (action).  A file that is looked up, rather than taken from the cache,
\* was at the place answered at some moment of the call, however files come and
\* go between the looks.
FoundWasThere ==
  [][\A t \in Thread : Answers(t) /\ at[t] # "get" /\ file'[t] \in Place => file[t] \in seen[t]]_vars

\* Property (safety).  The cache holds a file only if a file was deleted under a
\* lookup: while files stay, every call looks them up again.
CacheNeedsVanishing == DOMAIN map # {} => vanished

\* Property (safety).  Neither user.dir nor the temporary directory is looked at
\* unless a resource was deleted between two looks: a file that is nowhere else
\* is not found.
FallbackNeedsVanishing ==
  \A t \in Thread : at[t] \in {"userDir", "tmpDir"} \/ file[t] = "tmp" => vanished

\* Property (action).  A call throws rather than answer null, but for the race
\* of the unsynchronised map: null is answered only to a call that had found its
\* name cached, and while another thread was putting an entry or had the map resized
\* at some moment between that test and the get.
NullNeedsRace ==
  [][\A t \in Thread : Answers(t) /\ file'[t] = "null" => at[t] = "get" /\ t \in raced]_vars
=============================================================================
