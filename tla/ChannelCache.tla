---------------------------- MODULE ChannelCache ----------------------------
(***************************************************************************)
(* The session cache shared by the server's threads, step by step: each    *)
(* operation takes the read or the write lock, tests the map, uses it, and *)
(* releases the lock in a finally block, whatever was thrown in between.   *)
(* The map itself is a ConcurrentHashMap, so each access to it is atomic;  *)
(* the lock is there for the operations that access it twice.              *)
(***************************************************************************)
EXTENDS SessionMap

CONSTANTS
  Thread,           \* the threads that use the cache
  NoThread,         \* the holder of a free write lock
  Null              \* the null reference, as an argument or as an answer

ASSUME CacheAssumption ==
  NoThread \notin Thread /\ Null \notin Channel /\ Null \notin ChannelId

VARIABLES
  writer,               \* the thread that holds the write lock
  readers,              \* the threads that hold the read lock
  pc,                   \* pc[t]: where thread t is in its operation
  op,                   \* op[t]: the operation of t and its argument
  answer                \* answer[t]: what the last getSession of t returned

cacheVars == <<channelSessionCache, writer, readers, pc, op, answer>>

Operations ==
  [name : {"addSession"}, arg : Channel \cup {Null}]
    \cup [name : {"removeSession", "getSession"}, arg : ChannelId \cup {Null}]
    \cup [name : {"resetSession"}, arg : {Null}]

Writing(o) == o.name # "getSession"

Locations == {"idle", "locking", "test", "use", "unlock"}

CacheTypeOK ==
  /\ channelSessionCache \in SessionMaps
  /\ writer \in Thread \cup {NoThread}
  /\ readers \subseteq Thread
  /\ pc \in [Thread -> Locations]
  /\ op \in [Thread -> Operations]
  /\ answer \in [Thread -> Channel \cup {Null}]

CacheInit ==
  /\ channelSessionCache = EmptyMap
  /\ writer = NoThread
  /\ readers = {}
  /\ pc = [t \in Thread |-> "idle"]
  /\ op = [t \in Thread |-> [name |-> "resetSession", arg |-> Null]]
  /\ answer = [t \in Thread |-> Null]

-----------------------------------------------------------------------------
Goto(t, l) == pc' = [pc EXCEPT ![t] = l]

Call(t, o) ==
  /\ pc[t] = "idle"
  /\ Goto(t, "locking")
  /\ op' = [op EXCEPT ![t] = o]
  /\ answer' = [answer EXCEPT ![t] = Null]
  /\ UNCHANGED <<channelSessionCache, writer, readers>>

\* Faulty variant: the read lock is granted while the write lock is held.
LockReadsAlways(t) ==
  /\ pc[t] = "locking"
  /\ Goto(t, "test")
  /\ IF Writing(op[t])
     THEN writer = NoThread /\ readers = {} /\ writer' = t /\ UNCHANGED readers
     ELSE readers' = readers \cup {t} /\ UNCHANGED writer
  /\ UNCHANGED <<channelSessionCache, op, answer>>

\* lock.writeLock().lock() excludes every other holder, lock.readLock().lock()
\* only writers.
Lock(t) ==
  /\ pc[t] = "locking"
  /\ writer = NoThread
  /\ IF Writing(op[t])
     THEN readers = {} /\ writer' = t /\ UNCHANGED readers
     ELSE readers' = readers \cup {t} /\ UNCHANGED writer
  /\ Goto(t, "test")
  /\ UNCHANGED <<channelSessionCache, op, answer>>

\* Faulty variant: the exception leaves the method before it unlocks.
ThrowOut(t) ==
  /\ pc[t] = "test"
  /\ op[t].name # "resetSession" /\ op[t].arg = Null
  /\ Goto(t, "idle")
  /\ UNCHANGED <<channelSessionCache, writer, readers, op, answer>>

\* A null argument: the exception is caught and dropped, nothing is done.
Throw(t) ==
  /\ pc[t] = "test"
  /\ op[t].name # "resetSession" /\ op[t].arg = Null
  /\ Goto(t, "unlock")
  /\ UNCHANGED <<channelSessionCache, writer, readers, op, answer>>

\* put and clear, the operations with one access to the map.
Access(t) ==
  /\ pc[t] = "test"
  /\ \/ /\ op[t].name = "addSession" /\ op[t].arg # Null
        /\ channelSessionCache' = Put(channelSessionCache, op[t].arg)
     \/ /\ op[t].name = "resetSession"
        /\ channelSessionCache' = EmptyMap
  /\ Goto(t, "unlock")
  /\ UNCHANGED <<writer, readers, op, answer>>

\* containsValue before remove, containsKey before get.
Test(t) ==
  /\ pc[t] = "test"
  /\ op[t].name \in {"removeSession", "getSession"} /\ op[t].arg # Null
  /\ LET found == IF op[t].name = "removeSession"
                  THEN ContainsValue(channelSessionCache, op[t].arg)
                  ELSE ContainsKey(channelSessionCache, op[t].arg)
     IN  Goto(t, IF found THEN "use" ELSE "unlock")
  /\ UNCHANGED <<channelSessionCache, writer, readers, op, answer>>

\* The second access: remove, or get.
Use(t) ==
  /\ pc[t] = "use"
  /\ channelSessionCache' =
       IF op[t].name = "removeSession" THEN Without(channelSessionCache, op[t].arg)
       ELSE channelSessionCache
  /\ answer' =
       IF op[t].name = "getSession" /\ ContainsKey(channelSessionCache, op[t].arg)
       THEN [answer EXCEPT ![t] = channelSessionCache[op[t].arg]]
       ELSE answer
  /\ Goto(t, "unlock")
  /\ UNCHANGED <<writer, readers, op>>

\* finally: release the lock and return.
Unlock(t) ==
  /\ pc[t] = "unlock"
  /\ Goto(t, "idle")
  /\ writer' = IF writer = t THEN NoThread ELSE writer
  /\ readers' = readers \ {t}
  /\ UNCHANGED <<channelSessionCache, op, answer>>

\* What thread t does once it has the lock.
Step(t) == Throw(t) \/ Access(t) \/ Test(t) \/ Use(t) \/ Unlock(t)

CacheNext ==
  \E t \in Thread :
    \/ \E o \in Operations : Call(t, o)
    \/ Lock(t)
    \/ Step(t)

\* A thread that holds a lock runs.  Getting a lock is not assumed fair: a
\* ReentrantReadWriteLock made without arguments may let readers overtake a
\* waiting writer for ever.
CacheFairness == \A t \in Thread : WF_cacheVars(Step(t))

CacheSafetySpec == CacheInit /\ [][CacheNext]_cacheVars
CacheSpec == CacheSafetySpec /\ CacheFairness

-----------------------------------------------------------------------------
Getting(t, l) == pc[t] = l /\ op[t].name = "getSession" /\ op[t].arg # Null

\* Property (safety).  getSession is atomic although it accesses the map twice:
\* a key it has found is still there when it gets the value, and when it
\* unlocks, its answer is what the map holds, whatever other threads did.
GetIsAtomic ==
  \A t \in Thread :
    /\ Getting(t, "use") => ContainsKey(channelSessionCache, op[t].arg)
    /\ Getting(t, "unlock") =>
         answer[t] = IF ContainsKey(channelSessionCache, op[t].arg)
                     THEN channelSessionCache[op[t].arg] ELSE Null

Holds(t) == writer = t \/ t \in readers

\* Property (liveness).  Every lock is released, also by an operation that throws.
LocksAreReleased == \A t \in Thread : Holds(t) ~> ~Holds(t)
=============================================================================
