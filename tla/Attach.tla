------------------------------- MODULE Attach -------------------------------
(***************************************************************************)
(* Concurrent /attach requests, from the HTTP thread that serves each of   *)
(* them (IndexController.attachJvm and AttachVirtualMachine) through the   *)
(* attach listener of the target JVM to the agent's entry point, which is  *)
(* TomasAgentBoot.tla.  Tomas.tla has one request per JVM in a few steps;  *)
(* this module has what those steps stand for.                             *)
(*                                                                         *)
(* The attach API is external: attaching and loading may throw, a listener *)
(* serves one load at a time, and a handle stays open until it is          *)
(* detached.  The list of JVMs that attachJvm searches decides only        *)
(* between two forms of attach that do the same.                           *)
(***************************************************************************)
EXTENDS TomasAgentBoot

CONSTANTS
  Listener,         \* the thread of a JVM that runs agentmain
  NoJvm,            \* the target of a pid that no process has
  Request,          \* the requests, each served by a thread of its own
  NoRequest         \* no request

ASSUME AttachAssumption ==
  Listener \in Thread /\ NoJvm \notin Jvm /\ NoRequest \notin Request

VARIABLES
  instances,        \* how many AttachVirtualMachines were created
  lock,             \* the request that owns its monitor, or NoRequest
  at,               \* at[r]: where the thread of r is
  target,           \* target[r]: the JVM that r is for
  handle,           \* handle[r]: the VirtualMachine of r
  serving           \* serving[j]: the request whose load j's listener serves

requestVars == <<instances, lock, at, target, handle, serving>>
attachVars == <<vars, requestVars>>

\* "broken": the JVM has gone while the load was asked for.  attachJvm ends with
\* "returned" or, by its catch, with "caught"; the answer is ok for both.
Working == {"first", "locking", "second", "attach", "load", "loading", "broken", "detach"}
Answered == {"returned", "caught"}

AttachTypeOK ==
  /\ TypeOK
  /\ instances \in Nat
  /\ lock \in Request \cup {NoRequest}
  /\ at \in [Request -> {"idle"} \cup Working \cup Answered]
  /\ target \in [Request -> Jvm \cup {NoJvm}]
  /\ handle \in [Request -> {"none", "open", "detached"}]
  /\ serving \in [Jvm -> Request \cup {NoRequest}]

AttachInit ==
  /\ Init
  /\ instances = 0
  /\ lock = NoRequest
  /\ at = [r \in Request |-> "idle"]
  /\ target = [r \in Request |-> NoJvm]
  /\ handle = [r \in Request |-> "none"]
  /\ serving = [j \in Jvm |-> NoRequest]

Advance(r, l) == at' = [at EXCEPT ![r] = l]

-----------------------------------------------------------------------------
\* /attach?pid=...
attachJvm(r, j) ==
  /\ at[r] = "idle"
  /\ Advance(r, "first")
  /\ target' = [target EXCEPT ![r] = j]
  /\ UNCHANGED <<vars, instances, lock, handle, serving>>

\* getInstance reads the field without the monitor.  The test and the return are two
\* reads of a field that is not volatile; they are one here (the language would let the
\* second miss what the first has seen, the JVMs in use do not).
FirstCheck(r) ==
  /\ at[r] = "first"
  /\ Advance(r, IF instances = 0 THEN "locking" ELSE "attach")
  /\ UNCHANGED <<vars, instances, lock, target, handle, serving>>

Enter(r) ==
  /\ at[r] = "locking" /\ lock = NoRequest
  /\ Advance(r, "second")
  /\ lock' = r
  /\ UNCHANGED <<vars, instances, target, handle, serving>>

\* Faulty variant: the field is not read again under the monitor.
CreateAlways(r) ==
  /\ at[r] = "second"
  /\ Advance(r, "attach")
  /\ lock' = NoRequest
  /\ instances' = instances + 1
  /\ UNCHANGED <<vars, target, handle, serving>>

\* It reads the field again, creates the instance unless there is one, and leaves.
CreateOnce(r) ==
  /\ at[r] = "second"
  /\ Advance(r, "attach")
  /\ lock' = NoRequest
  /\ instances' = IF instances = 0 THEN instances + 1 ELSE instances
  /\ UNCHANGED <<vars, target, handle, serving>>

\* VirtualMachine.attach: it throws when there is no such process, and may throw
\* for any other.
AttachTo(r) ==
  /\ at[r] = "attach"
  /\ \/ /\ target[r] # NoJvm
        /\ handle' = [handle EXCEPT ![r] = "open"]
        /\ Advance(r, "load")
     \/ Advance(r, "caught") /\ UNCHANGED handle
  /\ UNCHANGED <<vars, instances, lock, target, serving>>

\* loadAgent reaches the listener, which calls agentmain.
LoadAgent(r) ==
  /\ at[r] = "load"
  /\ serving[target[r]] = NoRequest
  /\ Advance(r, "loading")
  /\ serving' = [serving EXCEPT ![target[r]] = r]
  /\ \E i \in Entry : Call(target[r], Listener, i)
  /\ UNCHANGED <<instances, lock, target, handle>>

\* Faulty variant: a load that is cut short waits for the listener that has gone.
LoadHangs(r) ==
  /\ at[r] = "load" /\ serving[target[r]] = NoRequest
  /\ Advance(r, "caught")
  /\ UNCHANGED <<vars, instances, lock, target, handle, serving>>

\* The listener refuses the load, or its JVM has gone: loadAgent throws.  The handle
\* is left as it is.
LoadThrows(r) ==
  /\ \/ at[r] = "load" /\ serving[target[r]] = NoRequest
     \/ at[r] = "broken"
  /\ Advance(r, "caught")
  /\ UNCHANGED <<vars, instances, lock, target, handle, serving>>

\* agentmain has returned, and with it loadAgent.
LoadReturns(r) ==
  /\ at[r] = "loading"
  /\ pc[target[r]][Listener] = "idle"
  /\ Advance(r, "detach")
  /\ serving' = [serving EXCEPT ![target[r]] = NoRequest]
  /\ UNCHANGED <<vars, instances, lock, target, handle>>

\* Faulty variant: the handle is returned to a caller that drops it.
DetachLater(r) ==
  /\ at[r] = "detach"
  /\ Advance(r, "returned")
  /\ UNCHANGED <<vars, instances, lock, target, handle, serving>>

Detach(r) ==
  /\ at[r] = "detach"
  /\ Advance(r, "returned")
  /\ handle' = [handle EXCEPT ![r] = "detached"]
  /\ UNCHANGED <<vars, instances, lock, target, serving>>

-----------------------------------------------------------------------------
\* The JVM is started with the agent, or another of its threads calls the public
\* entry point before the property is set.
Premain(j) ==
  /\ ~started[j]
  /\ \E t \in Thread \ {Listener}, i \in Entry : Call(j, t, i)
  /\ UNCHANGED requestVars

\* The entry point goes on.
BootStep(j, t) ==
  /\ Acquire(j, t) \/ Step(j, t)
  /\ UNCHANGED requestVars

\* The JVM ends, and a new one has its pid; loads through handles of the former
\* one fail.
JvmExit(j) ==
  /\ Exit(j)
  /\ serving' = [serving EXCEPT ![j] = NoRequest]
  /\ at' = [r \in Request |->
              IF target[r] = j /\ at[r] \in {"load", "loading"} THEN "broken" ELSE at[r]]
  /\ UNCHANGED <<instances, lock, target, handle>>

RequestNext(r) ==
  \/ FirstCheck(r)
  \/ Enter(r)
  \/ CreateOnce(r)
  \/ AttachTo(r)
  \/ LoadAgent(r)
  \/ LoadThrows(r)
  \/ LoadReturns(r)
  \/ Detach(r)

AttachNext ==
  \/ \E r \in Request : RequestNext(r) \/ \E j \in Jvm \cup {NoJvm} : attachJvm(r, j)
  \/ \E j \in Jvm : Premain(j) \/ JvmExit(j) \/ \E t \in Thread : BootStep(j, t)

\* The thread of a request runs, and so do the threads of a JVM; those that wait
\* for a monitor get it, as each contender passes it a bounded number of times.
AttachFairness ==
  /\ \A r \in Request : WF_attachVars(RequestNext(r))
  /\ \A j \in Jvm, t \in Thread : WF_attachVars(BootStep(j, t))

AttachSafetySpec == AttachInit /\ [][AttachNext]_attachVars
AttachSpec == AttachSafetySpec /\ AttachFairness

-----------------------------------------------------------------------------
\* Property (safety).  Requests that race for the lazily created instance make one
\* at most, although its field is not volatile and is read without the monitor,
\* and none goes on without one.
OneInstance ==
  /\ instances <= 1
  /\ \A r \in Request : at[r] \in Working \ {"first", "locking", "second"} => instances = 1

\* Property (safety).  An answered request leaves its handle open only if its load
\* threw: a request that returned has detached, and one that could not attach has
\* nothing to detach.
HandlesAreDetached ==
  \A r \in Request :
    /\ at[r] = "returned" => handle[r] = "detached"
    /\ handle[r] = "open" => at[r] \in {"load", "loading", "broken", "detach", "caught"}

\* Property (action).  When loadAgent returns, the boot of the JVM is over, be it
\* this call's, that of an earlier request, or the one that premain has in
\* progress on another thread.
LoadedMeansBootOver ==
  [][\A r \in Request : at[r] = "loading" /\ at'[r] = "detach" =>
       started[target[r]] /\ ~IsBooting(target[r])]_attachVars

\* Property (liveness).  Every request is answered, whichever of attaching, loading
\* and booting fails, and whenever the JVM ends.
AttachIsAnswered == \A r \in Request : at[r] \in Working ~> at[r] \in Answered
=============================================================================
