--------------------------- MODULE TomasAgentBoot ---------------------------
(***************************************************************************)
(* The agent inside the monitored JVMs, from its four entry points         *)
(* (premain and agentmain, with and without an Instrumentation) to the     *)
(* start of the thread that connects to the monitor: TomasAgentBoot.main   *)
(* and, through it, AgentApplication.main, init and installOn.             *)
(*                                                                         *)
(* A JVM may be started with the agent (premain, on the main thread) and   *)
(* be attached to any number of times (agentmain, on the attach listener), *)
(* so several threads can be in the entry point at once; the monitor of    *)
(* TomasAgentBoot.class and the system property "tomas agent start" decide *)
(* which of them boots.  Every step that calls out of the entry point may  *)
(* throw; the entry point swallows every Throwable.                        *)
(*                                                                         *)
(* Left out: printed text, the agent's argument string, and the value      *)
(* that AgentApplication.main returns, which is only printed.              *)
(***************************************************************************)
EXTENDS Naturals

CONSTANTS
  Jvm,              \* the JVMs that may be monitored
  Thread,           \* the threads of a JVM that can run an entry point
  NoThread,         \* the owner of a free monitor
  Entry             \* subset of BOOLEAN: do calls carry an Instrumentation?

ASSUME NoThreadAssumption == NoThread \notin Thread
ASSUME EntryAssumption == Entry \subseteq BOOLEAN

VARIABLES
  pc,               \* pc[j][t]: where thread t of JVM j is in the entry point
  inst,             \* inst[j][t]: the call of t carries an Instrumentation
  monitor,          \* monitor[j]: owner of the monitor of TomasAgentBoot.class
  appMonitor,       \* appMonitor[j]: owner of that of AgentApplication.class
  started,          \* started[j]: the property "tomas agent start" is set
  application,      \* application[j]: the AgentApplication singleton
  transformers,     \* transformers[j]: class transformers installed so far
  client,           \* client[j]: the field AgentApplication.client is set
  connectors        \* connectors[j]: connecting threads started so far

vars ==
  <<pc, inst, monitor, appMonitor, started, application, transformers, client, connectors>>

\* The steps of TomasAgentBoot.main under its monitor; Booting are those of a
\* call that has set the property, InApplication those in AgentApplication.main.
InApplication == {"install", "client", "connect"}
Booting == {"load", "construct"} \cup InApplication
Inside == {"check", "set"} \cup Booting
Locations == {"idle", "waiting"} \cup Inside

\* The singleton keeps the Instrumentation of the call that created it: null
\* for the one-argument entry points.
Applications == {"none", "withoutInst", "withInst"}

TypeOK ==
  /\ pc \in [Jvm -> [Thread -> Locations]]
  /\ inst \in [Jvm -> [Thread -> BOOLEAN]]
  /\ monitor \in [Jvm -> Thread \cup {NoThread}]
  /\ appMonitor \in [Jvm -> Thread \cup {NoThread}]
  /\ started \in [Jvm -> BOOLEAN]
  /\ application \in [Jvm -> Applications]
  /\ transformers \in [Jvm -> Nat]
  /\ client \in [Jvm -> BOOLEAN]
  /\ connectors \in [Jvm -> Nat]

Init ==
  /\ pc = [j \in Jvm |-> [t \in Thread |-> "idle"]]
  /\ inst = [j \in Jvm |-> [t \in Thread |-> FALSE]]
  /\ monitor = [j \in Jvm |-> NoThread]
  /\ appMonitor = [j \in Jvm |-> NoThread]
  /\ started = [j \in Jvm |-> FALSE]
  /\ application = [j \in Jvm |-> "none"]
  /\ transformers = [j \in Jvm |-> 0]
  /\ client = [j \in Jvm |-> FALSE]
  /\ connectors = [j \in Jvm |-> 0]

-----------------------------------------------------------------------------
Goto(j, t, l) == pc' = [pc EXCEPT ![j][t] = l]

\* Returning from main, normally or by swallowing a Throwable, releases the
\* monitors.
Leave(j, t) ==
  /\ Goto(j, t, "idle")
  /\ monitor' = [monitor EXCEPT ![j] = NoThread]
  /\ appMonitor' = [appMonitor EXCEPT ![j] = IF @ = t THEN NoThread ELSE @]

\* Going on to another location without taking or releasing a monitor.
GoOn(j, t, l) == Goto(j, t, l) /\ UNCHANGED <<monitor, appMonitor>>

-----------------------------------------------------------------------------
\* Faulty variants: what the code would be with a plausible mistake in it.
\* main is not synchronized.
AcquireUnsynchronized(j, t) ==
  /\ pc[j][t] = "waiting"
  /\ Goto(j, t, "check")
  /\ monitor' = [monitor EXCEPT ![j] = t]
  /\ UNCHANGED <<inst, appMonitor, started, application, transformers, client, connectors>>

\* A call repeats the boot as long as nothing connects.
NotConnected(j, t) ==
  /\ pc[j][t] = "check"
  /\ connectors[j] = 0
  /\ GoOn(j, t, "set")
  /\ UNCHANGED <<inst, started, application, transformers, client, connectors>>

\* installOn catches its own exceptions.
InstallOnCatches(j, t) ==
  /\ pc[j][t] = "install"
  /\ \/ /\ application[j] = "withInst"
        /\ transformers' = [transformers EXCEPT ![j] = @ + 1]
     \/ UNCHANGED transformers
  /\ GoOn(j, t, "client")
  /\ UNCHANGED <<inst, started, application, client, connectors>>

\* installOn waits for an Instrumentation instead of throwing.
InstallOnWaits(j, t) ==
  /\ pc[j][t] = "install"
  /\ application[j] = "withInst"
  /\ transformers' = [transformers EXCEPT ![j] = @ + 1]
  /\ GoOn(j, t, "client")
  /\ UNCHANGED <<inst, started, application, client, connectors>>

-----------------------------------------------------------------------------
\* premain or agentmain is called, with an Instrumentation if i.
Call(j, t, i) ==
  /\ pc[j][t] = "idle"
  /\ GoOn(j, t, "waiting")
  /\ inst' = [inst EXCEPT ![j][t] = i]
  /\ UNCHANGED <<started, application, transformers, client, connectors>>

\* The call enters the synchronized method main.
Acquire(j, t) ==
  /\ pc[j][t] = "waiting"
  /\ monitor[j] = NoThread
  /\ Goto(j, t, "check")
  /\ monitor' = [monitor EXCEPT ![j] = t]
  /\ UNCHANGED <<inst, appMonitor, started, application, transformers, client, connectors>>

\* The property is already set: return at once.
AlreadyStarted(j, t) ==
  /\ pc[j][t] = "check"
  /\ started[j]
  /\ Leave(j, t)
  /\ UNCHANGED <<inst, started, application, transformers, client, connectors>>

\* The property is not set.
NotStarted(j, t) ==
  /\ pc[j][t] = "check"
  /\ ~started[j]
  /\ GoOn(j, t, "set")
  /\ UNCHANGED <<inst, started, application, transformers, client, connectors>>

\* Set the property, before anything that can fail.
SetProperty(j, t) ==
  /\ pc[j][t] = "set"
  /\ GoOn(j, t, "load")
  /\ started' = [started EXCEPT ![j] = TRUE]
  /\ UNCHANGED <<inst, application, transformers, client, connectors>>

\* Append the agent's jar to the bootstrap search path (an IOException is
\* printed and ignored) and load AgentApplication, which may not be found.
LoadApplication(j, t) ==
  /\ pc[j][t] = "load"
  /\ GoOn(j, t, "construct") \/ Leave(j, t)
  /\ UNCHANGED <<inst, started, application, transformers, client, connectors>>

\* AgentApplication.main, synchronized as well, creates the singleton unless it
\* exists; init returns at once when the singleton has both an Instrumentation
\* and a client.
Construct(j, t) ==
  /\ pc[j][t] = "construct"
  /\ appMonitor[j] = NoThread
  /\ application' = [application EXCEPT ![j] =
       IF @ # "none" THEN @ ELSE IF inst[j][t] THEN "withInst" ELSE "withoutInst"]
  /\ IF application'[j] = "withInst" /\ client[j]
     THEN Leave(j, t)
     ELSE /\ Goto(j, t, "install")
          /\ appMonitor' = [appMonitor EXCEPT ![j] = t]
          /\ UNCHANGED monitor
  /\ UNCHANGED <<inst, started, transformers, client, connectors>>

\* installOn: without an Instrumentation the AgentBuilder always throws.
InstallOn(j, t) ==
  /\ pc[j][t] = "install"
  /\ \/ /\ application[j] = "withInst"
        /\ transformers' = [transformers EXCEPT ![j] = @ + 1]
        /\ GoOn(j, t, "client")
     \/ Leave(j, t) /\ UNCHANGED transformers
  /\ UNCHANGED <<inst, started, application, client, connectors>>

\* client = Client.getInstance(): creating the event loop group may fail.
GetClient(j, t) ==
  /\ pc[j][t] = "client"
  /\ \/ /\ client' = [client EXCEPT ![j] = TRUE]
        /\ GoOn(j, t, "connect")
     \/ Leave(j, t) /\ UNCHANGED client
  /\ UNCHANGED <<inst, started, application, transformers, connectors>>

\* client.startConnect(): a new thread, if the system can start one.
StartConnect(j, t) ==
  /\ pc[j][t] = "connect"
  /\ \/ connectors' = [connectors EXCEPT ![j] = @ + 1]
     \/ UNCHANGED connectors
  /\ Leave(j, t)
  /\ UNCHANGED <<inst, started, application, transformers, client>>

\* The JVM ends, at any point; a new one with nothing booted takes its place.
Exit(j) ==
  /\ pc' = [pc EXCEPT ![j] = [t \in Thread |-> "idle"]]
  /\ inst' = [inst EXCEPT ![j] = [t \in Thread |-> FALSE]]
  /\ monitor' = [monitor EXCEPT ![j] = NoThread]
  /\ appMonitor' = [appMonitor EXCEPT ![j] = NoThread]
  /\ started' = [started EXCEPT ![j] = FALSE]
  /\ application' = [application EXCEPT ![j] = "none"]
  /\ transformers' = [transformers EXCEPT ![j] = 0]
  /\ client' = [client EXCEPT ![j] = FALSE]
  /\ connectors' = [connectors EXCEPT ![j] = 0]

\* The straight-line code of main once the monitor is held.
Step(j, t) ==
  \/ AlreadyStarted(j, t)
  \/ NotStarted(j, t)
  \/ SetProperty(j, t)
  \/ LoadApplication(j, t)
  \/ Construct(j, t)
  \/ InstallOn(j, t)
  \/ GetClient(j, t)
  \/ StartConnect(j, t)

ThreadNext(j, t) ==
  \/ \E i \in Entry : Call(j, t, i)
  \/ Acquire(j, t)
  \/ Step(j, t)

JvmNext(j) == Exit(j) \/ \E t \in Thread : ThreadNext(j, t)

Next == \E j \in Jvm : JvmNext(j)

\* A thread that holds the monitor runs: nothing under it waits.  Entering the
\* monitor of main is not assumed fair, as Java monitors are not.
Fairness == \A j \in Jvm, t \in Thread : WF_vars(Step(j, t))

SafetySpec == Init /\ [][Next]_vars
Spec == SafetySpec /\ Fairness

-----------------------------------------------------------------------------
\* Some call is carrying out the boot of JVM j.
IsBooting(j) == \E t \in Thread : pc[j][t] \in Booting

\* Property (safety).  However many premain and agentmain calls race, and
\* wherever an earlier one failed, a JVM never gets a second class transformer
\* (every controller method would be intercepted twice) nor a second connecting
\* thread (the monitor would see the JVM twice).
BootsOnce == \A j \in Jvm : transformers[j] <= 1 /\ connectors[j] <= 1

\* Property (safety).  A JVM connects to the monitor only when its controllers
\* are intercepted: the connecting thread exists only after installOn has
\* succeeded, although every failure on the way is swallowed.
ConnectsOnlyInstrumented ==
  \A j \in Jvm : connectors[j] > 0 => client[j] /\ transformers[j] > 0

\* Property (action).  A boot that is over is over for the life of the JVM: no
\* later call starts to repair a failed boot or to add to a finished one, not
\* even one that was waiting for the monitor while the boot failed, because the
\* system property was set before the first step that can fail.
StaysOver(j) ==
  started[j] /\ ~IsBooting(j) /\ started'[j] =>
    /\ ~IsBooting(j)'
    /\ transformers'[j] = transformers[j]
    /\ connectors'[j] = connectors[j]

BootIsFinal == [][\A j \in Jvm : StaysOver(j)]_vars

\* Property (liveness).  A boot never hangs under the monitor: it ends, with a
\* connecting thread or with a swallowed failure.
BootEnds == \A j \in Jvm : IsBooting(j) ~> ~IsBooting(j)

-----------------------------------------------------------------------------
\* What the boot of each JVM amounts to, seen from outside.
PhaseOf(j) == IF ~started[j] THEN "fresh"
              ELSE IF connectors[j] > 0 THEN "booted"
              ELSE IF IsBooting(j) THEN "booting"
              ELSE "failed"

Phase == [j \in Jvm |-> PhaseOf(j)]

Abstract == INSTANCE BootOnce WITH phase <- Phase

\* Property (refinement).  The entry point implements BootOnce, fairness
\* included.
ImplementsBootOnce == Abstract!Spec
=============================================================================
