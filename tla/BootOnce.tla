------------------------------ MODULE BootOnce ------------------------------
(***************************************************************************)
(* What the agent's entry point promises to a JVM, whatever the number of  *)
(* premain and agentmain calls that reach it: the boot is attempted at     *)
(* most once in the life of that JVM, and an attempt ends in one of two    *)
(* final states.  "booted" means that the thread which connects to the     *)
(* monitor was started; "failed" means that it never will be.              *)
(*                                                                         *)
(* TomasAgentBoot.tla shows that the code implements this specification;   *)
(* Tomas.tla composes it with the server.                                  *)
(***************************************************************************)
CONSTANT Jvm        \* the JVMs that may be monitored

VARIABLE phase      \* how far the boot of each JVM has come

BootPhases == {"fresh", "booting", "booted", "failed"}

TypeOK == phase \in [Jvm -> BootPhases]

Init == phase = [j \in Jvm |-> "fresh"]

Move(j, from, to) ==
  /\ phase[j] = from
  /\ phase' = [phase EXCEPT ![j] = to]

Begin(j)   == Move(j, "fresh", "booting")
Succeed(j) == Move(j, "booting", "booted")
Fail(j)    == Move(j, "booting", "failed")

\* The process ends; the next process in its place has booted nothing yet.
Exit(j) == phase' = [phase EXCEPT ![j] = "fresh"]

Next == \E j \in Jvm : Begin(j) \/ Succeed(j) \/ Fail(j) \/ Exit(j)

\* A boot that has begun ends, one way or the other.
Fairness == \A j \in Jvm : WF_phase(Succeed(j) \/ Fail(j))

SafetySpec == Init /\ [][Next]_phase
Spec == SafetySpec /\ Fairness
=============================================================================
