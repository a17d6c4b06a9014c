------------------------------ MODULE MCAttach ------------------------------
(* Attach for TLC: a JVM with two threads that may call premain beside the *)
(* listener that runs agentmain, and two requests.  The boot is that of    *)
(* TomasAgentBoot step by step, so its properties are checked here as well.*)
EXTENDS Attach
=============================================================================
