---------------------------- MODULE MCHeartBeat ----------------------------
(* HeartBeat for TLC.                                                      *)
EXTENDS HeartBeat
=============================================================================
