---------------------------- MODULE MC_CrewStore ----------------------------
(* Instances of CrewStore for TLC.                                         *)
EXTENDS CrewStore
=============================================================================
