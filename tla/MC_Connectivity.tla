--------------------------- MODULE MC_Connectivity ---------------------------
(* Instances of Connectivity for TLC.                                        *)
EXTENDS Connectivity
=============================================================================
