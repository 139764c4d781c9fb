-------------------------- MODULE MC_Notifications --------------------------
(* u1 has an Android phone and an iPhone, u2 a browser.                    *)
EXTENDS Notifications

CONSTANTS u1, u2, d1, d2, d3

MCOwner == [d \in Devices |-> IF d = d3 THEN u2 ELSE u1]
=============================================================================
