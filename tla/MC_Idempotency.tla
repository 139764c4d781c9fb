-------------------------- MODULE MC_Idempotency ----------------------------
(***************************************************************************)
(* Instances of Idempotency.  The requests are one write, sent three times *)
(* by one client (retries), or the last one is a write to another resource.*)
(***************************************************************************)
EXTENDS Idempotency

MCIpOf    == [r \in Requests |-> "wifi"]
MCKeyings == {[r \in Requests |-> 1], [r \in Requests |-> IF r <= 2 THEN 1 ELSE 2]}
=============================================================================
