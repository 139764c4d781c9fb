-------------------------- MODULE MC_OfflineQueue ---------------------------
(***************************************************************************)
(* Model-checking instances of OfflineQueue.  "p" is a create, "q" a write *)
(* whose url may hold p's temporary id, "r" an unrelated write.            *)
(***************************************************************************)
EXTENDS OfflineQueue, TLC

MCPosts == {"p"} \cap ClientIds

MCDependsOn == [c \in ClientIds |-> IF c = "q" THEN "p" ELSE None]

\* Nothing tells two accounts apart.
Accounts == Permutations(Users)
=============================================================================
