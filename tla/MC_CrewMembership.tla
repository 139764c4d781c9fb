-------------------------- MODULE MC_CrewMembership -------------------------
(* Instances of CrewMembership for TLC.                                    *)
EXTENDS CrewMembership

CONSTANTS ua, ub, uc, f1, f2

\* A crew of one with room for one more, and everything that adds, removes or promotes.
MC_Capacity ==
  [roster |-> <<ua>>, max |-> 2, profiles |-> {ua, ub, uc} \X {f1, f2}, requests |-> 3, inflight |-> 3,
   ops |-> {"create", "join", "adminAdd", "leave", "kick", "remove", "transfer", "update",
            "adminRemove", "adminDelete"},
   into |-> {f1}, leaving |-> {},
   exclusive |-> {"transfer", "update", "adminDelete"}]

\* A full crew of three, one of whom has not joined the next festival, and its reforms.
MC_Reform ==
  [roster |-> <<ua, ub, uc>>, max |-> 3, requests |-> 3, inflight |-> 2, into |-> {f2},
   leaving |-> {},
   profiles |-> {ua, ub} \X {f1, f2} \cup {<<uc, f1>>},
   ops |-> {"reform", "join", "kick", "deleteUser"}, exclusive |-> {"deleteUser"}]

\* Two requests that add members while the profiles of one of these are deleted.
MC_Left ==
  [MC_Reform EXCEPT !.roster = <<ua, uc>>, !.requests = 2, !.ops = {"create", "join", "reform"},
                    !.exclusive = {}, !.leaving = {uc}]

\* Reforms of that crew and of what they make, into any festival.
MC_Chain ==
  [MC_Reform EXCEPT !.profiles = {ua, ub, uc} \X {f1, f2}, !.into = {f1, f2}, !.ops = {"reform"},
                    !.exclusive = {}]

\* Reforms of it while admins remove members, the requester from the reformed crew among them.
MC_Removed == [MC_Chain EXCEPT !.into = {f2}, !.ops = {"reform", "adminRemove"}]

MC_Scenarios == {MC_Capacity, MC_Reform, MC_Left, MC_Chain, MC_Removed}
=============================================================================
