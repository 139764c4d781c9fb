---------------------------- MODULE MC_CrewRoom ----------------------------
(* Instances of CrewRoom for TLC.                                          *)
EXTENDS CrewRoom, TLC

CONSTANTS u1, u2, c1, c2, s1, s2, t1, t2

\* Every socket is u1's; u2 owns the crews.
MC_Owner == [s \in Sockets |-> u1]
MC_Roster == Crews \X Users
MC_Leaders == Crews \X {u2}

MC_Serial == {"join:festival", "join:crew", "leave:crew", "share", "update", "stop"}

\* One socket of one crew, everything in any order, and members that come and go.
MC_Stream(c, s) ==
  [crews |-> {c}, sockets |-> {s}, exclusive |-> {}, serial |-> {}, festivalFirst |-> FALSE,
   ops |-> MC_Serial \cup {"disconnect", "leave:festival", "remove", "deleteCrew", "add"},
   timeouts |-> TRUE, recheckEvery |-> 2]

\* The same socket, with a session that ends and comes back.
MC_Session(c, s) ==
  [MC_Stream(c, s) EXCEPT !.ops = {"join:festival", "join:crew", "share", "update", "sync",
                                   "disconnect", "leave:festival", "remove", "signOut", "signIn"}]

\* Two sockets, two crews, clients that wait, and removals served alone.
MC_Gate ==
  [crews |-> Crews, sockets |-> Sockets, exclusive |-> {"remove", "deleteCrew"},
   serial |-> MC_Serial, festivalFirst |-> TRUE, ops |-> MC_Serial \cup {"remove", "deleteCrew"},
   timeouts |-> FALSE, recheckEvery |-> 1]

\* One socket that moves between two crews, with everything at once.
MC_Moves(s) ==
  [crews |-> Crews, sockets |-> {s}, exclusive |-> {}, serial |-> {}, festivalFirst |-> FALSE,
   ops |-> {"join:crew", "leave:crew", "share", "update", "remove", "deleteCrew"},
   timeouts |-> FALSE, recheckEvery |-> 1]

MC_Scenarios ==
  {MC_Gate} \cup {MC_Moves(s) : s \in Sockets}
    \cup UNION {{MC_Stream(c, s), MC_Session(c, s)} : c \in Crews, s \in Sockets}

\* The sockets are alike, and so are the crews and the handlers in flight.
Symmetry == Permutations(Slots) \cup Permutations(Sockets) \cup Permutations(Crews)
=============================================================================
