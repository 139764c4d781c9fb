----------------------------- MODULE AtomicQueue -----------------------------
(***************************************************************************)
(* What the offline queue promises about its storage: though every change  *)
(* is a read, an await and a write, the stored queue changes as if each    *)
(* were one step on what is stored at that moment.  Nothing written in     *)
(* between is undone, and an entry that is too old only goes once it has   *)
(* been reported.                                                          *)
(***************************************************************************)
EXTENDS Integers, FiniteSets

CONSTANTS MaxAge, None

VARIABLES
  store,      \* the entries
  replaying,  \* the write whose replay has just ended, if any
  owed,       \* the versions that have been given up and not reported yet
  clock,      \* the time
  applied,    \* the versions that the server has applied
  reported,   \* the versions that the user has been told about
  restarts    \* how often the app has started again

vars == <<store, replaying, owed, clock, applied, reported, restarts>>

Init ==
  /\ store = {} /\ replaying = {} /\ owed = {}
  /\ clock = 0 /\ applied = {} /\ reported = {} /\ restarts = 0

Rest(c) == {e \in store : e.clientId # c}

\* A write is queued, or queued again: it replaces the one with its clientId.
Put == \E e \in store' : store' = Rest(e.clientId) \cup {e}

\* The write of a resource leaves the queue when one has been applied, or owes a report.
Take ==
  \E m \in replaying :
    /\ \/ m.ver \in applied /\ UNCHANGED owed
       \/ owed' = owed \cup {m.ver}
    /\ store' = Rest(m.clientId)

\* An attempt to send it is counted.
Count ==
  \E m \in replaying :
    store' = {IF e.clientId = m.clientId THEN [e EXCEPT !.retries = m.retries + 1] ELSE e : e \in store}

\* The temporary id of what has been created becomes a real one.
Rename ==
  \E m \in replaying :
    store' = {IF e.ref = m.clientId THEN [e EXCEPT !.ref = None] ELSE e : e \in store}

\* Entries that have aged, and have been reported, go.
Expire ==
  \E gone \in SUBSET store :
    /\ \A e \in gone : clock - e.createdAt >= MaxAge /\ e.ver \in reported
    /\ store' = store \ gone

\* Sign-out.
Clear == store' = {}

\* What is owed is reported; only a restart forgets it.
Report == owed \subseteq owed' \cup reported' \/ restarts < restarts'

\* What the drain is replaying is not this specification's business.
Next ==
  \/ (Put \/ Count \/ Rename \/ Expire \/ Clear) /\ UNCHANGED <<owed, clock, applied, reported, restarts>>
  \/ Take /\ UNCHANGED <<clock, applied, reported, restarts>>
  \/ /\ clock <= clock' /\ applied \subseteq applied' /\ reported \subseteq reported'
     /\ restarts <= restarts' /\ owed' \subseteq owed /\ Report
     /\ UNCHANGED store

Spec == Init /\ [][Next]_vars
=============================================================================
