----------------------- MODULE MCSessionAndInstances -----------------------
(***************************************************************************)
(* Two components that share no state, in one run: a behaviour moves one   *)
(* of them, chosen at first, and leaves the other as it is.                *)
(***************************************************************************)
EXTENDS MCWorldSession, MCInstanceLocks

VARIABLE part

PartsSymmetry == SessionSymmetry \union Permutations(Players)

\* While a session moves, the kind of the dungeon is of no interest.
PartsInit ==
  /\ part \in {"session", "instances"}
  /\ Init /\ InstancesInit
  /\ part = "session" => kind = "idBound"

Moves(name) == part = name /\ UNCHANGED part

\* Bound: only one session at a time has sockets in a handler or half closed.
\* Sockets of two sessions share no lock and no pointer.
OneSessionBusy ==
  LET busy == {"handling", "closing"}
  IN  \A j, k \in Sockets :
        SessionOf(j) # SessionOf(k) /\ net'[j] \in busy => net'[k] \notin busy

\* Bound: extensions and reset commands come before the reset time, as an
\* extension counts only after it, and only to locks that are bound to instance
\* ids; restarts come whenever.
CommandsEarly == interventions' # interventions => (kind = "idBound" /\ period = 0) \/ Restart

\* Bound: while writes are queued, they are executed or the server ends.  No other
\* step reads the tables, and all that a crash leaves is the tables, whatever else
\* happened before it.
WritesFirst == unwritten # <<>> => WriteExecuted \/ Restart

PartsNext ==
  \/ Moves("session") /\ Next /\ OneSessionBusy /\ UNCHANGED instanceVars
  \/ Moves("instances") /\ InstancesNext /\ WritesFirst /\ CommandsEarly /\ UNCHANGED vars

\* The type invariants of both; a player is in a map that is loaded, and once
\* the queued writes have run the rows show what the permanent locks show.
TypesOK == SessionTypeOK /\ InstancesTypeOK
=============================================================================
