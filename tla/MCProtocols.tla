---------------------------- MODULE MCProtocols ----------------------------
(***************************************************************************)
(* The components that share no state and whose progress is checked, in    *)
(* one run: a behaviour moves one of them, chosen at first, and leaves the *)
(* others as they are.                                                     *)
(***************************************************************************)
EXTENDS MapUpdater, MPSCQueue, Socket, LootRoll

VARIABLE part

mapVars == vars
partVars == <<mapVars, mpscVars, socketVars, lootVars>>

PartsInit ==
  /\ part \in {"maps", "queue", "socket", "loot"}
  /\ Init /\ MpscInit /\ SocketInit /\ LootInit

Moves(name) == part = name /\ UNCHANGED part

PartsNext ==
  \/ Moves("maps") /\ Next /\ UNCHANGED <<mpscVars, socketVars, lootVars>>
  \/ Moves("queue") /\ MpscNext /\ UNCHANGED <<mapVars, socketVars, lootVars>>
  \/ Moves("socket") /\ SocketNext /\ UNCHANGED <<mapVars, mpscVars, lootVars>>
  \/ Moves("loot") /\ LootNext /\ UNCHANGED <<mapVars, mpscVars, socketVars>>

\* The fairness of each component, as long as it is the one that moves.
PartsFairness ==
  /\ WF_mapVars(part = "maps" /\ ManagerStep)
  /\ \A w \in Workers : WF_mapVars(part = "maps" /\ WorkerStep(w))
  /\ \A n \in Items : WF_mpscVars(part = "queue" /\ EnqueueLink(n))
  /\ WF_mpscVars(part = "queue" /\ Dequeue)
  /\ WF_socketVars(part = "socket" /\ NetStep) /\ WF_socketVars(part = "socket" /\ WorldStep)
  /\ SF_socketVars(part = "socket" /\ NetUpdate)
  /\ SF_socketVars(part = "socket" /\ AsyncWriteReady)
  /\ SF_socketVars(part = "socket" /\ WriteSome)

PartsSpec == PartsInit /\ [][PartsNext]_<<part, partVars>> /\ PartsFairness

\* The type invariants of the four: counters of requests and connections that
\* agree with what they count, and items blocked until they are rolled for.
TypesOK == MapsTypeOK /\ QueueTypeOK /\ SocketTypeOK /\ LootTypeOK
=============================================================================
