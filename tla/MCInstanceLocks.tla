-------------------------- MODULE MCInstanceLocks --------------------------
(* Two players in a dungeon with one boss, before and after one reset.  With *)
(* encounter locks nobody intervenes.                                        *)
EXTENDS InstanceLocks, TLC

MCInterventions == "idBound" :> 1 @@ "flex" :> 1 @@ "encounter" :> 0
=============================================================================
