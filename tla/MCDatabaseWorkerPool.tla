------------------------ MODULE MCDatabaseWorkerPool ------------------------
(* Two transactions on two workers, a single statement and an empty          *)
(* transaction among them, and a direct transaction beside them.             *)
EXTENDS DatabaseWorkerPool, TLC

CONSTANTS t1, t2

\* The two transactions and the workers are interchangeable.
PoolSymmetry == Permutations({t1, t2}) \union Permutations(Workers)
=============================================================================
