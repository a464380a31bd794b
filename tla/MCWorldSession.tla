--------------------------- MODULE MCWorldSession ---------------------------
(* One account that logs in twice: the second session meets the first one   *)
(* at every point of its login, its stay in the world and its removal.      *)
EXTENDS WorldSession

\* The logins of an account are interchangeable.
SessionSymmetry == Permutations(Logins)
=============================================================================
