------------------------------ MODULE MCWorld ------------------------------
(* One slot.  With three accounts two can wait behind one another while the *)
(* third leaves, reconnects or is refused.  An account can log in twice.    *)
EXTENDS World, TLC

WorldSymmetry == Permutations(Accounts) \union Permutations(Logins)
=============================================================================
