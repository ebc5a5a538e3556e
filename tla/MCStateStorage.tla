----------------------------- MODULE MCStateStorage -----------------------------
(* Two processes, baselines over two resources, flags of two accounts. *)
EXTENDS StateStorage, TLC

Symmetry == Permutations(Processes) \cup Permutations(Accounts)
=============================================================================
