-------------------------- MODULE MCAccountService --------------------------
(* AccountService on small instances.                                      *)
EXTENDS AccountService, TLC

WorkerSymmetry == Permutations(Workers)
=============================================================================
