------------------------- MODULE MCPasswordRecovery -------------------------
(* PasswordRecovery on small instances.                                    *)
EXTENDS PasswordRecovery, TLC

(* Which worker or account is which makes no difference to a safety check. *)
Symmetry == Permutations(Workers) \cup Permutations(Users)
WorkerSymmetry == Permutations(Workers)
=============================================================================
