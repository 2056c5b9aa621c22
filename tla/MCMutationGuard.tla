---------------------------- MODULE MCMutationGuard ----------------------------
(***************************************************************************)
(* MutationGuard for TLC.  Attempts and hashes are interchangeable: the    *)
(* specification and its safety properties name none of them.              *)
(***************************************************************************)
EXTENDS MutationGuard, TLC

Symmetry == Permutations(Attempts) \cup Permutations(Hashes)
=============================================================================
