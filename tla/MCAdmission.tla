----------------------------- MODULE MCAdmission -----------------------------
(***************************************************************************)
(* Admission for TLC.  Slots and lease ids are interchangeable.            *)
(***************************************************************************)
EXTENDS Admission, TLC

Symmetry == Permutations(Slots) \cup Permutations(LeaseIds)
=============================================================================
