------------------------- MODULE MCServiceNowToken -------------------------
(* Finite instances of ServiceNowToken for TLC. *)
EXTENDS ServiceNowToken, TLC

PerUserOnly == {"per_user_oauth"}
BothModes == {"per_user_oauth", "integration_user"}
Symmetry == Permutations(Requests)
=============================================================================
