----------------------------- MODULE MCExecutor -----------------------------
(***************************************************************************)
(* Executor for TLC: requests signed under one key.                        *)
(***************************************************************************)
EXTENDS Executor

CONSTANTS r1, r2, k1

SignedWith == [r \in Requests |-> k1]
=============================================================================
