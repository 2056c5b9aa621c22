----------------------------- MODULE MCLinkFlow -----------------------------
(* Finite instances of LinkFlow for TLC. *)
EXTENDS LinkFlow, TLC

CONSTANTS ann, bob, annsAccount, bobsAccount, oldAccount

\* ann has an email and an older link to another account; bob has no email.
TwoUsers == {ann, bob}
OwnAccounts == [u \in TwoUsers |-> IF u = ann THEN {annsAccount} ELSE {}]
Before == [u \in TwoUsers |-> IF u = ann THEN oldAccount ELSE bobsAccount]
Symmetry == Permutations(Tickets) \cup Permutations(Callbacks)

\* ann alone, who has never linked.
OneUser == {ann}
OneOwn == [u \in OneUser |-> {annsAccount}]
NeverLinked == [u \in OneUser |-> None]
=============================================================================
