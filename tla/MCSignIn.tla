------------------------------- MODULE MCSignIn -------------------------------
(* Finite instances of SignIn for TLC. *)
EXTENDS SignIn, TLC

CONSTANTS
    f1, f2,
    readers, writers, editors, admins, visitors, \* groups; visitors are not in the map
    narrow, wide, other                          \* policies

Symmetry == Permutations(Callbacks) \cup Permutations(Posts) \cup Permutations(Browsers)

OneFlow == {f1}
TwoFlows == {f1, f2}
Still == [mode \in AuthModes |-> 0]
Hours == [mode \in AuthModes |-> IF mode = "oidc" THEN 4 ELSE 3]
WriteScope == [f \in Flows |-> 1]

PolicyMap ==
    [g \in {readers, writers, editors, admins} |->
        CASE g = readers -> [mode |-> 0, policy |-> narrow]
          [] g = writers -> [mode |-> 1, policy |-> wide]
          [] g = editors -> [mode |-> 1, policy |-> other]
          [] g = admins -> [mode |-> 2, policy |-> wide]]

Lists == {<<visitors, readers>>, <<readers, admins, writers>>, <<writers, editors>>}
OneList == {<<readers>>}
=============================================================================
