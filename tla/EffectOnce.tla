------------------------------ MODULE EffectOnce ------------------------------
(***************************************************************************)
(* What the ledger and the guard promise for one idempotency key: within a *)
(* retention period one effect at most is carried out, and every success   *)
(* reported to a caller is that effect, for the request the caller made.   *)
(* No ledger, no audit, no failures: those are how it is achieved.         *)
(***************************************************************************)
CONSTANTS Attempts, Hashes, NoHash, NoAttempt

VARIABLES request,  \* the request each attempt carries
          current,  \* the attempt whose effect this retention period holds
          past,     \* those of earlier retention periods
          answer    \* the effect each successful attempt was told of

vars == <<request, current, past, answer>>

Init == /\ request = [a \in Attempts |-> NoHash]
        /\ current = NoAttempt
        /\ past = {}
        /\ answer = [a \in Attempts |-> NoAttempt]

Submit(a, h) == /\ request[a] = NoHash
                /\ request' = [request EXCEPT ![a] = h]
                /\ UNCHANGED <<current, past, answer>>

Apply(a) == /\ current = NoAttempt
            /\ a \notin past
            /\ request[a] # NoHash
            /\ current' = a
            /\ UNCHANGED <<request, past, answer>>

\* The retention period ends.
Retire == /\ current # NoAttempt
          /\ past' = past \cup {current}
          /\ current' = NoAttempt
          /\ UNCHANGED <<request, answer>>

\* A caller may hear of an effect that was retired while it waited.
Answer(a, e) == /\ answer[a] = NoAttempt
                /\ e \in past \cup ({current} \ {NoAttempt})
                /\ request[a] = request[e]
                /\ answer' = [answer EXCEPT ![a] = e]
                /\ UNCHANGED <<request, current, past>>

Next == \/ \E a \in Attempts, h \in Hashes : Submit(a, h)
        \/ \E a \in Attempts : Apply(a)
        \/ Retire
        \/ \E a, e \in Attempts : Answer(a, e)

Spec == Init /\ [][Next]_vars
=============================================================================
