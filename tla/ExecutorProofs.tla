--------------------------- MODULE ExecutorProofs ---------------------------
(***************************************************************************)
(* A signed request runs at most once, for any number of transactions,     *)
(* requests and keys and any clock skew: Spec => []RunsAtMostOnce.         *)
(*                                                                         *)
(* The argument: a transaction that has consumed the nonce of r is tied    *)
(* to it by the nonce's row, and when the purge job deletes that row the   *)
(* request is too old to verify, because the row is Ttl old, was inserted  *)
(* no earlier than Fresh before the request was signed, and Ttl > 2*Fresh. *)
(* So of two transactions that consumed the nonce of r one at most still   *)
(* finds r fresh, and execute checks that again.                           *)
(***************************************************************************)
EXTENDS Executor, TLAPS

USE ExecutorAssumption DEF ExecutorAssumption

\* t has consumed the nonce of r, and still holds it or ran under it.
Committed(t, r) == of[t] = r /\ (pc[t] \in {"nonced", "claimed"} \/ t \in runs[r])

Expired(r) == age[r] > Fresh

\* A transaction carries a request once it is under way, and runs that request only.
CarriesItsRequest ==
  \A t \in Txns :
    /\ pc[t] # "idle" => of[t] \in Requests
    /\ \A r \in Requests : t \in runs[r] => of[t] = r /\ pc[t] \in {"running", "done", "killed"}

\* A verified request is not signed further ahead than Fresh.
VerifiedIsSigned ==
  \A t \in Txns : pc[t] = "verified" => age[of[t]] >= 0 - Fresh

\* A nonce's row is no older than its request, but for Fresh.
RowsAreYoung ==
  \A r \in Requests : nonces[r] # Absent => Expired(r) \/ age[r] >= nonces[r] - Fresh

CommittedHasRow ==
  \A t \in Txns, r \in Requests : Committed(t, r) => nonces[r] # Absent \/ Expired(r)

OneIsCommitted ==
  \A t, u \in Txns, r \in Requests : Committed(t, r) /\ Committed(u, r) /\ t # u => Expired(r)

Inductive == /\ TypeOK
             /\ CarriesItsRequest
             /\ VerifiedIsSigned
             /\ RowsAreYoung
             /\ CommittedHasRow
             /\ OneIsCommitted
             /\ RunsAtMostOnce

\* Every request starts unverified and with no row.
LEMMA InitInductive == Init => Inductive
  BY ExecutorAssumption DEF Init, Inductive, TypeOK, CarriesItsRequest, VerifiedIsSigned, RowsAreYoung,
     CommittedHasRow, OneIsCommitted, RunsAtMostOnce, Committed, Stale, Absent

\* Every step keeps the types.
LEMMA TypeStep == ASSUME TypeOK, [Next]_vars PROVE TypeOK'
<1> USE ExecutorAssumption DEF TypeOK, environment, Absent, Stale
<1>1. ASSUME NEW t \in Txns, NEW r \in Requests, Arrive(t, r) PROVE TypeOK'
  BY <1>1 DEF Arrive
<1>2. ASSUME NEW t \in Txns, CheckSwitches(t) PROVE TypeOK'
  BY <1>2 DEF CheckSwitches, Advance, Close
<1>3. ASSUME NEW t \in Txns, Verify(t) PROVE TypeOK'
  BY <1>3 DEF Verify, Advance, Close
<1>4. ASSUME NEW t \in Txns, ConsumeNonce(t) PROVE TypeOK'
  BY <1>4 DEF ConsumeNonce, Advance, Close
<1>5. ASSUME NEW t \in Txns, ClaimExecution(t) PROVE TypeOK'
  BY <1>5 DEF ClaimExecution, Advance, Close
<1>6. ASSUME NEW t \in Txns, Execute(t) PROVE TypeOK'
  BY <1>6 DEF Execute, Advance, Close
<1>7. ASSUME NEW t \in Txns, Script(t) PROVE TypeOK'
  <2>1. CASE ScriptReturns(t) BY <2>1 DEF ScriptReturns, Close
  <2>2. ASSUME NEW what \in Throws, ScriptThrows(t, what) PROVE TypeOK'
    <3>1. /\ ThrownStatus(what)[1] \in {"error", "ok", "rejected"}
          /\ ThrownStatus(what)[2] \in {"500", "200", "401"}
      BY <2>2 DEF ThrownStatus
    <3> QED BY <2>2, <3>1 DEF ScriptThrows, Close
  <2> QED BY <1>7, <2>1, <2>2 DEF Script
<1>8. ASSUME NEW t \in Txns, Kill(t) PROVE TypeOK'
  BY <1>8 DEF Kill, Advance
<1>9. ASSUME NEW r \in Requests, PurgeNonce(r) PROVE TypeOK'
  BY <1>9 DEF PurgeNonce
<1>10. ASSUME NEW t \in Txns, PurgeClaim(t) PROVE TypeOK'
  BY <1>10 DEF PurgeClaim
<1>11. ASSUME NEW on \in BOOLEAN, SetEnabled(on) PROVE TypeOK'
  BY <1>11 DEF SetEnabled
<1>12. ASSUME NEW ks \in SUBSET Keys, InstallKeys(ks) PROVE TypeOK'
  BY <1>12 DEF InstallKeys
<1>13. CASE Tick
  <2>1. age' \in [Requests -> (0 - Skew)..Stale] BY <1>13 DEF Tick
  <2>2. \A a \in {Absent} \cup 0..Ttl : Older(a, Ttl) \in {Absent} \cup 0..Ttl BY DEF Older
  <2>3. nonces' \in [Requests -> {Absent} \cup 0..Ttl] BY <1>13, <2>2 DEF Tick
  <2>4. claims' \in [Txns -> {Absent} \cup 0..Ttl] BY <1>13, <2>2 DEF Tick
  <2> QED BY <1>13, <2>1, <2>3, <2>4 DEF Tick
<1>14. CASE UNCHANGED vars
  BY <1>14 DEF vars
<1> QED BY <1>1, <1>2, <1>3, <1>4, <1>5, <1>6, <1>7, <1>8, <1>9, <1>10, <1>11, <1>12, <1>13, <1>14
        DEF Next, Step

\* The rest of the invariant, as far as a transaction that neither consumes a nonce nor
\* starts a script can disturb it: it keeps its request and does not become committed.
QuietStep(t) ==
  /\ UNCHANGED environment
  /\ of' = of \/ (pc[t] = "idle" /\ \E r \in Requests : of' = [of EXCEPT ![t] = r])
  /\ \E to \in {"audited", "admitted", "verified", "done", "killed"} :
       /\ pc' = [pc EXCEPT ![t] = to]
       /\ to = "verified" => of' = of /\ age[of[t]] >= 0 - Fresh
  /\ pc[t] = "idle" => of'[t] \in Requests

\* A step that does not commit t keeps the invariant.
LEMMA QuietKeeps ==
  ASSUME Inductive, TypeOK', NEW t \in Txns, QuietStep(t),
         \A r \in Requests : t \in runs[r] => pc'[t] \in {"running", "done", "killed"}
  PROVE  Inductive'
<1> USE DEF Inductive, TypeOK, environment
<1>1. \A u \in Txns : u # t => of'[u] = of[u] /\ pc'[u] = pc[u]
  BY DEF QuietStep
<1>2. \A r \in Requests : t \in runs[r] => of'[t] = of[t]
  BY DEF QuietStep, CarriesItsRequest
<1>3. \A u \in Txns, r \in Requests : Committed(u, r)' => Committed(u, r)
  BY <1>1, <1>2 DEF QuietStep, Committed, CarriesItsRequest
<1>4. CarriesItsRequest'
  BY <1>1, <1>2 DEF QuietStep, CarriesItsRequest
<1>5. VerifiedIsSigned'
  BY <1>1 DEF QuietStep, VerifiedIsSigned
<1>6. RowsAreYoung'
  BY DEF QuietStep, RowsAreYoung, Expired
<1>7. CommittedHasRow'
  BY <1>3 DEF QuietStep, CommittedHasRow, Expired
<1>8. OneIsCommitted'
  BY <1>3 DEF QuietStep, OneIsCommitted, Expired
<1>9. RunsAtMostOnce'
  BY DEF QuietStep, RunsAtMostOnce
<1> QED BY <1>4, <1>5, <1>6, <1>7, <1>8, <1>9

\* Consuming the nonce: the unique index says that no row of it exists, so whoever
\* consumed it before has outlived the request.
LEMMA ConsumeKeeps ==
  ASSUME Inductive, TypeOK', NEW t \in Txns, ConsumeNonce(t), pc'[t] = "nonced"
  PROVE  Inductive'
<1> USE DEF Inductive, TypeOK
<1>1. /\ pc[t] = "verified" /\ of[t] \in Requests /\ nonces[of[t]] = Absent
      /\ nonces' = [nonces EXCEPT ![of[t]] = 0]
      /\ pc' = [pc EXCEPT ![t] = "nonced"]
      /\ UNCHANGED <<of, age, runs>>
  BY DEF ConsumeNonce, Advance, Close, NonceIsNew, CarriesItsRequest
<1>2. \A r \in Requests : t \notin runs[r]
  BY <1>1 DEF CarriesItsRequest
<1>3. \A u \in Txns, r \in Requests : u # t => (Committed(u, r)' <=> Committed(u, r))
  BY <1>1 DEF Committed
<1>4. CarriesItsRequest' BY <1>1, <1>2 DEF CarriesItsRequest
<1>5. VerifiedIsSigned' BY <1>1 DEF VerifiedIsSigned
<1>6. RowsAreYoung'
  <2>1. age[of[t]] >= 0 - Fresh BY <1>1, ExecutorAssumption DEF VerifiedIsSigned
  <2> QED BY <1>1, <2>1, ExecutorAssumption DEF RowsAreYoung, Expired, Absent
<1>7. CommittedHasRow'
  <2> SUFFICES ASSUME NEW u \in Txns, NEW r \in Requests, Committed(u, r)'
               PROVE  nonces'[r] # Absent \/ Expired(r)'
    BY DEF CommittedHasRow
  <2>1. CASE u = t BY <1>1, <2>1 DEF Committed, Absent
  <2>2. CASE u # t BY <1>1, <1>3, <2>2 DEF CommittedHasRow, Expired, Absent
  <2> QED BY <2>1, <2>2
<1>8. OneIsCommitted'
  <2> SUFFICES ASSUME NEW u \in Txns, NEW v \in Txns, NEW r \in Requests,
                      Committed(u, r)', Committed(v, r)', u # v
               PROVE  Expired(r)
    BY <1>1 DEF OneIsCommitted, Expired
  <2>1. CASE u # t /\ v # t BY <1>3, <2>1 DEF OneIsCommitted
  <2>2. CASE u = t BY <1>1, <1>3, <2>2 DEF Committed, CommittedHasRow
  <2>3. CASE v = t BY <1>1, <1>3, <2>3 DEF Committed, CommittedHasRow
  <2> QED BY <2>1, <2>2, <2>3
<1>9. RunsAtMostOnce' BY <1>1 DEF RunsAtMostOnce
<1> QED BY <1>4, <1>5, <1>6, <1>7, <1>8, <1>9

\* Claiming changes nothing but how far the transaction is.
LEMMA ClaimKeeps ==
  ASSUME Inductive, TypeOK', NEW t \in Txns, ClaimExecution(t), pc'[t] = "claimed"
  PROVE  Inductive'
<1> USE DEF Inductive, TypeOK
<1>1. /\ pc[t] = "nonced" /\ pc' = [pc EXCEPT ![t] = "claimed"]
      /\ UNCHANGED <<of, nonces, age, runs>>
  BY DEF ClaimExecution, Advance, Close
<1>2. \A u \in Txns, r \in Requests : Committed(u, r)' <=> Committed(u, r)
  BY <1>1 DEF Committed
<1> QED BY <1>1, <1>2 DEF CarriesItsRequest, VerifiedIsSigned, RowsAreYoung, CommittedHasRow,
        OneIsCommitted, RunsAtMostOnce, Expired

\* Starting the script: r is fresh, so nobody else is committed to it, nor has run it.
LEMMA ExecuteKeeps ==
  ASSUME Inductive, TypeOK', NEW t \in Txns, Execute(t), pc'[t] = "running"
  PROVE  Inductive'
<1> USE DEF Inductive, TypeOK
<1>1. /\ pc[t] = "claimed" /\ of[t] \in Requests /\ ~Expired(of[t])
      /\ runs' = [runs EXCEPT ![of[t]] = @ \cup {t}]
      /\ pc' = [pc EXCEPT ![t] = "running"]
      /\ UNCHANGED <<of, nonces, age>>
  BY ExecutorAssumption DEF Execute, Advance, Close, MayRun, Verifies, IsFresh, Expired, CarriesItsRequest, Stale
<1>2. \A u \in Txns, r \in Requests : Committed(u, r)' <=> Committed(u, r)
  BY <1>1 DEF Committed
<1>3. RunsAtMostOnce'
  <2>1. \A u \in runs[of[t]] : u = t
    BY <1>1 DEF OneIsCommitted, Committed, CarriesItsRequest
  <2> QED BY <1>1, <2>1 DEF RunsAtMostOnce
<1>4. CarriesItsRequest' BY <1>1 DEF CarriesItsRequest
<1> QED BY <1>1, <1>2, <1>3, <1>4 DEF VerifiedIsSigned, RowsAreYoung, CommittedHasRow, OneIsCommitted, Expired

\* A row is purged only when its request can no longer verify.
LEMMA PurgeKeeps ==
  ASSUME Inductive, TypeOK', NEW r \in Requests, PurgeNonce(r)
  PROVE  Inductive'
<1> USE DEF Inductive, TypeOK
<1>1. /\ nonces' = [nonces EXCEPT ![r] = Absent]
      /\ UNCHANGED <<pc, of, age, runs>>
  BY DEF PurgeNonce
<1>2. Expired(r)
  <2>1. nonces[r] # Absent /\ nonces[r] >= Ttl BY DEF PurgeNonce, Purgeable
  <2>2. Expired(r) \/ age[r] >= nonces[r] - Fresh BY <2>1 DEF RowsAreYoung
  <2> QED BY <2>1, <2>2, ExecutorAssumption DEF Expired, Absent, Stale
<1>3. \A u \in Txns, q \in Requests : Committed(u, q)' <=> Committed(u, q)
  BY <1>1 DEF Committed
<1> QED BY <1>1, <1>2, <1>3 DEF CarriesItsRequest, VerifiedIsSigned, RowsAreYoung, CommittedHasRow,
        OneIsCommitted, RunsAtMostOnce, Expired

\* Rows and requests age together.
LEMMA TickKeeps == ASSUME Inductive, TypeOK', Tick PROVE Inductive'
<1> USE DEF Inductive, TypeOK
<1>1. UNCHANGED <<pc, of, runs>> BY DEF Tick
<1>2. \A r \in Requests : Expired(r) => Expired(r)'
  BY ExecutorAssumption DEF Tick, Expired, Stale
<1>3. \A r \in Requests : age'[r] >= age[r]
  BY ExecutorAssumption DEF Tick, Stale
<1>4. \A r \in Requests : nonces'[r] # Absent <=> nonces[r] # Absent
  BY ExecutorAssumption DEF Tick, Older, Absent
<1>5. RowsAreYoung'
  <2> SUFFICES ASSUME NEW r \in Requests, nonces'[r] # Absent
               PROVE  Expired(r)' \/ age'[r] >= nonces'[r] - Fresh
    BY DEF RowsAreYoung
  <2>1. nonces[r] \in 0..Ttl /\ nonces'[r] <= nonces[r] + 1
    BY <1>4, ExecutorAssumption DEF Tick, Older, Absent
  <2>2. age'[r] = age[r] + 1 \/ Expired(r)'
    BY ExecutorAssumption DEF Tick, Expired, Stale
  <2>3. Expired(r) \/ age[r] >= nonces[r] - Fresh
    BY <1>4 DEF RowsAreYoung
  <2>4. nonces'[r] \in Int /\ nonces[r] \in Int /\ age[r] \in Int /\ age'[r] \in Int /\ Fresh \in Int
    BY ExecutorAssumption, <2>1 DEF Stale, Absent
  <2> QED BY <1>2, <2>1, <2>2, <2>3, <2>4
<1>6. VerifiedIsSigned'
  <2> SUFFICES ASSUME NEW t \in Txns, pc[t] = "verified" PROVE age'[of[t]] >= 0 - Fresh
    BY <1>1 DEF VerifiedIsSigned
  <2>1. of[t] \in Requests /\ age[of[t]] >= 0 - Fresh BY DEF VerifiedIsSigned, CarriesItsRequest
  <2>2. age[of[t]] \in Int /\ age'[of[t]] \in Int /\ Fresh \in Int BY <2>1, ExecutorAssumption DEF Stale
  <2> QED BY <1>3, <2>1, <2>2
<1>7. \A u \in Txns, r \in Requests : Committed(u, r)' <=> Committed(u, r)
  BY <1>1 DEF Committed
<1> QED BY <1>1, <1>2, <1>4, <1>5, <1>6, <1>7
        DEF CarriesItsRequest, CommittedHasRow, OneIsCommitted, RunsAtMostOnce

\* Every step keeps the invariant.
LEMMA InductiveStep == ASSUME Inductive, [Next]_vars PROVE Inductive'
<1>0. TypeOK' BY TypeStep DEF Inductive
<1> USE <1>0 DEF environment
<1>1. ASSUME NEW t \in Txns, NEW r \in Requests, Arrive(t, r) PROVE Inductive'
  <2>1. QuietStep(t) BY <1>1 DEF Arrive, QuietStep, Inductive, TypeOK
  <2>2. \A q \in Requests : t \notin runs[q] BY <1>1 DEF Arrive, Inductive, CarriesItsRequest
  <2> QED BY <2>1, <2>2, QuietKeeps
<1>2. ASSUME NEW t \in Txns, CheckSwitches(t) PROVE Inductive'
  <2>1. QuietStep(t) BY <1>2 DEF CheckSwitches, Advance, Close, QuietStep
  <2>2. \A q \in Requests : t \notin runs[q] BY <1>2 DEF CheckSwitches, Inductive, CarriesItsRequest
  <2> QED BY <2>1, <2>2, QuietKeeps
<1>3. ASSUME NEW t \in Txns, Verify(t) PROVE Inductive'
  <2>1. QuietStep(t) BY <1>3 DEF Verify, Verifies, IsFresh, Advance, Close, QuietStep
  <2>2. \A q \in Requests : t \notin runs[q] BY <1>3 DEF Verify, Inductive, CarriesItsRequest
  <2> QED BY <2>1, <2>2, QuietKeeps
<1>4. ASSUME NEW t \in Txns, ConsumeNonce(t) PROVE Inductive'
  <2>1. CASE pc'[t] = "nonced" BY <1>4, <2>1, ConsumeKeeps
  <2>2. CASE pc'[t] # "nonced"
    <3>1. QuietStep(t) BY <1>4, <2>2 DEF ConsumeNonce, Advance, Close, QuietStep, Inductive, TypeOK
    <3>2. \A q \in Requests : t \notin runs[q] BY <1>4 DEF ConsumeNonce, Inductive, CarriesItsRequest
    <3> QED BY <3>1, <3>2, QuietKeeps
  <2> QED BY <2>1, <2>2
<1>5. ASSUME NEW t \in Txns, ClaimExecution(t) PROVE Inductive'
  <2>1. CASE pc'[t] = "claimed" BY <1>5, <2>1, ClaimKeeps
  <2>2. CASE pc'[t] # "claimed"
    <3>1. QuietStep(t) BY <1>5, <2>2 DEF ClaimExecution, Advance, Close, QuietStep, Inductive, TypeOK
    <3>2. \A q \in Requests : t \notin runs[q] BY <1>5 DEF ClaimExecution, Inductive, CarriesItsRequest
    <3> QED BY <3>1, <3>2, QuietKeeps
  <2> QED BY <2>1, <2>2
<1>6. ASSUME NEW t \in Txns, Execute(t) PROVE Inductive'
  <2>1. CASE pc'[t] = "running" BY <1>6, <2>1, ExecuteKeeps
  <2>2. CASE pc'[t] # "running"
    <3>1. QuietStep(t) BY <1>6, <2>2 DEF Execute, Advance, Close, QuietStep, Inductive, TypeOK
    <3>2. \A q \in Requests : t \notin runs[q] BY <1>6 DEF Execute, Inductive, CarriesItsRequest
    <3> QED BY <3>1, <3>2, QuietKeeps
  <2> QED BY <2>1, <2>2
<1>7. ASSUME NEW t \in Txns, Script(t) PROVE Inductive'
  <2>1. QuietStep(t) /\ pc'[t] = "done"
    BY <1>7 DEF Script, ScriptReturns, ScriptThrows, Close, QuietStep, Inductive, TypeOK
  <2> QED BY <2>1, QuietKeeps
<1>8. ASSUME NEW t \in Txns, Kill(t) PROVE Inductive'
  <2>1. QuietStep(t) /\ pc'[t] = "killed" BY <1>8 DEF Kill, Advance, QuietStep, Inductive, TypeOK
  <2> QED BY <2>1, QuietKeeps
<1>9. ASSUME NEW r \in Requests, PurgeNonce(r) PROVE Inductive'
  BY <1>9, PurgeKeeps
<1>10. CASE UNCHANGED <<pc, of, nonces, age, runs>>
  BY <1>10 DEF Inductive, CarriesItsRequest, VerifiedIsSigned, RowsAreYoung, CommittedHasRow,
     OneIsCommitted, RunsAtMostOnce, Committed, Expired
<1>11. CASE Tick BY <1>11, TickKeeps
<1>12. \/ UNCHANGED <<pc, of, nonces, age, runs>>
       \/ Tick
       \/ \E t \in Txns : Step(t) \/ Kill(t)
       \/ \E t \in Txns, r \in Requests : Arrive(t, r)
       \/ \E r \in Requests : PurgeNonce(r)
  BY DEF Next, PurgeClaim, SetEnabled, InstallKeys, vars
<1>13. ASSUME NEW t \in Txns, Step(t) PROVE Inductive'
  BY <1>2, <1>3, <1>4, <1>5, <1>6, <1>7, <1>13 DEF Step
<1>14. ASSUME \E t \in Txns : Step(t) \/ Kill(t) PROVE Inductive'
  BY <1>8, <1>13, <1>14
<1>15. ASSUME \E t \in Txns, r \in Requests : Arrive(t, r) PROVE Inductive'
  BY <1>1, <1>15
<1>16. ASSUME \E r \in Requests : PurgeNonce(r) PROVE Inductive'
  BY <1>9, <1>16
<1> QED BY <1>10, <1>11, <1>12, <1>14, <1>15, <1>16

\* The state of the endpoint stays well typed, whatever arrives, stalls or is killed.
THEOREM ExecutorTypeCorrect == Spec => []TypeOK
<1>1. Init => TypeOK BY InitInductive DEF Inductive
<1> QED BY <1>1, TypeStep, PTL DEF Spec

\* A signed request runs once at most (x_mcp_executor.js:161-206): the unique index on
\* the nonce, the purge age and the second verification together guarantee it.
THEOREM SignedRequestRunsOnce == Spec => []RunsAtMostOnce
<1>1. Inductive => RunsAtMostOnce BY DEF Inductive
<1> QED BY <1>1, InitInductive, InductiveStep, PTL DEF Spec

-----------------------------------------------------------------------------
(***************************************************************************)
(* What the rows and the answers say of the runs, when no script throws a  *)
(* text that execute keeps for its own refusals.                           *)
(***************************************************************************)

\* A row or an answer is only written as a transaction ends; a transaction that
\* runs is among the runs of its request.
RowsFit ==
  \A t \in Txns :
    /\ pc[t] = "running" => t \in runs[of[t]]
    /\ pc[t] # "done" => answer[t] = "none" /\ audit[t] \in {"none", "running"}
    /\ audit[t] \in {"ok", "truncated"} => of[t] \in Requests /\ t \in runs[of[t]]
    /\ answer[t] \in {"401", "413", "503"} => of[t] \in Requests /\ t \notin runs[of[t]]
    /\ audit[t] \in {"rejected", "killed"} => t \notin runs[of[t]]

\* Rows that fit and requests that run once tell the truth.
LEMMA FittingRowsAreTrue == ASSUME Inductive, RowsFit PROVE RowsTellTheTruth
<1>1. ASSUME NEW t \in Txns, audit[t] \in {"ok", "truncated"}
      PROVE  /\ runs[of[t]] = {t}
             /\ \A u \in Txns \ {t} : of[u] = of[t] => audit[u] \notin {"ok", "truncated"}
  <2>1. of[t] \in Requests /\ t \in runs[of[t]] /\ runs[of[t]] \subseteq Txns
    BY <1>1 DEF RowsFit, Inductive, TypeOK
  <2>2. \A u \in runs[of[t]] : u = t
    BY <2>1 DEF Inductive, RunsAtMostOnce
  <2>3. \A u \in Txns : of[u] = of[t] /\ audit[u] \in {"ok", "truncated"} => u \in runs[of[t]]
    BY DEF RowsFit
  <2> QED BY <2>1, <2>2, <2>3
<1> QED BY <1>1 DEF RowsTellTheTruth, RowsFit

\* A step that starts no script and closes no row or answer leaves the rows fitting.
LEMMA RowsStep == ASSUME "reserved" \notin Throws, Inductive, RowsFit, [Next]_vars PROVE RowsFit'
<1> USE DEF Inductive, TypeOK, CarriesItsRequest, RowsFit, environment
<1>1. ASSUME NEW t \in Txns, NEW r \in Requests, Arrive(t, r) PROVE RowsFit'
  BY <1>1 DEF Arrive
<1>2. ASSUME NEW t \in Txns, CheckSwitches(t) PROVE RowsFit'
  BY <1>2 DEF CheckSwitches, Advance, Close
<1>3. ASSUME NEW t \in Txns, Verify(t) PROVE RowsFit'
  BY <1>3 DEF Verify, Advance, Close
<1>4. ASSUME NEW t \in Txns, ConsumeNonce(t) PROVE RowsFit'
  BY <1>4 DEF ConsumeNonce, Advance, Close
<1>5. ASSUME NEW t \in Txns, ClaimExecution(t) PROVE RowsFit'
  BY <1>5 DEF ClaimExecution, Advance, Close
<1>6. ASSUME NEW t \in Txns, Execute(t) PROVE RowsFit'
  <2>1. CASE Advance(t, "running") /\ runs' = [runs EXCEPT ![of[t]] = @ \cup {t}]
    BY <1>6, <2>1 DEF Execute, Advance
  <2>2. CASE Close(t, "rejected", "401") /\ UNCHANGED runs
    BY <1>6, <2>2 DEF Execute, Close
  <2> QED BY <1>6, <2>1, <2>2 DEF Execute
<1>7. ASSUME NEW t \in Txns, ScriptReturns(t) PROVE RowsFit'
  BY <1>7 DEF ScriptReturns, Close
<1>8. ASSUME NEW t \in Txns, NEW what \in Throws, ScriptThrows(t, what) PROVE RowsFit'
  <2>1. pc[t] = "running" /\ (Close(t, "error", "500") \/ Close(t, "ok", "200"))
    BY <1>8 DEF ScriptThrows, ThrownStatus
  <2>2. UNCHANGED runs
    BY <1>8 DEF ScriptThrows
  <2> QED BY <2>1, <2>2 DEF Close
<1>9. ASSUME NEW t \in Txns, Kill(t) PROVE RowsFit'
  BY <1>9 DEF Kill, Advance
<1>10. CASE UNCHANGED <<pc, of, audit, answer, runs>>
  BY <1>10
<1>11. \/ UNCHANGED <<pc, of, audit, answer, runs>>
       \/ \E t \in Txns : Step(t) \/ Kill(t)
       \/ \E t \in Txns, r \in Requests : Arrive(t, r)
  BY DEF Next, PurgeClaim, PurgeNonce, SetEnabled, InstallKeys, Tick, vars
<1>12. ASSUME NEW t \in Txns, Step(t) PROVE RowsFit'
  BY <1>2, <1>3, <1>4, <1>5, <1>6, <1>7, <1>8, <1>12 DEF Step, Script
<1> QED BY <1>1, <1>9, <1>10, <1>11, <1>12

\* What the audit log says ran did run, once and under a nonce of its own, and what the
\* Worker may retry did not run (x_mcp_executor.js:99-212), as long as no script throws
\* one of the texts execute refuses with.
THEOREM ExecutorRowsAreTrue == ASSUME "reserved" \notin Throws PROVE Spec => []RowsTellTheTruth
<1>1. Init => RowsFit BY DEF Init, RowsFit
<1>2. Inductive /\ RowsFit /\ [Next]_vars => (Inductive /\ RowsFit)'
  BY InductiveStep, RowsStep
<1>3. Inductive /\ RowsFit => RowsTellTheTruth BY FittingRowsAreTrue
<1> QED BY <1>1, <1>2, <1>3, InitInductive, PTL DEF Spec
=============================================================================
