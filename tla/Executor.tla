------------------------------ MODULE Executor ------------------------------
(***************************************************************************)
(* The executor endpoint on the ServiceNow instance: transactions of       *)
(* x_mcp_executor.js that check, claim and run signed scripts through      *)
(* x_mcp_verify.js, the nonce table with its unique index, and the purge   *)
(* job of x_mcp.now.ts.                                                    *)
(*                                                                         *)
(* A transaction that is under way can be overtaken by any other at each   *)
(* of its database operations, stall there for any time, and be killed by  *)
(* the transaction quota.  Time is in ticks.                               *)
(***************************************************************************)
EXTENDS Integers, FiniteSets

CONSTANTS Txns,       \* transactions: POSTs that reach the endpoint
          Requests,   \* signed requests; a request may arrive more than once
          Keys, KeyOf,\* HMAC keys, and the one each request is signed with
          Fresh,      \* FRESHNESS_MS
          Ttl,        \* age at which the purge job may delete a row
          Skew,       \* bound on how far the clocks of Worker and instance differ
          Throws      \* what scripts throw: "error", "empty" (the empty string) and "reserved"

NoRequest == "no request"
Absent == 0 - 1   \* no such row

ASSUME ExecutorAssumption ==
  /\ Fresh \in Nat /\ Ttl \in Nat /\ Skew \in Nat /\ Ttl > 2 * Fresh
  /\ KeyOf \in [Requests -> Keys] /\ NoRequest \notin Requests
  /\ Throws \subseteq {"error", "empty", "reserved"}

VARIABLES pc,       \* how far each transaction is
          of,       \* the request it carries
          audit,    \* status of its audit row
          answer,   \* the status it answered
          nonces,   \* ages of the rows of the requests' nonces
          claims,   \* ages of the rows of the transactions' execution claims
          age,      \* ticks since a request was signed, below 0 if the Worker's clock is ahead
          keys,     \* the current and the previous key of the instance
          enabled,  \* both executor toggles are on
          runs      \* history: the transactions that started each request's script

vars == <<pc, of, audit, answer, nonces, claims, age, keys, enabled, runs>>
environment == <<nonces, claims, age, keys, enabled, runs>>

Stale == Fresh + Skew + 1   \* bound: all ages from here on are alike

TypeOK ==
  /\ pc \in [Txns -> {"idle", "audited", "admitted", "verified", "nonced", "claimed", "running", "done", "killed"}]
  /\ of \in [Txns -> Requests \cup {NoRequest}]
  /\ audit \in [Txns -> {"none", "running", "killed", "error", "rejected", "ok", "truncated"}]
  /\ answer \in [Txns -> {"none", "200", "401", "413", "500", "503"}]
  /\ nonces \in [Requests -> {Absent} \cup 0..Ttl]
  /\ claims \in [Txns -> {Absent} \cup 0..Ttl]
  /\ age \in [Requests -> (0 - Skew)..Stale]
  /\ keys \subseteq Keys
  /\ enabled \in BOOLEAN
  /\ runs \in [Requests -> SUBSET Txns]

Init ==
  /\ pc = [t \in Txns |-> "idle"]
  /\ of = [t \in Txns |-> NoRequest]
  /\ audit = [t \in Txns |-> "none"]
  /\ answer = [t \in Txns |-> "none"]
  /\ nonces = [r \in Requests |-> Absent]
  /\ claims = [t \in Txns |-> Absent]
  /\ age \in [Requests -> (0 - Skew)..Skew]
  /\ keys = Keys
  /\ enabled \in BOOLEAN
  /\ runs = [r \in Requests |-> {}]

-----------------------------------------------------------------------------
(***************************************************************************)
(* The transaction.                                                        *)
(***************************************************************************)
Advance(t, to) == /\ pc' = [pc EXCEPT ![t] = to]
                  /\ UNCHANGED <<of, audit, answer>>

\* Mutant: a rejection answers without closing the row.
MutClose(t, status, http) ==
  /\ pc' = [pc EXCEPT ![t] = "done"]
  /\ audit' = IF status = "rejected" THEN audit ELSE [audit EXCEPT ![t] = status]
  /\ answer' = [answer EXCEPT ![t] = http]
  /\ UNCHANGED of

\* Close the audit row and answer.
Close(t, status, http) == /\ pc' = [pc EXCEPT ![t] = "done"]
                          /\ audit' = [audit EXCEPT ![t] = status]
                          /\ answer' = [answer EXCEPT ![t] = http]
                          /\ UNCHANGED of

\* The audit row comes first; without it the request is refused.
Arrive(t, r) ==
  /\ pc[t] = "idle"
  /\ of' = [of EXCEPT ![t] = r]
  /\ \/ /\ pc' = [pc EXCEPT ![t] = "audited"]
        /\ audit' = [audit EXCEPT ![t] = "running"]
        /\ UNCHANGED answer
     \/ /\ pc' = [pc EXCEPT ![t] = "done"]
        /\ answer' = [answer EXCEPT ![t] = "500"]
        /\ UNCHANGED audit
  /\ UNCHANGED environment

CheckSwitches(t) ==
  /\ pc[t] = "audited"
  /\ \/ enabled /\ Advance(t, "admitted")
     \/ enabled /\ Close(t, "error", "413")
     \/ ~enabled /\ Close(t, "killed", "503")
  /\ UNCHANGED environment

IsFresh(r) == 0 - Fresh <= age[r] /\ age[r] <= Fresh

Verifies(r) == IsFresh(r) /\ KeyOf[r] \in keys

\* verify; a MAC that cannot be computed throws and is a rejection too.
Verify(t) ==
  /\ pc[t] = "admitted"
  /\ \/ Verifies(of[t]) /\ Advance(t, "verified")
     \/ Close(t, "rejected", "401")
  /\ UNCHANGED environment

\* Mutant: the nonce is recorded, not checked.
MutNonceIsNew(r) == TRUE

\* The unique index decides.
NonceIsNew(r) == nonces[r] = Absent

\* A failed insert of any cause reads as a replay.
ConsumeNonce(t) ==
  /\ pc[t] = "verified"
  /\ \/ /\ NonceIsNew(of[t])
        /\ nonces' = [nonces EXCEPT ![of[t]] = 0]
        /\ Advance(t, "nonced")
     \/ Close(t, "rejected", "401") /\ UNCHANGED nonces
  /\ UNCHANGED <<claims, age, keys, enabled, runs>>

\* The key holds the transaction's own audit id: no other transaction claims it.
ClaimExecution(t) ==
  /\ pc[t] = "nonced"
  /\ \/ /\ claims' = [claims EXCEPT ![t] = 0]
        /\ Advance(t, "claimed")
     \/ Close(t, "rejected", "401") /\ UNCHANGED claims
  /\ UNCHANGED <<nonces, age, keys, enabled, runs>>

\* Mutant: execute trusts the wrapper's verify.
MutMayRun(t) == nonces[of[t]] # Absent /\ claims[t] # Absent

\* What execute checks again before it evaluates the script.
MayRun(t) == /\ Verifies(of[t])
             /\ audit[t] = "running"
             /\ nonces[of[t]] # Absent
             /\ claims[t] # Absent

Execute(t) ==
  /\ pc[t] = "claimed"
  /\ \/ /\ MayRun(t)
        /\ runs' = [runs EXCEPT ![of[t]] = @ \cup {t}]
        /\ Advance(t, "running")
     \/ Close(t, "rejected", "401") /\ UNCHANGED runs
  /\ UNCHANGED <<nonces, claims, age, keys, enabled>>

ScriptReturns(t) ==
  /\ pc[t] = "running"
  /\ \/ Close(t, "ok", "200")
     \/ Close(t, "truncated", "200")
  /\ UNCHANGED environment

\* Mutant: every error of execute is a rejection.
MutThrownStatus(what) == <<"rejected", "401">>

\* The error is the thrown value as text: "" reads as none, and the texts of execute's
\* own two refusals read as those.
ThrownStatus(what) ==
  CASE what = "error" -> <<"error", "500">>
    [] what = "empty" -> <<"ok", "200">>
    [] what = "reserved" -> <<"rejected", "401">>

ScriptThrows(t, what) ==
  /\ pc[t] = "running"
  /\ Close(t, ThrownStatus(what)[1], ThrownStatus(what)[2])
  /\ UNCHANGED environment

\* The transaction quota ends the transaction where it is; its rows stay.
Kill(t) ==
  /\ pc[t] \notin {"idle", "done", "killed"}
  /\ Advance(t, "killed")
  /\ UNCHANGED environment

-----------------------------------------------------------------------------
(***************************************************************************)
(* The instance around it.                                                 *)
(***************************************************************************)

\* Mutant: the job keeps rows for the freshness window only.
MutPurgeable(a) == a >= Fresh

Purgeable(a) == a >= Ttl

\* deleteMultiple, row by row.
PurgeNonce(r) ==
  /\ nonces[r] # Absent /\ Purgeable(nonces[r])
  /\ nonces' = [nonces EXCEPT ![r] = Absent]
  /\ UNCHANGED <<pc, of, audit, answer, claims, age, keys, enabled, runs>>

PurgeClaim(t) ==
  /\ claims[t] # Absent /\ Purgeable(claims[t])
  /\ claims' = [claims EXCEPT ![t] = Absent]
  /\ UNCHANGED <<pc, of, audit, answer, nonces, age, keys, enabled, runs>>

\* An administrator turns the executor on or off, or the installer changes the keys.
SetEnabled(on) ==
  /\ enabled' = on
  /\ UNCHANGED <<pc, of, audit, answer, nonces, claims, age, keys, runs>>

InstallKeys(ks) ==
  /\ ks \subseteq Keys
  /\ keys' = ks
  /\ UNCHANGED <<pc, of, audit, answer, nonces, claims, age, enabled, runs>>

Older(a, max) == IF a = Absent \/ a = max THEN a ELSE a + 1

Tick ==
  /\ age' = [r \in Requests |-> IF age[r] = Stale THEN Stale ELSE age[r] + 1]
  /\ nonces' = [r \in Requests |-> Older(nonces[r], Ttl)]
  /\ claims' = [t \in Txns |-> Older(claims[t], Ttl)]
  /\ UNCHANGED <<pc, of, audit, answer, keys, enabled, runs>>

Script(t) == ScriptReturns(t) \/ \E what \in Throws : ScriptThrows(t, what)

Step(t) == \/ CheckSwitches(t) \/ Verify(t) \/ ConsumeNonce(t) \/ ClaimExecution(t)
           \/ Execute(t) \/ Script(t)

Next == \/ \E t \in Txns : Step(t) \/ Kill(t) \/ PurgeClaim(t)
        \/ \E t \in Txns, r \in Requests : Arrive(t, r)
        \/ \E r \in Requests : PurgeNonce(r)
        \/ \E on \in BOOLEAN : SetEnabled(on)
        \/ \E ks \in SUBSET Keys : InstallKeys(ks)
        \/ Tick

Spec == Init /\ [][Next]_vars

\* A transaction goes on, or the quota ends it.
FairSpec == Spec /\ \A t \in Txns : WF_vars(Step(t) \/ Kill(t))

-----------------------------------------------------------------------------
(***************************************************************************)
(* Properties.                                                             *)
(***************************************************************************)

\* A signed request runs its script once at most, however often it arrives, however
\* long its transactions stall and whatever the purge job has deleted meanwhile.
RunsAtMostOnce == \A r \in Requests : \A t1, t2 \in runs[r] : t1 = t2

\* What the audit log says ran did run, under a nonce of its own.  The Worker frees the
\* idempotency key on 401, 413 and 503: the transaction that answered one of them ran
\* nothing, and its row says so.
RowsTellTheTruth ==
  \A t \in Txns :
    /\ audit[t] \in {"ok", "truncated"} =>
         /\ runs[of[t]] = {t}
         /\ \A u \in Txns \ {t} : of[u] = of[t] => audit[u] \notin {"ok", "truncated"}
    /\ answer[t] \in {"401", "413", "503"} => of[t] \in Requests /\ t \notin runs[of[t]]
    /\ audit[t] \in {"rejected", "killed"} => t \notin runs[of[t]]

\* No audit row stays open on any path but the quota's.
EveryRowCloses ==
  \A t \in Txns : audit[t] = "running" ~> audit[t] # "running" \/ pc[t] = "killed"
=============================================================================
