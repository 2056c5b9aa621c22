---------------------------- MODULE MutationGuard ----------------------------
(***************************************************************************)
(* Concurrent and retried guardMutation calls (sn/mutation-guard.ts) under *)
(* one idempotency key and ordinal, hence against one ledger object, with  *)
(* the audit store, the snapshot store and ServiceNow.  An attempt is one  *)
(* call; every await of the function is a step of its own, and an attempt  *)
(* may die at each of them.  A ledger call whose reply is lost may still   *)
(* reach the object later, or never; an effect request the host gave up on *)
(* may still be carried out.                                               *)
(*                                                                         *)
(* Audit rows and snapshots are keyed by the request id an attempt mints,  *)
(* so each attempt has its own.                                            *)
(***************************************************************************)
EXTENDS Naturals, EffectErrors

CONSTANTS Attempts,   \* calls of guardMutation under the key
          Hashes,     \* request hashes they may carry
          Retention,  \* ledger retention, in ticks
          Reversible  \* the table is snapshot-enabled (always FALSE for scripts)

ASSUME GuardAssumption == /\ Reversible \in BOOLEAN
                          /\ Reversible => Op = "tableUpdate"
                          /\ Retention \in Nat \ {0}

\* A result is named by the attempt that obtained it.
INSTANCE LedgerRecord WITH Results <- Attempts

NoAttempt == "no attempt"

ASSUME NamesAssumption == NoAttempt \notin Attempts /\ NoHash \notin Hashes

NoError   == Coded("no error")
NoAnswer  == [kind |-> "none", of |-> NoAttempt]
Failure   == [kind |-> "error", of |-> NoAttempt]
Executed(a) == [kind |-> "executed", of |-> a]
Replayed(b) == [kind |-> "replay", of |-> b]

VARIABLES rec,     \* the ledger object's record
          late,    \* ledger calls the caller gave up on, still in flight
          pc,      \* the step each attempt is at
          hash,    \* the request hash it carries
          err,     \* the error its effect threw
          wire,    \* what became of its effect request at ServiceNow
          reply,   \* ServiceNow's reply on its way back
          snap,    \* whether its recovery snapshot is stored
          audit,   \* the row stored under its audit key
          answer,  \* what it returned to the run
          owner,   \* history: the attempt whose begin was last granted
          lapsed   \* history: attempts whose stored result has expired

ledgerVars  == <<rec, owner, lapsed>>
attemptVars == <<pc, hash, err, snap, audit, answer>>
snVars      == <<wire, reply>>
vars        == <<ledgerVars, late, attemptVars, snVars>>

Steps == {"idle", "claim", "preflight", "snapshot", "intent", "effect",
          "await", "settle", "complete", "auditError", "auditOk", "unclaim", "deny",
          "done", "dead"}
Calls == {"begin", "complete", "fail", "markIndeterminate"}
Rows  == {"none", "intent", "ok", "error", "unknown", "denied"}

TypeOK ==
  /\ rec \in RecordType /\ (rec.status = "completed" => rec.result.of \in Attempts)
  /\ late \subseteq [from : Attempts, call : Calls]
  /\ pc \in [Attempts -> Steps]
  /\ hash \in [Attempts -> Hashes \cup {NoHash}]
  /\ err \in [Attempts -> Errors \cup {NoError}]
  /\ wire \in [Attempts -> {"unsent", "inflight", "applied", "refused"}]
  /\ reply \in [Attempts -> Replies \cup {"none"}]
  /\ snap \in [Attempts -> BOOLEAN]
  /\ audit \in [Attempts -> Rows]
  /\ answer \in [Attempts -> [kind : {"none", "error", "executed", "replay"},
                              of : Attempts \cup {NoAttempt}]]
  /\ owner \in Attempts \cup {NoAttempt}
  /\ lapsed \subseteq Attempts

Init ==
  /\ rec = NoRecord
  /\ late = {}
  /\ pc = [a \in Attempts |-> "idle"]
  /\ hash = [a \in Attempts |-> NoHash]
  /\ err = [a \in Attempts |-> NoError]
  /\ wire = [a \in Attempts |-> "unsent"]
  /\ reply = [a \in Attempts |-> "none"]
  /\ snap = [a \in Attempts |-> FALSE]
  /\ audit = [a \in Attempts |-> "none"]
  /\ answer = [a \in Attempts |-> NoAnswer]
  /\ owner = NoAttempt
  /\ lapsed = {}

-----------------------------------------------------------------------------
(***************************************************************************)
(* Helpers.                                                                *)
(***************************************************************************)
Goto(a, step) == pc' = [pc EXCEPT ![a] = step]

Return(a, value) == /\ Goto(a, "done")
                    /\ answer' = [answer EXCEPT ![a] = value]

\* The ledger object's record becomes r; an expired result is forgotten.
LedgerStores(r) ==
  /\ rec' = r
  /\ lapsed' = IF IsExpired(rec) /\ rec.status = "completed"
               THEN lapsed \cup {rec.result.of} ELSE lapsed

\* What the ledger object does when call c of attempt a reaches it.
LedgerExecutes(a, c) ==
  \/ /\ c = "begin"
     /\ LedgerStores(AfterBegin(rec, hash[a]))
     /\ owner' = IF BeginReply(rec, hash[a]) = "new" THEN a ELSE owner
  \/ /\ c = "complete"
     /\ LedgerStores(AfterComplete(rec, [wrapped |-> TRUE, of |-> a]))
     /\ UNCHANGED owner
  \/ /\ c = "fail"
     /\ LedgerStores(AfterFail(rec))
     /\ UNCHANGED owner
  \/ /\ c = "markIndeterminate"
     /\ LedgerStores(AfterMarkIndeterminate(rec))
     /\ UNCHANGED owner

\* The call answers: it has been carried out.
CallLedger(a, c) == LedgerExecutes(a, c) /\ UNCHANGED late

\* The call throws at the caller: it stays in flight.
CallThrows(a, c) == /\ late' = late \cup {[from |-> a, call |-> c]}
                    /\ UNCHANGED ledgerVars

\* A best-effort write of an audit row: stored, or dropped and ignored.
AuditBestEffort(a, row) == audit' = [audit EXCEPT ![a] = row] \/ audit' = audit

-----------------------------------------------------------------------------
(***************************************************************************)
(* The steps of an attempt.                                                *)
(***************************************************************************)

\* The call reaches the guard with hash h and every prerequisite in place.
Enter(a, h) ==
  /\ pc[a] = "idle"
  /\ hash' = [hash EXCEPT ![a] = h]
  /\ Goto(a, "claim")
  /\ UNCHANGED <<ledgerVars, late, err, snap, audit, answer, snVars>>

\* No audit sink, or no ledger: internal_error, nothing written.
RefuseMisconfigured(a) ==
  /\ pc[a] = "idle"
  /\ Return(a, Failure)
  /\ UNCHANGED <<ledgerVars, late, hash, err, snap, audit, snVars>>

\* Mutations are frozen, or the run carries no idempotency key.
RefuseFrozenOrKeyless(a) ==
  /\ pc[a] = "idle"
  /\ Goto(a, "deny")
  /\ UNCHANGED <<ledgerVars, late, hash, err, snap, audit, answer, snVars>>

ClaimGranted(a) ==
  /\ pc[a] = "claim"
  /\ BeginReply(rec, hash[a]) = "new"
  /\ CallLedger(a, "begin")
  /\ Goto(a, "preflight")
  /\ UNCHANGED <<hash, err, snap, audit, answer, snVars>>

\* The stored result is returned, unless a script's approval is no longer valid.
ClaimReplays(a) ==
  /\ pc[a] = "claim"
  /\ BeginReply(rec, hash[a]) = "replay"
  /\ CallLedger(a, "begin")
  /\ \/ Return(a, Replayed(Live(rec).result.of))
     \/ Op = "runServerScript" /\ Goto(a, "deny") /\ UNCHANGED answer
  /\ UNCHANGED <<hash, err, snap, audit, snVars>>

ClaimBlocked(a) ==
  /\ pc[a] = "claim"
  /\ BeginReply(rec, hash[a]) = "blocked"
  /\ CallLedger(a, "begin")
  /\ Goto(a, "deny")
  /\ UNCHANGED <<hash, err, snap, audit, answer, snVars>>

\* begin itself throws: the error leaves the guard without an audit row.
ClaimThrows(a) ==
  /\ pc[a] = "claim"
  /\ CallThrows(a, "begin")
  /\ Return(a, Failure)
  /\ UNCHANGED <<hash, err, snap, audit, snVars>>

\* Row scope or approval, principal, request budget.
Preflight(a) ==
  /\ pc[a] = "preflight"
  /\ \/ Goto(a, IF Reversible THEN "snapshot" ELSE "intent")
     \/ Goto(a, "unclaim")
  /\ UNCHANGED <<ledgerVars, late, hash, err, snap, audit, answer, snVars>>

\* Mutant: a snapshot that cannot be stored does not stop the mutation.
MutTakeSnapshot(a) ==
  /\ pc[a] = "snapshot"
  /\ \E stored \in BOOLEAN : snap' = [snap EXCEPT ![a] = stored]
  /\ Goto(a, "intent")
  /\ UNCHANGED <<ledgerVars, late, hash, err, audit, answer, snVars>>

\* Reading the before-state and storing it; a write that throws may have landed.
TakeSnapshot(a) ==
  /\ pc[a] = "snapshot"
  /\ \/ snap' = [snap EXCEPT ![a] = TRUE] /\ Goto(a, "intent")
     \/ /\ \E stored \in BOOLEAN : snap' = [snap EXCEPT ![a] = stored]
        /\ Goto(a, "unclaim")
  /\ UNCHANGED <<ledgerVars, late, hash, err, audit, answer, snVars>>

\* Mutant: the intent row is best effort, like the outcome rows.
MutWriteIntent(a) ==
  /\ pc[a] = "intent"
  /\ AuditBestEffort(a, "intent")
  /\ Goto(a, "effect")
  /\ UNCHANGED <<ledgerVars, late, hash, err, snap, answer, snVars>>

\* Audit before effect: without the row there is no effect.
WriteIntent(a) ==
  /\ pc[a] = "intent"
  /\ \/ audit' = [audit EXCEPT ![a] = "intent"] /\ Goto(a, "effect")
     \/ AuditBestEffort(a, "intent") /\ Goto(a, "unclaim")
  /\ UNCHANGED <<ledgerVars, late, hash, err, snap, answer, snVars>>

\* The effect closure throws before the request leaves: the outbound meter
\* trips, or the bearer cannot be had (no usable token, or a failed token
\* request, which is a raw error).
FailBeforeSend(a) ==
  /\ pc[a] = "effect"
  /\ \E e \in {OutboundSpent, Coded("reauth_required"), RawError} :
        err' = [err EXCEPT ![a] = e]
  /\ Goto(a, "settle")
  /\ UNCHANGED <<ledgerVars, late, hash, snap, audit, answer, snVars>>

Send(a) ==
  /\ pc[a] = "effect"
  /\ wire' = [wire EXCEPT ![a] = "inflight"]
  /\ Goto(a, "await")
  /\ UNCHANGED <<ledgerVars, late, hash, err, snap, audit, answer, reply>>

\* ServiceNow deals with the request, at any time after it was sent; a reply
\* nobody waits for is dropped.
ServiceNow(a) ==
  /\ wire[a] = "inflight"
  /\ \/ /\ wire' = [wire EXCEPT ![a] = "applied"]
        /\ \E r \in AppliedReplies :
              reply' = [reply EXCEPT ![a] = IF pc[a] = "await" THEN r ELSE "none"]
     \/ /\ wire' = [wire EXCEPT ![a] = "refused"]
        /\ \E r \in RefusedReplies :
              reply' = [reply EXCEPT ![a] = IF pc[a] = "await" THEN r ELSE "none"]
  /\ UNCHANGED <<ledgerVars, late, attemptVars>>

ReceiveSuccess(a) ==
  /\ pc[a] = "await"
  /\ reply[a] \in Successes
  /\ reply' = [reply EXCEPT ![a] = "none"]
  /\ Goto(a, "complete")
  /\ UNCHANGED <<ledgerVars, late, hash, err, snap, audit, answer, wire>>

ReceiveError(a) ==
  /\ pc[a] = "await"
  /\ reply[a] \notin Successes \cup {"none"}
  /\ reply' = [reply EXCEPT ![a] = "none"]
  /\ err' = [err EXCEPT ![a] = ErrorOf(reply[a])]
  /\ Goto(a, "settle")
  /\ UNCHANGED <<ledgerVars, late, hash, snap, audit, answer, wire>>

\* Mutant: no 30 s abort, so an unanswered request is waited for.
MutTransportFails(a) ==
  /\ pc[a] = "await"
  /\ wire[a] # "inflight"
  /\ reply' = [reply EXCEPT ![a] = "none"]
  /\ err' = [err EXCEPT ![a] = RawError]
  /\ Goto(a, "settle")
  /\ UNCHANGED <<ledgerVars, late, hash, snap, audit, answer, wire>>

\* The 30 s abort or a broken connection, before or after ServiceNow acted.
TransportFails(a) ==
  /\ pc[a] = "await"
  /\ reply' = [reply EXCEPT ![a] = "none"]
  /\ err' = [err EXCEPT ![a] = RawError]
  /\ Goto(a, "settle")
  /\ UNCHANGED <<ledgerVars, late, hash, snap, audit, answer, wire>>

\* The effect threw: unknown outcomes block the key, definite ones free it. A
\* throwing ledger call is swallowed.
Settle(a) ==
  /\ pc[a] = "settle"
  /\ LET call == IF PostSendUnknown(err[a]) THEN "markIndeterminate" ELSE "fail"
     IN  CallLedger(a, call) \/ CallThrows(a, call)
  /\ Goto(a, "auditError")
  /\ UNCHANGED <<hash, err, snap, audit, answer, snVars>>

\* Mutant: the outcome row does not say that the outcome is unknown.
MutAuditError(a) ==
  /\ pc[a] = "auditError"
  /\ AuditBestEffort(a, "error")
  /\ err' = [err EXCEPT ![a] = NoError]
  /\ Return(a, Failure)
  /\ UNCHANGED <<ledgerVars, late, hash, snap, snVars>>

AuditError(a) ==
  /\ pc[a] = "auditError"
  /\ AuditBestEffort(a, IF PostSendUnknown(err[a]) THEN "unknown" ELSE "error")
  /\ err' = [err EXCEPT ![a] = NoError]
  /\ Return(a, Failure)
  /\ UNCHANGED <<ledgerVars, late, hash, snap, snVars>>

\* The effect is known to have applied; a throwing ledger call is swallowed.
Complete(a) ==
  /\ pc[a] = "complete"
  /\ CallLedger(a, "complete") \/ CallThrows(a, "complete")
  /\ Goto(a, "auditOk")
  /\ UNCHANGED <<hash, err, snap, audit, answer, snVars>>

AuditOk(a) ==
  /\ pc[a] = "auditOk"
  /\ AuditBestEffort(a, "ok")
  /\ Return(a, Executed(a))
  /\ UNCHANGED <<ledgerVars, late, hash, err, snap, snVars>>

\* denyAndThrow, first half: a throwing fail() replaces the denial.
Unclaim(a) ==
  /\ pc[a] = "unclaim"
  /\ \/ CallLedger(a, "fail") /\ Goto(a, "deny") /\ UNCHANGED answer
     \/ CallThrows(a, "fail") /\ Return(a, Failure)
  /\ UNCHANGED <<hash, err, snap, audit, snVars>>

\* emitDenial, then the denial propagates.
Deny(a) ==
  /\ pc[a] = "deny"
  /\ AuditBestEffort(a, "denied")
  /\ Return(a, Failure)
  /\ UNCHANGED <<ledgerVars, late, hash, err, snap, snVars>>

Running == Steps \ {"idle", "done", "dead"}

\* The isolate is evicted or the run abandoned.
Die(a) ==
  /\ pc[a] \in Running
  /\ Goto(a, "dead")
  /\ err' = [err EXCEPT ![a] = NoError]
  /\ reply' = [reply EXCEPT ![a] = "none"]
  /\ UNCHANGED <<ledgerVars, late, hash, snap, audit, answer, wire>>

-----------------------------------------------------------------------------
(***************************************************************************)
(* The environment of the attempts.                                        *)
(***************************************************************************)
LateCallArrives(m) ==
  /\ m \in late
  /\ LedgerExecutes(m.from, m.call)
  /\ late' = late \ {m}
  /\ UNCHANGED <<attemptVars, snVars>>

LateCallIsLost(m) ==
  /\ m \in late
  /\ late' = late \ {m}
  /\ UNCHANGED <<ledgerVars, attemptVars, snVars>>

\* The alarm of an expired record (MutationLedger shows that it is armed).
LedgerAlarm ==
  /\ rec.ttl = 0
  /\ LedgerStores(Live(rec))
  /\ UNCHANGED <<owner, late, attemptVars, snVars>>

Tick ==
  /\ rec' = Aged(rec)
  /\ UNCHANGED <<owner, lapsed, late, attemptVars, snVars>>

\* A step of the attempt's own code.
Step(a) ==
  \/ ClaimGranted(a) \/ ClaimReplays(a) \/ ClaimBlocked(a) \/ ClaimThrows(a)
  \/ Preflight(a) \/ TakeSnapshot(a) \/ WriteIntent(a)
  \/ FailBeforeSend(a) \/ Send(a)
  \/ ReceiveSuccess(a) \/ ReceiveError(a) \/ TransportFails(a)
  \/ Settle(a) \/ AuditError(a) \/ Complete(a) \/ AuditOk(a)
  \/ Unclaim(a) \/ Deny(a)

Arrive(a) == \/ \E h \in Hashes : Enter(a, h)
             \/ RefuseMisconfigured(a)
             \/ RefuseFrozenOrKeyless(a)

Next == \/ \E a \in Attempts : Arrive(a) \/ Step(a) \/ ServiceNow(a) \/ Die(a)
        \/ \E m \in late : LateCallArrives(m) \/ LateCallIsLost(m)
        \/ LedgerAlarm
        \/ Tick

Spec == Init /\ [][Next]_vars

\* A running attempt keeps running until it ends or dies: every await of the
\* guard resolves or throws (the fetch has a 30 s abort).  Time passes and due
\* alarms fire.  Callers, ServiceNow and late calls owe nothing.
Fairness == /\ \A a \in Attempts : WF_vars(Step(a))
            /\ WF_vars(LedgerAlarm)
            /\ WF_vars(Tick)

FairSpec == Spec /\ Fairness

-----------------------------------------------------------------------------
(***************************************************************************)
(* Properties.                                                             *)
(***************************************************************************)

Applied == {a \in Attempts : wire[a] = "applied"}

\* Exactly once (S17): within one retention period at most one attempt's
\* effect is carried out at ServiceNow, whatever was retried, lost or late.
AtMostOnce == \A a, b \in Applied \ lapsed : a = b

\* Once an outcome is on record as unknown it stays on record, and no attempt
\* sends anything again, whatever is retried and however late.
NoSendAfterUnknown ==
  [][rec.status = "indeterminate" =>
       /\ rec'.status = "indeterminate"
       /\ \A a \in Attempts : wire[a] = "unsent" => wire'[a] = "unsent"]_vars

\* Whoever is told of a success is told of an effect that was carried out, for
\* the request it made, and carries the result of that very effect.  The audit
\* row knows no false success and no false failure: "ok" means carried out,
\* "error" (not indeterminate) that it was not and never will be.
AnswersAndRowsAreTrue ==
  \A a \in Attempts :
    /\ answer[a].kind \in {"executed", "replay"} =>
         /\ answer[a].of \in Applied
         /\ hash[answer[a].of] = hash[a]
    /\ audit[a] = "ok" => wire[a] = "applied"
    /\ audit[a] = "error" => wire[a] \in {"unsent", "refused"}

\* Audit and snapshot before effect: a request that left the host has a row in
\* the store, which never reads as a denial, and on a snapshot-enabled table
\* the row to restore from is stored.
TracedBeforeEffect ==
  \A a \in Attempts : wire[a] # "unsent" =>
    /\ audit[a] \notin {"none", "denied"}
    /\ Reversible => snap[a]

\* A key is freed for a retry (status failed) only if the effect of the attempt
\* that claimed it was not carried out and never will be: a definitive
\* rejection means the effect did not apply (comment on isPostSendUnknown).
RejectionMeansNotApplied ==
  \A a \in Attempts :
    rec.status = "failed" /\ owner = a => wire[a] \in {"unsent", "refused"}

\* A call that reached the guard returns or dies; none waits for ever.
EveryAttemptEnds ==
  \A a \in Attempts : pc[a] \in Running ~> pc[a] \in {"done", "dead"}

-----------------------------------------------------------------------------
(***************************************************************************)
(* What the documentation says and the code does not do (see README).      *)
(***************************************************************************)

\* "pre-send throw => fail(); post-send unknown => markIndeterminate()": a key
\* is blocked as unknown only if its request left the host.
PreSendFailureIsClean ==
  \A a \in Attempts : rec.status = "indeterminate" /\ owner = a => wire[a] # "unsent"

\* "BLOCKED (conflict) until its retention expires": a key whose result could
\* not be recorded becomes usable again in the end.
BlockEndsWithRetention ==
  \A a \in Attempts :
    answer[a] = Executed(a) /\ rec.status = "started" /\ owner = a
      ~> rec.status # "started"

\* "callers detect the splash separately": the page of a hibernating instance
\* is not reported as a success.
SplashIsDetected ==
  \A a \in Attempts : answer[a].kind = "executed" => wire[a] = "applied"

-----------------------------------------------------------------------------
\* The guard implements the one-effect register of EffectOnce: the effect this
\* retention period holds is the one carried out whose result has not lapsed.
Current == IF Applied \ lapsed = {} THEN NoAttempt
           ELSE CHOOSE a \in Attempts : a \in Applied \ lapsed

Told == [a \in Attempts |-> answer[a].of]

Abstract == INSTANCE EffectOnce WITH
  request <- hash, current <- Current, past <- lapsed, answer <- Told

ImplementsEffectOnce == Abstract!Spec
=============================================================================
