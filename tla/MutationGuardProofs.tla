------------------------ MODULE MutationGuardProofs ------------------------
(***************************************************************************)
(* Theorems about any number of guardMutation calls under one key, for     *)
(* every set of request hashes and every retention: the state stays well   *)
(* typed, tableUpdate is applied at most once in a retention period, what  *)
(* attempts return and what their audit rows say is true, nothing is sent  *)
(* once an outcome is on record as unknown, and the guard with its ledger  *)
(* implements EffectOnce.                                                  *)
(***************************************************************************)
EXTENDS MutationGuard, TLAPS

USE GuardAssumption

(***************************************************************************)
(* The inductive invariant.  AtMostOnce alone is not inductive: it says    *)
(* nothing of a request in flight, of a settling call that arrives late,   *)
(* nor of who may still send.                                              *)
(***************************************************************************)

\* From the grant of its claim to its settling call an attempt owns the record.
Holding == {"preflight", "snapshot", "intent", "effect", "await", "settle", "complete", "unclaim"}

Granted(a) == owner = a /\ rec.status = "started"

ClaimsHeld == \A a \in Attempts : pc[a] \in Holding => Granted(a)

\* A settling call that is still in flight is the owner's, the only one, and it
\* frees the key only if nothing was carried out.
Settling == {m \in late : m.call # "begin"}

LateCallsOwned ==
  /\ \A m \in Settling : /\ Granted(m.from)
                         /\ pc[m.from] \notin Holding
                         /\ m.call = "fail" => wire[m.from] \in {"unsent", "refused"}
  /\ \A m, n \in Settling : m = n

BeforeSend == {"idle", "claim", "preflight", "snapshot", "intent", "effect", "unclaim"}

NothingSentYet == \A a \in Attempts : pc[a] \in BeforeSend => wire[a] = "unsent"

RepliesFit ==
  \A a \in Attempts : reply[a] # "none" =>
    /\ wire[a] \in {"applied", "refused"}
    /\ wire[a] = "applied" => reply[a] \in AppliedReplies

DefiniteErrorsFit ==
  \A a \in Attempts : pc[a] = "settle" /\ ~PostSendUnknown(err[a])
                        => wire[a] \in {"unsent", "refused"}

\* The heart of it: whatever may have been carried out is on record.
SentIsOnRecord ==
  \A a \in Attempts : wire[a] \in {"inflight", "applied"} =>
    \/ a \in lapsed
    \/ owner = a /\ rec.status \in {"started", "completed", "indeterminate"}

ResultIsOwners == rec.status = "completed" => rec.result.of = owner

Protocol ==
  /\ ClaimsHeld
  /\ LateCallsOwned
  /\ NothingSentYet
  /\ RepliesFit
  /\ DefiniteErrorsFit
  /\ SentIsOnRecord
  /\ ResultIsOwners

Inductive == TypeOK /\ Protocol

-----------------------------------------------------------------------------
(***************************************************************************)
(* What the ledger object does, for records whose results are attempts.    *)
(***************************************************************************)

\* The empty record is well typed.
LEMMA NoRecordType == NoRecord \in RecordType /\ NoResult \in ResultType
  <1>1. NoTtl \in 0..NoTtl /\ NoResult \in ResultType
    BY DEF NoTtl, NoResult, ResultType
  <1> QED
    BY <1>1 DEF NoRecord, RecordType

\* A read returns a record of the right type.
LEMMA LiveType == ASSUME NEW r \in RecordType PROVE Live(r) \in RecordType
  <1>1. Migrated(r) \in RecordType
    <2>1. (IF IsRenewed(r) THEN Retention ELSE r.ttl) \in 0..NoTtl
      BY DEF RecordType, NoTtl
    <2>2. (IF r.status = "completed" THEN ReplaySafe(r.result) ELSE NoResult) \in ResultType
      BY NoRecordType DEF RecordType, ResultType, ReplaySafe
    <2> QED
      BY <2>1, <2>2 DEF Migrated, RecordType
  <1> QED
    BY <1>1, NoRecordType DEF Live

\* Every method stores a record of the right type.
LEMMA MethodTypes ==
  ASSUME NEW r \in RecordType
  PROVE  /\ \A h \in Hashes \cup {NoHash} : AfterBegin(r, h) \in RecordType
         /\ \A v \in ResultType : AfterComplete(r, v) \in RecordType
         /\ AfterFail(r) \in RecordType
         /\ AfterMarkIndeterminate(r) \in RecordType
         /\ Aged(r) \in RecordType
  <1>1. Live(r) \in RecordType
    BY LiveType
  <1>2. \A h \in Hashes \cup {NoHash}, s \in Status, v \in ResultType : Stamped(s, h, v) \in RecordType
    BY DEF Stamped, RecordType, NoTtl
  <1>3. NoResult \in ResultType /\ \A v \in ResultType : ReplaySafe(v) \in ResultType
    BY NoRecordType DEF ResultType, ReplaySafe
  <1>4. \A h \in Hashes \cup {NoHash} : AfterBegin(r, h) \in RecordType
    BY <1>1, <1>2, <1>3 DEF AfterBegin, Status, Unresolved
  <1>5. Live(r).hash \in Hashes \cup {NoHash}
    BY <1>1 DEF RecordType
  <1>6. \A s \in Status, v \in ResultType : Settled(r, s, v) \in RecordType
    BY <1>1, <1>2, <1>5 DEF Settled
  <1>7. Aged(r) \in RecordType
    BY DEF Aged, RecordType, NoTtl
  <1> QED
    BY <1>3, <1>4, <1>6, <1>7 DEF AfterComplete, AfterFail, AfterMarkIndeterminate, Status, Unresolved

\* A read keeps a record's status, and a completed record's result, or finds
\* the record gone; only completed and failed records go by expiry.
LEMMA LiveCases ==
  ASSUME NEW r \in RecordType
  PROVE  \/ /\ ~IsExpired(r)
            /\ Live(r).status = r.status
            /\ r.status = "completed" => Live(r).result.of = r.result.of
         \/ Live(r).status = "none" /\ r.status \in {"none", "malformed"} /\ ~IsExpired(r)
         \/ Live(r).status = "none" /\ r.status \in {"completed", "failed"} /\ IsExpired(r)
  <1>0. ASSUME IsMissing(r) \/ IsExpired(r) PROVE Live(r).status = "none"
    <2>1. ~IsRenewed(r) /\ ~IsRewrapped(r)
      BY <1>0 DEF IsMissing, IsExpired, IsRenewed, IsRewrapped, Status, Unresolved, NoTtl
    <2>2. Live(r) = NoRecord
      BY <1>0, <2>1 DEF Live
    <2> QED
      BY <2>2 DEF NoRecord
  <1>1. CASE IsMissing(r)
    <2>1. r.status \in {"none", "malformed"} /\ ~IsExpired(r)
      BY <1>1 DEF IsMissing, IsExpired, RecordType
    <2> QED
      BY <1>0, <1>1, <2>1
  <1>2. CASE IsExpired(r)
    <2>1. r.status \in {"completed", "failed"}
      BY <1>2 DEF IsExpired, Status, Unresolved
    <2> QED
      BY <1>0, <1>2, <2>1
  <1>3. CASE ~IsMissing(r) /\ ~IsExpired(r)
    <2>1. Live(r) = r \/ Live(r) = Migrated(r)
      BY <1>3 DEF Live
    <2>2. Migrated(r).status = r.status
      BY DEF Migrated, RecordType
    <2>3. r.status = "completed" => Migrated(r).result = ReplaySafe(r.result)
      BY DEF Migrated, RecordType
    <2>4. ReplaySafe(r.result).of = r.result.of
      BY DEF ReplaySafe, RecordType, ResultType
    <2> QED
      BY <1>3, <2>1, <2>2, <2>3, <2>4
  <1> QED
    BY <1>1, <1>2, <1>3

-----------------------------------------------------------------------------
(***************************************************************************)
(* What a ledger call of attempt a does to the state.                      *)
(***************************************************************************)

\* begin either grants the claim, of a record that was not unresolved and whose
\* result, if it had one, has lapsed, or leaves the claim as it was.
LEMMA BeginEffect ==
  ASSUME TypeOK, NEW a \in Attempts, LedgerExecutes(a, "begin")
  PROVE  \/ /\ BeginReply(rec, hash[a]) = "new"
            /\ owner' = a /\ rec'.status = "started"
            /\ rec.status \notin {"started", "indeterminate"}
            /\ lapsed' = IF rec.status = "completed" THEN lapsed \cup {rec.result.of} ELSE lapsed
         \/ /\ BeginReply(rec, hash[a]) # "new"
            /\ UNCHANGED <<owner, lapsed>>
            /\ rec'.status = rec.status
            /\ rec.status = "completed" => rec'.result.of = rec.result.of
  <1> DEFINE live == Live(rec)
  <1>1. rec \in RecordType
    BY DEF TypeOK
  <1>2. rec' = AfterBegin(rec, hash[a])
    BY DEF LedgerExecutes, LedgerStores
  <1>3. owner' = IF BeginReply(rec, hash[a]) = "new" THEN a ELSE owner
    BY DEF LedgerExecutes
  <1>4. lapsed' = IF IsExpired(rec) /\ rec.status = "completed"
                  THEN lapsed \cup {rec.result.of} ELSE lapsed
    BY DEF LedgerExecutes, LedgerStores
  <1>5. CASE BeginReply(rec, hash[a]) = "new"
    <2>1. live.status \in {"none", "failed"}
      BY <1>5 DEF BeginReply
    <2>2. /\ rec.status \notin {"started", "indeterminate"}
          /\ rec.status = "completed" => IsExpired(rec)
      BY <1>1, <2>1, LiveCases
    <2>3. rec'.status = "started"
      BY <1>2, <1>5 DEF AfterBegin, Stamped
    <2> QED
      BY <1>3, <1>4, <1>5, <2>2, <2>3
  <1>6. CASE BeginReply(rec, hash[a]) # "new"
    <2>1. live.status # "none"
      BY <1>6 DEF BeginReply
    <2>2. /\ ~IsExpired(rec) /\ live.status = rec.status
          /\ rec.status = "completed" => live.result.of = rec.result.of
      BY <1>1, <2>1, LiveCases
    <2>3. rec' = live
      BY <1>2, <1>6 DEF AfterBegin
    <2> QED
      BY <1>3, <1>4, <1>6, <2>2, <2>3
  <1> QED
    BY <1>5, <1>6

\* A settling call on a started record gives it the status it asks for.
LEMMA SettleEffect ==
  ASSUME TypeOK, rec.status = "started", NEW a \in Attempts,
         NEW c \in {"complete", "fail", "markIndeterminate"}, LedgerExecutes(a, c)
  PROVE  /\ UNCHANGED <<owner, lapsed>>
         /\ c = "complete" => rec'.status = "completed" /\ rec'.result.of = a
         /\ c = "fail" => rec'.status = "failed"
         /\ c = "markIndeterminate" => rec'.status = "indeterminate"
  <1>1. rec \in RecordType /\ Live(rec).status = "started"
    BY LiveCases DEF TypeOK
  <1>2. UNCHANGED <<owner, lapsed>>
    BY DEF LedgerExecutes, LedgerStores
  <1>3. ASSUME NEW s, NEW v PROVE Settled(rec, s, v).status = s /\ Settled(rec, s, v).result = v
    BY <1>1 DEF Settled, Stamped
  <1>4. CASE c = "complete"
    <2>1. rec' = AfterComplete(rec, [wrapped |-> TRUE, of |-> a])
      BY <1>4 DEF LedgerExecutes, LedgerStores
    <2>2. ReplaySafe([wrapped |-> TRUE, of |-> a]).of = a
      BY DEF ReplaySafe
    <2> QED
      BY <1>2, <1>3, <1>4, <2>1, <2>2 DEF AfterComplete
  <1>5. CASE c = "fail"
    BY <1>2, <1>3, <1>5 DEF LedgerExecutes, LedgerStores, AfterFail
  <1>6. CASE c = "markIndeterminate"
    BY <1>2, <1>3, <1>6 DEF LedgerExecutes, LedgerStores, AfterMarkIndeterminate
  <1> QED
    BY <1>4, <1>5, <1>6

\* Every ledger call keeps the ledger's variables well typed.
LEMMA LedgerTypes ==
  ASSUME TypeOK, NEW a \in Attempts, NEW c \in Calls, LedgerExecutes(a, c)
  PROVE  /\ rec' \in RecordType
         /\ rec'.status = "completed" => rec'.result.of \in Attempts
         /\ owner' \in Attempts \cup {NoAttempt}
         /\ lapsed' \subseteq Attempts
  <1>1. /\ rec \in RecordType
        /\ hash[a] \in Hashes \cup {NoHash}
        /\ [wrapped |-> TRUE, of |-> a] \in ResultType
    BY DEF TypeOK, ResultType
  <1>2. rec' \in RecordType
    BY <1>1, MethodTypes DEF LedgerExecutes, LedgerStores
  <1>3. owner' \in Attempts \cup {NoAttempt}
    BY DEF LedgerExecutes, TypeOK
  <1>4. lapsed' \subseteq Attempts
    BY DEF LedgerExecutes, LedgerStores, TypeOK
  <1>5. ASSUME rec'.status = "completed" PROVE rec'.result.of \in Attempts
    <2>1. CASE c = "begin"
      <3>1. LedgerExecutes(a, "begin")
        BY <2>1
      <3> QED
        BY <1>5, <3>1, BeginEffect DEF TypeOK
    <2>2. CASE c # "begin" /\ rec.status = "started"
      <3>1. c \in {"complete", "fail", "markIndeterminate"}
        BY <2>2 DEF Calls
      <3> QED
        BY <1>5, <2>2, <3>1, SettleEffect
    <2>3. CASE c # "begin" /\ rec.status # "started"
      <3>1. Live(rec).status # "started"
        BY <1>1, <2>3, LiveCases
      <3>2. rec' = Live(rec)
        BY <2>3, <3>1 DEF LedgerExecutes, LedgerStores, AfterComplete, AfterFail,
           AfterMarkIndeterminate, Settled
      <3> QED
        BY <1>1, <1>5, <3>2, LiveCases DEF TypeOK
    <2> QED
      BY <2>1, <2>2, <2>3
  <1> QED
    BY <1>2, <1>3, <1>4, <1>5

-----------------------------------------------------------------------------
(***************************************************************************)
(* Type correctness.                                                       *)
(***************************************************************************)

\* The values attempts return are well typed.
LEMMA AnswerTypes ==
  /\ Failure \in [kind : {"none", "error", "executed", "replay"}, of : Attempts \cup {NoAttempt}]
  /\ \A a \in Attempts :
       /\ Executed(a) \in [kind : {"none", "error", "executed", "replay"}, of : Attempts \cup {NoAttempt}]
       /\ Replayed(a) \in [kind : {"none", "error", "executed", "replay"}, of : Attempts \cup {NoAttempt}]
  BY DEF Failure, Executed, Replayed

\* Every error an effect throws is well typed.
LEMMA ErrorTypes ==
  /\ OutboundSpent \in Errors /\ Coded("reauth_required") \in Errors /\ RawError \in Errors
  /\ \A r \in Replies : ErrorOf(r) \in Errors
  BY DEF OutboundSpent, Coded, RawError, ErrorOf, Errors, Codes, Dimensions, Replies

\* A step of an attempt keeps the state well typed.
LEMMA StepTypes == ASSUME TypeOK, NEW a \in Attempts, Step(a) PROVE TypeOK'
  <1> USE DEF TypeOK
  <1>1. ASSUME NEW c \in Calls, CallLedger(a, c) \/ CallThrows(a, c)
        PROVE  /\ rec' \in RecordType /\ (rec'.status = "completed" => rec'.result.of \in Attempts)
               /\ owner' \in Attempts \cup {NoAttempt}
               /\ lapsed' \subseteq Attempts
               /\ late' \subseteq [from : Attempts, call : Calls]
    <2>1. CASE CallLedger(a, c)
      BY <2>1, LedgerTypes DEF CallLedger
    <2>2. CASE CallThrows(a, c)
      BY <2>2 DEF CallThrows, ledgerVars
    <2> QED
      BY <1>1, <2>1, <2>2
  <1>2. CASE ClaimGranted(a)
    BY <1>2, <1>1 DEF ClaimGranted, Goto, Steps, ledgerVars, attemptVars, snVars, Calls
  <1>3. CASE ClaimReplays(a)
    <2>1. Live(rec).status = "completed"
      BY <1>3 DEF ClaimReplays, BeginReply
    <2>2. Live(rec).result.of \in Attempts
      BY <2>1, LiveCases
    <2>3. Replayed(Live(rec).result.of) \in [kind : {"none", "error", "executed", "replay"},
                                            of : Attempts \cup {NoAttempt}]
      BY <2>2, AnswerTypes
    <2> QED
      BY <1>3, <1>1, <2>3 DEF ClaimReplays, Goto, Return, Steps, Calls, attemptVars, snVars
  <1>4. CASE ClaimBlocked(a)
    BY <1>4, <1>1 DEF ClaimBlocked, Goto, Steps, ledgerVars, attemptVars, snVars, Calls
  <1>5. CASE ClaimThrows(a)
    BY <1>5, <1>1, AnswerTypes DEF ClaimThrows, Goto, Steps, ledgerVars, attemptVars, snVars, Return, Calls
  <1>6. CASE Preflight(a)
    BY <1>6 DEF Preflight, Goto, Steps, ledgerVars, attemptVars, snVars
  <1>7. CASE TakeSnapshot(a)
    <2>1. ASSUME NEW stored \in BOOLEAN PROVE [snap EXCEPT ![a] = stored] \in [Attempts -> BOOLEAN]
      BY Zenon
    <2>2. snap' \in [Attempts -> BOOLEAN]
      BY <1>7, <2>1, Zenon DEF TakeSnapshot
    <2> QED
      BY <1>7, <2>2 DEF TakeSnapshot, Goto, Steps, ledgerVars, snVars
  <1>8. CASE WriteIntent(a)
    BY <1>8 DEF WriteIntent, Goto, Steps, ledgerVars, attemptVars, snVars, AuditBestEffort, Rows
  <1>9. CASE FailBeforeSend(a)
    BY <1>9, ErrorTypes DEF FailBeforeSend, Goto, Steps, ledgerVars, attemptVars, snVars
  <1>10. CASE Send(a)
    BY <1>10 DEF Send, Goto, Steps, ledgerVars, attemptVars, snVars
  <1>11. CASE ReceiveSuccess(a)
    BY <1>11 DEF ReceiveSuccess, Goto, Steps, ledgerVars, attemptVars, snVars
  <1>12. CASE ReceiveError(a)
    BY <1>12, ErrorTypes DEF ReceiveError, Goto, Steps, ledgerVars, attemptVars, snVars
  <1>13. CASE TransportFails(a)
    BY <1>13, ErrorTypes DEF TransportFails, Goto, Steps, ledgerVars, attemptVars, snVars
  <1>14. CASE Settle(a)
    BY <1>14, <1>1 DEF Settle, Goto, Steps, ledgerVars, attemptVars, snVars, Calls
  <1>15. CASE AuditError(a)
    BY <1>15, AnswerTypes DEF AuditError, Goto, Steps, ledgerVars, attemptVars, snVars, Return, AuditBestEffort, Rows
  <1>16. CASE Complete(a)
    BY <1>16, <1>1 DEF Complete, Goto, Steps, ledgerVars, attemptVars, snVars, Calls
  <1>17. CASE AuditOk(a)
    BY <1>17, AnswerTypes DEF AuditOk, Goto, Steps, ledgerVars, attemptVars, snVars, Return, AuditBestEffort, Rows
  <1>18. CASE Unclaim(a)
    BY <1>18, <1>1, AnswerTypes DEF Unclaim, Goto, Steps, ledgerVars, attemptVars, snVars, Return, Calls
  <1>19. CASE Deny(a)
    BY <1>19, AnswerTypes DEF Deny, Goto, Steps, ledgerVars, attemptVars, snVars, Return, AuditBestEffort, Rows
  <1> QED
    BY <1>2, <1>3, <1>4, <1>5, <1>6, <1>7, <1>8, <1>9, <1>10, <1>11, <1>12, <1>13, <1>14, <1>15, <1>16, <1>17, <1>18, <1>19 DEF Step

\* Every step keeps the state well typed.
LEMMA NextTypes == TypeOK /\ [Next]_vars => TypeOK'
  <1> SUFFICES ASSUME TypeOK, [Next]_vars PROVE TypeOK'
    OBVIOUS
  <1> USE DEF TypeOK
  <1>1. ASSUME NEW a \in Attempts, Arrive(a) PROVE TypeOK'
    BY <1>1, AnswerTypes DEF Arrive, Enter, RefuseMisconfigured, RefuseFrozenOrKeyless, Goto, Return,
       Steps, ledgerVars, snVars
  <1>2. ASSUME NEW a \in Attempts, Step(a) PROVE TypeOK'
    BY <1>2, StepTypes
  <1>3. ASSUME NEW a \in Attempts, ServiceNow(a) PROVE TypeOK'
    BY <1>3 DEF ServiceNow, AppliedReplies, RefusedReplies, Replies, ledgerVars, attemptVars
  <1>4. ASSUME NEW a \in Attempts, Die(a) PROVE TypeOK'
    BY <1>4 DEF Die, Goto, Steps, ledgerVars
  <1>5. ASSUME NEW m \in late, LateCallArrives(m) PROVE TypeOK'
    BY <1>5, LedgerTypes DEF LateCallArrives, attemptVars, snVars
  <1>6. ASSUME NEW m \in late, LateCallIsLost(m) PROVE TypeOK'
    BY <1>6 DEF LateCallIsLost, ledgerVars, attemptVars, snVars
  <1>7. CASE LedgerAlarm
    <2>1. rec' \in RecordType /\ (rec'.status = "completed" => rec'.result.of \in Attempts)
      BY <1>7, LiveType, LiveCases DEF LedgerAlarm, LedgerStores
    <2>2. lapsed' \subseteq Attempts
      BY <1>7 DEF LedgerAlarm, LedgerStores
    <2> QED
      BY <1>7, <2>1, <2>2 DEF LedgerAlarm, attemptVars, snVars
  <1>8. CASE Tick
    <2>1. rec' \in RecordType
      BY <1>8, MethodTypes DEF Tick
    <2>2. rec'.status = rec.status /\ rec'.result = rec.result
      BY <1>8 DEF Tick, Aged, RecordType
    <2> QED
      BY <1>8, <2>1, <2>2 DEF Tick, attemptVars, snVars
  <1>9. CASE UNCHANGED vars
    BY <1>9 DEF vars, ledgerVars, attemptVars, snVars
  <1> QED
    BY <1>1, <1>2, <1>3, <1>4, <1>5, <1>6, <1>7, <1>8, <1>9 DEF Next

\* The state stays well typed whatever is retried, lost, late or evicted, for
\* tableUpdate and for runServerScript.
THEOREM GuardTypeCorrect == Spec => []TypeOK
  <1>1. Init => TypeOK
    BY NoRecordType DEF Init, TypeOK, NoRecord, NoAnswer, Steps, Rows, Calls
  <1> QED
    BY <1>1, NextTypes, PTL DEF Spec

-----------------------------------------------------------------------------
(***************************************************************************)
(* At most once.                                                           *)
(***************************************************************************)

\* tableUpdate: an error that counts as definite was never the answer to an
\* update that was carried out.
LEMMA DefiniteErrorMeansRefused ==
  ASSUME Op = "tableUpdate", NEW r \in AppliedReplies, r \notin Successes
  PROVE  PostSendUnknown(ErrorOf(r))
  BY DEF AppliedReplies, Successes, PostSendUnknown, ErrorOf, Coded, RawError, OutboundSpent

\* While an attempt holds the record no settling call is in flight.
LEMMA HolderIsAlone ==
  ASSUME Inductive, NEW a \in Attempts, pc[a] \in Holding
  PROVE  /\ owner = a /\ rec.status = "started"
         /\ Settling = {}
         /\ \A b \in Attempts : pc[b] \in Holding => b = a
  BY DEF Inductive, Protocol, ClaimsHeld, LateCallsOwned, Granted, TypeOK, Settling

\* While a record is not started nobody holds it and no settling call is in flight.
LEMMA NobodyHolds ==
  ASSUME Inductive, rec.status # "started"
  PROVE  Settling = {} /\ \A b \in Attempts : pc[b] \notin Holding
  BY DEF Inductive, Protocol, ClaimsHeld, LateCallsOwned, Granted, Settling

\* Every step of an attempt's own code keeps the protocol.
LEMMA StepProtocol ==
  ASSUME Op = "tableUpdate", Inductive, NEW a \in Attempts, Step(a) PROVE Protocol'
  <1> USE DEF Inductive, Protocol, ClaimsHeld, LateCallsOwned, Settling, NothingSentYet, RepliesFit,
          DefiniteErrorsFit, SentIsOnRecord, ResultIsOwners, Granted, Holding, BeforeSend
  <1>0. TypeOK
    OBVIOUS
  <1>1. CASE Preflight(a)
    BY <1>1 DEF Preflight, Goto, Return, ledgerVars, snVars, TypeOK
  <1>2. CASE TakeSnapshot(a)
    BY <1>2 DEF TakeSnapshot, Goto, Return, ledgerVars, snVars, TypeOK
  <1>3. CASE WriteIntent(a)
    BY <1>3 DEF WriteIntent, Goto, Return, ledgerVars, snVars, TypeOK
  <1>4. CASE FailBeforeSend(a)
    BY <1>4 DEF FailBeforeSend, Goto, Return, ledgerVars, snVars, TypeOK
  <1>5. CASE Send(a)
    BY <1>5 DEF Send, Goto, Return, ledgerVars, snVars, TypeOK
  <1>6. CASE ReceiveSuccess(a)
    BY <1>6 DEF ReceiveSuccess, Goto, Return, ledgerVars, snVars, TypeOK
  <1>7. CASE ReceiveError(a)
    BY <1>7, DefiniteErrorMeansRefused DEF ReceiveError, Goto, Return, ledgerVars, snVars, TypeOK
  <1>8. CASE TransportFails(a)
    BY <1>8 DEF TransportFails, Goto, Return, ledgerVars, snVars, TypeOK, RawError, PostSendUnknown, OutboundSpent
  <1>9. CASE AuditError(a)
    BY <1>9 DEF AuditError, Goto, Return, ledgerVars, snVars, TypeOK
  <1>10. CASE AuditOk(a)
    BY <1>10 DEF AuditOk, Goto, Return, ledgerVars, snVars, TypeOK
  <1>11. CASE Deny(a)
    BY <1>11 DEF Deny, Goto, Return, ledgerVars, snVars, TypeOK
  <1>12. CASE ClaimThrows(a)
    BY <1>12 DEF ClaimThrows, Goto, Return, ledgerVars, snVars, TypeOK, CallThrows
  <1>13. CASE ClaimGranted(a)
    <2>1. LedgerExecutes(a, "begin") /\ UNCHANGED late
      BY <1>13 DEF ClaimGranted, CallLedger
    <2> QED
      BY <1>13, <2>1, BeginEffect DEF ClaimGranted, Goto, snVars, TypeOK
  <1>14. CASE ClaimReplays(a)
    <2>1. LedgerExecutes(a, "begin") /\ UNCHANGED late
      BY <1>14 DEF ClaimReplays, CallLedger
    <2> QED
      BY <1>14, <2>1, BeginEffect DEF ClaimReplays, Goto, Return, snVars, TypeOK
  <1>15. CASE ClaimBlocked(a)
    <2>1. LedgerExecutes(a, "begin") /\ UNCHANGED late
      BY <1>15 DEF ClaimBlocked, CallLedger
    <2> QED
      BY <1>15, <2>1, BeginEffect DEF ClaimBlocked, Goto, snVars, TypeOK
  <1>16. CASE Settle(a)
    <2> DEFINE c == IF PostSendUnknown(err[a]) THEN "markIndeterminate" ELSE "fail"
    <2>1. pc[a] \in Holding
      BY <1>16 DEF Settle
    <2>2. /\ owner = a /\ rec.status = "started" /\ Settling = {}
          /\ \A b \in Attempts : pc[b] \in Holding => b = a
      BY <2>1, HolderIsAlone
    <2>3. CASE CallLedger(a, c)
      <3>1. c \in {"complete", "fail", "markIndeterminate"} /\ LedgerExecutes(a, c) /\ UNCHANGED late
        BY <2>3 DEF CallLedger
      <3> QED
        BY <1>16, <2>2, <3>1, SettleEffect DEF Settle, Goto, Return, snVars, TypeOK
    <2>4. CASE CallThrows(a, c)
      BY <1>16, <2>2, <2>4 DEF Settle, CallThrows, Goto, Return, ledgerVars, snVars, TypeOK
    <2> QED
      BY <1>16, <2>3, <2>4 DEF Settle
  <1>17. CASE Complete(a)
    <2> DEFINE c == "complete"
    <2>1. pc[a] \in Holding
      BY <1>17 DEF Complete
    <2>2. /\ owner = a /\ rec.status = "started" /\ Settling = {}
          /\ \A b \in Attempts : pc[b] \in Holding => b = a
      BY <2>1, HolderIsAlone
    <2>3. CASE CallLedger(a, c)
      <3>1. c \in {"complete", "fail", "markIndeterminate"} /\ LedgerExecutes(a, c) /\ UNCHANGED late
        BY <2>3 DEF CallLedger
      <3> QED
        BY <1>17, <2>2, <3>1, SettleEffect DEF Complete, Goto, Return, snVars, TypeOK
    <2>4. CASE CallThrows(a, c)
      BY <1>17, <2>2, <2>4 DEF Complete, CallThrows, Goto, Return, ledgerVars, snVars, TypeOK
    <2> QED
      BY <1>17, <2>3, <2>4 DEF Complete
  <1>18. CASE Unclaim(a)
    <2> DEFINE c == "fail"
    <2>1. pc[a] \in Holding
      BY <1>18 DEF Unclaim
    <2>2. /\ owner = a /\ rec.status = "started" /\ Settling = {}
          /\ \A b \in Attempts : pc[b] \in Holding => b = a
      BY <2>1, HolderIsAlone
    <2>3. CASE CallLedger(a, c)
      <3>1. c \in {"complete", "fail", "markIndeterminate"} /\ LedgerExecutes(a, c) /\ UNCHANGED late
        BY <2>3 DEF CallLedger
      <3> QED
        BY <1>18, <2>2, <3>1, SettleEffect DEF Unclaim, Goto, Return, snVars, TypeOK
    <2>4. CASE CallThrows(a, c)
      BY <1>18, <2>2, <2>4 DEF Unclaim, CallThrows, Goto, Return, ledgerVars, snVars, TypeOK
    <2> QED
      BY <1>18, <2>3, <2>4 DEF Unclaim
  <1> QED
    BY <1>1, <1>2, <1>3, <1>4, <1>5, <1>6, <1>7, <1>8, <1>9, <1>10, <1>11, <1>12, <1>13, <1>14, <1>15, <1>16, <1>17, <1>18 DEF Step

\* A ledger call that arrives late keeps it: a begin may still be granted, to an
\* attempt that is gone; a settling call acts for the owner it came from.
LEMMA LateProtocol ==
  ASSUME Inductive, NEW m \in late, LateCallArrives(m) PROVE Protocol'
  <1> USE DEF Inductive, Protocol, ClaimsHeld, LateCallsOwned, Settling, NothingSentYet, RepliesFit,
          DefiniteErrorsFit, SentIsOnRecord, ResultIsOwners, Granted, Holding, BeforeSend
  <1>1. m.from \in Attempts /\ m.call \in Calls /\ LedgerExecutes(m.from, m.call)
    BY DEF LateCallArrives, TypeOK
  <1>2. UNCHANGED <<pc, hash, err, wire, reply>> /\ late' = late \ {m}
    BY DEF LateCallArrives, attemptVars, snVars
  <1>3. CASE m.call = "begin"
    <2>1. LedgerExecutes(m.from, "begin")
      BY <1>1, <1>3
    <2> QED
      BY <1>1, <1>2, <1>3, <2>1, BeginEffect DEF TypeOK
  <1>4. CASE m.call # "begin"
    <2>1. m \in Settling /\ owner = m.from /\ rec.status = "started"
      BY <1>4
    <2>2. m.call \in {"complete", "fail", "markIndeterminate"}
      BY <1>1, <1>4 DEF Calls
    <2>3. Settling' = {} /\ \A b \in Attempts : pc[b] \notin Holding
      BY <1>2, <2>1
    <2> QED
      BY <1>1, <1>2, <2>1, <2>2, <2>3, SettleEffect DEF TypeOK
  <1> QED
    BY <1>3, <1>4

\* The alarm keeps it: a started record survives it, and a completed one that
\* goes leaves its effect among the lapsed.
LEMMA AlarmProtocol == ASSUME Inductive, LedgerAlarm PROVE Protocol'
  <1> USE DEF Inductive, Protocol, ClaimsHeld, LateCallsOwned, Settling, NothingSentYet, RepliesFit,
          DefiniteErrorsFit, SentIsOnRecord, ResultIsOwners, Granted, Holding, BeforeSend
  <1>1. /\ rec' = Live(rec) /\ rec \in RecordType
        /\ lapsed' = IF IsExpired(rec) /\ rec.status = "completed"
                     THEN lapsed \cup {rec.result.of} ELSE lapsed
        /\ UNCHANGED <<owner, late, pc, hash, err, wire, reply>>
    BY DEF LedgerAlarm, LedgerStores, attemptVars, snVars, TypeOK
  <1> QED
    BY <1>1, LiveCases

\* Every step of the system keeps the invariant.
LEMMA NextProtocol == ASSUME Op = "tableUpdate", Inductive, [Next]_vars PROVE Protocol'
  <1> USE DEF Inductive, Protocol, ClaimsHeld, LateCallsOwned, Settling, NothingSentYet, RepliesFit,
          DefiniteErrorsFit, SentIsOnRecord, ResultIsOwners, Granted, Holding, BeforeSend
  <1>1. ASSUME NEW a \in Attempts, Arrive(a) PROVE Protocol'
    BY <1>1 DEF Arrive, Enter, RefuseMisconfigured, RefuseFrozenOrKeyless, Goto, Return,
       ledgerVars, snVars, TypeOK
  <1>2. ASSUME NEW a \in Attempts, Step(a) PROVE Protocol'
    BY <1>2, StepProtocol
  <1>3. ASSUME NEW a \in Attempts, ServiceNow(a) PROVE Protocol'
    BY <1>3 DEF ServiceNow, ledgerVars, attemptVars, TypeOK
  <1>4. ASSUME NEW a \in Attempts, Die(a) PROVE Protocol'
    BY <1>4 DEF Die, Goto, ledgerVars, TypeOK
  <1>5. ASSUME NEW m \in late, LateCallArrives(m) PROVE Protocol'
    BY <1>5, LateProtocol
  <1>6. ASSUME NEW m \in late, LateCallIsLost(m) PROVE Protocol'
    BY <1>6 DEF LateCallIsLost, ledgerVars, attemptVars, snVars
  <1>7. CASE LedgerAlarm
    BY <1>7, AlarmProtocol
  <1>8. CASE Tick
    <2>1. rec'.status = rec.status /\ rec'.result = rec.result
      BY <1>8 DEF Tick, Aged, TypeOK, RecordType
    <2> QED
      BY <1>8, <2>1 DEF Tick, attemptVars, snVars
  <1>9. CASE UNCHANGED vars
    BY <1>9 DEF vars, ledgerVars, attemptVars, snVars
  <1> QED
    BY <1>1, <1>2, <1>3, <1>4, <1>5, <1>6, <1>7, <1>8, <1>9 DEF Next

\* Exactly once (S17): tableUpdate is carried out at most once within one
\* retention period of its key, for any number of attempts, requests and
\* lost or late calls.
THEOREM UpdateAppliedAtMostOnce == ASSUME Op = "tableUpdate" PROVE Spec => []AtMostOnce
  <1>1. Init => Inductive
    <2>1. Init => TypeOK
      BY NoRecordType DEF Init, TypeOK, NoRecord, NoAnswer, Steps, Rows, Calls
    <2>2. Init => Protocol
      BY DEF Init, Protocol, ClaimsHeld, LateCallsOwned, Settling, NothingSentYet, RepliesFit,
             DefiniteErrorsFit, SentIsOnRecord, ResultIsOwners, Holding, NoRecord
    <2> QED
      BY <2>1, <2>2 DEF Inductive
  <1>2. Inductive /\ [Next]_vars => Inductive'
    BY NextTypes, NextProtocol DEF Inductive
  <1>3. Inductive => AtMostOnce
    BY DEF Inductive, Protocol, SentIsOnRecord, AtMostOnce, Applied
  <1> QED
    BY <1>1, <1>2, <1>3, PTL DEF Spec

-----------------------------------------------------------------------------
(***************************************************************************)
(* Audit and snapshot before effect, for either operation.                 *)
(***************************************************************************)

\* Nothing is sent before the effect step nor on the way to a denial; from the
\* intent row on the snapshot is stored, and from the effect on the row is.
Traced ==
  \A a \in Attempts :
    /\ pc[a] \in BeforeSend \cup {"deny"} => wire[a] = "unsent"
    /\ pc[a] \in {"intent", "effect"} /\ Reversible => snap[a]
    /\ pc[a] = "effect" => audit[a] = "intent"
    /\ wire[a] # "unsent" => audit[a] \notin {"none", "denied"}
    /\ wire[a] # "unsent" /\ Reversible => snap[a]

\* Every step of an attempt's own code keeps it.
LEMMA StepTraced == ASSUME TypeOK, Traced, NEW a \in Attempts, Step(a) PROVE Traced'
  <1> USE DEF TypeOK, Traced, BeforeSend
  <1>1. ASSUME UNCHANGED <<wire, snap>>, pc[a] # "deny", audit' = audit,
               NEW to \in Steps \ {"intent", "effect"}, pc' = [pc EXCEPT ![a] = to],
               to \in BeforeSend \cup {"deny"} => wire[a] = "unsent"
        PROVE  Traced'
    BY <1>1
  <1>2. CASE ClaimGranted(a) \/ ClaimBlocked(a) \/ ClaimThrows(a) \/ Unclaim(a)
    BY <1>1, <1>2 DEF ClaimGranted, ClaimBlocked, ClaimThrows, Unclaim, Goto, Return, snVars, Steps
  <1>3. CASE ClaimReplays(a)
    BY <1>1, <1>3 DEF ClaimReplays, Goto, Return, snVars, Steps
  <1>4. CASE FailBeforeSend(a) \/ ReceiveSuccess(a) \/ ReceiveError(a) \/ TransportFails(a)
    BY <1>1, <1>4 DEF FailBeforeSend, ReceiveSuccess, ReceiveError, TransportFails, Goto, snVars, Steps
  <1>5. CASE Settle(a) \/ Complete(a)
    BY <1>1, <1>5 DEF Settle, Complete, Goto, snVars, Steps
  <1>6. CASE Preflight(a)
    BY <1>6 DEF Preflight, Goto, snVars, GuardAssumption
  <1>7. CASE TakeSnapshot(a)
    <2>1. CASE snap' = [snap EXCEPT ![a] = TRUE] /\ Goto(a, "intent")
      BY <1>7, <2>1 DEF TakeSnapshot, Goto, snVars
    <2>2. ASSUME NEW stored \in BOOLEAN, snap' = [snap EXCEPT ![a] = stored], Goto(a, "unclaim") PROVE Traced'
      BY <1>7, <2>2 DEF TakeSnapshot, Goto, snVars
    <2> QED
      BY <1>7, <2>1, <2>2 DEF TakeSnapshot
  <1>8. CASE WriteIntent(a)
    BY <1>8 DEF WriteIntent, AuditBestEffort, Goto, snVars
  <1>9. CASE Send(a)
    BY <1>9 DEF Send, Goto
  <1>10. CASE AuditError(a) \/ AuditOk(a) \/ Deny(a)
    BY <1>10 DEF AuditError, AuditOk, Deny, AuditBestEffort, Goto, Return, snVars
  <1> QED
    BY <1>2, <1>3, <1>4, <1>5, <1>6, <1>7, <1>8, <1>9, <1>10 DEF Step

\* A request that left the host, for tableUpdate or for a script, has its row in
\* the audit store, which never reads as a denial, and on a snapshot-enabled table
\* the row to restore from.
THEOREM EffectsAreTraced == Spec => []TracedBeforeEffect
  <1>1. Init => Traced
    BY DEF Init, Traced, BeforeSend
  <1>2. ASSUME TypeOK, Traced, [Next]_vars PROVE Traced'
    <2> USE DEF TypeOK, Traced, BeforeSend
    <2>1. ASSUME NEW a \in Attempts, Arrive(a) PROVE Traced'
      BY <1>2, <2>1 DEF Arrive, Enter, RefuseMisconfigured, RefuseFrozenOrKeyless, Goto, Return, snVars
    <2>2. ASSUME NEW a \in Attempts, Step(a) PROVE Traced'
      BY <1>2, <2>2, StepTraced
    <2>3. ASSUME NEW a \in Attempts, ServiceNow(a) PROVE Traced'
      BY <1>2, <2>3 DEF ServiceNow, attemptVars
    <2>4. ASSUME NEW a \in Attempts, Die(a) PROVE Traced'
      BY <1>2, <2>4 DEF Die, Goto
    <2>5. CASE UNCHANGED <<pc, snap, audit, wire>>
      BY <1>2, <2>5
    <2>6. \/ UNCHANGED <<pc, snap, audit, wire>>
          \/ \E a \in Attempts : Arrive(a) \/ Step(a) \/ ServiceNow(a) \/ Die(a)
      BY <1>2 DEF Next, LateCallArrives, LateCallIsLost, LedgerAlarm, Tick, attemptVars, snVars, vars
    <2> QED
      BY <2>1, <2>2, <2>3, <2>4, <2>5, <2>6
  <1>3. TypeOK /\ Traced /\ [Next]_vars => Traced'
    BY <1>2
  <1>4. Traced => TracedBeforeEffect
    BY DEF Traced, TracedBeforeEffect
  <1> QED
    BY <1>1, <1>3, <1>4, GuardTypeCorrect, PTL DEF Spec

-----------------------------------------------------------------------------
(***************************************************************************)
(* Truth and refinement.  Protocol says who may still send; Truth says     *)
(* what the record, the replies under way and the attempts themselves know *)
(* of the effects that were carried out.                                   *)
(***************************************************************************)

\* A hash is set once, on entry: whoever owns the record, has a call in flight
\* or sent a request carries the hash of its request.
HashesSettled ==
  /\ \A a \in Attempts : pc[a] = "idle" => hash[a] = NoHash
  /\ \A a \in Attempts : pc[a] \in Holding \cup {"claim"} => hash[a] \in Hashes
  /\ \A a \in Attempts : wire[a] # "unsent" => hash[a] \in Hashes
  /\ \A m \in late : pc[m.from] # "idle"
  /\ owner \in Attempts => pc[owner] # "idle"

\* The record carries its owner's hash, and a completed one stands for an
\* effect of this retention period.
RecordFits ==
  /\ rec.status \in {"started", "completed"} => owner \in Attempts /\ rec.hash = hash[owner]
  /\ rec.status = "completed" => wire[owner] = "applied" /\ owner \notin lapsed

\* Successes, complete calls and lapsed results come of effects carried out.
SuccessesFit ==
  /\ \A a \in Attempts : reply[a] \in Successes => wire[a] = "applied"
  /\ \A a \in Attempts : pc[a] \in {"complete", "auditOk"} => wire[a] = "applied"
  /\ \A m \in late : m.call = "complete" => wire[m.from] = "applied"
  /\ \A a \in lapsed : wire[a] = "applied"

\* Who holds the record, or settles it late, has no lapsed result.
HoldersAreCurrent ==
  /\ \A a \in Attempts : pc[a] \in Holding => a \notin lapsed
  /\ \A m \in Settling : m.from \notin lapsed

\* What an attempt may still write: no row of an outcome before its effect, no
\* plain error after an effect that may have been carried out, no answer twice.
AttemptsFit ==
  /\ \A a \in Attempts : pc[a] \in BeforeSend => audit[a] \notin {"ok", "error"}
  /\ \A a \in Attempts : pc[a] = "auditError" /\ ~PostSendUnknown(err[a])
                           => wire[a] \in {"unsent", "refused"}
  /\ \A a \in Attempts : pc[a] \notin {"done", "dead"} => answer[a] = NoAnswer
  /\ \A a \in Attempts : answer[a].of # NoAttempt => answer[a].kind \in {"executed", "replay"}

Truth ==
  /\ HashesSettled
  /\ RecordFits
  /\ SuccessesFit
  /\ HoldersAreCurrent
  /\ AttemptsFit
  /\ AnswersAndRowsAreTrue
  /\ RejectionMeansNotApplied

Trusted == Inductive /\ Truth

-----------------------------------------------------------------------------
(***************************************************************************)
(* What becomes of the stored hash.                                        *)
(***************************************************************************)

\* A record that a read finds has kept its hash.
LEMMA LiveHash ==
  ASSUME NEW r \in RecordType, Live(r).status # "none"
  PROVE  Live(r).hash = r.hash
  BY DEF Live, Migrated, NoRecord, RecordType

\* begin stores the hash it is granted for and keeps the hash of any other record.
LEMMA BeginHash ==
  ASSUME TypeOK, NEW a \in Attempts, LedgerExecutes(a, "begin")
  PROVE  /\ BeginReply(rec, hash[a]) = "new" => rec'.hash = hash[a]
         /\ BeginReply(rec, hash[a]) # "new" => rec'.hash = rec.hash
  <1>1. rec \in RecordType /\ rec' = AfterBegin(rec, hash[a])
    BY DEF TypeOK, LedgerExecutes, LedgerStores
  <1>2. CASE BeginReply(rec, hash[a]) = "new"
    BY <1>1, <1>2 DEF AfterBegin, Stamped
  <1>3. CASE BeginReply(rec, hash[a]) # "new"
    <2>1. Live(rec).status # "none"
      BY <1>3 DEF BeginReply
    <2> QED
      BY <1>1, <1>3, <2>1, LiveHash DEF AfterBegin
  <1> QED
    BY <1>2, <1>3

\* A settling call on a started record keeps its hash.
LEMMA SettleHash ==
  ASSUME TypeOK, rec.status = "started", NEW a \in Attempts,
         NEW c \in {"complete", "fail", "markIndeterminate"}, LedgerExecutes(a, c)
  PROVE  rec'.hash = rec.hash
  <1>1. Live(rec).status = "started" /\ Live(rec).hash = rec.hash
    BY LiveCases, LiveHash DEF TypeOK
  <1>2. ASSUME NEW s, NEW v PROVE Settled(rec, s, v).hash = rec.hash
    BY <1>1 DEF Settled, Stamped
  <1> QED
    BY <1>2 DEF LedgerExecutes, LedgerStores, AfterComplete, AfterFail, AfterMarkIndeterminate

\* tableUpdate on an instance that does not hibernate: a success is never the
\* answer to an update that was refused.
LEMMA SuccessMeansApplied ==
  ASSUME Op = "tableUpdate", ~Hibernates
  PROVE  Successes \cap RefusedReplies = {}
  BY DEF Successes, RefusedReplies, Replies


\* An empty reply slot is no success.
LEMMA NoReply == "none" \notin Successes
  BY DEF Successes

-----------------------------------------------------------------------------
(***************************************************************************)
(* Every step keeps Truth.                                                 *)
(***************************************************************************)

\* Every step of an attempt's own code keeps it.
LEMMA StepTruth ==
  ASSUME Op = "tableUpdate", ~Hibernates, Trusted, NEW a \in Attempts, Step(a) PROVE Truth'
  <1> USE NamesAssumption DEF Trusted, Inductive, Truth, HashesSettled, RecordFits, SuccessesFit, HoldersAreCurrent,
          AttemptsFit, AnswersAndRowsAreTrue, RejectionMeansNotApplied, Applied, Settling, Holding, BeforeSend
  <1>0. TypeOK /\ Protocol
    OBVIOUS
  <1>1. CASE Preflight(a)
    BY <1>1, <1>0 DEF Preflight, Goto, Return, ledgerVars, snVars, attemptVars, TypeOK, NoAnswer, Protocol, ClaimsHeld, Granted,
       NothingSentYet, DefiniteErrorsFit
  <1>2. CASE TakeSnapshot(a)
    BY <1>2, <1>0 DEF TakeSnapshot, Goto, Return, ledgerVars, snVars, attemptVars, TypeOK, NoAnswer, Protocol, ClaimsHeld, Granted,
       NothingSentYet, DefiniteErrorsFit
  <1>3. CASE WriteIntent(a)
    BY <1>3, <1>0 DEF WriteIntent, Goto, Return, ledgerVars, snVars, attemptVars, TypeOK, NoAnswer, Protocol, ClaimsHeld, Granted,
       NothingSentYet, DefiniteErrorsFit, AuditBestEffort
  <1>4. CASE FailBeforeSend(a)
    BY <1>4, <1>0 DEF FailBeforeSend, Goto, Return, ledgerVars, snVars, attemptVars, TypeOK, NoAnswer, Protocol, ClaimsHeld, Granted,
       NothingSentYet, DefiniteErrorsFit
  <1>5. CASE Send(a)
    BY <1>5, <1>0 DEF Send, Goto, Return, ledgerVars, snVars, attemptVars, TypeOK, NoAnswer, Protocol, ClaimsHeld, Granted,
       NothingSentYet, DefiniteErrorsFit
  <1>6. CASE ReceiveSuccess(a)
    BY <1>6, <1>0 DEF ReceiveSuccess, Goto, Return, ledgerVars, snVars, attemptVars, TypeOK, NoAnswer, Protocol, ClaimsHeld, Granted,
       NothingSentYet, DefiniteErrorsFit
  <1>7. CASE ReceiveError(a)
    BY <1>7, <1>0, NoReply DEF ReceiveError, Goto, Return, ledgerVars, snVars, attemptVars, TypeOK, NoAnswer, Protocol, ClaimsHeld, Granted,
       NothingSentYet, DefiniteErrorsFit
  <1>8. CASE TransportFails(a)
    BY <1>8, <1>0, NoReply DEF TransportFails, Goto, Return, ledgerVars, snVars, attemptVars, TypeOK, NoAnswer, Protocol, ClaimsHeld, Granted,
       NothingSentYet, DefiniteErrorsFit
  <1>9. CASE AuditError(a)
    BY <1>9, <1>0 DEF AuditError, Goto, Return, ledgerVars, snVars, attemptVars, TypeOK, NoAnswer, Protocol, ClaimsHeld, Granted,
       NothingSentYet, DefiniteErrorsFit, AuditBestEffort, Failure
  <1>10. CASE AuditOk(a)
    BY <1>10, <1>0 DEF AuditOk, Goto, Return, ledgerVars, snVars, attemptVars, TypeOK, NoAnswer, Protocol, ClaimsHeld, Granted,
       NothingSentYet, DefiniteErrorsFit, AuditBestEffort, Executed
  <1>11. CASE Deny(a)
    BY <1>11, <1>0 DEF Deny, Goto, Return, ledgerVars, snVars, attemptVars, TypeOK, NoAnswer, Protocol, ClaimsHeld, Granted,
       NothingSentYet, DefiniteErrorsFit, AuditBestEffort, Failure
  <1>12. CASE ClaimThrows(a)
    BY <1>12, <1>0 DEF ClaimThrows, Goto, Return, ledgerVars, snVars, attemptVars, TypeOK, NoAnswer, Protocol, ClaimsHeld, Granted,
       NothingSentYet, DefiniteErrorsFit, CallThrows, Failure
  <1>13. CASE ClaimGranted(a)
    <2>1. LedgerExecutes(a, "begin") /\ UNCHANGED late
      BY <1>13 DEF ClaimGranted, CallLedger
    <2> QED
      BY <1>13, <1>0, <2>1, BeginEffect, BeginHash DEF ClaimGranted, Goto, Return, snVars, TypeOK, NoAnswer, Protocol,
         ClaimsHeld, LateCallsOwned, Granted, NothingSentYet, ResultIsOwners
  <1>14. CASE ClaimReplays(a)
    <2>1. LedgerExecutes(a, "begin") /\ UNCHANGED late
      BY <1>14 DEF ClaimReplays, CallLedger
    <2>2. /\ rec.status = "completed" /\ rec.hash = hash[a]
          /\ Live(rec).result.of = owner /\ owner \in Attempts
      <3>1. Live(rec).status = "completed" /\ Live(rec).hash = hash[a]
        BY <1>14 DEF ClaimReplays, BeginReply
      <3> QED
        BY <1>0, <3>1, LiveCases, LiveHash DEF TypeOK, Protocol, ResultIsOwners
    <2>3. /\ rec'.status = rec.status /\ rec'.hash = rec.hash
          /\ UNCHANGED <<owner, lapsed, late, hash, err, snap, audit, wire, reply>>
      BY <1>14, <2>1, BeginEffect, BeginHash DEF ClaimReplays, snVars
    <2>4. \/ answer' = [answer EXCEPT ![a] = Replayed(owner)] /\ pc' = [pc EXCEPT ![a] = "done"]
          \/ answer' = answer /\ pc' = [pc EXCEPT ![a] = "deny"]
      BY <1>14, <2>2 DEF ClaimReplays, Goto, Return
    <2>5. HashesSettled' /\ RecordFits' /\ SuccessesFit' /\ HoldersAreCurrent'
      BY <1>14, <1>0, <2>2, <2>3, <2>4 DEF ClaimReplays, TypeOK
    <2>6. AttemptsFit'
      <3>1. CASE answer' = [answer EXCEPT ![a] = Replayed(owner)] /\ pc' = [pc EXCEPT ![a] = "done"]
        BY <1>0, <2>3, <3>1 DEF TypeOK, Replayed
      <3>2. CASE answer' = answer /\ pc' = [pc EXCEPT ![a] = "deny"]
        BY <1>14, <1>0, <2>3, <3>2 DEF ClaimReplays, TypeOK
      <3> QED
        BY <2>4, <3>1, <3>2
    <2>7. AnswersAndRowsAreTrue'
      BY <1>14, <1>0, <2>2, <2>3, <2>4 DEF ClaimReplays, TypeOK, Replayed, Failure, NoAnswer
    <2>8. RejectionMeansNotApplied'
      BY <1>14, <1>0, <2>2, <2>3, <2>4 DEF ClaimReplays, TypeOK
    <2> QED
      BY <2>5, <2>6, <2>7, <2>8
  <1>15. CASE ClaimBlocked(a)
    <2>1. LedgerExecutes(a, "begin") /\ UNCHANGED late
      BY <1>15 DEF ClaimBlocked, CallLedger
    <2> QED
      BY <1>15, <1>0, <2>1, BeginEffect, BeginHash DEF ClaimBlocked, Goto, Return, snVars, TypeOK, NoAnswer, Protocol,
         ClaimsHeld, LateCallsOwned, Granted, NothingSentYet, ResultIsOwners
  <1>16. CASE Settle(a)
    <2> DEFINE c == IF PostSendUnknown(err[a]) THEN "markIndeterminate" ELSE "fail"
    <2>1. pc[a] \in Holding
      BY <1>16 DEF Settle
    <2>2. /\ owner = a /\ rec.status = "started" /\ Settling = {}
          /\ \A b \in Attempts : pc[b] \in Holding => b = a
      BY <2>1, HolderIsAlone
    <2>3. CASE CallLedger(a, c)
      <3>1. c \in {"complete", "fail", "markIndeterminate"} /\ LedgerExecutes(a, c) /\ UNCHANGED late
        BY <2>3 DEF CallLedger
      <3> QED
        BY <1>16, <1>0, <2>2, <3>1, SettleEffect, SettleHash DEF Settle, Goto, Return, snVars, TypeOK, NoAnswer, Failure,
           Protocol, NothingSentYet, DefiniteErrorsFit
    <2>4. CASE CallThrows(a, c)
      BY <1>16, <1>0, <2>2, <2>4 DEF Settle, CallThrows, Goto, Return, ledgerVars, snVars, TypeOK, NoAnswer, Failure,
         Protocol, NothingSentYet, DefiniteErrorsFit
    <2> QED
      BY <1>16, <2>3, <2>4 DEF Settle
  <1>17. CASE Complete(a)
    <2> DEFINE c == "complete"
    <2>1. pc[a] \in Holding
      BY <1>17 DEF Complete
    <2>2. /\ owner = a /\ rec.status = "started" /\ Settling = {}
          /\ \A b \in Attempts : pc[b] \in Holding => b = a
      BY <2>1, HolderIsAlone
    <2>3. CASE CallLedger(a, c)
      <3>1. c \in {"complete", "fail", "markIndeterminate"} /\ LedgerExecutes(a, c) /\ UNCHANGED late
        BY <2>3 DEF CallLedger
      <3> QED
        BY <1>17, <1>0, <2>2, <3>1, SettleEffect, SettleHash DEF Complete, Goto, Return, snVars, TypeOK, NoAnswer, Failure,
           Protocol, NothingSentYet, DefiniteErrorsFit
    <2>4. CASE CallThrows(a, c)
      BY <1>17, <1>0, <2>2, <2>4 DEF Complete, CallThrows, Goto, Return, ledgerVars, snVars, TypeOK, NoAnswer, Failure,
         Protocol, NothingSentYet, DefiniteErrorsFit
    <2> QED
      BY <1>17, <2>3, <2>4 DEF Complete
  <1>18. CASE Unclaim(a)
    <2> DEFINE c == "fail"
    <2>1. pc[a] \in Holding
      BY <1>18 DEF Unclaim
    <2>2. /\ owner = a /\ rec.status = "started" /\ Settling = {}
          /\ \A b \in Attempts : pc[b] \in Holding => b = a
      BY <2>1, HolderIsAlone
    <2>3. CASE LedgerExecutes(a, "fail") /\ UNCHANGED <<late, answer>> /\ Goto(a, "deny")
      <3>1. /\ rec'.status = "failed" /\ rec'.hash = rec.hash
            /\ UNCHANGED <<owner, lapsed, late, answer>>
        BY <1>0, <2>2, <2>3, SettleEffect, SettleHash
      <3>2. pc' = [pc EXCEPT ![a] = "deny"] /\ UNCHANGED <<hash, err, snap, audit, wire, reply>>
        BY <1>18, <2>3 DEF Unclaim, Goto, snVars
      <3>3. pc[a] = "unclaim" /\ wire[a] = "unsent"
        BY <1>18, <1>0 DEF Unclaim, Protocol, NothingSentYet
      <3>4. HashesSettled' /\ RecordFits' /\ SuccessesFit' /\ HoldersAreCurrent'
        BY <1>0, <2>2, <3>1, <3>2, <3>3 DEF TypeOK
      <3>5. AttemptsFit' /\ AnswersAndRowsAreTrue'
        BY <1>0, <2>2, <3>1, <3>2, <3>3 DEF TypeOK
      <3>6. RejectionMeansNotApplied'
        BY <1>0, <2>2, <3>1, <3>2, <3>3 DEF TypeOK
      <3> QED
        BY <3>4, <3>5, <3>6
    <2>4. CASE CallThrows(a, "fail") /\ Return(a, Failure)
      <3>1. /\ pc' = [pc EXCEPT ![a] = "done"] /\ answer' = [answer EXCEPT ![a] = Failure]
            /\ late' = late \cup {[from |-> a, call |-> "fail"]}
            /\ UNCHANGED <<rec, owner, lapsed, hash, err, snap, audit, wire, reply>>
        BY <1>18, <2>4 DEF Unclaim, CallThrows, Goto, Return, ledgerVars, snVars
      <3>2. HashesSettled' /\ RecordFits' /\ SuccessesFit' /\ HoldersAreCurrent'
        BY <1>0, <2>1, <2>2, <3>1 DEF TypeOK
      <3>3. AttemptsFit' /\ AnswersAndRowsAreTrue' /\ RejectionMeansNotApplied'
        BY <1>0, <3>1 DEF TypeOK, Failure
      <3> QED
        BY <3>2, <3>3
    <2> QED
      BY <1>18, <2>3, <2>4 DEF Unclaim, CallLedger
  <1> QED
    BY <1>1, <1>2, <1>3, <1>4, <1>5, <1>6, <1>7, <1>8, <1>9, <1>10, <1>11, <1>12, <1>13, <1>14, <1>15, <1>16, <1>17, <1>18 DEF Step

\* A ledger call that arrives late keeps it.
LEMMA LateTruth == ASSUME Trusted, NEW m \in late, LateCallArrives(m) PROVE Truth'
  <1> USE NamesAssumption DEF Trusted, Inductive, Truth, HashesSettled, RecordFits, SuccessesFit, HoldersAreCurrent,
          AttemptsFit, AnswersAndRowsAreTrue, RejectionMeansNotApplied, Applied, Settling, Holding, BeforeSend
  <1>1. /\ m.from \in Attempts /\ m.call \in Calls /\ LedgerExecutes(m.from, m.call)
        /\ late' = late \ {m} /\ UNCHANGED <<pc, hash, err, snap, audit, answer, wire, reply>>
    BY DEF LateCallArrives, TypeOK, attemptVars, snVars
  <1>2. AttemptsFit' /\ AnswersAndRowsAreTrue'
    BY <1>1
  <1>3. CASE m.call = "begin"
    <2>1. LedgerExecutes(m.from, "begin")
      BY <1>1, <1>3
    <2> QED
      BY <1>1, <1>2, <2>1, BeginEffect, BeginHash DEF TypeOK, Protocol, ClaimsHeld, LateCallsOwned, Granted, ResultIsOwners
  <1>4. CASE m.call # "begin"
    <2>1. /\ m \in Settling /\ owner = m.from /\ rec.status = "started" /\ pc[m.from] \notin Holding
          /\ m.call = "fail" => wire[m.from] \in {"unsent", "refused"}
          /\ Settling' = {} /\ \A b \in Attempts : pc[b] \notin Holding
      BY <1>1, <1>4 DEF Protocol, ClaimsHeld, LateCallsOwned, Granted
    <2>2. m.call \in {"complete", "fail", "markIndeterminate"}
      BY <1>1, <1>4 DEF Calls
    <2> QED
      BY <1>1, <1>2, <2>1, <2>2, SettleEffect, SettleHash DEF TypeOK
  <1> QED
    BY <1>3, <1>4

\* The alarm keeps it: the result that lapses is of an effect carried out, and
\* nobody holds the record any more.
LEMMA AlarmTruth == ASSUME Trusted, LedgerAlarm PROVE Truth'
  <1> USE NamesAssumption DEF Trusted, Inductive, Truth, HashesSettled, RecordFits, SuccessesFit, HoldersAreCurrent,
          AttemptsFit, AnswersAndRowsAreTrue, RejectionMeansNotApplied, Applied, Settling, Holding, BeforeSend
  <1>1. /\ rec' = Live(rec) /\ rec \in RecordType
        /\ lapsed' = IF IsExpired(rec) /\ rec.status = "completed"
                     THEN lapsed \cup {rec.result.of} ELSE lapsed
        /\ UNCHANGED <<owner, late, pc, hash, err, snap, audit, answer, wire, reply>>
    BY DEF LedgerAlarm, LedgerStores, attemptVars, snVars, TypeOK
  <1>2. Live(rec).status # "none" => Live(rec).status = rec.status /\ Live(rec).hash = rec.hash /\ lapsed' = lapsed
    BY <1>1, LiveCases, LiveHash
  <1>3. rec.status = "completed" => rec.result.of = owner /\ Settling = {} /\ \A b \in Attempts : pc[b] \notin Holding
    BY NobodyHolds DEF Protocol, ResultIsOwners
  <1> QED
    BY <1>1, <1>2, <1>3

\* Every step of the system keeps Truth.
LEMMA NextTruth ==
  ASSUME Op = "tableUpdate", ~Hibernates, Trusted, [Next]_vars PROVE Truth'
  <1> USE NamesAssumption DEF Trusted, Inductive, Truth, HashesSettled, RecordFits, SuccessesFit, HoldersAreCurrent,
          AttemptsFit, AnswersAndRowsAreTrue, RejectionMeansNotApplied, Applied, Settling, Holding, BeforeSend
  <1>1. ASSUME NEW a \in Attempts, Arrive(a) PROVE Truth'
    <2>1. ASSUME NEW h \in Hashes, Enter(a, h) PROVE Truth'
      <3>1. /\ pc[a] = "idle" /\ wire[a] = "unsent" /\ answer[a] = NoAnswer /\ owner # a
            /\ hash' = [hash EXCEPT ![a] = h] /\ pc' = [pc EXCEPT ![a] = "claim"]
            /\ UNCHANGED <<rec, owner, lapsed, late, err, snap, audit, answer, wire, reply>>
        BY <2>1 DEF Enter, Goto, ledgerVars, snVars, Protocol, NothingSentYet
      <3>2. HashesSettled' /\ RecordFits' /\ SuccessesFit' /\ HoldersAreCurrent'
        BY <3>1 DEF TypeOK
      <3>3. AttemptsFit' /\ RejectionMeansNotApplied'
        BY <3>1 DEF TypeOK
      <3>4. AnswersAndRowsAreTrue'
        BY <3>1 DEF TypeOK, NoAnswer
      <3> QED
        BY <3>2, <3>3, <3>4
    <2>2. CASE RefuseMisconfigured(a)
      BY <2>2 DEF RefuseMisconfigured, Goto, Return, Failure, ledgerVars, snVars, TypeOK
    <2>3. CASE RefuseFrozenOrKeyless(a)
      BY <2>3 DEF RefuseFrozenOrKeyless, Goto, ledgerVars, snVars, TypeOK
    <2> QED
      BY <1>1, <2>1, <2>2, <2>3 DEF Arrive
  <1>2. ASSUME NEW a \in Attempts, Step(a) PROVE Truth'
    BY <1>2, StepTruth
  <1>3. ASSUME NEW a \in Attempts, ServiceNow(a) PROVE Truth'
    <2>1. /\ wire[a] = "inflight" /\ UNCHANGED <<ledgerVars, late, attemptVars>>
          /\ wire' = [wire EXCEPT ![a] = "applied"] \/ wire' = [wire EXCEPT ![a] = "refused"]
      BY <1>3 DEF ServiceNow
    <2>2. \A b \in Attempts : reply'[b] \in Successes => wire'[b] = "applied"
      <3> HIDE GuardAssumption
      <3> QED
        BY <1>3, SuccessMeansApplied, NoReply DEF ServiceNow, TypeOK
    <2>3. HashesSettled' /\ HoldersAreCurrent'
      BY <2>1 DEF ledgerVars, attemptVars, TypeOK
    <2>4. RecordFits' /\ SuccessesFit'
      BY <2>1, <2>2 DEF ledgerVars, attemptVars, TypeOK
    <2>5. AttemptsFit'
      BY <2>1 DEF ledgerVars, attemptVars, TypeOK
    <2>6. AnswersAndRowsAreTrue'
      BY <2>1 DEF ledgerVars, attemptVars, TypeOK
    <2>7. RejectionMeansNotApplied'
      BY <2>1 DEF ledgerVars, attemptVars, TypeOK
    <2> QED
      BY <2>3, <2>4, <2>5, <2>6, <2>7
  <1>4. ASSUME NEW a \in Attempts, Die(a) PROVE Truth'
    BY <1>4, NoReply DEF Die, Goto, ledgerVars, TypeOK
  <1>5. ASSUME NEW m \in late, LateCallArrives(m) PROVE Truth'
    BY <1>5, LateTruth
  <1>6. ASSUME NEW m \in late, LateCallIsLost(m) PROVE Truth'
    BY <1>6 DEF LateCallIsLost, ledgerVars, attemptVars, snVars
  <1>7. CASE LedgerAlarm
    BY <1>7, AlarmTruth
  <1>8. CASE Tick
    <2>1. rec'.status = rec.status /\ rec'.hash = rec.hash
      BY <1>8 DEF Tick, Aged, TypeOK, RecordType
    <2> QED
      BY <1>8, <2>1 DEF Tick, attemptVars, snVars
  <1>9. CASE UNCHANGED vars
    BY <1>9 DEF vars, ledgerVars, attemptVars, snVars
  <1> QED
    BY <1>1, <1>2, <1>3, <1>4, <1>5, <1>6, <1>7, <1>8, <1>9 DEF Next

\* The whole invariant holds at the start and is kept by every step.
LEMMA TrustedIsInductive ==
  ASSUME Op = "tableUpdate", ~Hibernates
  PROVE  /\ Init => Trusted
         /\ Trusted /\ [Next]_vars => Trusted'
  <1>1. Init => TypeOK
    BY NoRecordType DEF Init, TypeOK, NoRecord, NoAnswer, Steps, Rows, Calls
  <1>2. Init => Protocol
    BY DEF Init, Protocol, ClaimsHeld, LateCallsOwned, Settling, NothingSentYet, RepliesFit,
           DefiniteErrorsFit, SentIsOnRecord, ResultIsOwners, Holding, NoRecord
  <1>3. Init => Truth
    BY NoReply, NamesAssumption
    DEF Init, Truth, HashesSettled, RecordFits, SuccessesFit, HoldersAreCurrent, AttemptsFit,
        AnswersAndRowsAreTrue, RejectionMeansNotApplied, Applied, Settling, Holding, NoRecord, NoAnswer
  <1>4. Trusted /\ [Next]_vars => Trusted'
    BY NextTypes, NextProtocol, NextTruth DEF Trusted, Inductive
  <1> QED
    BY <1>1, <1>2, <1>3, <1>4 DEF Trusted, Inductive

-----------------------------------------------------------------------------
(***************************************************************************)
(* What the invariant gives.                                               *)
(***************************************************************************)

\* Whoever is told of a success is told of an update that was carried out for
\* its own request, and no audit row calls an update applied that was not, or
\* failed one that may have been.
THEOREM UpdateReportsAreTrue ==
  ASSUME Op = "tableUpdate", ~Hibernates PROVE Spec => []AnswersAndRowsAreTrue
  <1>1. Trusted => AnswersAndRowsAreTrue
    BY DEF Trusted, Truth
  <1> QED
    BY <1>1, TrustedIsInductive, PTL DEF Spec

\* A key is freed for a retry only if the update of the attempt that claimed it
\* was not carried out and never will be.
THEOREM UpdateRejectedNotApplied ==
  ASSUME Op = "tableUpdate", ~Hibernates PROVE Spec => []RejectionMeansNotApplied
  <1>1. Trusted => RejectionMeansNotApplied
    BY DEF Trusted, Truth
  <1> QED
    BY <1>1, TrustedIsInductive, PTL DEF Spec

\* Once the outcome of an update is on record as unknown it stays there, and no
\* attempt sends again, however late and whatever is retried.
THEOREM UnknownUpdateIsFinal ==
  ASSUME Op = "tableUpdate", ~Hibernates PROVE Spec => NoSendAfterUnknown
  <1> DEFINE Kept == rec.status = "indeterminate" =>
                       /\ rec'.status = "indeterminate"
                       /\ \A a \in Attempts : wire[a] = "unsent" => wire'[a] = "unsent"
  <1>1. ASSUME Trusted, [Next]_vars PROVE Kept
    <2> SUFFICES ASSUME rec.status = "indeterminate" PROVE Kept
      OBVIOUS
    <2>0. /\ TypeOK /\ rec \in RecordType
          /\ Settling = {} /\ \A b \in Attempts : pc[b] \notin Holding
      BY <1>1, NobodyHolds DEF Trusted, Inductive, TypeOK
    <2>1. ASSUME NEW a \in Attempts, Arrive(a) PROVE Kept
      BY <2>1 DEF Arrive, Enter, RefuseMisconfigured, RefuseFrozenOrKeyless, ledgerVars, snVars
    <2>2. ASSUME NEW a \in Attempts, Step(a) PROVE Kept
      <3>1. \/ ClaimGranted(a) \/ ClaimReplays(a) \/ ClaimBlocked(a) \/ ClaimThrows(a)
            \/ AuditError(a) \/ AuditOk(a) \/ Deny(a)
        BY <2>0, <2>2 DEF Step, Holding, Preflight, TakeSnapshot, WriteIntent, FailBeforeSend, Send,
           ReceiveSuccess, ReceiveError, TransportFails, Settle, Complete, Unclaim
      <3>2. ASSUME LedgerExecutes(a, "begin"), UNCHANGED wire PROVE Kept
        BY <2>0, <3>2, BeginEffect
      <3> QED
        BY <3>1, <3>2 DEF ClaimGranted, ClaimReplays, ClaimBlocked, ClaimThrows, AuditError, AuditOk, Deny,
           CallLedger, CallThrows, ledgerVars, snVars
    <2>3. ASSUME NEW a \in Attempts, ServiceNow(a) PROVE Kept
      BY <2>0, <2>3 DEF ServiceNow, ledgerVars, TypeOK
    <2>4. ASSUME NEW a \in Attempts, Die(a) PROVE Kept
      BY <2>4 DEF Die, ledgerVars
    <2>5. ASSUME NEW m \in late, LateCallArrives(m) PROVE Kept
      <3>1. m.from \in Attempts /\ LedgerExecutes(m.from, "begin") /\ UNCHANGED wire
        BY <2>0, <2>5 DEF LateCallArrives, Settling, TypeOK, snVars
      <3> QED
        BY <2>0, <3>1, BeginEffect
    <2>6. ASSUME NEW m \in late, LateCallIsLost(m) PROVE Kept
      BY <2>6 DEF LateCallIsLost, ledgerVars, snVars
    <2>7. CASE LedgerAlarm
      BY <2>0, <2>7, LiveCases DEF LedgerAlarm, LedgerStores, snVars
    <2>8. CASE Tick
      <3>1. rec'.status = rec.status
        BY <2>0, <2>8 DEF Tick, Aged, RecordType
      <3> QED
        BY <2>8, <3>1 DEF Tick, snVars
    <2>9. CASE UNCHANGED vars
      BY <2>9 DEF vars, ledgerVars, snVars
    <2> QED
      BY <1>1, <2>1, <2>2, <2>3, <2>4, <2>5, <2>6, <2>7, <2>8, <2>9 DEF Next
  <1>2. Trusted /\ [Next]_vars => [Kept]_vars
    BY <1>1
  <1> QED
    BY <1>2, TrustedIsInductive, PTL DEF Spec, NoSendAfterUnknown

-----------------------------------------------------------------------------
(***************************************************************************)
(* The refinement: every step is a step of EffectOnce or leaves it alone.  *)
(***************************************************************************)

\* The effect the current retention period holds is the one that is carried out
\* and has not lapsed.
LEMMA CurrentIs ==
  ASSUME AtMostOnce
  PROVE  /\ Applied \ lapsed = {} => Current = NoAttempt
         /\ \A a \in Applied \ lapsed : Current = a
  BY DEF AtMostOnce, Current, Applied

\* A step that touches no hash, effect, lapsed result or answer is a stutter.
LEMMA Stutters ==
  ASSUME UNCHANGED <<hash, Applied, lapsed, Told>> PROVE UNCHANGED Abstract!vars
  BY DEF Abstract!vars, Current

\* A completed record whose result lapses ends its retention period.
LEMMA LapseRetires ==
  ASSUME Trusted, AtMostOnce, AtMostOnce', UNCHANGED <<hash, wire, Told>>,
         rec.status = "completed", lapsed' = lapsed \cup {rec.result.of}
  PROVE  Abstract!Retire
  <1>1. rec.result.of = owner /\ owner \in Applied \ lapsed
    BY DEF Trusted, Inductive, Protocol, ResultIsOwners, Truth, RecordFits, Applied
  <1>2. Current = owner /\ owner # NoAttempt
    BY <1>1, CurrentIs, NamesAssumption DEF Applied
  <1>3. Applied' = Applied /\ Applied \ lapsed' = {}
    BY <1>1 DEF Applied, AtMostOnce
  <1>4. Current' = NoAttempt
    BY <1>3 DEF Current
  <1> QED
    BY <1>1, <1>2, <1>4 DEF Abstract!Retire

\* What a ledger call does to the abstract state, when it answers nobody.
LEMMA LedgerMaps ==
  ASSUME Trusted, AtMostOnce, AtMostOnce', NEW a \in Attempts, NEW c \in Calls, LedgerExecutes(a, c),
         c # "begin" => rec.status = "started", UNCHANGED <<hash, wire, Told>>
  PROVE  Abstract!Next \/ UNCHANGED Abstract!vars
  <1>1. \/ UNCHANGED lapsed
        \/ rec.status = "completed" /\ lapsed' = lapsed \cup {rec.result.of}
    BY DEF LedgerExecutes, LedgerStores
  <1>2. CASE UNCHANGED lapsed
    BY <1>2 DEF Abstract!vars, Current, Applied
  <1>3. CASE rec.status = "completed" /\ lapsed' = lapsed \cup {rec.result.of}
    BY <1>3, LapseRetires DEF Abstract!Next
  <1> QED
    BY <1>1, <1>2, <1>3

\* An attempt that ends without a success tells nobody of an effect.
LEMMA FailureTellsNothing ==
  ASSUME Trusted, NEW a \in Attempts, pc[a] \notin {"done", "dead"},
         answer' = answer \/ answer' = [answer EXCEPT ![a] = Failure]
  PROVE  Told' = Told
  <1>1. answer[a].of = NoAttempt /\ Failure.of = NoAttempt
    BY DEF Trusted, Truth, AttemptsFit, NoAnswer, Failure
  <1>2. answer \in [Attempts -> [kind : {"none", "error", "executed", "replay"}, of : Attempts \cup {NoAttempt}]]
    BY DEF Trusted, Inductive, TypeOK
  <1> QED
    BY <1>1, <1>2 DEF Told

\* An attempt that is told of a lasting effect of its own request hears an answer.
LEMMA SuccessAnswers ==
  ASSUME Trusted, AtMostOnce, NEW a \in Attempts, NEW e \in Applied, pc[a] \notin {"done", "dead"},
         hash[e] = hash[a], UNCHANGED <<hash, wire, lapsed>>,
         NEW v, v.of = e, answer' = [answer EXCEPT ![a] = v]
  PROVE  Abstract!Next
  <1>1. answer[a].of = NoAttempt
    BY DEF Trusted, Truth, AttemptsFit, NoAnswer
  <1>2. e \in lapsed \/ Current = e
    BY CurrentIs
  <1>3. e \in Attempts /\ e # NoAttempt
    BY NamesAssumption DEF Applied
  <1>4. Told[a] = NoAttempt /\ Told' = [Told EXCEPT ![a] = e]
    <2>1. answer \in [Attempts -> [kind : {"none", "error", "executed", "replay"}, of : Attempts \cup {NoAttempt}]]
      BY DEF Trusted, Inductive, TypeOK
    <2> QED
      BY <1>1, <2>1 DEF Told
  <1>5. UNCHANGED Current
    BY DEF Current, Applied
  <1>6. Abstract!Answer(a, e)
    BY <1>2, <1>3, <1>4, <1>5 DEF Abstract!Answer
  <1> QED
    BY <1>3, <1>6 DEF Abstract!Next

\* Every step of an attempt's own code maps.
LEMMA StepMaps ==
  ASSUME Trusted, AtMostOnce, AtMostOnce', NEW a \in Attempts, Step(a)
  PROVE  Abstract!Next \/ UNCHANGED Abstract!vars
  <1>1. ASSUME UNCHANGED <<wire, hash, lapsed>>, pc[a] \notin {"done", "dead"},
               answer' = answer \/ answer' = [answer EXCEPT ![a] = Failure]
        PROVE  UNCHANGED Abstract!vars
    BY <1>1, FailureTellsNothing, Stutters DEF Applied
  <1>2. ASSUME NEW c \in Calls, CallLedger(a, c), pc[a] \in Holding \cup {"claim"},
               c # "begin" => pc[a] \in Holding,
               UNCHANGED <<wire, hash, answer>>
        PROVE  Abstract!Next \/ UNCHANGED Abstract!vars
    <2>1. c # "begin" => rec.status = "started"
      BY <1>2, HolderIsAlone DEF Trusted
    <2> QED
      BY <1>2, <2>1, LedgerMaps DEF CallLedger, Told
  <1>3. CASE ClaimGranted(a)
    BY <1>2, <1>3 DEF ClaimGranted, snVars, Calls
  <1>4. CASE ClaimBlocked(a)
    BY <1>2, <1>4 DEF ClaimBlocked, snVars, Calls
  <1>5. CASE ClaimReplays(a)
    <2>1. /\ LedgerExecutes(a, "begin") /\ UNCHANGED <<hash, wire>>
          /\ Live(rec).status = "completed" /\ Live(rec).hash = hash[a]
      BY <1>5 DEF ClaimReplays, CallLedger, BeginReply, snVars
    <2>2. /\ rec.status = "completed" /\ rec.hash = hash[a] /\ Live(rec).result.of = owner
          /\ UNCHANGED lapsed
      BY <2>1, LiveCases, LiveHash DEF Trusted, Inductive, Protocol, ResultIsOwners, TypeOK, LedgerExecutes, LedgerStores
    <2>3. owner \in Applied /\ hash[owner] = hash[a]
      BY <2>2 DEF Trusted, Truth, RecordFits, Applied
    <2>4. CASE answer' = [answer EXCEPT ![a] = Replayed(owner)]
      BY <1>5, <2>1, <2>2, <2>3, <2>4, SuccessAnswers DEF ClaimReplays, Replayed
    <2>5. CASE answer' = answer
      BY <1>1, <1>5, <2>1, <2>2, <2>5 DEF ClaimReplays
    <2> QED
      BY <1>5, <2>2, <2>4, <2>5 DEF ClaimReplays, Return
  <1>6. CASE AuditOk(a)
    <2>1. a \in Applied
      BY <1>6 DEF AuditOk, Trusted, Truth, SuccessesFit, Applied
    <2> QED
      BY <1>6, <2>1, SuccessAnswers DEF AuditOk, Return, Executed, ledgerVars, snVars
  <1>7. CASE Send(a)
    <2>1. UNCHANGED Applied
      BY <1>7 DEF Send, Applied, Trusted, Inductive, TypeOK, Protocol, NothingSentYet, BeforeSend
    <2> QED
      BY <1>7, <2>1, Stutters DEF Send, ledgerVars, Told
  <1>8. CASE Settle(a)
    <2> DEFINE c == IF PostSendUnknown(err[a]) THEN "markIndeterminate" ELSE "fail"
    <2>1. CASE CallLedger(a, c)
      BY <1>2, <1>8, <2>1 DEF Settle, snVars, Calls, Holding
    <2>2. CASE CallThrows(a, c)
      BY <1>1, <1>8, <2>2 DEF Settle, CallThrows, ledgerVars, snVars
    <2> QED
      BY <1>8, <2>1, <2>2 DEF Settle
  <1>9. CASE Complete(a)
    <2>1. CASE CallLedger(a, "complete")
      BY <1>2, <1>9, <2>1 DEF Complete, snVars, Calls, Holding
    <2>2. CASE CallThrows(a, "complete")
      BY <1>1, <1>9, <2>2 DEF Complete, CallThrows, ledgerVars, snVars
    <2> QED
      BY <1>9, <2>1, <2>2 DEF Complete
  <1>10. CASE Unclaim(a)
    <2>1. CASE CallLedger(a, "fail") /\ UNCHANGED answer
      BY <1>2, <1>10, <2>1 DEF Unclaim, snVars, Calls, Holding
    <2>2. CASE CallThrows(a, "fail") /\ Return(a, Failure)
      BY <1>1, <1>10, <2>2 DEF Unclaim, CallThrows, Return, ledgerVars, snVars
    <2> QED
      BY <1>10, <2>1, <2>2 DEF Unclaim
  <1>11. CASE ClaimThrows(a) \/ Preflight(a) \/ TakeSnapshot(a) \/ WriteIntent(a) \/ FailBeforeSend(a)
    BY <1>1, <1>11 DEF ClaimThrows, Preflight, TakeSnapshot, WriteIntent, FailBeforeSend, CallThrows, Return,
       ledgerVars, snVars
  <1>12. CASE ReceiveSuccess(a) \/ ReceiveError(a) \/ TransportFails(a) \/ AuditError(a) \/ Deny(a)
    BY <1>1, <1>12 DEF ReceiveSuccess, ReceiveError, TransportFails, AuditError, Deny, Return, ledgerVars, snVars
  <1> QED
    BY <1>3, <1>4, <1>5, <1>6, <1>7, <1>8, <1>9, <1>10, <1>11, <1>12 DEF Step

\* Every step of the system maps.
LEMMA NextMaps ==
  ASSUME Trusted, AtMostOnce, AtMostOnce', [Next]_vars
  PROVE  [Abstract!Next]_(Abstract!vars)
  <1>1. ASSUME NEW a \in Attempts, Arrive(a) PROVE Abstract!Next \/ UNCHANGED Abstract!vars
    <2>1. ASSUME NEW h \in Hashes, Enter(a, h) PROVE Abstract!Next
      <3>1. hash[a] = NoHash
        BY <2>1 DEF Enter, Trusted, Truth, HashesSettled
      <3>2. UNCHANGED <<Current, lapsed, Told>>
        BY <2>1 DEF Enter, ledgerVars, snVars, Current, Applied, Told
      <3>3. Abstract!Submit(a, h)
        BY <2>1, <3>1, <3>2 DEF Enter, Abstract!Submit
      <3> QED
        BY <3>3 DEF Abstract!Next
    <2>2. CASE RefuseMisconfigured(a) \/ RefuseFrozenOrKeyless(a)
      BY <2>2, FailureTellsNothing, Stutters DEF RefuseMisconfigured, RefuseFrozenOrKeyless, Return,
         ledgerVars, snVars, Applied
    <2> QED
      BY <1>1, <2>1, <2>2 DEF Arrive
  <1>2. ASSUME NEW a \in Attempts, Step(a) PROVE Abstract!Next \/ UNCHANGED Abstract!vars
    BY <1>2, StepMaps
  <1>3. ASSUME NEW a \in Attempts, ServiceNow(a) PROVE Abstract!Next \/ UNCHANGED Abstract!vars
    <2>1. /\ wire[a] = "inflight" /\ UNCHANGED <<hash, lapsed, Told>> /\ wire \in [Attempts -> {"unsent", "inflight", "applied", "refused"}]
          /\ \/ wire' = [wire EXCEPT ![a] = "applied"]
             \/ wire' = [wire EXCEPT ![a] = "refused"]
      BY <1>3 DEF ServiceNow, ledgerVars, attemptVars, Told, Trusted, Inductive, TypeOK
    <2>2. CASE wire' = [wire EXCEPT ![a] = "refused"]
      <3>1. UNCHANGED Applied
        BY <2>1, <2>2 DEF Applied
      <3> QED
        BY <2>1, <3>1, Stutters
    <2>3. CASE wire' = [wire EXCEPT ![a] = "applied"]
      <3>1. a \notin lapsed /\ owner = a /\ hash[a] # NoHash
        BY <2>1, NamesAssumption DEF Trusted, Truth, SuccessesFit, HashesSettled, Inductive, Protocol, SentIsOnRecord
      <3>2. Applied \ lapsed = {}
        BY <2>1, <3>1 DEF Trusted, Inductive, Protocol, SentIsOnRecord, Applied
      <3>3. Applied' = Applied \cup {a}
        BY <2>1, <2>3 DEF Applied
      <3>4. a \in Applied' \ lapsed' /\ Applied' \ lapsed' = {a}
        BY <2>1, <3>1, <3>2, <3>3
      <3>5. Current = NoAttempt /\ Current' = a
        BY <3>2, <3>4 DEF Current
      <3>6. Abstract!Apply(a)
        BY <2>1, <3>1, <3>5 DEF Abstract!Apply
      <3> QED
        BY <3>6 DEF Abstract!Next
    <2> QED
      BY <2>1, <2>2, <2>3
  <1>4. ASSUME NEW a \in Attempts, Die(a) PROVE Abstract!Next \/ UNCHANGED Abstract!vars
    BY <1>4, Stutters DEF Die, ledgerVars, Applied, Told
  <1>5. ASSUME NEW m \in late, LateCallArrives(m) PROVE Abstract!Next \/ UNCHANGED Abstract!vars
    <2>1. /\ m.from \in Attempts /\ m.call \in Calls /\ LedgerExecutes(m.from, m.call)
          /\ UNCHANGED <<hash, wire, Told>>
      BY <1>5 DEF LateCallArrives, Trusted, Inductive, TypeOK, attemptVars, snVars, Told
    <2>2. m.call # "begin" => rec.status = "started"
      BY DEF Trusted, Inductive, Protocol, LateCallsOwned, Settling, Granted
    <2> QED
      BY <2>1, <2>2, LedgerMaps
  <1>6. ASSUME NEW m \in late, LateCallIsLost(m) PROVE UNCHANGED Abstract!vars
    BY <1>6, Stutters DEF LateCallIsLost, ledgerVars, attemptVars, snVars, Applied, Told
  <1>7. CASE LedgerAlarm
    <2>1. /\ UNCHANGED <<hash, wire, Told, Applied>>
          /\ \/ UNCHANGED lapsed
             \/ rec.status = "completed" /\ lapsed' = lapsed \cup {rec.result.of}
      BY <1>7 DEF LedgerAlarm, LedgerStores, attemptVars, snVars, Told, Applied
    <2> QED
      BY <2>1, LapseRetires, Stutters DEF Abstract!Next
  <1>8. CASE Tick
    BY <1>8, Stutters DEF Tick, attemptVars, snVars, Applied, Told
  <1>9. CASE UNCHANGED vars
    BY <1>9, Stutters DEF vars, ledgerVars, attemptVars, snVars, Applied, Told
  <1> QED
    BY <1>1, <1>2, <1>3, <1>4, <1>5, <1>6, <1>7, <1>8, <1>9 DEF Next

\* The guard with its ledger is the one-effect register of EffectOnce: callers
\* of tableUpdate cannot tell them apart, whatever is lost, late or evicted.
THEOREM UpdateImplementsEffectOnce ==
  ASSUME Op = "tableUpdate", ~Hibernates PROVE Spec => ImplementsEffectOnce
  <1>1. Init => Abstract!Init
    BY DEF Init, Abstract!Init, Current, Applied, Told, NoAnswer
  <1>2. Trusted => AtMostOnce
    BY DEF Trusted, Inductive, Protocol, SentIsOnRecord, AtMostOnce, Applied
  <1>3. Trusted /\ AtMostOnce /\ AtMostOnce' /\ [Next]_vars => [Abstract!Next]_(Abstract!vars)
    BY NextMaps
  <1> QED
    BY <1>1, <1>2, <1>3, TrustedIsInductive, PTL DEF Spec, Abstract!Spec, ImplementsEffectOnce

=============================================================================
