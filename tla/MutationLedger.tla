--------------------------- MODULE MutationLedger ---------------------------
(***************************************************************************)
(* One MutationLedgerDO object, called in any order by any number of       *)
(* callers (do/mutation-ledger.ts).  Each method runs to completion before *)
(* the next starts (mutationChain and the object's input gate), so each is *)
(* one action.  alarm is the object's single alarm, in ticks from now.     *)
(***************************************************************************)
EXTENDS LedgerRecord

VARIABLES rec,    \* storage, key "rec"
          alarm   \* ticks until the alarm is due, or NoAlarm

ledgerVars == <<rec, alarm>>

NoAlarm == Retention + 1

\* An object is created empty, or holds a record of a release that wrote no
\* expiresAt, set no alarm and stored results unwrapped.
LegacyRecords ==
  [status : (Status \ {"completed"}) \cup {"malformed"}, hash : Hashes,
   ttl : {NoTtl}, result : {NoResult}]
  \cup [status : {"completed"}, hash : Hashes, ttl : {NoTtl},
        result : [wrapped : {FALSE}, of : Results]]

LedgerTypeOK == rec \in RecordType /\ alarm \in 0..NoAlarm

LedgerInit == rec \in {NoRecord} \cup LegacyRecords /\ alarm = NoAlarm

\* getActiveRecord re-arms the alarm for a record it migrates and leaves it
\* alone otherwise; a delete does not clear it.
ReadAlarm == IF IsRenewed(rec) \/ IsRewrapped(rec) THEN Live(rec).ttl ELSE alarm

\* Mutant: putRecord forgets to set the alarm.
MutStore(r) == rec' = r /\ alarm' = ReadAlarm

\* A method leaves r: either what the read found, or a newly put record.
Store(r) == /\ rec' = r
            /\ alarm' = IF r = Live(rec) THEN ReadAlarm ELSE r.ttl

Begin(h)          == Store(AfterBegin(rec, h))
Complete(v)       == Store(AfterComplete(rec, [wrapped |-> FALSE, of |-> v]))
Fail              == Store(AfterFail(rec))
MarkIndeterminate == Store(AfterMarkIndeterminate(rec))
ReadStatus        == Store(Live(rec))

\* The platform runs alarm() at or after its time, having cleared it.
Alarm == /\ alarm = 0
         /\ rec' = Live(rec)
         /\ alarm' = IF Live(rec) = NoRecord THEN NoAlarm ELSE Live(rec).ttl

Tick == /\ rec' = Aged(rec)
        /\ alarm' = IF alarm \in 1..Retention THEN alarm - 1 ELSE alarm

LedgerNext == \/ \E h \in Hashes : Begin(h)
              \/ \E v \in Results : Complete(v)
              \/ Fail
              \/ MarkIndeterminate
              \/ ReadStatus
              \/ Alarm
              \/ Tick

LedgerSpec == LedgerInit /\ [][LedgerNext]_ledgerVars

\* Time passes and the platform delivers due alarms; callers owe nothing.
FairSpec == LedgerSpec /\ WF_ledgerVars(Tick) /\ WF_ledgerVars(Alarm)
-----------------------------------------------------------------------------
(***************************************************************************)
(* Properties.                                                             *)
(***************************************************************************)

\* S17: no sequence of calls, ticks and alarms ever moves an indeterminate
\* record, so its key is never handed out for execution again.
UnknownOutcomeIsKept ==
  [][rec.status = "indeterminate" =>
       rec'.status = "indeterminate" /\ rec'.hash = rec.hash]_ledgerVars

\* A completed record keeps its hash and result until its retention ends, and
\* reading or replaying it does not lengthen the retention.
StoredResultIsFinal ==
  [][rec.status = "completed" /\ rec.ttl \in 1..Retention =>
       /\ rec'.status = "completed" /\ rec'.hash = rec.hash
       /\ rec'.result.of = rec.result.of
       /\ rec'.ttl <= rec.ttl]_ledgerVars

\* A settled outcome is dropped in the end even if no one touches the key again.
SettledIsDropped ==
  rec.status \in {"completed", "failed"} /\ rec.ttl # NoTtl
    ~> rec.status \notin {"completed", "failed"}
=============================================================================
