---------------------------- MODULE LedgerRecord ----------------------------
(***************************************************************************)
(* The record a MutationLedgerDO keeps for one idempotency key, and what   *)
(* each of the object's methods does to it                                 *)
(* (packages/mcp-server/src/do/mutation-ledger.ts).                        *)
(*                                                                         *)
(* Time is relative: ttl is expiresAt - now, floored at 0, so a record is  *)
(* expired exactly when its ttl is 0.  NoTtl marks a record written before *)
(* expiresAt existed.                                                      *)
(***************************************************************************)
EXTENDS Naturals

CONSTANTS Hashes,     \* request hashes a caller may present
          Results,    \* results an effect may return
          Retention   \* MUTATION_LEDGER_RETENTION_MS, in ticks

ASSUME RetentionAssumption == Retention \in Nat \ {0}

NoHash   == "no hash"
NoTtl    == Retention + 1
NoResult == [wrapped |-> FALSE, of |-> "no result"]

Unresolved == {"started", "indeterminate"}
Status     == Unresolved \cup {"completed", "failed"}

\* "malformed" stands for a stored value with an unknown status or without a
\* string hash; "none" for an empty object.
ResultType == [wrapped : BOOLEAN, of : Results \cup {"no result"}]
RecordType == [status : Status \cup {"none", "malformed"},
               hash   : Hashes \cup {NoHash},
               ttl    : 0..NoTtl,
               result : ResultType]

NoRecord == [status |-> "none", hash |-> NoHash, ttl |-> NoTtl, result |-> NoResult]

\* replaySafeResult: a value already in the wrapper is kept, any other is
\* serialised into one.
ReplaySafe(result) == [result EXCEPT !.wrapped = TRUE]

(***************************************************************************)
(* normalizeLedgerRecordForStorage, by the kind it returns.                *)
(***************************************************************************)
IsMissing(r) == r.status \notin Status

\* Mutant: started and indeterminate records lapse like the others.
MutExpired(r) == r.status \in Status /\ r.ttl = 0

IsExpired(r) == /\ r.status \in Status
                /\ \/ r.ttl = 0 /\ r.status \notin Unresolved
                   \/ r.ttl = NoTtl /\ r.status = "failed"

\* Mutant: a completed record is renewed each time it is read.
MutRenewed(r) == /\ r.status \in Status
                 /\ \/ r.status = "completed"
                    \/ r.ttl = 0 /\ r.status \in Unresolved
                    \/ r.ttl = NoTtl /\ r.status # "failed"

IsRenewed(r) == /\ r.status \in Status
                /\ \/ r.ttl = 0 /\ r.status \in Unresolved
                   \/ r.ttl = NoTtl /\ r.status # "failed"

IsRewrapped(r) == r.status = "completed" /\ r.ttl \in 1..Retention

Migrated(r) ==
  [r EXCEPT !.ttl    = IF IsRenewed(r) THEN Retention ELSE @,
            !.result = IF r.status = "completed" THEN ReplaySafe(@) ELSE NoResult]

\* getActiveRecord: the record every method works on; it is also what the
\* object stores from then on (the put or the delete is part of the read).
Live(r) ==
  CASE IsMissing(r) \/ IsExpired(r)     -> NoRecord
    [] IsRenewed(r) \/ IsRewrapped(r)   -> Migrated(r)
    [] OTHER                            -> r

\* putRecord stamps a full retention period.
Stamped(status, h, result) ==
  [status |-> status, hash |-> h, ttl |-> Retention, result |-> result]

(***************************************************************************)
(* begin: the reply, and the record it leaves.                             *)
(***************************************************************************)
\* Mutant: a request under a used key is not compared with the stored hash.
MutReplayAnyHash(r, h) ==
  LET live == Live(r) IN
  CASE live.status \in {"none", "failed"} -> "new"
    [] live.status = "completed"          -> "replay"
    [] OTHER                              -> "blocked"

\* Mutant: a started attempt does not block the next one.
MutStartedIsNew(r, h) ==
  LET live == Live(r) IN
  CASE live.status = "none"      -> "new"
    [] live.status # "none" /\ live.hash # h -> "blocked"
    [] live.status \in {"failed", "started"} /\ live.hash = h -> "new"
    [] live.status = "completed" /\ live.hash = h -> "replay"
    [] OTHER                     -> "blocked"

BeginReply(r, h) ==
  LET live == Live(r) IN
  CASE live.status = "none"      -> "new"
    [] live.status # "none" /\ live.hash # h -> "blocked"
    [] live.status = "failed"    /\ live.hash = h -> "new"
    [] live.status = "completed" /\ live.hash = h -> "replay"
    [] OTHER                     -> "blocked"

AfterBegin(r, h) ==
  IF BeginReply(r, h) = "new" THEN Stamped("started", h, NoResult) ELSE Live(r)

(***************************************************************************)
(* complete, fail and markIndeterminate act on a started record only.      *)
(***************************************************************************)
Settled(r, status, result) ==
  LET live == Live(r) IN
  IF live.status = "started" THEN Stamped(status, live.hash, result) ELSE live

AfterComplete(r, result)   == Settled(r, "completed", ReplaySafe(result))
AfterFail(r)               == Settled(r, "failed", NoResult)
AfterMarkIndeterminate(r)  == Settled(r, "indeterminate", NoResult)

\* One tick of the clock.
Aged(r) == [r EXCEPT !.ttl = IF @ \in 1..Retention THEN @ - 1 ELSE @]
=============================================================================
