---------------------------- MODULE OneTimeRecord ----------------------------
(***************************************************************************)
(* The storage of one AuthCorrelationDO object.  Callers name an object    *)
(* after one state, consent or ticket nonce, so an object holds one record *)
(* of one kind: its content, when it expires, and the storage alarm.       *)
(***************************************************************************)
EXTENDS Integers

CONSTANT None

Empty == [record |-> None, alarm |-> None]

\* cleanupExpired: an expired record goes, a live one keeps its alarm.
CleanupExpired(object, now) ==
    IF object.record # None /\ object.record.expiresAt > now
    THEN [object EXCEPT !.alarm = object.record.expiresAt]
    ELSE Empty

\* Mutant: the alarm is not set.
MutCreate(record) == [record |-> record, alarm |-> None]

\* createRecord, createOidcRecord, createOidcConsentRecord
Create(record) == [record |-> record, alarm |-> record.expiresAt]

\* Mutant: the record is read, the delete forgotten.
MutConsume(object) == object

\* consumeRecord, consumeOidcRecord, consumeOidcConsentRecord: the caller gets
\* object.record and checks its expiry; nothing stays behind.
Consume(object) == Empty

\* Mutant: a claim overwrites the claim before it.
MutClaimable(object, now) == TRUE

\* consumeTicketNonce answers true
Claimable(object, now) == CleanupExpired(object, now).record = None

AlarmDue(object, now) == object.alarm # None /\ object.alarm <= now
=============================================================================
