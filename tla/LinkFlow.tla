------------------------------- MODULE LinkFlow -------------------------------
(***************************************************************************)
(* Linking an MCP user to a ServiceNow account.  A reauth answer carries a *)
(* ticket; GET /servicenow/authorize claims its nonce and leaves a record  *)
(* under a fresh state; GET /servicenow/callback consumes the record and   *)
(* stores the tokens of whoever signed in, if the binding allows it.       *)
(* Both routes await several objects, may die between two of them, and are *)
(* called again whenever a browser reloads or a person shares the link.    *)
(***************************************************************************)
EXTENDS OneTimeRecord, FiniteSets

CONSTANTS
    Users, Accounts, \* MCP users and ServiceNow accounts
    Own,             \* Own[u]: accounts whose email or user name is u's; {} when u has no email
    Tickets,         \* ticket nonces
    Visits,          \* GET /servicenow/authorize; a visit names the state it creates
    Callbacks,       \* GET /servicenow/callback
    LinkedBefore,    \* [Users -> Accounts or None]: principals stored at the start
    TicketTtl, StateTtl, \* ten minutes each in the code
    MaxTime          \* bound of an instance

Ticket == [user : Users, expected : Accounts \cup {None}, exp : Nat]
Claim == [expiresAt : Nat]
Record == [user : Users, expected : Accounts \cup {None}, expiresAt : Nat]

ASSUME LinkAssumption ==
    /\ Own \in [Users -> SUBSET Accounts]
    /\ LinkedBefore \in [Users -> Accounts \cup {None}]
    /\ TicketTtl \in Nat \ {0} /\ StateTtl \in Nat \ {0} /\ MaxTime \in Nat
    /\ None \notin Accounts \cup Ticket \cup Claim \cup Record

VARIABLES
    now,      \* Date.now()
    ticket,   \* tickets handed out
    nonce,    \* object ticket:<nonce>
    visit,    \* the authorize requests
    state,    \* object state:<state>
    callback, \* the callback requests
    linked,   \* principal stored with the tokens of each user
    used      \* history: the times at which each ticket was claimed

vars == <<now, ticket, nonce, visit, state, callback, linked, used>>

NewVisit == [phase |-> "new", ticket |-> None, at |-> 0]
NewCallback == [phase |-> "new", record |-> None, account |-> None, state |-> None]

Init ==
    /\ now = 0
    /\ ticket = [t \in Tickets |-> None]
    /\ nonce = [t \in Tickets |-> Empty]
    /\ visit = [v \in Visits |-> NewVisit]
    /\ state = [v \in Visits |-> Empty]
    /\ callback = [c \in Callbacks |-> NewCallback]
    /\ linked = LinkedBefore
    /\ used = [t \in Tickets |-> {}]

\* reauthAuthorizeUrl: no ticket for a user with neither email nor readable
\* principal.  No record is to outlive the clock of the instance.
MintTicket(t, u) ==
    /\ ticket[t] = None /\ now + TicketTtl + StateTtl <= MaxTime
    /\ \E known \in {linked[u], None} :
           /\ Own[u] # {} \/ known # None
           /\ ticket' = [ticket EXCEPT ![t] = [user |-> u, expected |-> known, exp |-> now + TicketTtl]]
    /\ UNCHANGED <<now, nonce, visit, state, callback, linked, used>>

-----------------------------------------------------------------------------
(* GET /servicenow/authorize                                               *)

TicketHolds(t) == now <= ticket[t].exp

VerifyTicket(v, t) ==
    /\ visit[v].phase = "new" /\ ticket[t] # None
    /\ visit' = [visit EXCEPT ![v] = [phase |-> IF TicketHolds(t) THEN "verified" ELSE "refused",
                                      ticket |-> t, at |-> now]]
    /\ UNCHANGED <<now, ticket, nonce, state, callback, linked, used>>

\* consumeTicketNonce(nonce, exp, now), with the time the visit read.
ClaimNonce(v) ==
    LET t == visit[v].ticket
    IN  /\ visit[v].phase = "verified"
        /\ IF Claimable(nonce[t], visit[v].at)
           THEN /\ nonce' = [nonce EXCEPT ![t] = Create([expiresAt |-> ticket[t].exp])]
                /\ visit' = [visit EXCEPT ![v].phase = "claimed"]
                /\ used' = [used EXCEPT ![t] = @ \cup {<<v, now>>}]
           ELSE /\ nonce' = [nonce EXCEPT ![t] = CleanupExpired(@, visit[v].at)]
                /\ visit' = [visit EXCEPT ![v].phase = "refused"]
                /\ UNCHANGED used
        /\ UNCHANGED <<now, ticket, state, callback, linked>>

CreateState(v) ==
    LET t == ticket[visit[v].ticket]
    IN  /\ visit[v].phase = "claimed"
        /\ state' = [state EXCEPT ![v] = Create([user |-> t.user, expected |-> t.expected,
                                                 expiresAt |-> visit[v].at + StateTtl])]
        /\ visit' = [visit EXCEPT ![v].phase = "redirected"]
        /\ UNCHANGED <<now, ticket, nonce, callback, linked, used>>

\* The Worker dies, or an object cannot be reached.
VisitDies(v) ==
    /\ visit[v].phase \in {"verified", "claimed"}
    /\ visit' = [visit EXCEPT ![v].phase = "refused"]
    /\ UNCHANGED <<now, ticket, nonce, state, callback, linked, used>>

-----------------------------------------------------------------------------
(* GET /servicenow/callback                                                *)

ConsumeState(c, v) ==
    LET record == state[v].record
    IN  /\ callback[c].phase = "new" /\ visit[v].phase = "redirected"
        /\ state' = [state EXCEPT ![v] = IF record = None THEN @ ELSE Consume(@)]
        /\ callback' = [callback EXCEPT ![c] =
               [phase |-> IF record # None /\ now <= record.expiresAt THEN "consumed" ELSE "refused",
                record |-> record, account |-> None, state |-> v]]
        /\ UNCHANGED <<now, ticket, nonce, visit, linked, used>>

\* The code of whoever signed in is exchanged and the principal resolved.
Exchange(c, a) ==
    /\ callback[c].phase = "consumed"
    /\ callback' = [callback EXCEPT ![c].phase = "exchanged", ![c].account = a]
    /\ UNCHANGED <<now, ticket, nonce, visit, state, linked, used>>

\* Mutant: whoever signs in is linked.
MutAnyAccount(record, account, existing) == account \in Accounts

MatchesBinding(record, account, existing) ==
    LET expected == IF record.expected # None THEN record.expected ELSE existing
    IN  IF expected # None THEN account = expected ELSE account \in Own[record.user]

\* store.get fails on a record sealed under a key that is gone: no principal.
CheckBinding(c) ==
    LET k == callback[c]
    IN  /\ k.phase = "exchanged"
        /\ \E existing \in {linked[k.record.user], None} :
               callback' = [callback EXCEPT ![c].phase =
                   IF MatchesBinding(k.record, k.account, existing) THEN "bound" ELSE "refused"]
        /\ UNCHANGED <<now, ticket, nonce, visit, state, linked, used>>

StoreTokens(c) ==
    LET k == callback[c]
    IN  /\ k.phase = "bound"
        /\ linked' = [linked EXCEPT ![k.record.user] = k.account]
        /\ callback' = [callback EXCEPT ![c].phase = "linked"]
        /\ UNCHANGED <<now, ticket, nonce, visit, state, used>>

CallbackDies(c) ==
    /\ callback[c].phase \in {"consumed", "exchanged", "bound"}
    /\ callback' = [callback EXCEPT ![c].phase = "refused"]
    /\ UNCHANGED <<now, ticket, nonce, visit, state, linked, used>>

-----------------------------------------------------------------------------
AlarmOfNonce(t) ==
    /\ AlarmDue(nonce[t], now)
    /\ nonce' = [nonce EXCEPT ![t] = CleanupExpired(@, now)]
    /\ UNCHANGED <<now, ticket, visit, state, callback, linked, used>>

AlarmOfState(v) ==
    /\ AlarmDue(state[v], now)
    /\ state' = [state EXCEPT ![v] = CleanupExpired(@, now)]
    /\ UNCHANGED <<now, ticket, nonce, visit, callback, linked, used>>

Tick ==
    /\ now < MaxTime
    /\ now' = now + 1
    /\ UNCHANGED <<ticket, nonce, visit, state, callback, linked, used>>

Next ==
    \/ Tick
    \/ \E t \in Tickets : AlarmOfNonce(t) \/ \E u \in Users : MintTicket(t, u)
    \/ \E v \in Visits :
           \/ \E t \in Tickets : VerifyTicket(v, t)
           \/ ClaimNonce(v) \/ CreateState(v) \/ VisitDies(v) \/ AlarmOfState(v)
    \/ \E c \in Callbacks :
           \/ \E v \in Visits : ConsumeState(c, v)
           \/ \E a \in Accounts : Exchange(c, a)
           \/ CheckBinding(c) \/ StoreTokens(c) \/ CallbackDies(c)

Spec == Init /\ [][Next]_vars

\* The runtime delivers alarms, and the clock moves.
FairSpec ==
    /\ Spec
    /\ WF_vars(Tick)
    /\ \A t \in Tickets : WF_vars(AlarmOfNonce(t))
    /\ \A v \in Visits : WF_vars(AlarmOfState(v))

-----------------------------------------------------------------------------
(* Properties.                                                             *)

Objects(record) == {Empty} \cup [record : record, alarm : Nat]

TypeOK ==
    /\ now \in 0..MaxTime
    /\ ticket \in [Tickets -> Ticket \cup {None}]
    /\ nonce \in [Tickets -> Objects(Claim)]
    /\ state \in [Visits -> Objects(Record)]
    /\ visit \in [Visits -> [phase : {"new", "verified", "claimed", "redirected", "refused"},
                             ticket : Tickets \cup {None}, at : 0..MaxTime]]
    /\ callback \in [Callbacks ->
           [phase : {"new", "consumed", "exchanged", "bound", "linked", "refused"},
            record : Record \cup {None}, account : Accounts \cup {None}, state : Visits \cup {None}]]
    /\ linked \in [Users -> Accounts \cup {None}]
    /\ used \in [Tickets -> SUBSET (Visits \X Nat)]

\* A ticket is claimed once, as consumeTicketNonce says of itself.  The claim
\* is dropped at the expiry of the ticket, when verifyTicket still accepts it
\* and a visit that verified it earlier may still be on its way.
TicketIsOneShot == \A t \in Tickets : Cardinality(used[t]) <= 1

\* Before its expiry a ticket starts one flow, however often it is visited, and the state of a
\* flow is redeemed by one callback, however often it is delivered.
LinksAreUsedOnce ==
    /\ \A t \in Tickets : Cardinality({x \in used[t] : x[2] < ticket[t].exp}) <= 1
    /\ \A c, d \in Callbacks :
        /\ callback[c].state = callback[d].state
        /\ {callback[c].phase, callback[d].phase} \subseteq {"consumed", "exchanged", "bound", "linked"}
        => c = d

\* A user is linked to an account that was theirs from the start: the one
\* stored before, or one that bears their email; a foreign sign-in, a shared
\* link or a crossed callback never changes that.
LinkIsOwn ==
    \A u \in Users :
        linked[u] # None => IF LinkedBefore[u] # None /\ Own[u] = {} THEN linked[u] = LinkedBefore[u]
                            ELSE linked[u] \in Own[u] \cup {LinkedBefore[u]}

\* Records nobody redeems are erased.
RecordsAreErased ==
    /\ \A v \in Visits : []<>(state[v] = Empty)
    /\ \A t \in Tickets : []<>(nonce[t] = Empty)
=============================================================================
