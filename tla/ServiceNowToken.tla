--------------------------- MODULE ServiceNowToken ---------------------------
(***************************************************************************)
(* The ServiceNow credential of one MCP user on one instance: the record   *)
(* of its TokenStoreDO object, the requests that reuse, refresh and stamp  *)
(* it, and the callbacks that replace it when the user signs in again.     *)
(* auth/servicenow-oauth.ts reads, awaits ServiceNow and writes back with  *)
(* no lock, so every read, every answer and every write is a step here.    *)
(***************************************************************************)
EXTENDS Integers

CONSTANTS
    Requests,      \* authenticated /mcp requests in flight
    Links,         \* browser flows that reach /servicenow/callback
    Accounts,      \* ServiceNow accounts a person may sign in with
    OwnAccounts,   \* the accounts whose email or user name is the actor's
    SharedAccount, \* the account of the ROPC credential
    Modes,         \* the credential modes an operator deploys
    Rotates,       \* ServiceNow replaces the refresh token at every refresh
    AccessLife,    \* life of an access token, less the 60 s margin
    PrincipalTtl,  \* SN_PRINCIPAL_TTL_MS
    OneChange,     \* whether the world of an instance changes in one way only
    MaxTime, MaxIssued, MaxRoles, MaxKek, None \* bounds of an instance

ASSUME SetsAssumption ==
    /\ OwnAccounts \subseteq Accounts /\ SharedAccount \notin Accounts
    /\ Modes # {} /\ Modes \subseteq {"per_user_oauth", "integration_user"}
    /\ Rotates \in BOOLEAN /\ OneChange \in BOOLEAN
ASSUME BoundsAssumption ==
    /\ AccessLife \in Nat \ {0} /\ PrincipalTtl \in Nat \ {0}
    /\ MaxTime \in Nat /\ MaxIssued \in Nat /\ MaxRoles \in Nat /\ MaxKek \in Nat
    /\ None \notin Nat \cup Accounts \cup {SharedAccount}

VARIABLES
    time,     \* Date.now()
    deploy,   \* the deployed credential mode and key ring
    slot,     \* the sealed tok:servicenow record, or None
    req,      \* what each request holds across its awaits
    link,     \* what each callback holds across its awaits
    issued,   \* access tokens ServiceNow has issued, numbered from 1
    valid,    \* refresh tokens ServiceNow still honours
    roles,    \* how often the roles of the accounts changed
    changed,  \* when each but the last of these role sets was replaced
    unread,   \* history: when a role read last came back without the roles, or None
    switched, \* history: the operator has switched modes; once in an instance
    mishap    \* history: a revocation, an outage or a lost write has happened

vars == <<time, deploy, slot, req, link, issued, valid, roles, changed, unread, switched, mishap>>
env  == <<time, deploy, roles, changed, switched>>   \* moved by the world alone

-----------------------------------------------------------------------------
(* The data.                                                               *)

Owners == Accounts \cup {SharedAccount}
Times == 0..MaxTime

\* SnTokens in its envelope. gen numbers the access token, refresh the grant
\* that gave the refresh token; asOf is principal_resolved_at. Roles None is the empty
\* list that resolveSnPrincipal makes of a role read it could not use.
Roles == 0..MaxRoles \cup {None}
Bundle == [owner : Owners, gen : 1..MaxIssued, expires : Nat, refresh : 1..MaxIssued \cup {None},
           sysId : Owners \cup {None}, asOf : Times, roles : Roles, kek : 0..MaxKek]
Deployment == [mode : Modes, cur : 0..MaxKek, prev : 0..MaxKek \cup {None}]

ASSUME BundleAssumption == None \notin Bundle \cup Deployment

Phases == {"idle", "authorize", "refreshing", "rotating", "minting", "minted", "bearer",
           "looking", "resolving", "rereading", "stamping", "signed", "reauth", "failed"}

IdleRequest == [phase |-> "idle", env |-> None, at |-> 0, hold |-> None, bearer |-> None,
                principal |-> None, owed |-> FALSE]
IdleLink == [phase |-> "idle", env |-> None, expected |-> None, hold |-> None]

\* The result of TokenStore.get is None when the row is absent and when it
\* cannot be opened; Unreadable tells the two apart.
Opens(d, b) == b.kek \in {d.cur, d.prev}
Unreadable(d) == slot # None /\ ~ Opens(d, slot)
Stored(d) == IF slot # None /\ Opens(d, slot) THEN slot ELSE None

Sealed(d, b) == [b EXCEPT !.kek = d.cur]

NewTokens(owner, at, refresh, d) ==
    [owner |-> owner, gen |-> issued + 1, expires |-> at + AccessLife, refresh |-> refresh,
     sysId |-> None, asOf |-> 0, roles |-> None, kek |-> d.cur]

\* Mutant: A refresh renews the age of the principal it carries forward.
MutCarryForwardPrincipal(target, source) ==
    [target EXCEPT !.sysId = source.sysId, !.asOf = time, !.roles = source.roles]

CarryForwardPrincipal(target, source) ==
    [target EXCEPT !.sysId = source.sysId, !.asOf = source.asOf, !.roles = source.roles]

StampPrincipal(tokens, principal, at) ==
    [tokens EXCEPT !.sysId = principal.sysId, !.roles = principal.roles, !.asOf = at]

HasFreshPrincipal(tokens, at) ==
    /\ tokens # None
    /\ tokens.sysId # None
    /\ tokens.asOf <= at
    /\ at - tokens.asOf <= PrincipalTtl

Live(tokens, at) == tokens.expires > at
Bearer(tokens) == [owner |-> tokens.owner, gen |-> tokens.gen]

\* No usable token: a person must sign in, the shared credential is minted.
WithoutToken(q) ==
    [q EXCEPT !.phase = IF q.env.mode = "integration_user" THEN "minting" ELSE "reauth",
              !.hold = None]

-----------------------------------------------------------------------------
(* A request: preflight, then one memoized bearer.                         *)

Init ==
    /\ time = 0
    /\ deploy \in [mode : Modes, cur : {0}, prev : {None}]
    /\ slot = None
    /\ req = [r \in Requests |-> IdleRequest]
    /\ link = [l \in Links |-> IdleLink]
    /\ issued = 0 /\ valid = {}
    /\ roles = 0 /\ changed = [v \in 0..MaxRoles |-> None] /\ unread = None
    /\ switched = FALSE /\ mishap = FALSE

PreflightPasses ==
    \/ deploy.mode = "integration_user"
    \/ LET existing == Stored(deploy)
       IN  existing # None /\ (Live(existing, time) \/ existing.refresh # None)

PreflightAuth(r) ==
    /\ req[r].phase = "idle"
    /\ req' = [req EXCEPT ![r] = [IdleRequest EXCEPT
                   !.phase = IF PreflightPasses THEN "authorize" ELSE "reauth",
                   !.env = deploy, !.owed = slot # None]]
    /\ UNCHANGED <<env, unread, slot, link, issued, valid, mishap>>

\* getServiceNowBearer up to its first request to ServiceNow.
GetBearer(r) ==
    LET q == req[r]
        existing == Stored(q.env)
    IN  /\ q.phase = "authorize"
        /\ req' = [req EXCEPT ![r] =
               IF existing # None /\ Live(existing, time)
               THEN [q EXCEPT !.phase = "bearer", !.bearer = Bearer(existing)]
               ELSE IF existing # None /\ existing.refresh # None
               THEN [q EXCEPT !.phase = "refreshing", !.hold = existing, !.at = time]
               ELSE [WithoutToken(q) EXCEPT !.at = time]]
        /\ UNCHANGED <<env, unread, slot, link, issued, valid, mishap>>

\* Mutant: A refresh answer without a refresh token drops the old one.
MutRefreshAnswered(r) ==
    LET q == req[r]
        refreshed == NewTokens(q.hold.owner, q.at, None, q.env)
    IN  /\ q.phase = "refreshing" /\ issued < MaxIssued
        /\ q.hold.refresh \in valid
        /\ issued' = issued + 1
        /\ req' = [req EXCEPT ![r] = [q EXCEPT !.phase = "rotating",
                                               !.hold = CarryForwardPrincipal(refreshed, q.hold)]]
        /\ UNCHANGED <<env, unread, slot, link, valid, mishap>>

RefreshAnswered(r) ==
    LET q == req[r]
        refresh == IF Rotates THEN issued + 1 ELSE q.hold.refresh
        refreshed == NewTokens(q.hold.owner, q.at, refresh, q.env)
    IN  /\ q.phase = "refreshing" /\ issued < MaxIssued
        /\ q.hold.refresh \in valid
        /\ issued' = issued + 1
        /\ valid' = (valid \ {q.hold.refresh}) \cup {refresh}
        /\ req' = [req EXCEPT ![r] = [q EXCEPT !.phase = "rotating",
                                               !.hold = CarryForwardPrincipal(refreshed, q.hold)]]
        /\ UNCHANGED <<env, unread, slot, link, mishap>>

\* Refused, timed out or unreachable: one catch takes them all.
RefreshFails(r) ==
    /\ req[r].phase = "refreshing"
    /\ req' = [req EXCEPT ![r] = WithoutToken(@)]
    /\ mishap' = (mishap \/ req[r].hold.refresh \in valid)
    /\ UNCHANGED <<env, unread, slot, link, issued, valid>>

RefreshStored(r) ==
    LET q == req[r]
    IN  /\ q.phase = "rotating"
        /\ slot' = q.hold
        /\ req' = [req EXCEPT ![r] = [q EXCEPT !.phase = "bearer", !.hold = None, !.bearer = Bearer(q.hold)]]
        /\ UNCHANGED <<env, unread, link, issued, valid, mishap>>

\* The same catch swallows a write the token object refused.
RefreshNotStored(r) ==
    /\ req[r].phase = "rotating"
    /\ req' = [req EXCEPT ![r] = WithoutToken(@)]
    /\ mishap' = TRUE
    /\ UNCHANGED <<env, unread, slot, link, issued, valid>>

MintAnswered(r) ==
    LET q == req[r]
    IN  /\ q.phase = "minting" /\ issued < MaxIssued
        /\ issued' = issued + 1
        /\ valid' = valid \cup {issued + 1}
        /\ req' = [req EXCEPT ![r] = [q EXCEPT !.phase = "minted",
                       !.hold = NewTokens(SharedAccount, q.at, issued + 1, q.env)]]
        /\ UNCHANGED <<env, unread, slot, link, mishap>>

MintStored(r) ==
    LET q == req[r]
    IN  /\ q.phase = "minted"
        /\ slot' = q.hold
        /\ req' = [req EXCEPT ![r] = [q EXCEPT !.phase = "bearer", !.hold = None, !.bearer = Bearer(q.hold)]]
        /\ UNCHANGED <<env, unread, link, issued, valid, mishap>>

MintFails(r) ==
    /\ req[r].phase \in {"minting", "minted"}
    /\ req' = [req EXCEPT ![r].phase = "failed", ![r].hold = None]
    /\ UNCHANGED <<env, unread, slot, link, issued, valid, mishap>>

-----------------------------------------------------------------------------
(* resolveStoredSnPrincipal, once per signed script of the request.        *)

AskPrincipal(r) ==
    /\ req[r].phase \in {"bearer", "signed"} /\ req[r].env.mode = "per_user_oauth"
    /\ req' = [req EXCEPT ![r].phase = "looking", ![r].at = time, ![r].principal = None]
    /\ UNCHANGED <<env, unread, slot, link, issued, valid, mishap>>

LookUpPrincipal(r) ==
    LET q == req[r]
        existing == Stored(q.env)
    IN  /\ q.phase = "looking"
        /\ req' = [req EXCEPT ![r] =
               IF HasFreshPrincipal(existing, q.at)
               THEN [q EXCEPT !.phase = "signed",
                              !.principal = [sysId |-> existing.sysId, roles |-> existing.roles]]
               ELSE [q EXCEPT !.phase = "resolving"]]
        /\ UNCHANGED <<env, unread, slot, link, issued, valid, mishap>>

\* Bound: where OneChange is set, what changes around the requests changes in one way:
\* the roles, whether they can be read, the keys, or the mode. A grant is revoked
\* before that change, a refresh may fail after it too.
OnlyChange(kind) ==
    OneChange => /\ kind # "roles" => roles = 0
                 /\ kind # "read" => unread = None
                 /\ kind # "kek" => deploy.cur = 0
                 /\ kind # "mode" => ~ switched

\* The second read of resolveSnPrincipal. Redirected, refused or not JSON, it still
\* makes a principal, with no roles, that counts as fresh like any other.
ReadRoles(v) ==
    /\ v \in {roles, None} /\ (v = None => OnlyChange("read"))
    /\ unread' = IF v = None THEN time ELSE unread

\* current_user answers for the bearer the request memoized.
PrincipalAnswered(r) ==
    /\ req[r].phase = "resolving"
    /\ \E v \in Roles :
           /\ ReadRoles(v)
           /\ req' = [req EXCEPT ![r].phase = "rereading",
                                 ![r].principal = [sysId |-> req[r].bearer.owner, roles |-> v]]
    /\ UNCHANGED <<env, slot, link, issued, valid, mishap>>

PrincipalUnknown(r) ==
    /\ req[r].phase = "resolving"
    /\ req' = [req EXCEPT ![r].phase = "reauth"]
    /\ mishap' = TRUE
    /\ UNCHANGED <<env, unread, slot, link, issued, valid>>

ReadLatest(r) ==
    LET q == req[r]
        latest == Stored(q.env)
    IN  /\ q.phase = "rereading"
        /\ req' = [req EXCEPT ![r] =
               IF latest = None THEN [q EXCEPT !.phase = "signed"]
               ELSE [q EXCEPT !.phase = "stamping",
                              !.hold = Sealed(q.env, StampPrincipal(latest, q.principal, q.at))]]
        /\ UNCHANGED <<env, unread, slot, link, issued, valid, mishap>>

PrincipalStored(r) ==
    /\ req[r].phase = "stamping"
    /\ slot' = req[r].hold
    /\ req' = [req EXCEPT ![r].phase = "signed", ![r].hold = None]
    /\ UNCHANGED <<env, unread, link, issued, valid, mishap>>

PrincipalNotStored(r) ==
    /\ req[r].phase = "stamping"
    /\ req' = [req EXCEPT ![r].phase = "failed", ![r].hold = None]
    /\ UNCHANGED <<env, unread, slot, link, issued, valid, mishap>>

Finish(r) ==
    /\ req[r].phase \in {"bearer", "signed", "reauth", "failed"}
    /\ req' = [req EXCEPT ![r] = IdleRequest]
    /\ UNCHANGED <<env, unread, slot, link, issued, valid, mishap>>

-----------------------------------------------------------------------------
(* A callback. LinkFlow models the ticket and the state that lead to it.   *)

\* The reauth answer of a request carries the link; its ticket binds the
\* stored principal, when one can be read.
MintTicket(l) ==
    /\ link[l].phase = "idle"
    /\ \E r \in Requests :
           /\ req[r].phase = "reauth"
           /\ LET existing == Stored(req[r].env)
              IN  link' = [link EXCEPT ![l].phase = "ticket",
                               ![l].expected = IF existing = None THEN None ELSE existing.sysId]
    /\ UNCHANGED <<env, unread, slot, req, issued, valid, mishap>>

\* The person signs in with some account; the code is exchanged and the
\* account's principal resolved.
SignIn(l, account) ==
    LET t == NewTokens(account, time, issued + 1, deploy)
    IN  /\ link[l].phase = "ticket" /\ issued < MaxIssued
        /\ deploy.mode = "per_user_oauth"
        /\ issued' = issued + 1
        /\ valid' = valid \cup {issued + 1}
        /\ \E v \in Roles :
               /\ ReadRoles(v)
               /\ link' = [link EXCEPT ![l].phase = "exchanged", ![l].env = deploy,
                              ![l].hold = StampPrincipal(t, [sysId |-> account, roles |-> v], time)]
        /\ UNCHANGED <<env, slot, req, mishap>>

\* Mutant: The callback links whichever account signed in.
MutMatchesBinding(l, principal, existing) == principal \in Accounts

MatchesBinding(l, principal, existing) ==
    LET fromStore == IF existing = None THEN None ELSE existing.sysId
        expected == IF link[l].expected # None THEN link[l].expected ELSE fromStore
    IN  IF expected # None THEN principal = expected ELSE principal \in OwnAccounts

CheckBinding(l) ==
    LET k == link[l]
    IN  /\ k.phase = "exchanged"
        /\ link' = [link EXCEPT ![l] = IF MatchesBinding(l, k.hold.sysId, Stored(k.env))
                                       THEN [k EXCEPT !.phase = "bound"] ELSE IdleLink]
        /\ UNCHANGED <<env, unread, slot, req, issued, valid, mishap>>

LinkStored(l) ==
    /\ link[l].phase = "bound"
    /\ slot' = link[l].hold
    /\ link' = [link EXCEPT ![l] = IdleLink]
    /\ UNCHANGED <<env, unread, req, issued, valid, mishap>>

\* Abandoned, denied, timed out, or the write refused.
LinkFails(l) ==
    /\ link[l].phase # "idle"
    /\ link' = [link EXCEPT ![l] = IdleLink]
    /\ UNCHANGED <<env, unread, slot, req, issued, valid, mishap>>

-----------------------------------------------------------------------------
(* ServiceNow, the operator and the clock.                                 *)

Tick ==
    /\ time < MaxTime
    /\ time' = time + 1
    /\ UNCHANGED <<deploy, roles, changed, unread, slot, req, link, issued, valid, switched, mishap>>

ChangeRoles ==
    /\ roles < MaxRoles
    /\ OnlyChange("roles")
    /\ roles' = roles + 1
    /\ changed' = [changed EXCEPT ![roles] = time]
    /\ UNCHANGED <<time, deploy, unread, slot, req, link, issued, valid, switched, mishap>>

Revoke ==
    /\ OnlyChange("grants")
    /\ \E g \in valid : valid' = valid \ {g}
    /\ mishap' = TRUE
    /\ UNCHANGED <<env, unread, slot, req, link, issued>>

\* RECOVERY.md, rotating later: the old key stays as TOKEN_KEK_PREV ...
RotateKek ==
    /\ deploy.prev = None /\ deploy.cur < MaxKek
    /\ OnlyChange("kek")
    /\ deploy' = [deploy EXCEPT !.cur = @ + 1, !.prev = deploy.cur]
    /\ UNCHANGED <<time, roles, changed, unread, slot, req, link, issued, valid, switched, mishap>>

\* ... until every live row is sealed under the new one.
InFlight == {req[r].env : r \in Requests} \cup {link[l].env : l \in Links}
DropPreviousKek ==
    /\ deploy.prev # None
    /\ slot # None => slot.kek = deploy.cur
    /\ \A d \in InFlight : d # None => d.cur = deploy.cur
    /\ deploy' = [deploy EXCEPT !.prev = None]
    /\ UNCHANGED <<time, roles, changed, unread, slot, req, link, issued, valid, switched, mishap>>

SwitchMode ==
    /\ ~ switched /\ switched' = TRUE
    /\ OnlyChange("mode")
    /\ \E m \in Modes \ {deploy.mode} : deploy' = [deploy EXCEPT !.mode = m]
    /\ UNCHANGED <<time, roles, changed, unread, slot, req, link, issued, valid, mishap>>

Request(r) ==
    \/ PreflightAuth(r) \/ GetBearer(r)
    \/ RefreshAnswered(r) \/ RefreshFails(r) \/ RefreshStored(r) \/ RefreshNotStored(r)
    \/ MintAnswered(r) \/ MintStored(r) \/ MintFails(r)
    \/ AskPrincipal(r) \/ LookUpPrincipal(r) \/ PrincipalAnswered(r) \/ PrincipalUnknown(r)
    \/ ReadLatest(r) \/ PrincipalStored(r) \/ PrincipalNotStored(r) \/ Finish(r)

Callback(l) ==
    \/ MintTicket(l) \/ CheckBinding(l) \/ LinkStored(l) \/ LinkFails(l)
    \/ \E account \in Accounts : SignIn(l, account)

World == Tick \/ ChangeRoles \/ Revoke \/ RotateKek \/ DropPreviousKek \/ SwitchMode

Next ==
    \/ \E r \in Requests : Request(r)
    \/ \E l \in Links : Callback(l)
    \/ World

Spec == Init /\ [][Next]_vars

-----------------------------------------------------------------------------
(* Properties.                                                             *)

\* Every variable has its type, and only the phases that carry a bundle
\* across an await hold one.
TypeOK ==
    /\ time \in Times /\ issued \in 0..MaxIssued /\ valid \subseteq 1..issued
    /\ roles \in 0..MaxRoles /\ {switched, mishap} \subseteq BOOLEAN
    /\ changed \in [0..MaxRoles -> Times \cup {None}] /\ unread \in Times \cup {None}
    /\ deploy \in Deployment
    /\ slot \in Bundle \cup {None}
    /\ \A r \in Requests :
           /\ req[r].phase \in Phases /\ req[r].env \in Deployment \cup {None}
           /\ req[r].at \in Times /\ req[r].hold \in Bundle \cup {None}
           /\ req[r].phase \in {"refreshing", "rotating", "minted", "stamping"} <=> req[r].hold # None
    /\ \A l \in Links :
           /\ link[l].phase \in {"idle", "ticket", "exchanged", "bound"}
           /\ link[l].hold \in Bundle \cup {None}

\* The sys_id a script is signed for is the account whose bearer carries the
\* request to ServiceNow, whoever signs in or refreshes meanwhile, as long as the
\* deployment keeps its mode (see PerUserNeverShared).
SignedActorOwnsBearer ==
    \A r \in Requests :
        req[r].phase = "signed" /\ ~ switched
            => req[r].principal.sysId = req[r].bearer.owner

\* The last time a role read could give v, if none can give it now.
LastGiven(v) == IF v = None THEN unread ELSE changed[v]

\* The roles a request works with are what a role read gave within PrincipalTtl before
\* it asked, through refreshes, stamps and links: the account's own of that time, or none
\* if that read came back without them. A request never acts on roles lost longer
\* ago, and a role read that failed is not believed any longer than one that did not.
RolesAreRecent ==
    \A r \in Requests :
        LET q == req[r]
        IN  q.phase = "signed" => \/ q.principal.roles = roles
                                  \/ LastGiven(q.principal.roles) >= q.at - PrincipalTtl

\* What the comments on resolveSnPrincipal and resolveStoredSnPrincipal say of it, and
\* the code does not do: a read that failed leaves no principal, so no request signs with
\* an empty role list in place of its account's roles.
NoPrincipalFromAFailedRead ==
    \A r \in Requests : req[r].phase = "signed" => req[r].principal.roles # None

\* A user who had linked an account is asked to sign in again only after a
\* revocation, an outage or a lost write, or by a request that still runs with
\* the key ring of an earlier deployment.
ReauthHasACause ==
    \A r \in Requests :
        req[r].phase = "reauth" /\ req[r].owed =>
            \/ mishap
            \/ deploy.cur # req[r].env.cur

\* Stamping a principal never puts an older token bundle over a newer one, as
\* the comment on the second read of resolveStoredSnPrincipal says.
RefreshIsNotClobbered ==
    [][\A r \in Requests : PrincipalStored(r) => slot'.gen >= slot.gen]_vars

\* A request in per_user_oauth mode never acts with the shared credential.
PerUserNeverShared ==
    \A r \in Requests :
        req[r].bearer # None /\ req[r].env.mode = "per_user_oauth"
            => req[r].bearer.owner # SharedAccount
=============================================================================
