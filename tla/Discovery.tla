------------------------------ MODULE Discovery ------------------------------
(***************************************************************************)
(* A describe_table or list_tables call from the front door to its answer: *)
(* the gate of /mcp (index.ts, with the posture), the policy of the grant, *)
(* the schema cache in KV with its in-flight misses per isolate            *)
(* (cache/schema.ts, tools/handlers.ts) and the reads themselves           *)
(* (sn/discovery.ts), while releases replace isolates, users link again,   *)
(* roles change and entries expire.                                        *)
(*                                                                         *)
(* An isolate's env never changes, so what assertProductionPostureOnce     *)
(* remembers by it is CollectPostureViolations of it.  Admission leases,   *)
(* budget bookkeeping and the bearer's life are the subject of Admission,  *)
(* DailyBudget and ServiceNowToken; here they are ways to fail.            *)
(***************************************************************************)
EXTENDS Posture, FiniteSetsExt, SequencesExt

CONSTANTS
    Calls,        \* 1, 2, ... in the order the requests come
    Users, Isolates,
    GroupsOf,     \* the groups each user may be in
    Own,          \* the ServiceNow accounts each user may link
    LinkedBefore, \* the account each user has linked already, or None
    Shared,       \* the account of integration_user and of the developer's password
    Sees,         \* ServiceNow's ACLs: the rows an account with some roles sees
    Dictionary,   \* sys_dictionary: <<table, field>>
    Parent,       \* super_class of each table, or None
    TableSeq,     \* every table, in the order of names
    Asks,         \* [kind |-> "table", table] and [kind |-> "list", matches]
    Deployed,     \* the env of each release
    Later,        \* releases that may come later; any may be the first
    Followed,     \* bound: under any other release one call is followed to the gate
    ChunkSize,    \* names that fit in one query string
    PageCap,      \* TABLE_PAGE_CAP
    MaxHops,      \* 10 in tableHierarchy
    PrincipalTtl, \* SN_PRINCIPAL_TTL_MS
    SchemaTtl,    \* DEFAULT_SCHEMA_TTL_SEC
    None

VARIABLES
    release,  \* of each isolate
    grant,    \* the props of each user's grant
    account,  \* the account each user's stored token belongs to
    known,    \* the principal stored with it, its age, and (history) whether its roles came of a
              \* read that failed and whether it has changed since
    roles,    \* of each account, in ServiceNow
    kv,       \* SCHEMA_KV: a value by key, and the time left to it
    inFlight, \* inFlightMisses of each isolate: the leader by key
    call

vars == <<release, grant, account, known, roles, kv, inFlight, call>>

Releases == DOMAIN Deployed
EnvOf(i) == Deployed[release[i]]
Accounts == {Shared} \cup UNION {Own[u] \cup ({LinkedBefore[u]} \ {None}) : u \in Users}
Tables == DOMAIN Parent
Idle == [st |-> "idle"]
Ended == [st |-> "ended"]
Gone == [st |-> "gone"]
Empty == [k \in {} |-> None]
Put(f, k, v) == [l \in DOMAIN f \cup {k} |-> IF l = k THEN v ELSE f[l]]

\* Roles stand for their hash; "default" is that of no roles at all.
RoleNames == {"default"} \cup UNION {DOMAIN Sees[a] : a \in Accounts}
Identities == [principal : Users \cup Accounts, roles : RoleNames]

\* An id of the Worker's is no account of ServiceNow's, and nothing real is None.
ASSUME IdsAssumption ==
    /\ Users \cap Accounts = {}
    /\ None \notin Calls \cup Accounts \cup Identities
    /\ LinkedBefore \in [Users -> Accounts \cup {None}]
    /\ PrincipalTtl \in Nat /\ SchemaTtl \in Nat

\* A list that lists nothing is malformed (parseTableAllowlist).
ASSUME AllowListAssumption ==
    \A r \in Releases :
        /\ "allow" \in DOMAIN Deployed[r].flat /\ Deployed[r].flat.allow # {}
        /\ \A n \in Keys(Deployed[r].named) :
              Deployed[r].named[n] # Malformed => Deployed[r].named[n].allow # {}

\* Every account begins without roles and sees only tables that have a name.
ASSUME TablesAssumption ==
    /\ TableSeq \in Seq(Range(TableSeq)) /\ PageCap \in Nat
    /\ \A a \in Accounts :
          /\ "default" \in DOMAIN Sees[a]
          /\ \A r \in DOMAIN Sees[a] : Sees[a][r].tables \subseteq Range(TableSeq)

ASSUME ReleasesAssumption == Followed \cup Later \subseteq Releases

Init ==
    /\ \E r \in Releases : release = [i \in Isolates |-> r]
    /\ grant = [u \in Users |-> None]
    /\ account = LinkedBefore
    /\ known = [u \in Users |-> None]
    /\ roles = [a \in Accounts |-> "default"]
    /\ kv = Empty
    /\ inFlight = [i \in Isolates |-> Empty]
    /\ call = [c \in Calls |-> Idle]

-----------------------------------------------------------------------------
(* The front door.                                                         *)

Origins == {"absent", "same", "listed", "localhost", "foreign"}

IsOriginAllowed(e, origin) ==
    \/ origin \in {"absent", "same"}
    \/ origin = "listed" /\ IsSet(e, "ALLOWED_ORIGINS")
    \/ origin = "localhost" /\ Good(e, "ALLOW_LOCALHOST")

OidcReady(e) == \A s \in OidcDemanded : IsSet(e, s)

\* assertProductionPosture, remembered by env.
Asserted == {r \in Releases : CollectPostureViolations(Deployed[r]) = {}}

\* The props of a grant, from a group of the user's or, signed by the operator, as high as can be.
Props(e, r, g) ==
    IF e.authMode = "oidc"
    THEN [oidc |-> TRUE, policy |-> GroupPolicy(e, g).policy, maxMode |-> GroupPolicy(e, g).maxMode, release |-> r]
    ELSE [oidc |-> FALSE, policy |-> "default", maxMode |-> "admin_script", release |-> r]

CanSignIn(e, g) ==
    \/ e.authMode = "oidc" /\ OidcReady(e) /\ GroupPolicy(e, g) # Fails
    \/ e.authMode = "operator_secret" /\ IsSet(e, "MCP_OPERATOR_SECRET")

SignIn(u, i, g) ==
    /\ \E c \in Calls : call[c] = Idle
    /\ release[i] \in Asserted
    /\ CanSignIn(EnvOf(i), g)
    /\ grant' = [grant EXCEPT ![u] = Props(EnvOf(i), release[i], g)]
    /\ UNCHANGED <<release, account, known, roles, kv, inFlight, call>>

\* Mutant: any grant will do.
MutGrantAllowed(e, props) == TRUE

\* authenticatedGrantAllowedForDeploymentProfile.
GrantAllowed(e, props) == Profile(e) = "production" => props.oidc

\* What buildHandlers makes of the policies, and needs not to throw.
ActorPolicies == [r \in Releases |-> LoadNamedActorPolicies(Deployed[r])]
HandlersBuild(i) ==
    /\ EnvOf(i).grade["SNOW_INSTANCE_HOST"] # "bad"
    /\ EnvOf(i).grade["X_MCP_EXECUTOR_HMAC_KEY"] = "bad" => ~ IsSet(EnvOf(i), "SNOW_EXECUTOR_PATH")
    /\ ActorPolicies[release[i]] # Fails

Running(c) == call[c] \notin {Idle, Ended, Gone}

\* Bound: requests come when every user has signed in, and at one time they ask the same.
Comes(c, i, ask) ==
    /\ \A d \in Calls : d < c => call[d] # Idle /\ release[i] \in Followed
    /\ \A v \in Users : grant[v] # None
    /\ \A d \in Calls : Running(d) => call[d].ask = ask

\* A request that is refused changes nothing here.
Request(c, u, i, ask, origin) ==
    /\ call[c] = Idle
    /\ Comes(c, i, ask)
    /\ IsOriginAllowed(EnvOf(i), origin)
    /\ release[i] \in Asserted
    /\ GrantAllowed(EnvOf(i), grant[u])
    /\ EnvOf(i).credentialMode = "per_user_oauth" => Good(EnvOf(i), "WORKER_PUBLIC_ORIGIN")
    /\ HandlersBuild(i)
    /\ call' = [call EXCEPT ![c] =
                  [st |-> "asking", user |-> u, isolate |-> i, ask |-> ask,
                   policy |-> PolicyNamed(ActorPolicies[release[i]], grant[u].policy), slipped |-> FALSE,
                   unread |-> FALSE, id |-> None, late |-> FALSE, by |-> None, value |-> None]]
    /\ UNCHANGED <<release, grant, account, known, roles, kv, inFlight>>

-----------------------------------------------------------------------------
(* The identity a schema is cached under.                                  *)

\* resolveSnPrincipal: a role read that is redirected, refused or not JSON makes a principal
\* without roles, as fresh as any.
ReadRoles(a) == {roles[a], "default"}
Principal(a, r) == [account |-> a, roles |-> r, age |-> 0, changed |-> FALSE, unread |-> r # roles[a]]

\* Mutant: a principal once resolved stays good.
MutHasFreshPrincipal(u) == known[u] # None

HasFreshPrincipal(u) == known[u] # None /\ known[u].age <= PrincipalTtl

\* resolveSchemaIdentity reads no worker origin.
CanIdentify(e) ==
    e.credentialMode = "per_user_oauth" /\
    \A s \in {"SNOW_OAUTH_CLIENT_ID", "SNOW_OAUTH_CLIENT_SECRET", "TOKEN_DO", "TOKEN_KEK_CURRENT",
              "SNOW_INSTANCE_HOST"} : IsSet(e, s)

Identity(p) == [principal |-> p.account, roles |-> p.roles]

FreshIdentity(e, u) ==
    IF e.credentialMode = "integration_user" THEN [principal |-> u, roles |-> "default"]
    ELSE IF CanIdentify(e) /\ HasFreshPrincipal(u)
    THEN Identity(known[u])
    ELSE None

\* History: a principal young enough that no longer is the user's, or one without its roles.
Outdated(u) == known[u] # None /\ known[u].age <= PrincipalTtl /\ known[u].changed
Unread(u) == known[u] # None /\ known[u].unread

\* A principal may be missing, stale or unreadable; a user's own id never is.
MayBypass(e) == ~ IsSet(e, "SCHEMA_KV") \/ e.credentialMode # "integration_user"

\* Mutants: the policy or the principal is left out of the key.
MutKeyWithoutPolicy(id, policy, ask) ==
    [principal |-> id.principal, roles |-> id.roles, policy |-> None, ask |-> ask]
MutKeyWithoutPrincipal(id, policy, ask) ==
    [principal |-> None, roles |-> id.roles, policy |-> policy, ask |-> ask]

\* SchemaCache.key; the hashes of the roles and of the policy tell them apart.
Key(id, policy, ask) == [principal |-> id.principal, roles |-> id.roles, policy |-> policy, ask |-> ask]

KeyOf(c) == Key(call[c].id, call[c].policy, call[c].ask)
Cached(c) == call[c].id # None

InState(c, st) == call[c].st = st /\ release[call[c].isolate] \in Followed
Env(c) == EnvOf(call[c].isolate)

\* Without the KV, or an identity at no cost, the call pays first and identifies itself later.
AskIdentity(c) ==
    /\ InState(c, "asking")
    /\ LET id == FreshIdentity(Env(c), call[c].user)
       IN  \/ /\ IsSet(Env(c), "SCHEMA_KV") /\ id # None
              /\ call' = [call EXCEPT ![c].st = "looking", ![c].id = id,
                                      ![c].slipped = Outdated(call[c].user), ![c].unread = Unread(call[c].user)]
           \/ /\ MayBypass(Env(c))
              /\ call' = [call EXCEPT ![c].st = "paying", ![c].late = TRUE]
    /\ UNCHANGED <<release, grant, account, known, roles, kv, inFlight>>

-----------------------------------------------------------------------------
(* The cache.                                                              *)

LeaderOf(c) ==
    LET misses == inFlight[call[c].isolate]
    IN  IF Cached(c) /\ KeyOf(c) \in DOMAIN misses THEN misses[KeyOf(c)] ELSE None

Hit(c) ==
    /\ InState(c, "looking") /\ KeyOf(c) \in DOMAIN kv
    /\ call' = [call EXCEPT ![c] = Ended]
    /\ UNCHANGED <<release, grant, account, known, roles, kv, inFlight>>

\* KV is eventually consistent: an entry may not be seen.
Join(c) ==
    /\ InState(c, "looking") /\ LeaderOf(c) # None
    /\ call' = [call EXCEPT ![c].st = "waiting", ![c].late = FALSE, ![c].by = None,
                            ![c].slipped = FALSE, ![c].unread = FALSE]
    /\ UNCHANGED <<release, grant, account, known, roles, kv, inFlight>>

\* The fetcher of an early lookup pays; that of a late one has paid.
Lead(c) ==
    /\ InState(c, "looking") /\ LeaderOf(c) = None
    /\ inFlight' = [inFlight EXCEPT ![call[c].isolate] = Put(@, KeyOf(c), c)]
    /\ call' = [call EXCEPT ![c].st = IF call[c].late THEN "fetching" ELSE "paying", ![c].late = FALSE]
    /\ UNCHANGED <<release, grant, account, known, roles, kv>>

Leads(c) == LeaderOf(c) = c
Waiters(c) ==
    IF Leads(c)
    THEN {d \in Calls : call[d].st = "waiting" /\ call[d].isolate = call[c].isolate /\ KeyOf(d) = KeyOf(c)}
    ELSE {}

\* Mutant: the others are told, the entry stays with a settled leader.
MutSettle(c) ==
    /\ call' = [d \in Calls |-> IF d = c \/ d \in Waiters(c) THEN Ended ELSE call[d]]
    /\ UNCHANGED inFlight

\* The promise of a miss settles, for its leader and for all who wait for it.
Settle(c) ==
    /\ call' = [d \in Calls |-> IF d = c \/ d \in Waiters(c) THEN Ended ELSE call[d]]
    /\ inFlight' = IF Leads(c)
                   THEN [inFlight EXCEPT ![call[c].isolate] = Restrict(@, DOMAIN @ \ {KeyOf(c)})]
                   ELSE inFlight

LookupFails(c) ==
    /\ InState(c, "looking")
    /\ call' = [call EXCEPT ![c] = Ended]
    /\ UNCHANGED <<release, grant, account, known, roles, kv, inFlight>>

-----------------------------------------------------------------------------
(* runDiscoveryWithBudget.                                                 *)

\* The account whose credential a call of this user carries.
Bearer(e, u) == IF Credential(e) = "own" THEN account[u] ELSE IF Credential(e) = "none" THEN None ELSE Shared

\* The bearer is read once per request.
Pay(c) ==
    /\ InState(c, "paying")
    /\ Bearer(Env(c), call[c].user) # None
    /\ call' = [call EXCEPT ![c].st = IF call[c].late THEN "resolving" ELSE "fetching",
                            ![c].by = Bearer(Env(c), call[c].user)]
    /\ UNCHANGED <<release, grant, account, known, roles, kv, inFlight>>

\* Not connected, to be linked again, or no budget left.
PayFails(c) ==
    /\ InState(c, "paying")
    /\ Settle(c)
    /\ UNCHANGED <<release, grant, account, known, roles, kv>>

\* A live resolution is stored; one that fails leaves the call without a cache.
Resolve(c) ==
    LET u == call[c].user
        id == FreshIdentity(Env(c), u)
    IN  /\ InState(c, "resolving")
        /\ \/ /\ IsSet(Env(c), "SCHEMA_KV") /\ id # None
              /\ call' = [call EXCEPT ![c].st = "looking", ![c].id = id,
                                      ![c].slipped = @ \/ Outdated(u), ![c].unread = Unread(u)]
              /\ UNCHANGED known
           \/ /\ IsSet(Env(c), "SCHEMA_KV") /\ id = None /\ CanIdentify(Env(c)) /\ account[u] # None
              /\ \E r \in ReadRoles(account[u]) :
                    /\ call' = [call EXCEPT ![c].st = "looking", ![c].id = Identity(Principal(account[u], r)),
                                            ![c].unread = Principal(account[u], r).unread]
                    /\ known' = [known EXCEPT ![u] = Principal(account[u], r)]
           \/ /\ MayBypass(Env(c))
              /\ call' = [call EXCEPT ![c].st = "fetching", ![c].late = FALSE]
              /\ UNCHANGED known
        /\ UNCHANGED <<release, grant, account, roles, kv, inFlight>>

-----------------------------------------------------------------------------
(* The reads, as the account of the bearer.                                *)

\* tableHierarchy: a table whose row is not seen ends the chain.
Hierarchy(table, seen) ==
    LET At[n \in 0..MaxHops - 1] ==
            IF n = 0 THEN table
            ELSE IF At[n - 1] \in seen THEN Parent[At[n - 1]] ELSE None
    IN  {At[n] : n \in 0..MaxHops - 1} \ {None}

\* One page of rows, in no particular order, less those ServiceNow then hides (it limits
\* before it evaluates ACLs, resolveSnPrincipal); only masks of the table itself count.
Descriptions(policy, table, seen) ==
    LET rows == {row \in Dictionary : row[1] \in Hierarchy(table, seen.tables)}
        pages == IF Cardinality(rows) <= PageCap THEN {rows} ELSE kSubset(PageCap, rows)
    IN  {[items |-> {row[2] : row \in page \cap seen.fields}
                        \ {f \in {row[2] : row \in page \cap seen.fields} : <<table, f>> \in policy.masks},
          partial |-> FALSE] : page \in pages}

\* Where a table comes when names are sorted.
Place(t) == CHOOSE i \in DOMAIN TableSeq : TableSeq[i] = t
Position(t, names) == Cardinality({u \in names : Place(u) <= Place(t)})

\* exactAllowlistChunks: the names that share a query with name t.
ChunkOf(t, names) == {u \in names : (Position(u, names) - 1) \div ChunkSize = (Position(t, names) - 1) \div ChunkSize}

\* The names of a chunk that the instance knows, and the first page of them, by name.
Known(chunk) == chunk \cap Range(TableSeq)
Page(chunk) == {t \in Known(chunk) : Position(t, Known(chunk)) <= PageCap}

\* fetchTableListRows: of that page, the rows that are seen.
Rows(chunk, seen) == Page(chunk) \cap seen.tables

\* Mutant: the last chunk decides.
MutListing(policy, matches, seen) ==
    LET RowsWith(t) == Rows(ChunkOf(t, policy.tables), seen)
    IN  [items |-> policy.tables \cap matches \cap UNION {RowsWith(t) : t \in policy.tables},
         partial |-> \E t \in policy.tables : /\ Position(t, policy.tables) = Cardinality(policy.tables)
                                               /\ Cardinality(RowsWith(t)) >= PageCap]

\* The allow lists of an env are exact names: one page per chunk of them, filtered here.
Listing(policy, matches, seen) ==
    LET RowsWith(t) == Rows(ChunkOf(t, policy.tables), seen)
    IN  [items |-> policy.tables \cap matches \cap UNION {RowsWith(t) : t \in policy.tables},
         partial |-> \E t \in policy.tables : Cardinality(RowsWith(t)) >= PageCap]

\* What a read may answer; no answer where the policy or the instance does not know the table.
Answers(policy, ask, seen) ==
    IF ask.kind = "list" THEN {Listing(policy, ask.matches, seen)}
    ELSE IF ask.table \in policy.tables /\ ask.table \in seen.tables
    THEN Descriptions(policy, ask.table, seen) ELSE {}

Fetch(c) ==
    /\ InState(c, "fetching")
    /\ \E answer \in Answers(call[c].policy, call[c].ask, Sees[call[c].by][roles[call[c].by]]) :
         LET value == [by |-> call[c].by, roles |-> roles[call[c].by], slipped |-> call[c].slipped,
                       unread |-> call[c].unread, items |-> answer.items, partial |-> answer.partial]
         IN  call' = [call EXCEPT ![c].st = "fetched", ![c].value = value, ![c].by = None,
                                     ![c].slipped = FALSE, ![c].unread = FALSE]
    /\ UNCHANGED <<release, grant, account, known, roles, kv, inFlight>>

FetchFails(c) ==
    /\ InState(c, "fetching")
    /\ Settle(c)
    /\ UNCHANGED <<release, grant, account, known, roles, kv>>

Store(c) ==
    /\ InState(c, "fetched") /\ Cached(c)
    /\ kv' = Put(kv, KeyOf(c), [value |-> call[c].value, left |-> SchemaTtl])
    /\ Settle(c)
    /\ UNCHANGED <<release, grant, account, known, roles>>

\* Without a cache the answer goes straight to the caller.
Answer(c) ==
    /\ InState(c, "fetched") /\ ~ Cached(c)
    /\ call' = [call EXCEPT ![c] = Ended]
    /\ UNCHANGED <<release, grant, account, known, roles, kv, inFlight>>

\* A write that fails fails the miss, answer and all.
StoreFails(c) ==
    /\ InState(c, "fetched") /\ Cached(c)
    /\ Settle(c)
    /\ UNCHANGED <<release, grant, account, known, roles, kv>>

-----------------------------------------------------------------------------
(* The world.                                                              *)

\* Bound: the world goes on while a call does or may come.
Going == (\A i \in Isolates : release[i] \in Followed) /\ \E c \in Calls : call[c] \notin {Ended, Gone}

\* The client disconnects and the runtime drops the request; its entry stays in the map.
Abandon(c) ==
    /\ Running(c) /\ release[call[c].isolate] \in Followed
    /\ call' = [call EXCEPT ![c] = IF Leads(c) THEN Gone ELSE Ended]
    /\ UNCHANGED <<release, grant, account, known, roles, kv, inFlight>>

\* An eviction or a new release: another isolate takes the place of this one.
Replace(i, r) ==
    /\ Going
    /\ release' = [release EXCEPT ![i] = r]
    /\ inFlight' = [inFlight EXCEPT ![i] = Empty]
    /\ call' = [c \in Calls |-> IF Running(c) /\ call[c].isolate = i
                                THEN Ended ELSE call[c]]
    /\ UNCHANGED <<grant, account, known, roles, kv>>

\* expirationTtl of KV.  A principal past its age ages no more.
Tick ==
    /\ Going
    /\ kv' = [k \in {l \in DOMAIN kv : kv[l].left > 1} |-> [kv[k] EXCEPT !.left = @ - 1]]
    /\ known' = [u \in Users |-> IF known[u] = None \/ known[u].age > PrincipalTtl THEN known[u]
                                 ELSE [known[u] EXCEPT !.age = @ + 1, !.changed = @ /\ known[u].age < PrincipalTtl,
                                                       !.unread = @ /\ known[u].age < PrincipalTtl]]
    /\ UNCHANGED <<release, grant, account, roles, inFlight, call>>

\* History: calls that go by what they know, and have not read yet, miss the change.
Missed(users) ==
    call' = [c \in Calls |-> IF Running(c) /\ call[c].st \notin {"asking", "waiting", "fetched"} /\ call[c].user \in users
                             THEN [call[c] EXCEPT !.slipped = TRUE, !.unread = FALSE] ELSE call[c]]

\* Bound: of an account somebody has linked.
RoleChange(a) ==
    /\ Going /\ \E u \in Users : account[u] = a
    /\ \E r \in DOMAIN Sees[a] \ {roles[a]} : roles' = [roles EXCEPT ![a] = r]
    /\ known' = [u \in Users |-> IF known[u] # None /\ known[u].account = a /\ known[u].age <= PrincipalTtl
                                 THEN [known[u] EXCEPT !.changed = TRUE, !.unread = FALSE] ELSE known[u]]
    /\ Missed({u \in Users : account[u] = a})
    /\ UNCHANGED <<release, grant, account, kv, inFlight>>

\* The callback of LinkFlow, served in per_user_oauth only, stores a token and its principal;
\* of another account only when the token it replaces cannot be read.
Link(u, a) ==
    /\ Going
    /\ \E i \in Isolates : EnvOf(i).credentialMode = "per_user_oauth"
    /\ account' = [account EXCEPT ![u] = a]
    /\ \E r \in ReadRoles(a) : known' = [known EXCEPT ![u] = Principal(a, r)]
    /\ Missed({u})
    /\ UNCHANGED <<release, grant, roles, kv, inFlight>>

-----------------------------------------------------------------------------
Progress(c) ==
    \/ AskIdentity(c) \/ Hit(c) \/ Join(c) \/ Lead(c) \/ LookupFails(c)
    \/ Pay(c) \/ PayFails(c) \/ Resolve(c) \/ Fetch(c) \/ FetchFails(c) \/ Store(c) \/ StoreFails(c) \/ Answer(c)

Next ==
    \/ \E u \in Users, i \in Isolates : \E g \in GroupsOf[u] : SignIn(u, i, g)
    \/ \E c \in Calls, u \in Users, i \in Isolates, ask \in Asks, origin \in Origins : Request(c, u, i, ask, origin)
    \/ \E c \in Calls : Progress(c) \/ Abandon(c)
    \/ \E i \in Isolates : \E r \in Later \cup {release[i]} : Replace(i, r)
    \/ Tick
    \/ \E a \in Accounts : RoleChange(a)
    \/ \E u \in Users : \E a \in Own[u] : Link(u, a)

Spec == Init /\ [][Next]_vars

-----------------------------------------------------------------------------
\* What a policy lets an answer show.
Permitted(policy, ask, item) ==
    IF ask.kind = "list" THEN item \in policy.tables
    ELSE ask.table \in policy.tables /\ <<ask.table, item>> \notin policy.masks

\* What a call is about to be shown: the entry it finds, its own answer or its leader's.
Shown(c) ==
    IF call[c].st = "fetched" THEN {call[c].value}
    ELSE IF call[c].st = "looking" /\ KeyOf(c) \in DOMAIN kv THEN {kv[KeyOf(c)].value}
    ELSE IF call[c].st = "waiting" /\ call[LeaderOf(c)].st = "fetched" THEN {call[LeaderOf(c)].value}
    ELSE {}

\* No call shows a table or a field its own policy hides, whoever's read it was answered with:
\* cached and shared schemas were shaped by the very policy of the call (cache/schema.ts key,
\* actorPolicyHash).
ShownIsPermitted ==
    \A c \in Calls : \A value \in Shown(c) : \A item \in value.items :
        Permitted(call[c].policy, call[c].ask, item)

\* What a call is shown from the cache or from another's miss was read as the account and with
\* the roles it is looked up by, unless the account or its roles changed between the
\* resolution of the reader's principal and the read, or the reader's role read had failed:
\* then it is under "default", and still of its own account (cache/schema.ts:15-40).
SchemaIsOwn ==
    \A c \in Calls : \A value \in Shown(c) : Cached(c) =>
        LET id == call[c].id
        IN  IF id.principal = call[c].user THEN value.by = Shared
            ELSE \/ value.slipped
                 \/ /\ value.by = id.principal
                    /\ value.roles = id.roles \/ (value.unread /\ id.roles = "default")

\* What cache/schema.ts:18 says of the key, and the code does not do: a change of roles busts the
\* cache. An admin whose role read failed leaves his view under "default", where he finds it
\* when he is no admin any more.
RoleChangeBustsCache ==
    \A c \in Calls : \A value \in Shown(c) :
        Cached(c) /\ call[c].id.principal # call[c].user /\ call[c].id.roles = roles[call[c].id.principal] =>
            value.slipped \/ value.roles = call[c].id.roles

\* admin_script only behind its attested verifier, allow list and approval.
AdminScriptVouched(e) ==
    /\ Good(e, "SNOW_EXECUTOR_VERIFIER_ATTESTED") /\ Good(e, "ADMIN_SCRIPT_ALLOWLIST")
    /\ IsSet(e, "ADMIN_SCRIPT_APPROVAL_TOKENS") \/ IsSet(e, "ADMIN_SCRIPT_REQUIRED_GROUP")

\* What production promises of a request it serves.
ServedInProduction(e, props, sameRelease, origin, policy) ==
    /\ props.oidc
    /\ Credential(e) = "own"
    /\ origin \notin {"localhost", "foreign"}
    /\ HighestMode(e, props.maxMode, policy) = "admin_script" => AdminScriptVouched(e)
    /\ sameRelease => policy.tables # {}

\* A production release serves no request but with an OIDC grant, the user's own credential, from
\* no local or foreign page, admin_script only vouched for, and with a policy that has tables if
\* the grant is of this release, all by the Worker's own reading of the settings and not the
\* posture's (index.ts:332-345 with production-posture-core.ts:430-532).
GatesAreClosed ==
    [][\A c \in Calls : call[c] = Idle /\ call'[c] # Idle =>
         LET u == call'[c].user
             i == call'[c].isolate
         IN  \A origin \in Origins :
               Request(c, u, i, call'[c].ask, origin) /\ Profile(EnvOf(i)) = "production" =>
                 ServedInProduction(EnvOf(i), grant[u], grant[u].release = release[i], origin, call'[c].policy)]_vars

\* A table that a full page left out, where ServiceNow hid a row it had counted.
CutUnnoticed(policy, t, seen) ==
    LET chunk == ChunkOf(t, policy.tables)
    IN  Position(t, Known(chunk)) > PageCap /\ ~ (Page(chunk) \subseteq seen.tables)

\* A list that is not called partial has every table of its policy that matches and that its
\* reader saw, but for those beyond a full page of which a row was hidden from him
\* (sn/discovery.ts:208-228).
ListsAreHonest ==
    \A c \in Calls : \A value \in Shown(c) : call[c].ask.kind = "list" /\ ~ value.partial =>
        LET seen == Sees[value.by][value.roles]
        IN  \A t \in (call[c].policy.tables \cap call[c].ask.matches \cap seen.tables) \ value.items :
                CutUnnoticed(call[c].policy, t, seen)

\* Every miss in flight is led by a running call that looks the same key up, or by one whose
\* request was dropped, and every call that waits has such a leader: no answer or failure comes
\* from a miss that has settled (cache/schema.ts:47-61).
MissesAreLed ==
    /\ \A i \in Isolates : \A key \in DOMAIN inFlight[i] :
         LET c == inFlight[i][key]
         IN  call[c] = Gone \/ (Running(c) /\ call[c].isolate = i /\ Cached(c) /\ KeyOf(c) = key)
    /\ \A c \in Calls : call[c].st = "waiting" => LeaderOf(c) \notin {None, c}
=============================================================================
