--------------------------- MODULE DiscoveryProofs ---------------------------
(***************************************************************************)
(* Theorems about the discovery tools, for any releases, users, policies   *)
(* and tables: a production release serves only what it promises, every    *)
(* miss in flight has its leader, nobody is shown what his policy hides,   *)
(* what is shown was read as the one it is looked up by, and a list that   *)
(* is not called partial misses only what a page with a hidden row cut.    *)
(***************************************************************************)
EXTENDS Discovery, FiniteSetTheorems, WellFoundedInduction, TLAPS

USE IdsAssumption, ReleasesAssumption

(***************************************************************************)
(* The settings of a release that passed the posture.                      *)
(***************************************************************************)

Passed(e) == CollectPostureViolations(e) = {} /\ Profile(e) = "production"

\* Every condition of the posture holds of a production release that passed it.
LEMMA PassedMeets ==
  ASSUME NEW e, Passed(e)
  PROVE  /\ Broken(e) = {}
         /\ \A s \in Demanded : Good(e, s)
         /\ ~ Good(e, "ALLOW_LOCALHOST")
         /\ e.credentialMode = "per_user_oauth"
         /\ e.authMode = "oidc"
         /\ ValidActorPolicy(e) /\ ReferencedHaveAllowlists(e) /\ ValidOidcPolicyReferences(e)
         /\ ValidModeCeiling(e, e.tenantMax) /\ ValidModeCeiling(e, e.instanceMax)
         /\ AllowAdminScript(e) => AdminScriptVouched(e)
<1>1. Broken(e) = {} /\ \A s \in Demanded : Good(e, s)
  BY DEF Passed, CollectPostureViolations
<1>2. \A k \in DOMAIN Conditions(e) : Conditions(e)[k]
  BY <1>1 DEF Broken
<1>3. e.authMode = "oidc"
  BY <1>2 DEF Conditions
<1>4. e.authMode # Malformed
  BY <1>3, TextsAssumption
<1>5. QED
  BY <1>1, <1>2, <1>3, <1>4 DEF Conditions, AdminScriptVouched

\* Its requests carry the user's own credential.
LEMMA OwnCredential ==
  ASSUME NEW e, Passed(e)
  PROVE  Credential(e) = "own"
<1>1. OauthReady(e)
  BY PassedMeets DEF OauthReady, Good, IsSet, Demanded, CoreBindings
<1>2. e.credentialMode = "per_user_oauth" /\ e.credentialMode # Malformed
  BY PassedMeets, TextsAssumption
<1>3. QED
  BY <1>1, <1>2 DEF Credential

\* No run of it is higher than both ceilings.
LEMMA CeilingHolds ==
  ASSUME NEW e, Passed(e), NEW m, NEW policy, HighestMode(e, m, policy) = "admin_script"
  PROVE  AdminScriptVouched(e)
<1> DEFINE ceiling == MinByRisk(ParseMaxMode(e.tenantMax), ParseMaxMode(e.instanceMax))
<1>1. /\ e.tenantMax \in Modes /\ e.instanceMax \in Modes
      /\ e.tenantMax = "admin_script" => AllowAdminScript(e)
      /\ e.instanceMax = "admin_script" => AllowAdminScript(e)
  BY PassedMeets DEF ValidModeCeiling
<1>2. ParseMaxMode(e.tenantMax) = e.tenantMax /\ ParseMaxMode(e.instanceMax) = e.instanceMax
  BY <1>1, TextsAssumption DEF ParseMaxMode
<1>3. ceiling \in Modes /\ (ceiling = "admin_script" => AllowAdminScript(e))
  BY <1>1, <1>2 DEF MinByRisk
<1>4. ceiling = "admin_script"
  BY <1>3 DEF HighestMode, MinByRisk, Modes, Risk
<1>5. QED
  BY <1>3, <1>4, PassedMeets

\* The policy a group of this release gives has an allow list, in the Worker's reading too.
LEMMA PolicyHasTables ==
  ASSUME NEW r \in Releases, Passed(Deployed[r]), NEW g, GroupPolicy(Deployed[r], g) # Fails,
         ActorPolicies[r] # Fails
  PROVE  PolicyNamed(ActorPolicies[r], GroupPolicy(Deployed[r], g).policy).tables # {}
<1> DEFINE e == Deployed[r]
           n == GroupPolicy(e, g).policy
           policies == [k \in {"default"} \cup Keys(e.named) |->
                          IF k \in Keys(e.named) THEN LoadActorPolicy(e.named[k]) ELSE FlatPolicy(e)]
<1>1. n \in Referenced(e)
  BY DEF GroupPolicy, Referenced
<1>2. n \in WithAllowlist(e)
  <2>1. e.authMode # Malformed
    BY PassedMeets, TextsAssumption
  <2>2. QED
    BY <1>1, <2>1, PassedMeets DEF ReferencedHaveAllowlists, ValidOidcPolicyReferences
<1>3. /\ ActorPolicies[r] = policies
      /\ FlatPolicy(e) # Fails
      /\ \A k \in Keys(e.named) : NamedPolicyLoads(e, k)
  BY DEF ActorPolicies, LoadNamedActorPolicies
<1>4. CASE n \in Keys(e.named)
  <2>1. /\ e.named[n] # Malformed /\ LoadActorPolicy(e.named[n]) # Fails
        /\ IsText(e.named[n].allow)
    BY <1>3, <1>4, PassedMeets DEF NamedPolicyLoads, ValidActorPolicy, ValidNamedPolicy
  <2>2. LoadActorPolicy(e.named[n]).tables = e.named[n].allow
    BY <1>3, <1>4, <2>1 DEF LoadActorPolicy, NamedPolicyLoads, IsText
  <2>3. QED
    BY <1>3, <1>4, <2>1, <2>2, AllowListAssumption DEF PolicyNamed
<1>5. CASE n \notin Keys(e.named)
  <2>1. n = "default" /\ IsText(e.flat.allow)
    BY <1>2, <1>5 DEF WithAllowlist
  <2>2. FlatPolicy(e).tables = e.flat.allow
    <3>1. HasFlatPolicyConfig(e.flat)
      BY <2>1, AllowListAssumption DEF HasFlatPolicyConfig, IsText
    <3>2. QED
      BY <1>3, <2>1, <3>1 DEF FlatPolicy, LoadActorPolicy, IsText
  <2>3. QED
    BY <1>3, <1>5, <2>1, <2>2, AllowListAssumption DEF PolicyNamed
<1>6. QED
  BY <1>4, <1>5

(***************************************************************************)
(* The inductive invariant, part by part.                                  *)
(***************************************************************************)

Policies ==
  {DenyAllPolicy} \cup
  UNION {{ActorPolicies[r][n] : n \in DOMAIN ActorPolicies[r]} : r \in {q \in Releases : ActorPolicies[q] # Fails}}

Groups == UNION {GroupsOf[u] : u \in Users}
Grants == {Props(Deployed[p[1]], p[1], p[2]) : p \in Releases \X Groups}
Lookups == [principal : Users \cup Accounts, roles : RoleNames, policy : Policies, ask : Asks]
Items == {row[2] : row \in Dictionary} \cup UNION {policy.tables : policy \in Policies}
Values == [by : Accounts, roles : RoleNames, slipped : BOOLEAN, unread : BOOLEAN, items : SUBSET Items, partial : BOOLEAN]
Stages == {"asking", "looking", "paying", "resolving", "waiting", "fetching", "fetched"}
Requests ==
  [st : Stages, user : Users, isolate : Isolates, ask : Asks, policy : Policies, slipped : BOOLEAN, unread : BOOLEAN,
   id : Identities \cup {None}, late : BOOLEAN, by : Accounts \cup {None}, value : Values \cup {None}]
Principals == [account : Accounts, roles : RoleNames, age : Int, changed : BOOLEAN, unread : BOOLEAN]

DiscoveryTypeOK ==
  /\ release \in [Isolates -> Releases]
  /\ grant \in [Users -> Grants \cup {None}]
  /\ account \in [Users -> Accounts \cup {None}]
  /\ known \in [Users -> Principals \cup {None}]
  /\ roles \in [Accounts -> RoleNames] /\ \A a \in Accounts : roles[a] \in DOMAIN Sees[a]
  /\ kv \in [DOMAIN kv -> [value : Values, left : Int]] /\ DOMAIN kv \subseteq Lookups
  /\ DOMAIN inFlight = Isolates
  /\ \A i \in Isolates : inFlight[i] \in [DOMAIN inFlight[i] -> Calls] /\ DOMAIN inFlight[i] \subseteq Lookups
  /\ call \in [Calls -> Requests \cup {Idle, Ended, Gone}]

\* A grant was given by a release that passed, for a group of its user's.
GrantsAreIssued ==
  \A u \in Users : grant[u] # None =>
    \E r \in Asserted, g \in GroupsOf[u] : CanSignIn(Deployed[r], g) /\ grant[u] = Props(Deployed[r], r, g)

\* What a call has at each stage.
StageFits(q) ==
  /\ q.st = "asking" => q.id = None /\ q.by = None /\ ~ q.late
  /\ q.st = "paying" => q.by = None /\ (q.late <=> q.id = None)
  /\ q.st = "resolving" => q.id = None /\ q.by # None /\ q.late
  /\ q.st = "looking" => q.id # None /\ (q.late <=> q.by # None)
  /\ q.st = "waiting" => q.id # None
  /\ q.st = "fetching" => q.by # None
  /\ q.st = "fetched" => q.value \in Values

BeforeRead == {"looking", "paying", "resolving", "fetching"}

\* Roles are the ones the account has, or none where reading them failed.
RolesFit(given, actual, unread) == given = actual \/ (unread /\ given = "default")

\* The identity of a call, and the account it reads as, are its user's unless they slipped.
IdFits(q) == q.id # None =>
  \/ EnvOf(q.isolate).credentialMode = "integration_user" /\ q.id.principal = q.user
  \/ /\ EnvOf(q.isolate).credentialMode = "per_user_oauth" /\ q.id.principal \in Accounts
     /\ q.st \in BeforeRead =>
          q.slipped \/ (q.id.principal = account[q.user] /\ RolesFit(q.id.roles, roles[q.id.principal], q.unread))

ByFits(q) == q.by # None /\ q.st \in BeforeRead =>
  \/ Credential(EnvOf(q.isolate)) = "own" /\ (q.slipped \/ q.by = account[q.user])
  \/ Credential(EnvOf(q.isolate)) \in {"shared", "basic"} /\ q.by = Shared

\* What a value has to be, to be shown for a key.
PermittedFor(policy, ask, value) == \A item \in value.items : Permitted(policy, ask, item)
HonestFor(policy, ask, value) ==
  ask.kind = "list" /\ ~ value.partial =>
    LET seen == Sees[value.by][value.roles]
    IN  \A t \in (policy.tables \cap ask.matches \cap seen.tables) \ value.items : CutUnnoticed(policy, t, seen)
FitsAsk(policy, ask, value) == PermittedFor(policy, ask, value) /\ HonestFor(policy, ask, value)
OwnFor(id, value) ==
  IF id.principal \in Users THEN value.by = Shared
  ELSE value.slipped \/ (value.by = id.principal /\ RolesFit(id.roles, value.roles, value.unread))
AnswerFits(q) == q.st = "fetched" => FitsAsk(q.policy, q.ask, q.value) /\ (q.id # None => OwnFor(q.id, q.value))

CallFits(q) == StageFits(q) /\ IdFits(q) /\ ByFits(q) /\ AnswerFits(q)
CallsFit == \A c \in Calls : call[c] \in Requests => CallFits(call[c])

EntriesFit ==
  \A key \in DOMAIN kv : FitsAsk(key.policy, key.ask, kv[key].value) /\ OwnFor(key, kv[key].value)

\* A principal young enough is still the user's but for roles that were not read, or has changed.
KnownIsOwn ==
  \A u \in Users : known[u] # None /\ known[u].age <= PrincipalTtl /\ ~ known[u].changed =>
    known[u].account = account[u] /\ RolesFit(known[u].roles, roles[known[u].account], known[u].unread)

\* A leader has its key from its lookup to its answer.
Leading == {"paying", "fetching", "fetched"}
KeyFor(q) == Key(q.id, q.policy, q.ask)
LeadsFor(q, i, key) == q \in Requests /\ q.st \in Leading /\ q.id # None /\ q.isolate = i /\ KeyFor(q) = key
MissesFit ==
  /\ \A i \in Isolates : \A key \in DOMAIN inFlight[i] :
        call[inFlight[i][key]] = Gone \/ LeadsFor(call[inFlight[i][key]], i, key)
  /\ \A c \in Calls : call[c] \in Requests /\ call[c].st = "waiting" => KeyFor(call[c]) \in DOMAIN inFlight[call[c].isolate]

IInv == DiscoveryTypeOK /\ GrantsAreIssued /\ CallsFit /\ EntriesFit /\ KnownIsOwn /\ MissesFit

(***************************************************************************)
(* Lemmas about one call.                                                  *)
(***************************************************************************)

\* A request under way is none of the markers of a call.
LEMMA StagesApart ==
  ASSUME NEW q \in Requests
  PROVE  q \notin {Idle, Ended, Gone} /\ q.st \in Stages
BY DEF Requests, Stages, Idle, Ended, Gone

\* A call at a stage is a request.
LEMMA AtStage ==
  ASSUME DiscoveryTypeOK, NEW c \in Calls, call[c].st \in Stages
  PROVE  call[c] \in Requests
<1>1. call[c] \in Requests \cup {Idle, Ended, Gone}
  BY DEF DiscoveryTypeOK
<1>2. call[c] \notin {Idle, Ended, Gone}
  BY DEF Stages, Idle, Ended, Gone
<1>3. QED
  BY <1>1, <1>2

\* A call moves on and nothing else does but the principal and the misses.
LEMMA OneCallMoves ==
  ASSUME IInv, NEW c \in Calls, NEW q \in Requests, call' = [call EXCEPT ![c] = q], CallFits(q),
         UNCHANGED <<release, grant, account, roles, kv>>,
         known' \in [Users -> Principals \cup {None}], KnownIsOwn',
         DOMAIN inFlight' = Isolates,
         \A i \in Isolates : inFlight'[i] \in [DOMAIN inFlight'[i] -> Calls] /\ DOMAIN inFlight'[i] \subseteq Lookups,
         MissesFit'
  PROVE  IInv'
<1>1. DiscoveryTypeOK'
  BY DEF IInv, DiscoveryTypeOK
<1>2. GrantsAreIssued' /\ EntriesFit'
  BY DEF IInv, GrantsAreIssued, EntriesFit, FitsAsk, PermittedFor, HonestFor, OwnFor
<1>3. CallsFit'
  <2>1. ASSUME NEW p, CallFits(p)
        PROVE  CallFits(p)'
    BY <2>1 DEF CallFits, StageFits, IdFits, ByFits, AnswerFits, EnvOf, FitsAsk, PermittedFor, HonestFor, OwnFor
  <2> SUFFICES ASSUME NEW d \in Calls, call'[d] \in Requests
               PROVE  CallFits(call[d])'
    BY DEF CallsFit
  <2>2. PICK p : p = call'[d]
    OBVIOUS
  <2>3. p = IF d = c THEN q ELSE call[d]
    BY <2>2 DEF IInv, DiscoveryTypeOK
  <2>4. CallFits(p)
    BY <2>2, <2>3 DEF IInv, CallsFit
  <2>5. CallFits(p)'
    BY <2>1, <2>4
  <2>6. QED
    BY <2>2, <2>5 DEF CallFits, StageFits, IdFits, ByFits, AnswerFits, EnvOf, FitsAsk, PermittedFor, HonestFor, OwnFor
<1>4. QED
  BY <1>1, <1>2, <1>3 DEF IInv

\* A call that leads nothing, or goes on leading, leaves the misses led.
LEMMA MissesStayLed ==
  ASSUME DiscoveryTypeOK, MissesFit, NEW c \in Calls, NEW q \in Requests,
         call' = [call EXCEPT ![c] = q], UNCHANGED inFlight,
         q.st = "waiting" => KeyFor(q) \in DOMAIN inFlight[q.isolate],
         \A i, key : LeadsFor(call[c], i, key) => LeadsFor(q, i, key),
         call[c] # Gone
  PROVE  MissesFit'
BY DEF DiscoveryTypeOK, MissesFit

\* A request at one of these stages, with what the invariant says of it.
LEMMA Here ==
  ASSUME IInv, NEW c \in Calls, NEW st \in Stages, InState(c, st)
  PROVE  /\ call[c] \in Requests /\ call[c].st = st /\ call[c] # Gone
         /\ CallFits(call[c])
         /\ call[c].user \in Users /\ call[c].isolate \in Isolates
BY AtStage, StagesApart DEF IInv, InState, CallsFit, Requests

\* The types a miss is about.
LEMMA TypesOfMisses ==
  ASSUME IInv
  PROVE  /\ known \in [Users -> Principals \cup {None}] /\ KnownIsOwn
         /\ DOMAIN inFlight = Isolates
         /\ \A i \in Isolates : inFlight[i] \in [DOMAIN inFlight[i] -> Calls] /\ DOMAIN inFlight[i] \subseteq Lookups
BY DEF IInv, DiscoveryTypeOK

\* An identity that costs nothing is the user's, unless his principal has changed or was not read.
LEMMA FreshIsOwn ==
  ASSUME DiscoveryTypeOK, KnownIsOwn, NEW u \in Users, NEW e, NEW id, id = FreshIdentity(e, u), id # None
  PROVE  /\ id \in Identities
         /\ \/ e.credentialMode = "integration_user" /\ id.principal = u
            \/ /\ e.credentialMode = "per_user_oauth" /\ id.principal \in Accounts
               /\ Outdated(u) \/ (id.principal = account[u] /\ RolesFit(id.roles, roles[id.principal], Unread(u)))
<1>1. CASE e.credentialMode = "integration_user"
  BY <1>1 DEF FreshIdentity, Identities, RoleNames
<1>2. CASE e.credentialMode # "integration_user"
  <2>1. /\ CanIdentify(e) /\ HasFreshPrincipal(u)
        /\ id = [principal |-> known[u].account, roles |-> known[u].roles]
    BY <1>2 DEF FreshIdentity, Identity
  <2>2. known[u] \in Principals
    BY <2>1 DEF HasFreshPrincipal, DiscoveryTypeOK
  <2>3. id \in Identities /\ id.principal = known[u].account /\ id.roles = known[u].roles
    BY <2>1, <2>2 DEF Principals, Identities
  <2>4. QED
    BY <2>1, <2>2, <2>3 DEF HasFreshPrincipal, Outdated, Unread, KnownIsOwn, CanIdentify, Principals,
                                RolesFit
<1>3. QED
  BY <1>1, <1>2

\* A principal resolved anew is the account's, with its roles or without any.
LEMMA PrincipalFits ==
  ASSUME DiscoveryTypeOK, NEW a \in Accounts, NEW r \in ReadRoles(a), NEW p, p = Principal(a, r)
  PROVE  /\ p \in Principals /\ p.account = a /\ RolesFit(p.roles, roles[a], p.unread)
         /\ Identity(p) \in Identities /\ Identity(p).principal = a /\ Identity(p).roles = p.roles
<1>1. r \in RoleNames /\ (r = roles[a] \/ r = "default")
  BY DEF ReadRoles, RoleNames, DiscoveryTypeOK
<1>2. PICK unread \in BOOLEAN : unread = (r # roles[a])
  OBVIOUS
<1>3. p = [account |-> a, roles |-> r, age |-> 0, changed |-> FALSE, unread |-> unread]
  BY <1>2 DEF Principal
<1>4. /\ p \in Principals /\ p.account = a /\ p.roles = r /\ p.unread = unread
  BY <1>1, <1>2, <1>3 DEF Principals
<1>5. RolesFit(p.roles, roles[a], p.unread)
  BY <1>1, <1>2, <1>4 DEF RolesFit
<1>6. QED
  BY <1>1, <1>4, <1>5 DEF Identity, Identities

\* Asking for the identity keeps the invariant.
LEMMA AskIdentityKeeps ==
  ASSUME IInv, NEW c \in Calls, AskIdentity(c)
  PROVE  IInv'
<1> DEFINE u == call[c].user
           id == FreshIdentity(Env(c), u)
           early == [call[c] EXCEPT !.st = "looking", !.id = id, !.slipped = Outdated(u), !.unread = Unread(u)]
           later == [call[c] EXCEPT !.st = "paying", !.late = TRUE]
<1>1. /\ call[c] \in Requests /\ call[c].st = "asking" /\ call[c] # Gone /\ CallFits(call[c])
      /\ u \in Users /\ call[c].isolate \in Isolates
  BY Here DEF AskIdentity, InState, Stages
<1>2. /\ UNCHANGED <<release, grant, account, roles, kv, known, inFlight>>
      /\ \/ id # None /\ call' = [call EXCEPT ![c] = early]
         \/ call' = [call EXCEPT ![c] = later]
  BY DEF AskIdentity, Env
<1>3. KnownIsOwn'
  BY <1>2 DEF IInv, KnownIsOwn
<1>4. CASE id # None /\ call' = [call EXCEPT ![c] = early]
  <2>1. /\ id \in Identities
        /\ \/ Env(c).credentialMode = "integration_user" /\ id.principal = u
           \/ /\ Env(c).credentialMode = "per_user_oauth" /\ id.principal \in Accounts
              /\ Outdated(u) \/ (id.principal = account[u] /\ RolesFit(id.roles, roles[id.principal], Unread(u)))
    BY <1>1, <1>4, FreshIsOwn DEF IInv
  <2>2. /\ early \in Requests /\ early.st = "looking" /\ early.id = id /\ early.slipped = Outdated(u)
        /\ early.unread = Unread(u) /\ early.user = u /\ early.isolate = call[c].isolate /\ early.by = call[c].by /\ early.late = call[c].late
    <3>1. known[u] \in Principals \cup {None}
      BY <1>1 DEF IInv, DiscoveryTypeOK
    <3>2. Outdated(u) \in BOOLEAN /\ Unread(u) \in BOOLEAN
      BY <3>1 DEF Outdated, Unread, Principals
    <3>3. QED
      BY <1>1, <2>1, <3>2 DEF Requests, Stages
  <2>3. CallFits(early)
    BY <1>1, <1>4, <2>1, <2>2 DEF CallFits, StageFits, IdFits, ByFits, AnswerFits, Env
  <2>4. MissesFit'
    BY <1>1, <1>2, <1>4, <2>2, MissesStayLed DEF IInv, LeadsFor, Leading
  <2>5. QED
    BY <1>2, <1>3, <1>4, <2>2, <2>3, <2>4, TypesOfMisses, OneCallMoves
<1>5. CASE call' = [call EXCEPT ![c] = later]
  <2>1. /\ later \in Requests /\ later.st = "paying" /\ later.id = None /\ later.by = None /\ later.late
    BY <1>1 DEF Requests, Stages, CallFits, StageFits
  <2>2. CallFits(later)
    BY <2>1 DEF CallFits, StageFits, IdFits, ByFits, AnswerFits
  <2>3. MissesFit'
    BY <1>1, <1>2, <1>5, <2>1, MissesStayLed DEF IInv, LeadsFor, Leading
  <2>4. QED
    BY <1>2, <1>3, <1>5, <2>1, <2>2, <2>3, TypesOfMisses, OneCallMoves
<1>6. QED
  BY <1>2, <1>4, <1>5

\* Joining a miss that is in flight keeps it.
LEMMA JoinKeeps ==
  ASSUME IInv, NEW c \in Calls, Join(c)
  PROVE  IInv'
<1> DEFINE q == [call[c] EXCEPT !.st = "waiting", !.late = FALSE, !.by = None, !.slipped = FALSE, !.unread = FALSE]
<1>1. /\ call[c] \in Requests /\ call[c].st = "looking" /\ call[c] # Gone /\ CallFits(call[c])
      /\ call[c].user \in Users /\ call[c].isolate \in Isolates
  BY Here DEF Join, InState, Stages
<1>2. /\ UNCHANGED <<release, grant, account, roles, kv, known, inFlight>>
      /\ call' = [call EXCEPT ![c] = q]
      /\ KeyFor(call[c]) \in DOMAIN inFlight[call[c].isolate]
  BY DEF Join, LeaderOf, KeyOf, KeyFor
<1>3. KnownIsOwn'
  BY <1>2 DEF IInv, KnownIsOwn
<1>4. /\ q \in Requests /\ q.st = "waiting" /\ q.id = call[c].id /\ q.by = None
      /\ q.user = call[c].user /\ q.isolate = call[c].isolate /\ KeyFor(q) = KeyFor(call[c])
  BY <1>1 DEF Requests, Stages, KeyFor, Key
<1>5. CallFits(q)
  BY <1>1, <1>4 DEF CallFits, StageFits, IdFits, ByFits, AnswerFits, BeforeRead
<1>6. MissesFit'
  BY <1>1, <1>2, <1>4, MissesStayLed DEF IInv, LeadsFor, Leading
<1>7. QED
  BY <1>2, <1>3, <1>4, <1>5, <1>6, TypesOfMisses, OneCallMoves

\* Leading a miss keeps it.
LEMMA LeadKeeps ==
  ASSUME IInv, NEW c \in Calls, Lead(c)
  PROVE  IInv'
<1> DEFINE q == [call[c] EXCEPT !.st = IF call[c].late THEN "fetching" ELSE "paying", !.late = FALSE]
           i == call[c].isolate
           key == KeyFor(call[c])
<1>1. /\ call[c] \in Requests /\ call[c].st = "looking" /\ call[c] # Gone /\ CallFits(call[c])
      /\ call[c].user \in Users /\ i \in Isolates /\ call[c].id # None
  BY Here DEF Lead, InState, Stages, CallFits, StageFits
<1>2. /\ UNCHANGED <<release, grant, account, roles, kv, known>>
      /\ call' = [call EXCEPT ![c] = q]
      /\ inFlight' = [inFlight EXCEPT ![i] = Put(inFlight[i], key, c)]
      /\ LeaderOf(c) = None
  BY DEF Lead, KeyOf, KeyFor
<1>3. KnownIsOwn'
  BY <1>2 DEF IInv, KnownIsOwn
<1>4. /\ q \in Requests /\ q.st \in {"fetching", "paying"} /\ q.id = call[c].id /\ q.by = call[c].by /\ ~ q.late
      /\ q.user = call[c].user /\ q.isolate = i /\ KeyFor(q) = key /\ q.slipped = call[c].slipped
      /\ q.unread = call[c].unread
      /\ q.st = "fetching" <=> call[c].late
  BY <1>1 DEF Requests, Stages, KeyFor, Key
<1>5. CallFits(q)
  BY <1>1, <1>4 DEF CallFits, StageFits, IdFits, ByFits, AnswerFits, BeforeRead
<1>6. key \in Lookups
  BY <1>1 DEF KeyFor, Key, Lookups, Requests, Identities
<1>7. /\ DOMAIN inFlight' = Isolates
      /\ \A j \in Isolates : j # i => inFlight'[j] = inFlight[j]
      /\ inFlight'[i] = Put(inFlight[i], key, c)
      /\ \A j \in Isolates : inFlight[j] \in [DOMAIN inFlight[j] -> Calls] /\ DOMAIN inFlight[j] \subseteq Lookups
  BY <1>1, <1>2, TypesOfMisses
<1>8. /\ Put(inFlight[i], key, c) \in [DOMAIN inFlight[i] \cup {key} -> Calls]
      /\ \A k \in DOMAIN inFlight[i] \cup {key} : Put(inFlight[i], key, c)[k] = IF k = key THEN c ELSE inFlight[i][k]
  BY <1>1, <1>7 DEF Put
<1>9. \A j \in Isolates : inFlight'[j] \in [DOMAIN inFlight'[j] -> Calls] /\ DOMAIN inFlight'[j] \subseteq Lookups
  BY <1>6, <1>7, <1>8
<1>10. MissesFit'
  <2>1. LeadsFor(q, i, key)
    BY <1>1, <1>4 DEF LeadsFor, Leading
  <2>2. \A j, k : ~ LeadsFor(call[c], j, k)
    BY <1>1 DEF LeadsFor, Leading
  <2>3. ASSUME NEW j \in Isolates, NEW k \in DOMAIN inFlight'[j]
        PROVE  call'[inFlight'[j][k]] = Gone \/ LeadsFor(call'[inFlight'[j][k]], j, k)
    <3>1. CASE j = i /\ k = key
      <4>1. inFlight'[j][k] = c /\ call'[c] = q
        BY <1>2, <1>7, <1>8, <3>1 DEF IInv, DiscoveryTypeOK
      <4>2. QED
        BY <2>1, <3>1, <4>1
    <3>2. CASE ~ (j = i /\ k = key)
      <4>1. k \in DOMAIN inFlight[j] /\ inFlight'[j][k] = inFlight[j][k] /\ inFlight[j][k] \in Calls
        BY <1>7, <1>8, <3>2
      <4>2. call[inFlight[j][k]] = Gone \/ LeadsFor(call[inFlight[j][k]], j, k)
        BY <4>1 DEF IInv, MissesFit
      <4>3. inFlight[j][k] # c
        BY <1>1, <2>2, <4>2
      <4>4. call'[inFlight[j][k]] = call[inFlight[j][k]]
        BY <1>2, <4>1, <4>3 DEF IInv, DiscoveryTypeOK
      <4>5. QED
        BY <4>1, <4>2, <4>4
    <3>3. QED
      BY <3>1, <3>2
  <2>4. ASSUME NEW d \in Calls, call'[d] \in Requests, call'[d].st = "waiting"
        PROVE  KeyFor(call'[d]) \in DOMAIN inFlight'[call'[d].isolate]
    <3>1. d # c /\ call'[d] = call[d] /\ call[d].isolate \in Isolates
      BY <1>2, <1>4, <2>4 DEF IInv, DiscoveryTypeOK, Requests
    <3>2. KeyFor(call[d]) \in DOMAIN inFlight[call[d].isolate]
      BY <2>4, <3>1 DEF IInv, MissesFit
    <3>3. QED
      BY <1>7, <1>8, <3>1, <3>2
  <2>5. QED
    BY <2>3, <2>4 DEF MissesFit, LeadsFor, KeyFor, Key
<1>11. known' \in [Users -> Principals \cup {None}]
  BY <1>2, TypesOfMisses
<1>12. QED
  BY <1>2, <1>3, <1>4, <1>5, <1>7, <1>9, <1>10, <1>11, OneCallMoves

\* Paying for the request keeps it.
LEMMA PayKeeps ==
  ASSUME IInv, NEW c \in Calls, Pay(c)
  PROVE  IInv'
<1> DEFINE by == Bearer(Env(c), call[c].user)
           q == [call[c] EXCEPT !.st = IF call[c].late THEN "resolving" ELSE "fetching", !.by = by]
<1>1. /\ call[c] \in Requests /\ call[c].st = "paying" /\ call[c] # Gone /\ CallFits(call[c])
      /\ call[c].user \in Users /\ call[c].isolate \in Isolates
  BY Here DEF Pay, InState, Stages
<1>2. /\ UNCHANGED <<release, grant, account, roles, kv, known, inFlight>>
      /\ call' = [call EXCEPT ![c] = q]
      /\ by # None
  BY DEF Pay
<1>3. KnownIsOwn'
  BY <1>2 DEF IInv, KnownIsOwn
<1>4. /\ by \in Accounts
      /\ \/ Credential(Env(c)) = "own" /\ by = account[call[c].user]
         \/ Credential(Env(c)) \in {"shared", "basic"} /\ by = Shared
  <2>1. Shared \in Accounts
    BY DEF Accounts
  <2>2. account[call[c].user] \in Accounts \cup {None}
    BY <1>1 DEF IInv, DiscoveryTypeOK
  <2>3. Credential(Env(c)) \in {"own", "shared", "basic", "none"}
    BY DEF Credential
  <2>4. QED
    BY <1>2, <2>1, <2>2, <2>3 DEF Bearer
<1>5. /\ q \in Requests /\ q.st \in {"resolving", "fetching"} /\ q.id = call[c].id /\ q.by = by
      /\ q.late = call[c].late /\ q.slipped = call[c].slipped /\ q.unread = call[c].unread /\ q.user = call[c].user
      /\ q.isolate = call[c].isolate /\ KeyFor(q) = KeyFor(call[c])
      /\ q.st = "resolving" <=> call[c].late
  BY <1>1, <1>4 DEF Requests, Stages, KeyFor, Key
<1>6. CallFits(q)
  BY <1>1, <1>2, <1>4, <1>5 DEF CallFits, StageFits, IdFits, ByFits, AnswerFits, BeforeRead, Env
<1>7. MissesFit'
  BY <1>1, <1>2, <1>5, MissesStayLed DEF IInv, LeadsFor, Leading, CallFits, StageFits
<1>8. QED
  BY <1>2, <1>3, <1>5, <1>6, <1>7, TypesOfMisses, OneCallMoves

\* Resolving the identity anew keeps it.
LEMMA ResolveKeeps ==
  ASSUME IInv, NEW c \in Calls, Resolve(c)
  PROVE  IInv'
<1> DEFINE u == call[c].user
           id == FreshIdentity(Env(c), u)
           found == [call[c] EXCEPT !.st = "looking", !.id = id, !.slipped = call[c].slipped \/ Outdated(u),
                                    !.unread = Unread(u)]
           live(r) == Principal(account[u], r)
           resolved(r) == [call[c] EXCEPT !.st = "looking", !.id = Identity(live(r)), !.unread = live(r).unread]
           bypassing == [call[c] EXCEPT !.st = "fetching", !.late = FALSE]
<1>1. /\ call[c] \in Requests /\ call[c].st = "resolving" /\ call[c] # Gone /\ CallFits(call[c])
      /\ u \in Users /\ call[c].isolate \in Isolates /\ call[c].late /\ call[c].by # None /\ call[c].id = None
  BY Here DEF Resolve, InState, Stages, CallFits, StageFits
<1>2. /\ UNCHANGED <<release, grant, account, roles, kv, inFlight>>
      /\ \/ id # None /\ call' = [call EXCEPT ![c] = found] /\ UNCHANGED known
         \/ /\ CanIdentify(Env(c)) /\ account[u] # None
            /\ \E r \in ReadRoles(account[u]) :
                  call' = [call EXCEPT ![c] = resolved(r)] /\ known' = [known EXCEPT ![u] = live(r)]
         \/ call' = [call EXCEPT ![c] = bypassing] /\ UNCHANGED known
  <2>1. UNCHANGED <<release, grant, account, roles, kv, inFlight>>
    BY DEF Resolve
  <2>2. \/ /\ id # None
           /\ call' = [call EXCEPT ![c].st = "looking", ![c].id = id, ![c].slipped = @ \/ Outdated(u),
                                   ![c].unread = Unread(u)]
           /\ UNCHANGED known
        \/ /\ CanIdentify(Env(c)) /\ account[u] # None
           /\ \E r \in ReadRoles(account[u]) :
                 /\ call' = [call EXCEPT ![c].st = "looking", ![c].id = Identity(live(r)), ![c].unread = live(r).unread]
                 /\ known' = [known EXCEPT ![u] = live(r)]
        \/ call' = [call EXCEPT ![c].st = "fetching", ![c].late = FALSE] /\ UNCHANGED known
    BY DEF Resolve
  <2>3. ASSUME NEW r
        PROVE  [call EXCEPT ![c].st = "looking", ![c].id = Identity(live(r)), ![c].unread = live(r).unread]
                 = [call EXCEPT ![c] = resolved(r)]
    OBVIOUS
  <2>4. [call EXCEPT ![c].st = "looking", ![c].id = id, ![c].slipped = @ \/ Outdated(u), ![c].unread = Unread(u)]
          = [call EXCEPT ![c] = found]
    OBVIOUS
  <2>5. [call EXCEPT ![c].st = "fetching", ![c].late = FALSE] = [call EXCEPT ![c] = bypassing]
    OBVIOUS
  <2> HIDE DEF live, resolved, found, bypassing, id
  <2>6. QED
    BY <2>1, <2>2, <2>3, <2>4, <2>5
<1>3. CASE id # None /\ call' = [call EXCEPT ![c] = found] /\ UNCHANGED known
  <2>1. /\ id \in Identities
        /\ \/ Env(c).credentialMode = "integration_user" /\ id.principal = u
           \/ /\ Env(c).credentialMode = "per_user_oauth" /\ id.principal \in Accounts
              /\ Outdated(u) \/ (id.principal = account[u] /\ RolesFit(id.roles, roles[id.principal], Unread(u)))
    BY <1>1, <1>3, FreshIsOwn DEF IInv
  <2>2. /\ found \in Requests /\ found.st = "looking" /\ found.id = id /\ found.user = u
        /\ found.slipped = (call[c].slipped \/ Outdated(u)) /\ found.unread = Unread(u)
        /\ found.isolate = call[c].isolate /\ found.by = call[c].by /\ found.late = call[c].late
    <3>1. known[u] \in Principals \cup {None}
      BY <1>1 DEF IInv, DiscoveryTypeOK
    <3>2. Outdated(u) \in BOOLEAN /\ Unread(u) \in BOOLEAN
      BY <3>1 DEF Outdated, Unread, Principals
    <3>3. QED
      BY <1>1, <2>1, <3>2 DEF Requests, Stages
  <2>3. CallFits(found)
    BY <1>1, <1>3, <2>1, <2>2 DEF CallFits, StageFits, IdFits, ByFits, AnswerFits, Env, BeforeRead
  <2>4. MissesFit'
    BY <1>1, <1>2, <1>3, <2>2, MissesStayLed DEF IInv, LeadsFor, Leading
  <2>5. KnownIsOwn'
    BY <1>2, <1>3 DEF IInv, KnownIsOwn
  <2>6. QED
    BY <1>2, <1>3, <2>2, <2>3, <2>4, <2>5, TypesOfMisses, OneCallMoves
<1>4. ASSUME CanIdentify(Env(c)), account[u] # None, NEW r \in ReadRoles(account[u]),
             call' = [call EXCEPT ![c] = resolved(r)], known' = [known EXCEPT ![u] = live(r)]
      PROVE  IInv'
  <2>1. account[u] \in Accounts /\ roles[account[u]] \in RoleNames
    BY <1>1, <1>4 DEF IInv, DiscoveryTypeOK
  <2>2. PICK p : p = live(r)
    OBVIOUS
  <2>3. /\ p \in Principals /\ p.account = account[u] /\ RolesFit(p.roles, roles[account[u]], p.unread)
        /\ Identity(p) \in Identities /\ Identity(p).principal = account[u] /\ Identity(p).roles = p.roles
    BY <1>4, <2>1, <2>2, PrincipalFits DEF IInv
  <2>4. PICK q : q = resolved(r)
    OBVIOUS
  <2>5. /\ q \in Requests /\ q.st = "looking" /\ q.id = Identity(p) /\ q.user = u
        /\ q.slipped = call[c].slipped /\ q.unread = p.unread
        /\ q.isolate = call[c].isolate /\ q.by = call[c].by /\ q.late = call[c].late
    <3>1. q = [call[c] EXCEPT !.st = "looking", !.id = Identity(p), !.unread = p.unread]
      BY <2>2, <2>4
    <3>2. p.unread \in BOOLEAN
      BY <2>3 DEF Principals
    <3> HIDE DEF live, resolved
    <3>3. QED
      BY <1>1, <2>3, <3>1, <3>2 DEF Requests, Stages
  <2>6. call' = [call EXCEPT ![c] = q] /\ known' = [known EXCEPT ![u] = p]
    BY <1>4, <2>2, <2>4
  <2> HIDE DEF live, resolved
  <2>7. CallFits(q)
    BY <1>1, <1>4, <2>1, <2>3, <2>5 DEF CallFits, StageFits, IdFits, ByFits, AnswerFits, Env, BeforeRead, CanIdentify
  <2>8. MissesFit'
    BY <1>1, <1>2, <2>5, <2>6, MissesStayLed DEF IInv, LeadsFor, Leading
  <2>9. known' \in [Users -> Principals \cup {None}] /\ KnownIsOwn'
    BY <1>1, <1>2, <2>3, <2>6 DEF IInv, DiscoveryTypeOK, KnownIsOwn
  <2>10. QED
    BY <1>2, <2>5, <2>6, <2>7, <2>8, <2>9, TypesOfMisses, OneCallMoves
<1>5. CASE call' = [call EXCEPT ![c] = bypassing] /\ UNCHANGED known
  <2>1. /\ bypassing \in Requests /\ bypassing.st = "fetching" /\ bypassing.id = None
        /\ bypassing.user = u /\ bypassing.slipped = call[c].slipped
        /\ bypassing.isolate = call[c].isolate /\ bypassing.by = call[c].by
    BY <1>1 DEF Requests, Stages
  <2>2. CallFits(bypassing)
    BY <1>1, <2>1 DEF CallFits, StageFits, IdFits, ByFits, AnswerFits, BeforeRead
  <2>3. MissesFit'
    BY <1>1, <1>2, <1>5, <2>1, MissesStayLed DEF IInv, LeadsFor, Leading
  <2>4. KnownIsOwn'
    BY <1>2, <1>5 DEF IInv, KnownIsOwn
  <2>5. QED
    BY <1>2, <1>5, <2>1, <2>2, <2>3, <2>4, TypesOfMisses, OneCallMoves
<1>6. QED
  BY <1>2, <1>3, <1>4, <1>5

\* Tables that have a name have places of their own.
LEMMA PlacesAreApart ==
  ASSUME NEW t \in Range(TableSeq)
  PROVE  Place(t) \in 1..Len(TableSeq) /\ TableSeq[Place(t)] = t
<1>1. DOMAIN TableSeq = 1..Len(TableSeq)
  BY TablesAssumption
<1>2. \E i \in DOMAIN TableSeq : TableSeq[i] = t
  BY DEF Range
<1>3. QED
  BY <1>1, <1>2 DEF Place

\* There are finitely many of them.
LEMMA NamedAreFinite ==
  ASSUME NEW S \in SUBSET Range(TableSeq)
  PROVE  IsFiniteSet(S)
<1> DEFINE place == [t \in S |-> Place(t)]
<1>1. Len(TableSeq) \in Nat
  BY TablesAssumption
<1>2. place \in Injection(S, 1..Len(TableSeq))
  BY PlacesAreApart DEF Injection, IsInjective
<1>3. IsFiniteSet(1..Len(TableSeq))
  BY <1>1, FS_Interval
<1>4. QED
  BY <1>2, <1>3, FS_Injection

\* A page that is not full has every row.
LEMMA ShortPageHasAll ==
  ASSUME NEW S \in SUBSET Range(TableSeq),
         NEW page, page = {t \in S : Position(t, S) <= PageCap}, ~ (Cardinality(page) >= PageCap)
  PROVE  page = S
<1> DEFINE upTo(t) == {u \in S : Place(u) <= Place(t)}
           places == {Place(t) : t \in S \ page}
<1>1. \A t \in S : Place(t) \in Nat /\ TableSeq[Place(t)] = t
  BY PlacesAreApart
<1>2. ASSUME NEW t \in S
      PROVE  /\ IsFiniteSet(upTo(t)) /\ IsFiniteSet(page) /\ t \in upTo(t)
             /\ Position(t, S) = Cardinality(upTo(t)) /\ Position(t, S) \in Nat
             /\ Cardinality(page) \in Nat
  <2>1. IsFiniteSet(upTo(t)) /\ IsFiniteSet(page) /\ Position(t, S) = Cardinality(upTo(t))
    BY NamedAreFinite DEF Position
  <2>2. t \in upTo(t)
    BY <1>1
  <2>3. Cardinality(upTo(t)) \in Nat /\ Cardinality(page) \in Nat
    BY <2>1, FS_CardinalityType
  <2>4. QED
    BY <2>1, <2>2, <2>3
<1> SUFFICES ASSUME places # {}
             PROVE  FALSE
  OBVIOUS
<1>3. places \subseteq Nat
  BY <1>1
<1>4. PICK n \in places : \A m \in places : n <= m
  <2>1. PICK n \in places : \A m \in places : ~ (m < n)
    <3> HIDE DEF places
    <3>1. PICK n \in places : \A m \in places : <<m, n>> \notin OpToRel(<, Nat)
      BY <1>3, NatLessThanWellFounded, WFMin
    <3>2. QED
      BY <1>3, <3>1 DEF OpToRel
  <2>2. QED
    BY <1>3, <2>1
<1>5. PICK t \in S \ page : n = Place(t)
  BY <1>4
<1>6. upTo(t) \ {t} \subseteq page
  <2> SUFFICES ASSUME NEW u \in S, Place(u) <= Place(t), u # t, u \notin page
               PROVE  FALSE
    OBVIOUS
  <2>1. Place(u) = Place(t)
    BY <1>1, <1>4, <1>5
  <2>2. QED
    BY <1>1, <2>1
<1>7. Cardinality(upTo(t) \ {t}) = Position(t, S) - 1
  BY <1>2, FS_RemoveElement
<1>8. Cardinality(upTo(t) \ {t}) <= Cardinality(page)
  BY <1>2, <1>6, FS_Subset
<1>9. ~ (Position(t, S) <= PageCap)
  BY <1>5
<1>10. Position(t, S) \in Nat /\ Cardinality(page) \in Nat /\ PageCap \in Nat
  BY <1>2, TablesAssumption
<1>11. Position(t, S) - 1 <= Cardinality(page)
  BY <1>7, <1>8
<1>12. QED
  BY <1>9, <1>10, <1>11

\* A table that is missing from a list that is not partial lies beyond a page with a hidden row.
LEMMA ListingIsWhole ==
  ASSUME NEW policy, NEW matches, NEW seen, seen.tables \subseteq Range(TableSeq),
         ~ Listing(policy, matches, seen).partial,
         NEW t \in (policy.tables \cap matches \cap seen.tables) \ Listing(policy, matches, seen).items
  PROVE  CutUnnoticed(policy, t, seen)
<1> DEFINE chunk == ChunkOf(t, policy.tables)
<1>1. ~ (Cardinality(Rows(chunk, seen)) >= PageCap) /\ t \notin Rows(chunk, seen)
  BY DEF Listing
<1>2. t \in Known(chunk)
  BY DEF Known, ChunkOf
<1>3. t \notin Page(chunk) /\ ~ (Position(t, Known(chunk)) <= PageCap)
  BY <1>1, <1>2 DEF Rows, Page
<1>4. ~ (Page(chunk) \subseteq seen.tables)
  <2> SUFFICES ASSUME Page(chunk) \subseteq seen.tables
               PROVE  FALSE
    OBVIOUS
  <2>1. ~ (Cardinality(Page(chunk)) >= PageCap)
    BY <1>1 DEF Rows
  <2>2. Known(chunk) \in SUBSET Range(TableSeq)
    BY DEF Known
  <2>3. Page(chunk) = Known(chunk)
    BY <2>1, <2>2, ShortPageHasAll DEF Page
  <2>4. QED
    BY <1>2, <1>3, <2>3
<1>5. Position(t, Known(chunk)) \in Nat /\ PageCap \in Nat
  <2>1. IsFiniteSet({u \in Known(chunk) : Place(u) <= Place(t)})
    BY NamedAreFinite DEF Known
  <2>2. QED
    BY <2>1, FS_CardinalityType, TablesAssumption DEF Position
<1>6. QED
  BY <1>3, <1>4, <1>5 DEF CutUnnoticed

\* A read shows what the policy permits and no more.
LEMMA AnswersArePermitted ==
  ASSUME NEW policy \in Policies, NEW ask, NEW seen, NEW answer \in Answers(policy, ask, seen)
  PROVE  /\ answer.items \in SUBSET Items /\ answer.partial \in BOOLEAN
         /\ PermittedFor(policy, ask, answer)
<1>1. CASE ask.kind = "list"
  <2>1. answer = Listing(policy, ask.matches, seen)
    BY <1>1 DEF Answers
  <2>2. answer.items \subseteq policy.tables /\ answer.partial \in BOOLEAN
    BY <2>1 DEF Listing
  <2>3. QED
    BY <1>1, <2>2 DEF Items, PermittedFor, Permitted
<1>2. CASE ask.kind # "list"
  <2>1. ask.table \in policy.tables /\ answer \in Descriptions(policy, ask.table, seen)
    BY <1>2 DEF Answers
  <2>2. PICK rows \in SUBSET Dictionary :
          /\ answer.items = {row[2] : row \in rows}
                              \ {f \in {row[2] : row \in rows} : <<ask.table, f>> \in policy.masks}
          /\ answer.partial = FALSE
    <3> DEFINE rows == {row \in Dictionary : row[1] \in Hierarchy(ask.table, seen.tables)}
               pages == IF Cardinality(rows) <= PageCap THEN {rows} ELSE kSubset(PageCap, rows)
    <3>1. answer \in {[items |-> {row[2] : row \in page \cap seen.fields}
                                   \ {f \in {row[2] : row \in page \cap seen.fields} : <<ask.table, f>> \in policy.masks},
                       partial |-> FALSE] : page \in pages}
      BY <2>1 DEF Descriptions
    <3>2. pages \subseteq SUBSET rows
      <4> HIDE DEF rows
      <4> QED BY DEF kSubset
    <3>3. rows \subseteq Dictionary
      OBVIOUS
    <3> HIDE DEF rows, pages
    <3>4. PICK page \in pages :
            answer = [items |-> {row[2] : row \in page \cap seen.fields}
                                  \ {f \in {row[2] : row \in page \cap seen.fields} : <<ask.table, f>> \in policy.masks},
                      partial |-> FALSE]
      BY <3>1
    <3>5. page \cap seen.fields \in SUBSET Dictionary
      BY <3>2, <3>3
    <3>6. /\ answer.items = {row[2] : row \in page \cap seen.fields}
                              \ {f \in {row[2] : row \in page \cap seen.fields} : <<ask.table, f>> \in policy.masks}
          /\ answer.partial = FALSE
      BY <3>4
    <3>7. QED
      BY <3>5, <3>6
  <2>3. QED
    BY <1>2, <2>1, <2>2 DEF Items, PermittedFor, Permitted
<1>3. QED
  BY <1>1, <1>2

\* Fetching from ServiceNow keeps it.
LEMMA FetchKeeps ==
  ASSUME IInv, NEW c \in Calls, Fetch(c)
  PROVE  IInv'
<1>1. /\ call[c] \in Requests /\ call[c].st = "fetching" /\ call[c] # Gone /\ CallFits(call[c])
      /\ call[c].user \in Users /\ call[c].isolate \in Isolates /\ call[c].by \in Accounts
      /\ call[c].policy \in Policies
  BY Here DEF Fetch, InState, Stages, CallFits, StageFits, Requests
<1>a. PICK answer \in Answers(call[c].policy, call[c].ask, Sees[call[c].by][roles[call[c].by]]) :
        call' = [call EXCEPT ![c].st = "fetched",
                             ![c].value = [by |-> call[c].by, roles |-> roles[call[c].by],
                                           slipped |-> call[c].slipped, unread |-> call[c].unread,
                                           items |-> answer.items, partial |-> answer.partial],
                             ![c].by = None, ![c].slipped = FALSE, ![c].unread = FALSE]
  BY DEF Fetch
<1>2. PICK value :
        /\ value = [by |-> call[c].by, roles |-> roles[call[c].by], slipped |-> call[c].slipped,
                    unread |-> call[c].unread, items |-> answer.items, partial |-> answer.partial]
        /\ call' = [call EXCEPT ![c].st = "fetched", ![c].value = value, ![c].by = None, ![c].slipped = FALSE,
                                ![c].unread = FALSE]
  BY <1>a
<1> DEFINE q == [call[c] EXCEPT !.st = "fetched", !.value = value, !.by = None, !.slipped = FALSE, !.unread = FALSE]
<1>3. UNCHANGED <<release, grant, account, roles, kv, known, inFlight>> /\ call' = [call EXCEPT ![c] = q]
  <2>1. UNCHANGED <<release, grant, account, roles, kv, known, inFlight>>
    BY DEF Fetch
  <2>2. call' = [call EXCEPT ![c] = q]
    BY <1>2
  <2>3. QED
    BY <2>1, <2>2
<1>4. KnownIsOwn'
  BY <1>3 DEF IInv, KnownIsOwn
<1>5. answer.items \in SUBSET Items /\ answer.partial \in BOOLEAN /\ PermittedFor(call[c].policy, call[c].ask, answer)
  BY <1>1, AnswersArePermitted
<1>6. value \in Values
  <2>1. roles[call[c].by] \in RoleNames /\ call[c].slipped \in BOOLEAN /\ call[c].unread \in BOOLEAN
    BY <1>1 DEF IInv, DiscoveryTypeOK, Requests
  <2>2. QED
    BY <1>1, <1>2, <1>5, <2>1 DEF Values
<1>7. /\ q \in Requests /\ q.st = "fetched" /\ q.id = call[c].id /\ q.by = None /\ q.value = value
      /\ q.user = call[c].user /\ q.policy = call[c].policy /\ q.ask = call[c].ask
      /\ q.isolate = call[c].isolate /\ KeyFor(q) = KeyFor(call[c])
  BY <1>1, <1>6 DEF Requests, Stages, KeyFor, Key
<1>8. FitsAsk(q.policy, q.ask, value)
  <2> DEFINE seen == Sees[call[c].by][roles[call[c].by]]
  <2>1. PermittedFor(q.policy, q.ask, value)
    BY <1>2, <1>5, <1>7 DEF PermittedFor
  <2>2. ASSUME call[c].ask.kind = "list", ~ value.partial
        PROVE  \A t \in (call[c].policy.tables \cap call[c].ask.matches \cap seen.tables) \ value.items :
                  CutUnnoticed(call[c].policy, t, seen)
    <3>1. seen.tables \subseteq Range(TableSeq)
      BY <1>1, TablesAssumption DEF IInv, DiscoveryTypeOK
    <3>2. answer = Listing(call[c].policy, call[c].ask.matches, seen)
      BY <2>2 DEF Answers
    <3>3. QED
      BY <1>2, <2>2, <3>1, <3>2, ListingIsWhole
  <2>3. value.by = call[c].by /\ value.roles = roles[call[c].by]
    BY <1>2
  <2>4. HonestFor(q.policy, q.ask, value)
    BY <1>7, <2>2, <2>3 DEF HonestFor
  <2>5. QED
    BY <2>1, <2>4 DEF FitsAsk
<1>9. call[c].id # None => OwnFor(call[c].id, value)
  <2> SUFFICES ASSUME call[c].id # None
               PROVE  OwnFor(call[c].id, value)
    OBVIOUS
  <2> DEFINE e == EnvOf(call[c].isolate)
  <2>1. /\ \/ e.credentialMode = "integration_user" /\ call[c].id.principal = call[c].user
           \/ /\ e.credentialMode = "per_user_oauth" /\ call[c].id.principal \in Accounts
              /\ \/ call[c].slipped
                 \/ /\ call[c].id.principal = account[call[c].user]
                    /\ RolesFit(call[c].id.roles, roles[call[c].id.principal], call[c].unread)
        /\ \/ Credential(e) = "own" /\ (call[c].slipped \/ call[c].by = account[call[c].user])
           \/ Credential(e) \in {"shared", "basic"} /\ call[c].by = Shared
    BY <1>1 DEF CallFits, IdFits, ByFits, BeforeRead
  <2>2. CASE e.credentialMode = "integration_user"
    <3>1. Credential(e) # "own"
      BY <2>2 DEF Credential
    <3>2. QED
      BY <1>1, <1>2, <2>1, <2>2, <3>1 DEF OwnFor
  <2>3. CASE e.credentialMode = "per_user_oauth"
    <3>1. Credential(e) \in {"own", "none"}
      BY <2>3, TextsAssumption DEF Credential
    <3>2. QED
      BY <1>1, <1>2, <2>1, <2>3, <3>1 DEF OwnFor
  <2>4. QED
    BY <2>1, <2>2, <2>3
<1>10. CallFits(q)
  <2>1. StageFits(q)
    BY <1>6, <1>7 DEF StageFits
  <2>2. QED
    BY <1>1, <1>7, <1>8, <1>9, <2>1 DEF CallFits, IdFits, ByFits, AnswerFits, BeforeRead
<1>11. MissesFit'
  BY <1>1, <1>3, <1>7, MissesStayLed DEF IInv, LeadsFor, Leading
<1>12. QED
  BY <1>3, <1>4, <1>7, <1>10, <1>11, TypesOfMisses, OneCallMoves

(***************************************************************************)
(* Lemmas about calls that end, and the entries they leave.                *)
(***************************************************************************)

\* Calls end or stay as they are, in isolates that stay as they are if they stay.
LEMMA CallsEnd ==
  ASSUME IInv, call' \in [Calls -> Requests \cup {Idle, Ended, Gone}],
         \A d \in Calls : call'[d] \in {Ended, Gone}
                          \/ /\ call'[d] = call[d]
                             /\ call[d] \in Requests => release'[call[d].isolate] = release[call[d].isolate],
         release' \in [Isolates -> Releases], UNCHANGED <<grant, account, known, roles>>,
         kv' \in [DOMAIN kv' -> [value : Values, left : Int]], DOMAIN kv' \subseteq Lookups, EntriesFit',
         DOMAIN inFlight' = Isolates,
         \A i \in Isolates : inFlight'[i] \in [DOMAIN inFlight'[i] -> Calls] /\ DOMAIN inFlight'[i] \subseteq Lookups,
         MissesFit'
  PROVE  IInv'
<1>1. DiscoveryTypeOK'
  BY DEF IInv, DiscoveryTypeOK
<1>2. GrantsAreIssued' /\ KnownIsOwn'
  BY DEF IInv, GrantsAreIssued, KnownIsOwn
<1>3. CallsFit'
  <2> SUFFICES ASSUME NEW d \in Calls, call'[d] \in Requests
               PROVE  CallFits(call[d])'
    BY DEF CallsFit
  <2>1. call'[d] = call[d] /\ release'[call[d].isolate] = release[call[d].isolate]
    BY StagesApart
  <2>2. CallFits(call[d])
    BY <2>1 DEF IInv, CallsFit
  <2>3. QED
    BY <2>1, <2>2 DEF CallFits, StageFits, IdFits, ByFits, AnswerFits, EnvOf, FitsAsk, PermittedFor, HonestFor, OwnFor
<1>4. QED
  BY <1>1, <1>2, <1>3 DEF IInv

\* The entries of an unchanged cache go on fitting.
LEMMA EntriesStay ==
  ASSUME IInv, UNCHANGED kv
  PROVE  kv' \in [DOMAIN kv' -> [value : Values, left : Int]] /\ DOMAIN kv' \subseteq Lookups /\ EntriesFit'
BY DEF IInv, DiscoveryTypeOK, EntriesFit, FitsAsk, PermittedFor, HonestFor, OwnFor

\* A call that leads nothing may end.
LEMMA FollowerEnds ==
  ASSUME IInv, NEW c \in Calls, call[c] \in Requests,
         \A i \in Isolates : \A key \in DOMAIN inFlight[i] : inFlight[i][key] # c,
         call' = [call EXCEPT ![c] = Ended], UNCHANGED <<release, grant, account, known, roles, kv, inFlight>>
  PROVE  IInv'
<1>1. /\ call' \in [Calls -> Requests \cup {Idle, Ended, Gone}]
      /\ \A d \in Calls : call'[d] = Ended \/ (d # c /\ call'[d] = call[d])
  BY DEF IInv, DiscoveryTypeOK
<1>2. call[c] # Gone /\ Ended \notin Requests
  BY StagesApart
<1>3. MissesFit'
  BY <1>1, <1>2 DEF IInv, MissesFit, DiscoveryTypeOK
<1>4. release' \in [Isolates -> Releases]
  BY DEF IInv, DiscoveryTypeOK
<1>5. QED
  BY <1>1, <1>3, <1>4, EntriesStay, TypesOfMisses, CallsEnd

\* An answer from the cache, or of the fetch, keeps the invariant.
LEMMA HitKeeps ==
  ASSUME IInv, NEW c \in Calls, Hit(c) \/ LookupFails(c) \/ Answer(c)
  PROVE  IInv'
<1>1. /\ call[c] \in Requests /\ call[c].st \in {"looking", "fetched"} /\ (call[c].st = "fetched" => call[c].id = None)
  BY Here DEF Hit, LookupFails, Answer, InState, Stages, Cached
<1>2. \A i \in Isolates : \A key \in DOMAIN inFlight[i] : inFlight[i][key] # c
  BY <1>1, StagesApart DEF IInv, MissesFit, LeadsFor, Leading
<1>3. QED
  BY <1>1, <1>2, FollowerEnds DEF Hit, LookupFails, Answer

\* A call that leads no miss is in no map, one that does is there under its key.
LEMMA WhoLeads ==
  ASSUME IInv, NEW c \in Calls, call[c] \in Requests
  PROVE  /\ ~ Leads(c) => \A i \in Isolates : \A key \in DOMAIN inFlight[i] : inFlight[i][key] # c
         /\ Leads(c) => KeyOf(c) \in DOMAIN inFlight[call[c].isolate]
         /\ \A i \in Isolates : \A key \in DOMAIN inFlight[i] :
               inFlight[i][key] = c => i = call[c].isolate /\ key = KeyOf(c)
<1>1. \A i \in Isolates : \A key \in DOMAIN inFlight[i] : inFlight[i][key] = c => LeadsFor(call[c], i, key)
  BY StagesApart DEF IInv, MissesFit
<1>2. QED
  BY <1>1 DEF Leads, LeaderOf, LeadsFor, KeyFor, KeyOf, Cached

\* The promise of a miss settles and every entry is in order.
LEMMA SettleKeeps ==
  ASSUME IInv, NEW c \in Calls, call[c] \in Requests, Settle(c),
         UNCHANGED <<release, grant, account, known, roles>>,
         kv' \in [DOMAIN kv' -> [value : Values, left : Int]], DOMAIN kv' \subseteq Lookups, EntriesFit'
  PROVE  IInv'
<1> DEFINE i == call[c].isolate
<1>1. /\ call' \in [Calls -> Requests \cup {Idle, Ended, Gone}]
      /\ \A d \in Calls : call'[d] = IF d = c \/ d \in Waiters(c) THEN Ended ELSE call[d]
  BY DEF Settle, IInv, DiscoveryTypeOK
<1>2. /\ \A j \in Isolates : inFlight'[j] = IF Leads(c) /\ j = i
                                            THEN [k \in DOMAIN inFlight[i] \ {KeyOf(c)} |-> inFlight[i][k]]
                                            ELSE inFlight[j]
      /\ DOMAIN inFlight' = Isolates
  BY TypesOfMisses DEF Settle, Restrict
<1>3. \A j \in Isolates :
        /\ DOMAIN inFlight'[j] \subseteq DOMAIN inFlight[j]
        /\ \A k \in DOMAIN inFlight'[j] : inFlight'[j][k] = inFlight[j][k] /\ inFlight[j][k] \in Calls
        /\ inFlight'[j] \in [DOMAIN inFlight'[j] -> Calls] /\ DOMAIN inFlight'[j] \subseteq Lookups
  BY <1>2, TypesOfMisses
<1>4. MissesFit'
  <2>1. ASSUME NEW j \in Isolates, NEW k \in DOMAIN inFlight'[j]
        PROVE  call'[inFlight'[j][k]] = Gone \/ LeadsFor(call'[inFlight'[j][k]], j, k)
    <3> DEFINE d == inFlight[j][k]
    <3>1. k \in DOMAIN inFlight[j] /\ d \in Calls /\ inFlight'[j][k] = d
      BY <1>3
    <3>2. d # c
      BY <1>2, <3>1, WhoLeads
    <3>3. call[d] = Gone \/ LeadsFor(call[d], j, k)
      BY <3>1 DEF IInv, MissesFit
    <3>4. d \notin Waiters(c)
      BY <3>3 DEF Waiters, LeadsFor, Leading, Gone
    <3>5. QED
      BY <1>1, <3>1, <3>2, <3>3, <3>4
  <2>2. ASSUME NEW d \in Calls, call'[d] \in Requests, call'[d].st = "waiting"
        PROVE  KeyFor(call'[d]) \in DOMAIN inFlight'[call'[d].isolate]
    <3>1. call'[d] = call[d] /\ d \notin Waiters(c) /\ call[d].isolate \in Isolates
      BY <1>1, <2>2, StagesApart DEF Requests
    <3>2. KeyFor(call[d]) \in DOMAIN inFlight[call[d].isolate]
      BY <2>2, <3>1 DEF IInv, MissesFit
    <3>3. QED
      BY <1>2, <2>2, <3>1, <3>2 DEF Waiters, KeyFor, KeyOf
  <2>3. QED
    BY <2>1, <2>2 DEF MissesFit, LeadsFor, KeyFor, Key
<1>5. release' \in [Isolates -> Releases]
  BY DEF IInv, DiscoveryTypeOK
<1>6. QED
  BY <1>1, <1>2, <1>3, <1>4, <1>5, CallsEnd

\* A failure of budget, fetch or store keeps it.
LEMMA FailsKeeps ==
  ASSUME IInv, NEW c \in Calls, PayFails(c) \/ FetchFails(c) \/ StoreFails(c)
  PROVE  IInv'
<1>1. call[c] \in Requests
  BY Here DEF PayFails, FetchFails, StoreFails, InState, Stages
<1>2. QED
  BY <1>1, EntriesStay, SettleKeeps DEF PayFails, FetchFails, StoreFails

\* Storing an answer keeps it.
LEMMA StoreKeeps ==
  ASSUME IInv, NEW c \in Calls, Store(c)
  PROVE  IInv'
<1> DEFINE key == KeyFor(call[c])
           entry == [value |-> call[c].value, left |-> SchemaTtl]
<1>1. /\ call[c] \in Requests /\ call[c].st = "fetched" /\ CallFits(call[c]) /\ call[c].id # None
  BY Here DEF Store, InState, Stages, Cached
<1>2. /\ key \in Lookups /\ key.principal = call[c].id.principal /\ key.roles = call[c].id.roles
      /\ key.policy = call[c].policy /\ key.ask = call[c].ask
  BY <1>1 DEF KeyFor, Key, Lookups, Requests, Identities
<1>3. entry \in [value : Values, left : Int] /\ entry.value = call[c].value
  BY <1>1 DEF CallFits, StageFits
<1>4. /\ kv' = [l \in DOMAIN kv \cup {key} |-> IF l = key THEN entry ELSE kv[l]]
      /\ kv \in [DOMAIN kv -> [value : Values, left : Int]] /\ DOMAIN kv \subseteq Lookups
  BY DEF Store, Put, KeyOf, KeyFor, IInv, DiscoveryTypeOK
<1>5. /\ kv' \in [DOMAIN kv' -> [value : Values, left : Int]] /\ DOMAIN kv' \subseteq Lookups
      /\ DOMAIN kv' = DOMAIN kv \cup {key} /\ kv'[key] = entry
      /\ \A l \in DOMAIN kv : l # key => kv'[l] = kv[l]
  <2> HIDE DEF entry, key
  <2> QED BY <1>2, <1>3, <1>4
<1>6. FitsAsk(key.policy, key.ask, call[c].value) /\ OwnFor(key, call[c].value)
  BY <1>1, <1>2 DEF CallFits, AnswerFits, OwnFor
<1>7. EntriesFit'
  <2> SUFFICES ASSUME NEW l \in DOMAIN kv'
               PROVE  FitsAsk(l.policy, l.ask, kv'[l].value) /\ OwnFor(l, kv'[l].value)
    BY DEF EntriesFit, FitsAsk, PermittedFor, HonestFor, OwnFor
  <2>1. CASE l = key
    <3>1. kv'[l].value = call[c].value
      BY <1>3, <1>5, <2>1
    <3>2. QED
      BY <1>6, <2>1, <3>1
  <2>2. CASE l # key
    <3>1. l \in DOMAIN kv /\ kv'[l] = kv[l]
      BY <1>5, <2>2
    <3>2. QED
      BY <3>1 DEF IInv, EntriesFit
  <2>3. QED
    BY <2>1, <2>2
<1>8. QED
  BY <1>1, <1>5, <1>7, SettleKeeps DEF Store

\* A client that goes away keeps it.
LEMMA AbandonKeeps ==
  ASSUME IInv, NEW c \in Calls, Abandon(c)
  PROVE  IInv'
<1>1. call[c] \in Requests
  BY DEF Abandon, Running, IInv, DiscoveryTypeOK
<1>2. UNCHANGED <<release, grant, account, known, roles, kv, inFlight>>
  BY DEF Abandon
<1>3. CASE ~ Leads(c)
  BY <1>1, <1>2, <1>3, WhoLeads, FollowerEnds DEF Abandon
<1>4. CASE Leads(c)
  <2>1. /\ call' \in [Calls -> Requests \cup {Idle, Ended, Gone}]
        /\ call'[c] = Gone
        /\ \A d \in Calls : d # c => call'[d] = call[d]
    BY <1>4 DEF Abandon, IInv, DiscoveryTypeOK
  <2>2. Gone \notin Requests
    BY StagesApart
  <2>3. MissesFit'
    BY <1>2, <2>1, <2>2 DEF IInv, MissesFit, DiscoveryTypeOK
  <2>4. release' \in [Isolates -> Releases]
    BY <1>2 DEF IInv, DiscoveryTypeOK
  <2>5. \A d \in Calls : call'[d] \in {Ended, Gone}
                         \/ /\ call'[d] = call[d]
                            /\ call[d] \in Requests => release'[call[d].isolate] = release[call[d].isolate]
    BY <1>2, <2>1
  <2>6. QED
    BY <1>2, <2>1, <2>3, <2>4, <2>5, EntriesStay, TypesOfMisses, CallsEnd
<1>5. QED
  BY <1>3, <1>4

\* A new release on an isolate keeps it.
LEMMA ReplaceKeeps ==
  ASSUME IInv, NEW i \in Isolates, NEW r \in Later \cup {release[i]}, Replace(i, r)
  PROVE  IInv'
<1>1. /\ UNCHANGED <<grant, account, known, roles, kv>>
      /\ release' = [release EXCEPT ![i] = r] /\ r \in Releases
      /\ inFlight' = [inFlight EXCEPT ![i] = Empty]
      /\ call' = [c \in Calls |-> IF Running(c) /\ call[c].isolate = i THEN Ended ELSE call[c]]
  BY DEF Replace, IInv, DiscoveryTypeOK
<1>2. /\ release' \in [Isolates -> Releases]
      /\ \A j \in Isolates : j # i => release'[j] = release[j]
      /\ DOMAIN inFlight' = Isolates /\ inFlight'[i] = Empty
      /\ \A j \in Isolates : j # i => inFlight'[j] = inFlight[j]
  BY <1>1 DEF IInv, DiscoveryTypeOK
<1>3. DOMAIN Empty = {} /\ Empty \in [{} -> Calls]
  BY DEF Empty
<1>4. \A j \in Isolates : inFlight'[j] \in [DOMAIN inFlight'[j] -> Calls] /\ DOMAIN inFlight'[j] \subseteq Lookups
  <2> HIDE DEF Empty
  <2> QED BY <1>2, <1>3, TypesOfMisses
<1>5. \A d \in Calls : Running(d) <=> call[d] \in Requests
  BY StagesApart DEF Running, IInv, DiscoveryTypeOK
<1>6. /\ call' \in [Calls -> Requests \cup {Idle, Ended, Gone}]
      /\ \A d \in Calls : call'[d] = IF call[d] \in Requests /\ call[d].isolate = i THEN Ended ELSE call[d]
  BY <1>1, <1>5 DEF IInv, DiscoveryTypeOK
<1>7. \A d \in Calls : call'[d] \in {Ended, Gone}
                       \/ /\ call'[d] = call[d]
                          /\ call[d] \in Requests => release'[call[d].isolate] = release[call[d].isolate]
  BY <1>2, <1>6 DEF Requests
<1>8. MissesFit'
  <2>1. ASSUME NEW j \in Isolates, NEW k \in DOMAIN inFlight'[j]
        PROVE  call'[inFlight'[j][k]] = Gone \/ LeadsFor(call'[inFlight'[j][k]], j, k)
    <3>1. j # i /\ inFlight'[j] = inFlight[j]
      BY <1>2, <1>3, <2>1
    <3>2. PICK d \in Calls : d = inFlight[j][k]
      BY <3>1, <2>1, TypesOfMisses
    <3>3. call[d] = Gone \/ LeadsFor(call[d], j, k)
      BY <2>1, <3>1, <3>2 DEF IInv, MissesFit
    <3>4. call'[d] = call[d]
      BY <1>6, <3>1, <3>3, StagesApart DEF LeadsFor
    <3>5. QED
      BY <3>1, <3>2, <3>3, <3>4
  <2>2. ASSUME NEW d \in Calls, call'[d] \in Requests, call'[d].st = "waiting"
        PROVE  KeyFor(call'[d]) \in DOMAIN inFlight'[call'[d].isolate]
    <3>1. call'[d] = call[d] /\ call[d].isolate # i /\ call[d].isolate \in Isolates
      BY <1>6, <2>2, StagesApart DEF Requests
    <3>2. QED
      BY <1>2, <2>2, <3>1 DEF IInv, MissesFit
  <2>3. QED
    BY <2>1, <2>2 DEF MissesFit, LeadsFor, KeyFor, Key
<1>9. QED
  BY <1>1, <1>2, <1>4, <1>6, <1>7, <1>8, EntriesStay, CallsEnd

(***************************************************************************)
(* Requests come, users sign in, and the world changes.                    *)
(***************************************************************************)

\* A new request keeps it.
LEMMA RequestKeeps ==
  ASSUME IInv, NEW c \in Calls, NEW u \in Users, NEW i \in Isolates, NEW ask \in Asks, NEW origin,
         Request(c, u, i, ask, origin)
  PROVE  IInv'
<1> DEFINE policy == PolicyNamed(ActorPolicies[release[i]], grant[u].policy)
           q == [st |-> "asking", user |-> u, isolate |-> i, ask |-> ask, policy |-> policy, slipped |-> FALSE, unread |-> FALSE,
                 id |-> None, late |-> FALSE, by |-> None, value |-> None]
<1>1. /\ UNCHANGED <<release, grant, account, known, roles, kv, inFlight>>
      /\ call' = [call EXCEPT ![c] = q] /\ call[c] = Idle
      /\ ActorPolicies[release[i]] # Fails
  BY DEF Request, HandlersBuild
<1>2. policy \in Policies
  <2>1. release[i] \in Releases
    BY DEF IInv, DiscoveryTypeOK
  <2>2. QED
    BY <1>1, <2>1 DEF PolicyNamed, Policies
<1>3. /\ q \in Requests /\ q.st = "asking" /\ q.id = None /\ q.by = None /\ ~ q.late
  <2> HIDE DEF policy
  <2> QED BY <1>2 DEF Requests, Stages
<1> HIDE DEF q
<1>4. CallFits(q)
  BY <1>3 DEF CallFits, StageFits, IdFits, ByFits, AnswerFits
<1>5. Idle # Gone /\ \A j, key : ~ LeadsFor(Idle, j, key)
  BY StagesApart DEF LeadsFor, Idle, Gone
<1>6. MissesFit'
  BY <1>1, <1>3, <1>5, MissesStayLed DEF IInv
<1>7. KnownIsOwn'
  BY <1>1 DEF IInv, KnownIsOwn
<1>8. QED
  BY <1>1, <1>3, <1>4, <1>6, <1>7, TypesOfMisses, OneCallMoves

\* A new sign-in keeps it.
LEMMA SignInKeeps ==
  ASSUME IInv, NEW u \in Users, NEW i \in Isolates, NEW g \in GroupsOf[u], SignIn(u, i, g)
  PROVE  IInv'
<1> DEFINE props == Props(Deployed[release[i]], release[i], g)
<1>1. /\ UNCHANGED <<release, account, known, roles, kv, inFlight, call>>
      /\ grant' = [grant EXCEPT ![u] = props]
      /\ release[i] \in Asserted /\ CanSignIn(Deployed[release[i]], g)
  BY DEF SignIn, EnvOf
<1>2. release[i] \in Releases /\ g \in Groups
  BY DEF IInv, DiscoveryTypeOK, Groups
<1>3. props \in Grants
  <2>1. <<release[i], g>> \in Releases \X Groups
    BY <1>2
  <2>2. QED
    BY <2>1 DEF Grants
<1> HIDE DEF props
<1>4. DiscoveryTypeOK'
  BY <1>1, <1>3 DEF IInv, DiscoveryTypeOK
<1>5. GrantsAreIssued'
  <2> SUFFICES ASSUME NEW v \in Users, grant'[v] # None
               PROVE  \E p \in Asserted, h \in GroupsOf[v] :
                         CanSignIn(Deployed[p], h) /\ grant'[v] = Props(Deployed[p], p, h)
    BY DEF GrantsAreIssued
  <2>1. CASE v = u
    <3>1. grant'[v] = Props(Deployed[release[i]], release[i], g)
      BY <1>1, <2>1 DEF IInv, DiscoveryTypeOK, props
    <3>2. QED
      BY <1>1, <2>1, <3>1
  <2>2. CASE v # u
    <3>1. grant'[v] = grant[v]
      BY <1>1, <2>2 DEF IInv, DiscoveryTypeOK
    <3>2. QED
      BY <3>1 DEF IInv, GrantsAreIssued
  <2>3. QED
    BY <2>1, <2>2
<1>6. CallsFit' /\ MissesFit'
  <2>1. CallsFit'
    BY <1>1 DEF IInv, CallsFit, CallFits, StageFits, IdFits, ByFits, AnswerFits, EnvOf, FitsAsk, PermittedFor,
                HonestFor, OwnFor
  <2>2. MissesFit'
    BY <1>1 DEF IInv, MissesFit, LeadsFor, KeyFor, Key
  <2>3. QED
    BY <2>1, <2>2
<1>7. EntriesFit' /\ KnownIsOwn'
  BY <1>1 DEF IInv, EntriesFit, FitsAsk, PermittedFor, HonestFor, OwnFor, KnownIsOwn
<1>8. QED
  BY <1>4, <1>5, <1>6, <1>7 DEF IInv

\* The clock keeps it.
LEMMA TickKeeps ==
  ASSUME IInv, Tick
  PROVE  IInv'
<1>1. UNCHANGED <<release, grant, account, roles, inFlight, call>>
  BY DEF Tick
<1>2. /\ DOMAIN kv' \subseteq DOMAIN kv
      /\ kv' \in [DOMAIN kv' -> [value : Values, left : Int]]
      /\ \A k \in DOMAIN kv' : kv'[k].value = kv[k].value
  <2>1. /\ DOMAIN kv' \subseteq DOMAIN kv
        /\ kv' = [k \in DOMAIN kv' |-> [kv[k] EXCEPT !.left = kv[k].left - 1]]
    BY DEF Tick
  <2>2. ASSUME NEW k \in DOMAIN kv'
        PROVE  kv'[k] \in [value : Values, left : Int] /\ kv'[k].value = kv[k].value
    <3>1. kv[k] \in [value : Values, left : Int]
      BY <2>1, <2>2 DEF IInv, DiscoveryTypeOK
    <3>2. kv'[k] = [kv[k] EXCEPT !.left = kv[k].left - 1]
      BY <2>1
    <3>3. QED
      BY <3>1, <3>2
  <2>3. QED
    BY <2>1, <2>2
<1>3. ASSUME NEW u \in Users
      PROVE  /\ known'[u] \in Principals \cup {None}
             /\ known'[u] # None /\ known'[u].age <= PrincipalTtl /\ ~ known'[u].changed =>
                  /\ known'[u].account = account[u]
                  /\ RolesFit(known'[u].roles, roles[known'[u].account], known'[u].unread)
  <2>1. known[u] \in Principals \cup {None}
    BY DEF IInv, DiscoveryTypeOK
  <2>2. CASE known[u] = None \/ known[u].age > PrincipalTtl
    <3>1. known'[u] = known[u]
      BY <2>2 DEF Tick
    <3>2. QED
      BY <2>1, <3>1 DEF IInv, KnownIsOwn
  <2>3. CASE ~ (known[u] = None \/ known[u].age > PrincipalTtl)
    <3>1. known'[u] = [known[u] EXCEPT !.age = known[u].age + 1,
                                       !.changed = known[u].changed /\ known[u].age < PrincipalTtl,
                                       !.unread = known[u].unread /\ known[u].age < PrincipalTtl]
      BY <2>3 DEF Tick
    <3>2. known[u] \in Principals
      BY <2>1, <2>3
    <3> DEFINE changed == known[u].changed /\ known[u].age < PrincipalTtl
               unread == known[u].unread /\ known[u].age < PrincipalTtl
               aged == known[u].age + 1
    <3>a. /\ known[u].age \in Int /\ known[u].changed \in BOOLEAN /\ known[u].unread \in BOOLEAN
          /\ PrincipalTtl \in Int
      BY <3>2 DEF Principals
    <3>b. changed \in BOOLEAN /\ unread \in BOOLEAN /\ aged \in Int
      BY <3>a
    <3>c. known'[u] = [known[u] EXCEPT !.age = aged, !.changed = changed, !.unread = unread]
      BY <3>1
    <3> HIDE DEF changed, unread, aged
    <3>3. /\ known'[u] \in Principals /\ known'[u].account = known[u].account /\ known'[u].roles = known[u].roles
          /\ known'[u].age = aged /\ known'[u].changed = changed /\ known'[u].unread = unread
      BY <3>2, <3>b, <3>c DEF Principals
    <3>4. aged <= PrincipalTtl /\ ~ changed =>
            known[u].age <= PrincipalTtl /\ ~ known[u].changed /\ (known[u].unread => unread)
      BY <3>a DEF aged, changed, unread
    <3>5. QED
      BY <2>3, <3>3, <3>4 DEF IInv, KnownIsOwn, RolesFit
  <2>4. QED
    BY <2>2, <2>3
<1>4. DOMAIN known' = Users /\ known' = [u \in Users |-> known'[u]]
  BY DEF Tick
<1>5. DiscoveryTypeOK'
  BY <1>1, <1>2, <1>3, <1>4 DEF IInv, DiscoveryTypeOK
<1>6. KnownIsOwn'
  BY <1>1, <1>3 DEF KnownIsOwn
<1>7. EntriesFit'
  BY <1>2 DEF IInv, EntriesFit, FitsAsk, PermittedFor, HonestFor, OwnFor
<1>8. GrantsAreIssued' /\ CallsFit' /\ MissesFit'
  BY <1>1 DEF IInv, GrantsAreIssued, CallsFit, CallFits, StageFits, IdFits, ByFits, AnswerFits, EnvOf,
              FitsAsk, PermittedFor, HonestFor, OwnFor, MissesFit, LeadsFor, KeyFor, Key
<1>9. QED
  BY <1>5, <1>6, <1>7, <1>8 DEF IInv

\* A change marks calls and does nothing else to them.
LEMMA MissedMarks ==
  ASSUME IInv, NEW users, Missed(users)
  PROVE  /\ call' \in [Calls -> Requests \cup {Idle, Ended, Gone}]
         /\ \A d \in Calls :
              \/ /\ call'[d] = call[d]
                 /\ call[d] \in Requests => call[d].st \notin BeforeRead \/ call[d].user \notin users
              \/ /\ call[d] \in Requests /\ call[d].st \in BeforeRead /\ call[d].user \in users
                 /\ call'[d] = [call[d] EXCEPT !.slipped = TRUE, !.unread = FALSE]
<1>1. call' = [c \in Calls |-> IF Running(c) /\ call[c].st \notin {"asking", "waiting", "fetched"} /\ call[c].user \in users
                               THEN [call[c] EXCEPT !.slipped = TRUE, !.unread = FALSE] ELSE call[c]]
  BY DEF Missed
<1>2. ASSUME NEW d \in Calls
      PROVE  /\ call'[d] \in Requests \cup {Idle, Ended, Gone}
             /\ \/ /\ call'[d] = call[d]
                   /\ call[d] \in Requests => call[d].st \notin BeforeRead \/ call[d].user \notin users
                \/ /\ call[d] \in Requests /\ call[d].st \in BeforeRead /\ call[d].user \in users
                   /\ call'[d] = [call[d] EXCEPT !.slipped = TRUE, !.unread = FALSE]
  <2>1. call[d] \in Requests \cup {Idle, Ended, Gone}
    BY DEF IInv, DiscoveryTypeOK
  <2>2. CASE call[d] \in Requests
    <3>1. Running(d) /\ call[d].st \in Stages /\ [call[d] EXCEPT !.slipped = TRUE, !.unread = FALSE] \in Requests
      BY <2>2, StagesApart DEF Running, Requests
    <3>2. QED
      BY <1>1, <2>2, <3>1 DEF Stages, BeforeRead
  <2>3. CASE call[d] \notin Requests
    <3>1. ~ Running(d)
      BY <2>1, <2>3 DEF Running
    <3>2. QED
      BY <1>1, <2>1, <2>3, <3>1
  <2>4. QED
    BY <2>2, <2>3
<1>3. QED
  BY <1>1, <1>2

\* Calls whose user changed under way go on leading the same misses.
LEMMA MarkedStayLed ==
  ASSUME IInv, NEW users, Missed(users), UNCHANGED inFlight
  PROVE  MissesFit'
<1>1. ASSUME NEW d \in Calls
      PROVE  /\ call[d] = Gone => call'[d] = Gone
             /\ \A i, key : LeadsFor(call[d], i, key) => LeadsFor(call'[d], i, key)
             /\ call'[d] \in Requests => /\ call[d] \in Requests /\ call'[d].st = call[d].st
                                         /\ call'[d].isolate = call[d].isolate
                                         /\ KeyFor(call'[d]) = KeyFor(call[d])
  <2>1. CASE call'[d] = call[d]
    BY <2>1
  <2>2. CASE call[d] \in Requests /\ call'[d] = [call[d] EXCEPT !.slipped = TRUE, !.unread = FALSE]
    <3>1. /\ call'[d] \in Requests /\ call'[d].st = call[d].st /\ call'[d].id = call[d].id
          /\ call'[d].policy = call[d].policy /\ call'[d].ask = call[d].ask /\ call'[d].isolate = call[d].isolate
      BY <2>2 DEF Requests
    <3>2. QED
      BY <2>2, <3>1, StagesApart DEF LeadsFor, KeyFor, Key
  <2>3. QED
    BY <2>1, <2>2, MissedMarks
<1>2. QED
  BY <1>1 DEF IInv, MissesFit, DiscoveryTypeOK

\* What changes for the users whose calls are marked, and for them alone, leaves calls in order.
LEMMA MarkedStayFit ==
  ASSUME IInv, NEW users, Missed(users), UNCHANGED release,
         \A u \in Users : u \notin users => account'[u] = account[u]
                          /\ (account[u] \in Accounts => roles'[account[u]] = roles[account[u]])
  PROVE  CallsFit'
<1> SUFFICES ASSUME NEW d \in Calls, call'[d] \in Requests
             PROVE  CallFits(call[d])'
  BY DEF CallsFit
<1>1. CASE call'[d] = call[d] /\ (call[d].st \notin BeforeRead \/ call[d].user \notin users)
  <2>1. CallFits(call[d]) /\ call[d].user \in Users
    BY <1>1 DEF IInv, CallsFit, Requests
  <2>2. QED
    BY <1>1, <2>1 DEF CallFits, StageFits, IdFits, ByFits, AnswerFits, EnvOf, FitsAsk, PermittedFor, HonestFor, OwnFor
<1>2. CASE call[d] \in Requests /\ call[d].st \in BeforeRead /\ call'[d] = [call[d] EXCEPT !.slipped = TRUE, !.unread = FALSE]
  <2>1. CallFits(call[d])
    BY <1>2 DEF IInv, CallsFit
  <2>2. /\ call'[d].st = call[d].st /\ call'[d].id = call[d].id /\ call'[d].user = call[d].user
        /\ call'[d].by = call[d].by /\ call'[d].late = call[d].late /\ call'[d].slipped
        /\ call'[d].isolate = call[d].isolate
    BY <1>2 DEF Requests
  <2>3. QED
    BY <1>2, <2>1, <2>2 DEF CallFits, StageFits, IdFits, ByFits, AnswerFits, EnvOf, FitsAsk,
                                   PermittedFor, HonestFor, OwnFor, BeforeRead
<1>3. QED
  BY <1>1, <1>2, MissedMarks

\* A change of roles keeps the invariant.
LEMMA RoleChangeKeeps ==
  ASSUME IInv, NEW a \in Accounts, RoleChange(a)
  PROVE  IInv'
<1> DEFINE users == {u \in Users : account[u] = a}
<1>1. UNCHANGED <<release, grant, account, kv, inFlight>> /\ Missed(users)
  BY DEF RoleChange
<1>2. PICK r \in RoleNames \cap DOMAIN Sees[a] : roles' = [roles EXCEPT ![a] = r]
  BY DEF RoleChange, RoleNames
<1>3. /\ roles' \in [Accounts -> RoleNames]
      /\ \A b \in Accounts : b # a => roles'[b] = roles[b]
      /\ \A b \in Accounts : roles'[b] \in DOMAIN Sees[b]
  BY <1>2 DEF IInv, DiscoveryTypeOK
<1>4. ASSUME NEW u \in Users
      PROVE  /\ known'[u] \in Principals \cup {None}
             /\ known'[u] # None /\ known'[u].age <= PrincipalTtl /\ ~ known'[u].changed =>
                  /\ known'[u].account = account[u]
                  /\ RolesFit(known'[u].roles, roles'[known'[u].account], known'[u].unread)
  <2>1. known[u] \in Principals \cup {None}
    BY DEF IInv, DiscoveryTypeOK
  <2>2. CASE known[u] # None /\ known[u].account = a /\ known[u].age <= PrincipalTtl
    <3>1. known'[u] = [known[u] EXCEPT !.changed = TRUE, !.unread = FALSE]
      BY <2>2 DEF RoleChange
    <3>2. QED
      BY <2>1, <2>2, <3>1 DEF Principals
  <2>3. CASE ~ (known[u] # None /\ known[u].account = a /\ known[u].age <= PrincipalTtl)
    <3>1. known'[u] = known[u]
      BY <2>3 DEF RoleChange
    <3>2. QED
      BY <1>3, <2>1, <2>3, <3>1 DEF IInv, KnownIsOwn, Principals
  <2>4. QED
    BY <2>2, <2>3
<1>5. DOMAIN known' = Users /\ known' = [u \in Users |-> known'[u]]
  BY DEF RoleChange
<1>6. call' \in [Calls -> Requests \cup {Idle, Ended, Gone}]
  BY <1>1, MissedMarks
<1>7. DiscoveryTypeOK'
  BY <1>1, <1>3, <1>4, <1>5, <1>6 DEF IInv, DiscoveryTypeOK
<1>8. CallsFit' /\ MissesFit'
  BY <1>1, <1>3, MarkedStayFit, MarkedStayLed
<1>9. KnownIsOwn'
  BY <1>1, <1>4 DEF KnownIsOwn
<1>10. GrantsAreIssued' /\ EntriesFit'
  BY <1>1 DEF IInv, GrantsAreIssued, EntriesFit, FitsAsk, PermittedFor, HonestFor, OwnFor
<1>11. QED
  BY <1>7, <1>8, <1>9, <1>10 DEF IInv

\* Linking an account keeps it.
LEMMA LinkKeeps ==
  ASSUME IInv, NEW u \in Users, NEW a \in Own[u], Link(u, a)
  PROVE  IInv'
<1>a. PICK r \in ReadRoles(a) : known' = [known EXCEPT ![u] = Principal(a, r)]
  BY DEF Link
<1>b. PICK principal : principal = Principal(a, r)
  OBVIOUS
<1>1. /\ UNCHANGED <<release, grant, roles, kv, inFlight>> /\ Missed({u})
      /\ account' = [account EXCEPT ![u] = a]
      /\ known' = [known EXCEPT ![u] = principal]
  BY <1>a, <1>b DEF Link
<1>2. a \in Accounts
  BY DEF Accounts
<1>3. principal \in Principals /\ principal.account = a /\ RolesFit(principal.roles, roles[a], principal.unread)
  BY <1>2, <1>a, <1>b, PrincipalFits DEF IInv
<1>4. /\ account' \in [Users -> Accounts \cup {None}] /\ account'[u] = a
      /\ \A v \in Users : v # u => account'[v] = account[v]
  BY <1>1, <1>2 DEF IInv, DiscoveryTypeOK
<1>5. /\ known' \in [Users -> Principals \cup {None}] /\ known'[u] = principal
      /\ \A v \in Users : v # u => known'[v] = known[v]
  BY <1>1, <1>3 DEF IInv, DiscoveryTypeOK
<1>6. call' \in [Calls -> Requests \cup {Idle, Ended, Gone}]
  BY <1>1, MissedMarks
<1>7. DiscoveryTypeOK'
  BY <1>1, <1>4, <1>5, <1>6 DEF IInv, DiscoveryTypeOK
<1>8. CallsFit' /\ MissesFit'
  BY <1>1, <1>4, MarkedStayFit, MarkedStayLed
<1>9. KnownIsOwn'
  BY <1>1, <1>3, <1>4, <1>5 DEF IInv, KnownIsOwn
<1>10. GrantsAreIssued' /\ EntriesFit'
  BY <1>1 DEF IInv, GrantsAreIssued, EntriesFit, FitsAsk, PermittedFor, HonestFor, OwnFor
<1>11. QED
  BY <1>7, <1>8, <1>9, <1>10 DEF IInv

(***************************************************************************)
(* The invariant holds, and what follows from it.                          *)
(***************************************************************************)

\* The invariant holds at first.
LEMMA InitFits ==
  ASSUME Init
  PROVE  IInv
<1>1. Idle \notin Requests /\ \A c \in Calls : call[c] = Idle
  BY StagesApart DEF Init
<1>2. DOMAIN Empty = {}
  BY DEF Empty
<1>3. PICK r \in Releases : release = [i \in Isolates |-> r]
  BY DEF Init
<1>4. /\ grant = [u \in Users |-> None] /\ account = LinkedBefore /\ known = [u \in Users |-> None]
      /\ roles = [a \in Accounts |-> "default"] /\ call = [c \in Calls |-> Idle]
      /\ kv = Empty /\ inFlight = [i \in Isolates |-> Empty]
  BY DEF Init
<1>5. /\ Empty \in [DOMAIN Empty -> [value : Values, left : Int]]
      /\ Empty \in [DOMAIN Empty -> Calls]
  BY <1>2 DEF Empty
<1> HIDE DEF Empty
<1>6. DiscoveryTypeOK
  BY <1>2, <1>3, <1>4, <1>5, TablesAssumption DEF DiscoveryTypeOK, RoleNames
<1>7. QED
  BY <1>1, <1>2, <1>4, <1>6 DEF IInv, GrantsAreIssued, CallsFit, EntriesFit, KnownIsOwn, MissesFit

\* Every action keeps it.
LEMMA NextKeeps ==
  ASSUME IInv, Next
  PROVE  IInv'
<1>1. ASSUME NEW c \in Calls, Progress(c)
      PROVE  IInv'
  BY <1>1, AskIdentityKeeps, HitKeeps, JoinKeeps, LeadKeeps, PayKeeps, FailsKeeps, ResolveKeeps, FetchKeeps,
     StoreKeeps DEF Progress
<1>2. QED
  BY <1>1, SignInKeeps, RequestKeeps, AbandonKeeps, ReplaceKeeps, TickKeeps, RoleChangeKeeps, LinkKeeps DEF Next

\* So does a step of others.
LEMMA StutterKeeps ==
  ASSUME IInv, UNCHANGED vars
  PROVE  IInv'
<1>1. DiscoveryTypeOK' /\ GrantsAreIssued' /\ KnownIsOwn'
  BY DEF vars, IInv, DiscoveryTypeOK, GrantsAreIssued, KnownIsOwn
<1>2. CallsFit'
  BY DEF vars, IInv, CallsFit, CallFits, StageFits, IdFits, ByFits, AnswerFits, EnvOf, FitsAsk, PermittedFor,
         HonestFor, OwnFor
<1>3. EntriesFit' /\ MissesFit'
  BY DEF vars, IInv, EntriesFit, FitsAsk, PermittedFor, HonestFor, OwnFor, MissesFit, LeadsFor, KeyFor, Key
<1>4. QED
  BY <1>1, <1>2, <1>3 DEF IInv

\* The inductive invariant.
LEMMA Invariance == Spec => []IInv
<1>1. IInv /\ [Next]_vars => IInv'
  BY NextKeeps, StutterKeeps
<1>2. QED
  BY <1>1, InitFits, PTL DEF Spec

\* What a call is shown is permitted to it, and its own.
LEMMA ShownFits ==
  ASSUME IInv, NEW c \in Calls, NEW value \in Shown(c)
  PROVE  /\ call[c] \in Requests /\ CallFits(call[c])
         /\ FitsAsk(call[c].policy, call[c].ask, value)
         /\ Cached(c) => OwnFor(call[c].id, value)
<1>1. call[c].st \in Stages
  BY DEF Shown, Stages
<1>2. call[c] \in Requests /\ CallFits(call[c]) /\ call[c].isolate \in Isolates
  BY <1>1, AtStage DEF IInv, CallsFit, Requests
<1>3. CASE call[c].st = "fetched"
  BY <1>2, <1>3 DEF Shown, CallFits, AnswerFits, Cached
<1>4. CASE call[c].st = "looking"
  <2>1. KeyOf(c) \in DOMAIN kv /\ value = kv[KeyOf(c)].value
    BY <1>4 DEF Shown
  <2>2. FitsAsk(KeyOf(c).policy, KeyOf(c).ask, value) /\ OwnFor(KeyOf(c), value)
    BY <2>1 DEF IInv, EntriesFit
  <2>3. QED
    BY <1>2, <2>2 DEF KeyOf, Key, OwnFor
<1>5. CASE call[c].st = "waiting"
  <2>1. KeyFor(call[c]) \in DOMAIN inFlight[call[c].isolate] /\ call[c].id # None
    BY <1>2, <1>5 DEF IInv, MissesFit, CallFits, StageFits
  <2> DEFINE d == inFlight[call[c].isolate][KeyFor(call[c])]
  <2>2. d \in Calls /\ LeaderOf(c) = d
    BY <1>2, <2>1, TypesOfMisses DEF LeaderOf, KeyFor, KeyOf, Cached
  <2>3. call[d].st = "fetched" /\ value = call[d].value
    BY <1>5, <2>2 DEF Shown
  <2>4. LeadsFor(call[d], call[c].isolate, KeyFor(call[c]))
    BY <1>2, <2>1, <2>3 DEF IInv, MissesFit, Gone
  <2>5. /\ call[d].id # None /\ call[d].policy = call[c].policy /\ call[d].ask = call[c].ask
        /\ call[d].id.principal = call[c].id.principal /\ call[d].id.roles = call[c].id.roles
    BY <2>4 DEF LeadsFor, KeyFor, Key
  <2>6. FitsAsk(call[d].policy, call[d].ask, value) /\ OwnFor(call[d].id, value)
    BY <2>2, <2>3, <2>4, <2>5 DEF IInv, CallsFit, CallFits, AnswerFits, LeadsFor
  <2>7. QED
    BY <1>2, <2>5, <2>6 DEF OwnFor
<1>6. QED
  BY <1>3, <1>4, <1>5 DEF Shown

\* A request that a production release serves is served as promised.
LEMMA RequestIsServed ==
  ASSUME IInv, NEW c \in Calls, NEW u \in Users, NEW i \in Isolates, NEW ask, NEW origin,
         Request(c, u, i, ask, origin), Profile(EnvOf(i)) = "production"
  PROVE  ServedInProduction(EnvOf(i), grant[u], grant[u].release = release[i], origin,
                            PolicyNamed(ActorPolicies[release[i]], grant[u].policy))
<1> DEFINE e == EnvOf(i)
           policy == PolicyNamed(ActorPolicies[release[i]], grant[u].policy)
<1>1. release[i] \in Releases /\ e = Deployed[release[i]] /\ Passed(e)
  BY DEF IInv, DiscoveryTypeOK, Request, Asserted, Passed, EnvOf
<1>2. grant[u] # None /\ grant[u].oidc /\ ActorPolicies[release[i]] # Fails /\ IsOriginAllowed(e, origin)
  BY DEF Request, Comes, GrantAllowed, HandlersBuild
<1>3. Credential(e) = "own"
  BY <1>1, OwnCredential
<1>4. origin \notin {"localhost", "foreign"}
  BY <1>1, <1>2, PassedMeets DEF IsOriginAllowed
<1>5. HighestMode(e, grant[u].maxMode, policy) = "admin_script" => AdminScriptVouched(e)
  BY <1>1, CeilingHolds
<1>6. ASSUME grant[u].release = release[i]
      PROVE  policy.tables # {}
  <2>1. PICK r \in Asserted, g \in GroupsOf[u] :
          CanSignIn(Deployed[r], g) /\ grant[u] = Props(Deployed[r], r, g)
    BY <1>2 DEF IInv, GrantsAreIssued
  <2>2. grant[u].release = r /\ Deployed[r].authMode = "oidc" /\ grant[u].policy = GroupPolicy(Deployed[r], g).policy
    BY <1>2, <2>1 DEF Props
  <2>3. r = release[i] /\ GroupPolicy(Deployed[r], g) # Fails
    BY <1>6, <2>1, <2>2 DEF CanSignIn
  <2>4. QED
    BY <1>1, <1>2, <2>2, <2>3, PolicyHasTables
<1>7. QED
  BY <1>2, <1>3, <1>4, <1>5, <1>6 DEF ServedInProduction

(***************************************************************************)
(* The theorems.                                                           *)
(***************************************************************************)

\* Grants, links, principals, entries, misses and calls stay what they are taken for
\* (index.ts, tools/handlers.ts, cache/schema.ts).
THEOREM DiscoveryTypeCorrect == Spec => []DiscoveryTypeOK
BY Invariance, PTL DEF IInv

\* A production release serves no request but as it promises, for any settings, named policies
\* and group maps its documents may hold (production-posture-core.ts against the Worker's loaders).
THEOREM GatesStayClosed == Spec => GatesAreClosed
<1> DEFINE A == \A c \in Calls : call[c] = Idle /\ call'[c] # Idle =>
                  LET u == call'[c].user
                      i == call'[c].isolate
                  IN  \A origin \in Origins :
                        Request(c, u, i, call'[c].ask, origin) /\ Profile(EnvOf(i)) = "production" =>
                          ServedInProduction(EnvOf(i), grant[u], grant[u].release = release[i], origin, call'[c].policy)
<1>1. IInv /\ IInv' => A
  <2> SUFFICES ASSUME IInv, IInv', NEW c \in Calls, NEW origin \in Origins,
                      Request(c, call'[c].user, call'[c].isolate, call'[c].ask, origin),
                      Profile(EnvOf(call'[c].isolate)) = "production"
               PROVE  ServedInProduction(EnvOf(call'[c].isolate), grant[call'[c].user],
                                         grant[call'[c].user].release = release[call'[c].isolate], origin,
                                         call'[c].policy)
    OBVIOUS
  <2> DEFINE u == call'[c].user
             i == call'[c].isolate
             q == [st |-> "asking", user |-> u, isolate |-> i, ask |-> call'[c].ask,
                   policy |-> PolicyNamed(ActorPolicies[release[i]], grant[u].policy), slipped |-> FALSE, unread |-> FALSE,
                   id |-> None, late |-> FALSE, by |-> None, value |-> None]
  <2>1. call'[c] = q
    BY DEF Request, IInv, DiscoveryTypeOK
  <2>2. /\ call'[c].st = "asking"
        /\ call'[c].policy = PolicyNamed(ActorPolicies[release[i]], grant[u].policy)
    BY <2>1
  <2>3. call'[c] \in Requests
    BY <2>2 DEF IInv, DiscoveryTypeOK, Idle, Ended, Gone
  <2>4. u \in Users /\ i \in Isolates
    BY <2>3 DEF Requests
  <2> HIDE DEF u, i
  <2>5. QED
    BY <2>2, <2>4, RequestIsServed DEF u, i
<1>2. GatesAreClosed <=> [][A]_vars
  BY DEF GatesAreClosed
<1>3. QED
  BY <1>1, <1>2, Invariance, PTL

\* Every miss in flight has its leader, and every call that waits has one that has not settled
\* (cache/schema.ts:42-57).
THEOREM EveryMissIsLed == Spec => []MissesAreLed
<1>1. ASSUME IInv
      PROVE  MissesAreLed
  <2>1. ASSUME NEW i \in Isolates, NEW key \in DOMAIN inFlight[i]
        PROVE  LET c == inFlight[i][key]
               IN  call[c] = Gone \/ (Running(c) /\ call[c].isolate = i /\ Cached(c) /\ KeyOf(c) = key)
    BY <1>1, StagesApart DEF IInv, MissesFit, LeadsFor, Running, Cached, KeyFor, KeyOf
  <2>2. ASSUME NEW c \in Calls, call[c].st = "waiting"
        PROVE  LeaderOf(c) \notin {None, c}
    <3>1. call[c] \in Requests /\ call[c].isolate \in Isolates
      BY <1>1, <2>2, AtStage DEF IInv, Stages, Requests
    <3>2. KeyFor(call[c]) \in DOMAIN inFlight[call[c].isolate] /\ call[c].id # None
      BY <1>1, <2>2, <3>1 DEF IInv, MissesFit, CallsFit, CallFits, StageFits
    <3>3. /\ LeaderOf(c) = inFlight[call[c].isolate][KeyFor(call[c])]
          /\ LeaderOf(c) \in Calls
      BY <1>1, <3>1, <3>2, TypesOfMisses DEF LeaderOf, Cached, KeyOf, KeyFor
    <3>4. call[LeaderOf(c)] = Gone \/ LeadsFor(call[LeaderOf(c)], call[c].isolate, KeyFor(call[c]))
      BY <1>1, <3>1, <3>2, <3>3 DEF IInv, MissesFit
    <3>5. LeaderOf(c) # c
      BY <2>2, <3>4 DEF LeadsFor, Leading, Gone
    <3>6. QED
      BY <3>3, <3>5
  <2>3. QED
    BY <2>1, <2>2 DEF MissesAreLed
<1>2. QED
  BY <1>1, Invariance, PTL

\* No call is shown a table or a field its own policy hides (cache/schema.ts, sn/discovery.ts).
THEOREM ShownStaysPermitted == Spec => []ShownIsPermitted
<1>1. ASSUME IInv
      PROVE  ShownIsPermitted
  BY <1>1, ShownFits DEF ShownIsPermitted, FitsAsk, PermittedFor
<1>2. QED
  BY <1>1, Invariance, PTL

\* What a call is shown was read as the account and with the roles it is looked up by, or the
\* change came between, or the reader's role read had failed: then it is under "default" and of
\* the account still (cache/schema.ts:15-40, servicenow-oauth.ts:226-239, handlers.ts:602-753).
THEOREM SchemaStaysOwn == Spec => []SchemaIsOwn
<1>1. ASSUME IInv
      PROVE  SchemaIsOwn
  <2> SUFFICES ASSUME NEW c \in Calls, NEW value \in Shown(c), Cached(c)
               PROVE  LET id == call[c].id
                      IN  IF id.principal = call[c].user THEN value.by = Shared
                          ELSE \/ value.slipped
                               \/ /\ value.by = id.principal
                                  /\ value.roles = id.roles \/ (value.unread /\ id.roles = "default")
    BY DEF SchemaIsOwn
  <2>1. /\ call[c].user \in Users
        /\ call[c].id.principal = call[c].user \/ call[c].id.principal \in Accounts
        /\ OwnFor(call[c].id, value)
    BY <1>1, ShownFits DEF CallFits, IdFits, Cached, Requests
  <2>2. QED
    BY <2>1 DEF OwnFor, RolesFit
<1>2. QED
  BY <1>1, Invariance, PTL

\* A list that is not called partial, from the read, the cache or another's miss, has every
\* table of its policy that matches and that its reader saw, but for those beyond a full page of
\* which ServiceNow hid a row (sn/discovery.ts:208-228, servicenow-oauth.ts:199-201).
THEOREM ListsStayHonest == Spec => []ListsAreHonest
<1>1. ASSUME IInv
      PROVE  ListsAreHonest
  BY <1>1, ShownFits DEF ListsAreHonest, FitsAsk, HonestFor
<1>2. QED
  BY <1>1, Invariance, PTL
=============================================================================
