------------------------- MODULE ServiceNowTokenProofs -------------------------
(***************************************************************************)
(* For any requests, callbacks and lifetimes: a script is signed for the   *)
(* account whose bearer carries it, if the actor's name belongs to one     *)
(* account, and with roles that were recent; and where refresh tokens do   *)
(* not rotate, nobody is asked to sign in again without a cause.           *)
(***************************************************************************)
EXTENDS ServiceNowToken, TLAPS

\* The lifetimes and the bounds are numbers.
LEMMA Bounds ==
  /\ AccessLife \in Nat /\ PrincipalTtl \in Nat
  /\ MaxTime \in Nat /\ MaxIssued \in Nat /\ MaxRoles \in Nat /\ MaxKek \in Nat
  <1>1. AccessLife \in Nat \ {0} /\ PrincipalTtl \in Nat \ {0}
    BY BoundsAssumption
  <1> QED
    BY <1>1, BoundsAssumption

-----------------------------------------------------------------------------
(***************************************************************************)
(* Types, and what a request or a callback has by its phase.               *)
(***************************************************************************)

BearerType == [owner : Owners, gen : 1..MaxIssued]
Principal == [sysId : Owners, roles : Roles]
RequestType ==
  [phase : Phases, env : Deployment \cup {None}, at : Times, hold : Bundle \cup {None},
   bearer : BearerType \cup {None}, principal : Principal \cup {None}, owed : BOOLEAN]
LinkType ==
  [phase : {"idle", "ticket", "exchanged", "bound"}, env : Deployment \cup {None},
   expected : Owners \cup {None}, hold : Bundle \cup {None}]

Carrying == {"refreshing", "rotating", "minted", "stamping"}
Borne == {"bearer", "looking", "resolving", "rereading", "stamping", "signed"}
Signing == {"looking", "resolving", "rereading", "stamping", "signed"}

RequestFits(q) ==
  /\ q \in RequestType
  /\ q.phase # "idle" => q.env \in Deployment
  /\ q.phase \in Carrying => q.hold \in Bundle
  /\ q.phase \notin Carrying => q.hold = None
  /\ q.phase \in Borne => q.bearer \in BearerType
  /\ q.phase \in {"rereading", "stamping", "signed"} => q.principal \in Principal
  /\ q.phase \in {"minting", "minted"} => q.env.mode = "integration_user"
  /\ q.phase \in Signing => q.env.mode = "per_user_oauth"

LinkFits(k) ==
  /\ k \in LinkType
  /\ k.phase \in {"exchanged", "bound"} => k.env \in Deployment /\ k.hold \in Bundle

\* The token record, ServiceNow and the world.
WorldFits ==
  /\ time \in Times /\ issued \in 0..MaxIssued /\ valid \subseteq 1..issued
  /\ roles \in 0..MaxRoles /\ switched \in BOOLEAN /\ mishap \in BOOLEAN
  /\ changed \in [0..MaxRoles -> Times \cup {None}] /\ unread \in Times \cup {None}
  /\ deploy \in Deployment
  /\ slot \in Bundle \cup {None}

Typed ==
  /\ WorldFits
  /\ req \in [Requests -> RequestType] /\ \A r \in Requests : RequestFits(req[r])
  /\ link \in [Links -> LinkType] /\ \A l \in Links : LinkFits(link[l])

-----------------------------------------------------------------------------
(***************************************************************************)
(* The bundles.                                                            *)
(***************************************************************************)

\* Tokens just issued make a bundle of their owner that nobody has resolved.
LEMMA NewTokensFit ==
  ASSUME WorldFits, issued < MaxIssued, NEW owner \in Owners, NEW at \in Times,
         NEW refresh \in 1..MaxIssued \cup {None}, NEW d \in Deployment
  PROVE  /\ NewTokens(owner, at, refresh, d) \in Bundle
         /\ NewTokens(owner, at, refresh, d).owner = owner /\ NewTokens(owner, at, refresh, d).sysId = None
  BY Bounds DEF WorldFits, NewTokens, Bundle, Deployment, Times, Owners, Roles

\* A bundle that carries the principal forward keeps its owner.
LEMMA CarriedFits ==
  ASSUME NEW t \in Bundle, NEW b \in Bundle
  PROVE  /\ CarryForwardPrincipal(t, b) \in Bundle
         /\ CarryForwardPrincipal(t, b).owner = t.owner /\ CarryForwardPrincipal(t, b).sysId = b.sysId
  BY DEF CarryForwardPrincipal, Bundle

\* So does one that is stamped with a principal.
LEMMA StampedFits ==
  ASSUME NEW t \in Bundle, NEW p \in Principal, NEW at \in Times
  PROVE  /\ StampPrincipal(t, p, at) \in Bundle
         /\ StampPrincipal(t, p, at).owner = t.owner /\ StampPrincipal(t, p, at).sysId = p.sysId
  BY DEF StampPrincipal, Bundle, Principal

\* So does one that is sealed anew.
LEMMA SealedFits ==
  ASSUME NEW t \in Bundle, NEW d \in Deployment
  PROVE  Sealed(d, t) \in Bundle /\ Sealed(d, t).owner = t.owner /\ Sealed(d, t).sysId = t.sysId
  BY DEF Sealed, Bundle, Deployment

\* The bearer of a bundle is its owner's.
LEMMA BearerFits ==
  ASSUME NEW t \in Bundle
  PROVE  Bearer(t) \in BearerType /\ Bearer(t).owner = t.owner
  BY DEF Bearer, Bundle, BearerType

\* What is read of the slot is the slot.
LEMMA StoredIsSlot ==
  ASSUME WorldFits, NEW d
  PROVE  Stored(d) # None => Stored(d) = slot /\ slot \in Bundle
  BY DEF Stored, WorldFits

\* A request that found no token is well typed.
LEMMA WithoutTokenFits ==
  ASSUME NEW q \in RequestType, q.env \in Deployment
  PROVE  /\ RequestFits(WithoutToken(q)) /\ WithoutToken(q).env = q.env
         /\ WithoutToken(q).phase \in {"minting", "reauth"} /\ WithoutToken(q).at = q.at
  BY DEF WithoutToken, RequestType, RequestFits, Phases, Carrying, Borne, Signing

-----------------------------------------------------------------------------
(***************************************************************************)
(* A request keeps its type.                                               *)
(***************************************************************************)

\* What a step of one request leaves to show.
Moves(r) ==
  /\ RequestFits(req'[r])
  /\ req' = [req EXCEPT ![r] = req'[r]]
  /\ slot' \in Bundle \cup {None} /\ issued' \in 0..MaxIssued /\ valid' \subseteq 1..issued' /\ mishap' \in BOOLEAN
  /\ unread' \in {unread, time}
  /\ UNCHANGED <<env, link>>

\* A step of a request changes the request, the slot and the count of tokens, within their types.
LEMMA RequestStep ==
  ASSUME Typed, NEW r \in Requests, Request(r)
  PROVE  Moves(r)
  <1> DEFINE q == req[r]
  <1> USE Bounds DEF Moves
  <1>0. /\ q \in RequestType /\ RequestFits(q) /\ WorldFits
        /\ req \in [Requests -> RequestType]
    BY DEF Typed
  <1> USE DEF RequestFits, Carrying, Borne, Signing, Phases
  <1>1. CASE PreflightAuth(r)
    <2>6. PICK p \in {"authorize", "reauth"}, o \in BOOLEAN :
            req' = [req EXCEPT ![r] = [IdleRequest EXCEPT !.phase = p, !.env = deploy, !.owed = o]]
      BY <1>1 DEF PreflightAuth
    <2> DEFINE k == [IdleRequest EXCEPT !.phase = p, !.env = deploy, !.owed = o]
    <2>1. IdleRequest \in RequestType
      BY DEF IdleRequest, RequestType, Times
    <2>2. IdleRequest.hold = None
      BY DEF IdleRequest
    <2>3. RequestFits(k)
      <3>1. deploy \in Deployment
        BY <1>0 DEF WorldFits
      <3>2. k \in RequestType
        BY <2>1, <3>1 DEF RequestType
      <3>3. k.phase = p /\ k.env = deploy /\ k.hold = None
        BY <2>1, <2>2 DEF RequestType
      <3> HIDE DEF k
      <3> QED
        BY <3>1, <3>2, <3>3
    <2>4. req' = [req EXCEPT ![r] = k]
      BY <2>6
    <2> HIDE DEF k
    <2> QED
      BY <1>0, <1>1, <2>3, <2>4 DEF PreflightAuth, env, WorldFits
  <1>2. CASE GetBearer(r)
    <2> DEFINE existing == Stored(q.env)
               k1 == [q EXCEPT !.phase = "bearer", !.bearer = Bearer(existing)]
               k2 == [q EXCEPT !.phase = "refreshing", !.hold = existing, !.at = time]
               k3 == [WithoutToken(q) EXCEPT !.at = time]
    <2>1. q.env \in Deployment /\ q.hold = None
      BY <1>0, <1>2 DEF GetBearer
    <2>2. existing # None => RequestFits(k1) /\ RequestFits(k2)
      <3>1. existing # None => existing \in Bundle
        BY <1>0, StoredIsSlot
      <3>2. existing # None => Bearer(existing) \in BearerType
        BY <3>1, BearerFits
      <3> HIDE DEF existing
      <3> QED
        BY <1>0, <2>1, <3>1, <3>2 DEF RequestType, WorldFits
    <2>3. RequestFits(k3)
      <3>1. RequestFits(WithoutToken(q)) /\ WithoutToken(q).phase \in {"minting", "reauth"}
        BY <1>0, <2>1, WithoutTokenFits
      <3> QED
        BY <1>0, <3>1 DEF RequestType, WorldFits
    <2>4. \E k \in {k1, k2, k3} : req' = [req EXCEPT ![r] = k] /\ (k \in {k1, k2} => existing # None \/ k = k3)
      BY <1>2 DEF GetBearer
    <2> HIDE DEF k1, k2, k3
    <2>5. PICK k : req' = [req EXCEPT ![r] = k] /\ RequestFits(k)
      BY <2>2, <2>3, <2>4
    <2> QED
      BY <1>0, <1>2, <2>5 DEF GetBearer, env, WorldFits
  <1>3. CASE RefreshAnswered(r)
    <2> DEFINE refresh == IF Rotates THEN issued + 1 ELSE q.hold.refresh
               t == NewTokens(q.hold.owner, q.at, refresh, q.env)
               h == CarryForwardPrincipal(t, q.hold)
               k == [q EXCEPT !.phase = "rotating", !.hold = h]
    <2>1. q.hold \in Bundle /\ q.env \in Deployment /\ issued < MaxIssued /\ q.hold.refresh \in valid
      BY <1>0, <1>3 DEF RefreshAnswered
    <2>2. refresh \in 1..MaxIssued /\ refresh \in 1..(issued + 1)
      <3>1. issued \in Nat /\ issued + 1 <= MaxIssued
        BY <1>0, <2>1 DEF WorldFits
      <3>2. q.hold.refresh \in 1..issued
        BY <1>0, <2>1 DEF WorldFits
      <3>3. refresh = issued + 1 \/ refresh = q.hold.refresh
        OBVIOUS
      <3> QED
        BY <3>1, <3>2, <3>3
    <2>3. t \in Bundle
      BY <1>0, <2>1, <2>2, NewTokensFit DEF Bundle, RequestType
    <2>4. h \in Bundle
      BY <2>1, <2>3, CarriedFits
    <2>5. RequestFits(k)
      <3> HIDE DEF h
      <3> QED
        BY <1>0, <2>1, <2>4 DEF RequestType
    <2>6. req' = [req EXCEPT ![r] = k]
      BY <1>3 DEF RefreshAnswered
    <2>7. issued' = issued + 1 /\ valid' = (valid \ {q.hold.refresh}) \cup {refresh}
          /\ UNCHANGED <<env, unread, slot, link, mishap>>
      BY <1>3 DEF RefreshAnswered
    <2> HIDE DEF k, refresh
    <2>8. valid' \subseteq 1..issued' /\ issued' \in 0..MaxIssued
      <3>1. issued \in Nat /\ issued + 1 <= MaxIssued /\ valid \subseteq 1..issued
        BY <1>0, <2>1 DEF WorldFits
      <3>2. \A g \in valid' : g \in 1..issued \/ g = refresh
        BY <2>7, <3>1
      <3>3. valid' \subseteq 1..(issued + 1)
        BY <2>2, <3>1, <3>2
      <3>4. issued + 1 \in 0..MaxIssued
        BY <3>1
      <3> QED
        BY <2>7, <3>3, <3>4
    <2> QED
      BY <1>0, <2>5, <2>6, <2>7, <2>8 DEF WorldFits
  <1>4. CASE RefreshFails(r) \/ RefreshNotStored(r)
    <2>1. q.env \in Deployment
      BY <1>0, <1>4 DEF RefreshFails, RefreshNotStored
    <2>2. RequestFits(WithoutToken(q))
      BY <1>0, <2>1, WithoutTokenFits
    <2>3. req' = [req EXCEPT ![r] = WithoutToken(q)] /\ mishap' \in BOOLEAN
      BY <1>0, <1>4 DEF RefreshFails, RefreshNotStored, WorldFits
    <2> QED
      BY <1>0, <1>4, <2>2, <2>3 DEF RefreshFails, RefreshNotStored, env, WorldFits
  <1>5. CASE RefreshStored(r) \/ MintStored(r)
    <2> DEFINE k == [q EXCEPT !.phase = "bearer", !.hold = None, !.bearer = Bearer(q.hold)]
    <2>1. q.hold \in Bundle /\ q.env \in Deployment
      BY <1>0, <1>5 DEF RefreshStored, MintStored
    <2>2. Bearer(q.hold) \in BearerType
      BY <2>1, BearerFits
    <2>3. RequestFits(k)
      BY <1>0, <2>1, <2>2 DEF RequestType
    <2>4. req' = [req EXCEPT ![r] = k] /\ slot' = q.hold
      BY <1>5 DEF RefreshStored, MintStored
    <2> HIDE DEF k
    <2> QED
      BY <1>0, <1>5, <2>1, <2>3, <2>4 DEF RefreshStored, MintStored, env, WorldFits
  <1>6. CASE MintAnswered(r)
    <2> DEFINE h == NewTokens(SharedAccount, q.at, issued + 1, q.env)
               k == [q EXCEPT !.phase = "minted", !.hold = h]
    <2>1. q.env \in Deployment /\ issued < MaxIssued /\ issued' = issued + 1 /\ valid' = valid \cup {issued + 1}
          /\ UNCHANGED <<env, unread, slot, link, mishap>> /\ q.phase = "minting"
      BY <1>0, <1>6 DEF MintAnswered
    <2>2. h \in Bundle
      <3>1. SharedAccount \in Owners /\ q.at \in Times
        BY <1>0 DEF Owners, RequestType
      <3>2. issued + 1 \in 1..MaxIssued \cup {None}
        BY <1>0, <2>1 DEF WorldFits
      <3> QED
        BY <1>0, <2>1, <3>1, <3>2, NewTokensFit
    <2>3. RequestFits(k)
      <3> HIDE DEF h
      <3> QED
        BY <1>0, <2>1, <2>2 DEF RequestType
    <2>4. req' = [req EXCEPT ![r] = k]
      BY <1>6 DEF MintAnswered
    <2> HIDE DEF k
    <2> QED
      BY <1>0, <2>1, <2>3, <2>4 DEF WorldFits
  <1>7. CASE MintFails(r) \/ PrincipalNotStored(r)
    <2> DEFINE k == [q EXCEPT !.phase = "failed", !.hold = None]
    <2>1. q.env \in Deployment
      BY <1>0, <1>7 DEF MintFails, PrincipalNotStored
    <2>2. RequestFits(k)
      BY <1>0, <2>1 DEF RequestType
    <2>3. req' = [req EXCEPT ![r] = k]
      BY <1>0, <1>7 DEF MintFails, PrincipalNotStored
    <2> HIDE DEF k
    <2> QED
      BY <1>0, <1>7, <2>2, <2>3 DEF MintFails, PrincipalNotStored, env, WorldFits
  <1>8. CASE AskPrincipal(r)
    <2> DEFINE k == [q EXCEPT !.phase = "looking", !.at = time, !.principal = None]
    <2>1. RequestFits(k)
      BY <1>0, <1>8 DEF AskPrincipal, RequestType, WorldFits
    <2>2. req' = [req EXCEPT ![r] = k]
      BY <1>0, <1>8 DEF AskPrincipal
    <2> HIDE DEF k
    <2> QED
      BY <1>0, <1>8, <2>1, <2>2 DEF AskPrincipal, env, WorldFits
  <1>9. CASE LookUpPrincipal(r)
    <2> DEFINE existing == Stored(q.env)
               p == [sysId |-> existing.sysId, roles |-> existing.roles]
               k1 == [q EXCEPT !.phase = "signed", !.principal = p]
               k2 == [q EXCEPT !.phase = "resolving"]
    <2>1. q.phase = "looking" /\ q.env \in Deployment
      BY <1>0, <1>9 DEF LookUpPrincipal
    <2>2. HasFreshPrincipal(existing, q.at) => p \in Principal
      <3>1. existing # None => existing \in Bundle
        BY <1>0, StoredIsSlot
      <3> HIDE DEF existing
      <3> QED
        BY <3>1 DEF HasFreshPrincipal, Bundle, Principal
    <2> HIDE DEF p
    <2>3. HasFreshPrincipal(existing, q.at) => RequestFits(k1)
      BY <1>0, <2>1, <2>2 DEF RequestType
    <2>4. RequestFits(k2)
      BY <1>0, <2>1 DEF RequestType
    <2>5. req' = [req EXCEPT ![r] = IF HasFreshPrincipal(existing, q.at) THEN k1 ELSE k2]
      BY <1>9 DEF LookUpPrincipal, p
    <2> HIDE DEF k1, k2, existing
    <2>6. PICK k : req' = [req EXCEPT ![r] = k] /\ RequestFits(k)
      BY <2>3, <2>4, <2>5
    <2> QED
      BY <1>0, <1>9, <2>6 DEF LookUpPrincipal, env, WorldFits
  <1>10. CASE PrincipalAnswered(r)
    <2>0. PICK v \in Roles :
            /\ ReadRoles(v)
            /\ req' = [req EXCEPT ![r].phase = "rereading",
                                 ![r].principal = [sysId |-> req[r].bearer.owner, roles |-> v]]
      BY <1>10 DEF PrincipalAnswered
    <2> DEFINE p == [sysId |-> q.bearer.owner, roles |-> v]
               k == [q EXCEPT !.phase = "rereading", !.principal = p]
    <2>1. q.phase = "resolving" /\ q.env \in Deployment /\ q.bearer \in BearerType
      BY <1>0, <1>10 DEF PrincipalAnswered
    <2>2. p \in Principal
      BY <2>0, <2>1 DEF Principal, BearerType
    <2>3. req' = [req EXCEPT ![r] = k]
      BY <1>0, <2>0
    <2>5. unread' \in {unread, time}
      BY <2>0 DEF ReadRoles
    <2> HIDE DEF p
    <2>4. RequestFits(k)
      BY <1>0, <2>1, <2>2 DEF RequestType
    <2> HIDE DEF k
    <2> QED
      BY <1>0, <1>10, <2>3, <2>4, <2>5 DEF PrincipalAnswered, env, WorldFits
  <1>11. CASE PrincipalUnknown(r)
    <2> DEFINE k == [q EXCEPT !.phase = "reauth"]
    <2>1. RequestFits(k)
      BY <1>0, <1>11 DEF PrincipalUnknown, RequestType
    <2>2. req' = [req EXCEPT ![r] = k]
      BY <1>0, <1>11 DEF PrincipalUnknown
    <2> HIDE DEF k
    <2> QED
      BY <1>0, <1>11, <2>1, <2>2 DEF PrincipalUnknown, env, WorldFits
  <1>12. CASE ReadLatest(r)
    <2> DEFINE latest == Stored(q.env)
               h == Sealed(q.env, StampPrincipal(latest, q.principal, q.at))
               k1 == [q EXCEPT !.phase = "signed"]
               k2 == [q EXCEPT !.phase = "stamping", !.hold = h]
    <2>1. q.phase = "rereading" /\ q.env \in Deployment /\ q.principal \in Principal /\ q.at \in Times
      BY <1>0, <1>12 DEF ReadLatest, RequestType
    <2>2. latest # None => h \in Bundle
      BY <1>0, <2>1, StoredIsSlot, StampedFits, SealedFits
    <2>3. req' = [req EXCEPT ![r] = IF latest = None THEN k1 ELSE k2]
      BY <1>12 DEF ReadLatest
    <2> HIDE DEF h, latest
    <2>4. RequestFits(k1) /\ (latest # None => RequestFits(k2))
      BY <1>0, <2>1, <2>2 DEF RequestType
    <2> HIDE DEF k1, k2
    <2>5. PICK k : req' = [req EXCEPT ![r] = k] /\ RequestFits(k)
      BY <2>3, <2>4
    <2> QED
      BY <1>0, <1>12, <2>5 DEF ReadLatest, env, WorldFits
  <1>13. CASE PrincipalStored(r)
    <2> DEFINE k == [q EXCEPT !.phase = "signed", !.hold = None]
    <2>1. RequestFits(k) /\ q.hold \in Bundle
      BY <1>0, <1>13 DEF PrincipalStored, RequestType
    <2>2. req' = [req EXCEPT ![r] = k] /\ slot' = q.hold
      BY <1>0, <1>13 DEF PrincipalStored
    <2> HIDE DEF k
    <2> QED
      BY <1>0, <1>13, <2>1, <2>2 DEF PrincipalStored, env, WorldFits
  <1>14. CASE Finish(r)
    <2>1. RequestFits(IdleRequest)
      BY DEF IdleRequest, RequestType, Times
    <2>2. req' = [req EXCEPT ![r] = IdleRequest]
      BY <1>0, <1>14 DEF Finish
    <2> QED
      BY <1>0, <1>14, <2>1, <2>2 DEF Finish, env, WorldFits
  <1> QED
    BY <1>1, <1>2, <1>3, <1>4, <1>5, <1>6, <1>7, <1>8, <1>9, <1>10, <1>11, <1>12, <1>13, <1>14 DEF Request

-----------------------------------------------------------------------------
(***************************************************************************)
(* A callback and the world keep their types.                              *)
(***************************************************************************)

LinkMoves(l) ==
  /\ LinkFits(link'[l])
  /\ link' = [link EXCEPT ![l] = link'[l]]
  /\ slot' \in Bundle \cup {None} /\ issued' \in 0..MaxIssued /\ valid' \subseteq 1..issued'
  /\ unread' \in {unread, time}
  /\ UNCHANGED <<env, req, mishap>>

\* A step of a link callback changes the callback, the slot and the count of tokens.
LEMMA LinkStep ==
  ASSUME Typed, NEW l \in Links, Callback(l)
  PROVE  LinkMoves(l)
  <1> DEFINE k == link[l]
  <1> USE Bounds DEF LinkMoves
  <1>0. k \in LinkType /\ LinkFits(k) /\ WorldFits /\ link \in [Links -> LinkType]
    BY DEF Typed
  <1>1. CASE MintTicket(l)
    <2>1. PICK r \in Requests :
            link' = [link EXCEPT ![l].phase = "ticket",
                       ![l].expected = IF Stored(req[r].env) = None THEN None ELSE Stored(req[r].env).sysId]
      BY <1>1 DEF MintTicket
    <2> DEFINE existing == Stored(req[r].env)
               x == IF existing = None THEN None ELSE existing.sysId
               n == [k EXCEPT !.phase = "ticket", !.expected = x]
    <2>2. x \in Owners \cup {None}
      <3>1. existing # None => existing \in Bundle
        BY <1>0, StoredIsSlot
      <3> HIDE DEF existing
      <3> QED
        BY <3>1 DEF Bundle
    <2> HIDE DEF x
    <2>3. LinkFits(n)
      BY <1>0, <2>2 DEF LinkType, LinkFits
    <2>4. link' = [link EXCEPT ![l] = n]
      BY <1>0, <2>1 DEF x
    <2> HIDE DEF n
    <2> QED
      BY <1>0, <1>1, <2>3, <2>4 DEF MintTicket, env, WorldFits
  <1>2. ASSUME NEW account \in Accounts, SignIn(l, account) PROVE LinkMoves(l)
    <2>0. PICK v \in Roles :
            /\ ReadRoles(v)
            /\ link' = [link EXCEPT ![l].phase = "exchanged", ![l].env = deploy,
                           ![l].hold = StampPrincipal(NewTokens(account, time, issued + 1, deploy),
                                                      [sysId |-> account, roles |-> v], time)]
      BY <1>2 DEF SignIn
    <2> DEFINE t == NewTokens(account, time, issued + 1, deploy)
               p == [sysId |-> account, roles |-> v]
               h == StampPrincipal(t, p, time)
               n == [k EXCEPT !.phase = "exchanged", !.env = deploy, !.hold = h]
    <2>1. issued < MaxIssued /\ issued' = issued + 1 /\ valid' = valid \cup {issued + 1}
          /\ UNCHANGED <<env, slot, req, mishap>> /\ unread' \in {unread, time}
      BY <1>2, <2>0 DEF SignIn, ReadRoles
    <2>2. account \in Owners /\ time \in Times /\ issued + 1 \in 1..MaxIssued /\ deploy \in Deployment
      BY <1>0, <2>1 DEF WorldFits, Owners
    <2>3. t \in Bundle
      BY <1>0, <2>1, <2>2, NewTokensFit
    <2>4. p \in Principal
      BY <2>0, <2>2 DEF Principal
    <2>5. h \in Bundle
      BY <2>2, <2>3, <2>4, StampedFits
    <2>6. link' = [link EXCEPT ![l] = n]
      BY <1>0, <2>0
    <2> HIDE DEF h
    <2>7. LinkFits(n)
      BY <1>0, <2>2, <2>5 DEF LinkType, LinkFits
    <2> HIDE DEF n
    <2> QED
      BY <1>0, <2>1, <2>6, <2>7 DEF WorldFits
  <1>3. IdleLink \in LinkType /\ IdleLink.phase = "idle"
    BY DEF IdleLink, LinkType
  <1>4. LinkFits(IdleLink)
    BY <1>3 DEF LinkFits
  <1>5. CASE CheckBinding(l)
    <2> DEFINE n == [k EXCEPT !.phase = "bound"]
    <2>1. LinkFits(n)
      BY <1>0, <1>5 DEF CheckBinding, LinkFits, LinkType
    <2>2. link' = [link EXCEPT ![l] = n] \/ link' = [link EXCEPT ![l] = IdleLink]
      BY <1>5 DEF CheckBinding
    <2> HIDE DEF n
    <2>3. PICK m : link' = [link EXCEPT ![l] = m] /\ LinkFits(m)
      BY <1>4, <2>1, <2>2
    <2> QED
      BY <1>0, <1>5, <2>3 DEF CheckBinding, env, WorldFits
  <1>6. CASE LinkStored(l) \/ LinkFails(l)
    <2>1. link' = [link EXCEPT ![l] = IdleLink]
      BY <1>6 DEF LinkStored, LinkFails
    <2>2. slot' \in Bundle \cup {None}
      BY <1>0, <1>6 DEF LinkStored, LinkFails, WorldFits, LinkFits
    <2> QED
      BY <1>0, <1>4, <1>6, <2>1, <2>2 DEF LinkStored, LinkFails, env, WorldFits
  <1> QED
    BY <1>1, <1>2, <1>5, <1>6 DEF Callback

\* Clock, roles, keys, revocation and redeployment leave slot, requests and callbacks alone.
LEMMA WorldStep ==
  ASSUME WorldFits, World
  PROVE  WorldFits' /\ UNCHANGED <<slot, req, link, issued>>
  <1> USE Bounds DEF WorldFits
  <1>1. CASE Tick
    BY <1>1 DEF Tick, Times
  <1>2. CASE ChangeRoles
    BY <1>2 DEF ChangeRoles, Times
  <1>3. CASE Revoke
    BY <1>3 DEF Revoke, env
  <1>4. CASE RotateKek
    <2> DEFINE d == [deploy EXCEPT !.cur = @ + 1, !.prev = deploy.cur]
    <2>1. deploy \in Deployment /\ deploy' = d /\ deploy.cur < MaxKek
      BY <1>4 DEF RotateKek
    <2>2. deploy.cur \in 0..MaxKek /\ deploy.cur + 1 \in 0..MaxKek
      BY <2>1, Bounds DEF Deployment
    <2>3. d \in Deployment
      BY <2>1, <2>2 DEF Deployment
    <2> HIDE DEF d
    <2> QED
      BY <1>4, <2>1, <2>3 DEF RotateKek
  <1>5. CASE DropPreviousKek
    <2> DEFINE d == [deploy EXCEPT !.prev = None]
    <2>1. d \in Deployment /\ deploy' = d
      BY <1>5 DEF DropPreviousKek, Deployment
    <2> HIDE DEF d
    <2> QED
      BY <1>5, <2>1 DEF DropPreviousKek
  <1>6. CASE SwitchMode
    <2>1. PICK m \in Modes : deploy' = [deploy EXCEPT !.mode = m]
      BY <1>6 DEF SwitchMode
    <2>2. deploy' \in Deployment
      BY <2>1 DEF Deployment
    <2> QED
      BY <1>6, <2>2 DEF SwitchMode
  <1> QED
    BY <1>1, <1>2, <1>3, <1>4, <1>5, <1>6 DEF World

\* Every step keeps the types and what each phase carries.
LEMMA TypedStep == ASSUME Typed, [Next]_vars PROVE Typed'
  <1>1. ASSUME NEW r \in Requests, Request(r) PROVE Typed'
    <2>1. Moves(r)
      BY <1>1, RequestStep
    <2>2. req'[r] \in RequestType
      BY <2>1 DEF Moves, RequestFits
    <2>3. req' \in [Requests -> RequestType] /\ \A s \in Requests : RequestFits(req'[s])
      BY <2>1, <2>2 DEF Moves, Typed
    <2>4. WorldFits'
      BY <2>1 DEF Moves, Typed, WorldFits, env
    <2> QED
      BY <2>1, <2>3, <2>4 DEF Moves, Typed
  <1>2. ASSUME NEW l \in Links, Callback(l) PROVE Typed'
    <2>1. LinkMoves(l)
      BY <1>2, LinkStep
    <2>2. link'[l] \in LinkType
      BY <2>1 DEF LinkMoves, LinkFits
    <2>3. link' \in [Links -> LinkType] /\ \A k \in Links : LinkFits(link'[k])
      BY <2>1, <2>2 DEF LinkMoves, Typed
    <2>4. WorldFits'
      BY <2>1 DEF LinkMoves, Typed, WorldFits, env
    <2> QED
      BY <2>1, <2>3, <2>4 DEF LinkMoves, Typed
  <1>3. CASE World
    BY <1>3, WorldStep DEF Typed
  <1>4. CASE UNCHANGED vars
    BY <1>4 DEF vars, Typed, WorldFits
  <1> QED
    BY <1>1, <1>2, <1>3, <1>4 DEF Next

\* They hold at first.
LEMMA TypedInit == Init => Typed
  <1> SUFFICES ASSUME Init PROVE Typed
    OBVIOUS
  <1>0. deploy \in Deployment
    BY Bounds DEF Init, Deployment
  <1>1. WorldFits
    <2>1. 0 \in 0..MaxTime /\ 0 \in 0..MaxIssued /\ 0 \in 0..MaxRoles
      BY Bounds
    <2>2. changed \in [0..MaxRoles -> Times \cup {None}]
      BY DEF Init
    <2> QED
      BY <1>0, <2>1, <2>2 DEF Init, WorldFits, Times
  <1>2. RequestFits(IdleRequest) /\ IdleRequest \in RequestType
    BY Bounds DEF IdleRequest, RequestType, RequestFits, Times, Phases, Carrying, Borne, Signing
  <1>3. LinkFits(IdleLink) /\ IdleLink \in LinkType
    BY DEF IdleLink, LinkType, LinkFits
  <1> QED
    BY <1>1, <1>2, <1>3 DEF Init, Typed

\* The type invariant is part of them.
LEMMA TypedIsTypeOK == Typed => TypeOK
  <1> SUFFICES ASSUME Typed PROVE TypeOK
    OBVIOUS
  <1>1. WorldFits
    BY DEF Typed
  <1>2. ASSUME NEW r \in Requests
        PROVE  /\ req[r].phase \in Phases /\ req[r].env \in Deployment \cup {None}
               /\ req[r].at \in Times /\ req[r].hold \in Bundle \cup {None}
               /\ req[r].phase \in {"refreshing", "rotating", "minted", "stamping"} <=> req[r].hold # None
    BY BundleAssumption DEF Typed, RequestType, RequestFits, Carrying
  <1>3. ASSUME NEW l \in Links
        PROVE  link[l].phase \in {"idle", "ticket", "exchanged", "bound"} /\ link[l].hold \in Bundle \cup {None}
    BY DEF Typed, LinkType
  <1> QED
    BY <1>1, <1>2, <1>3 DEF TypeOK, WorldFits

-----------------------------------------------------------------------------
(***************************************************************************)
(* Whose account is whose.                                                 *)
(***************************************************************************)

\* What a bundle, a request and a callback know of an account is of the actor's.
Own(b) == b.owner \in OwnAccounts /\ b.sysId \in OwnAccounts \cup {None}

RequestIsOwn(q) ==
  /\ q.phase \in Carrying => Own(q.hold)
  /\ q.phase \in Borne => q.bearer.owner \in OwnAccounts
  /\ q.phase \in {"rereading", "stamping", "signed"} => q.principal.sysId \in OwnAccounts

CallbackIsOwn(k) ==
  /\ k.expected \in OwnAccounts \cup {None}
  /\ k.phase \in {"exchanged", "bound"} => k.hold.owner = k.hold.sysId
  /\ k.phase = "bound" => Own(k.hold)

AllIsOwn ==
  /\ slot # None => Own(slot)
  /\ \A r \in Requests : RequestIsOwn(req[r])
  /\ \A l \in Links : CallbackIsOwn(link[l])

ModeStands == \A r \in Requests : req[r].phase # "idle" => req[r].env.mode = deploy.mode

\* Until the operator switches modes.
Settled == ~ switched => ModeStands /\ (deploy.mode = "per_user_oauth" => AllIsOwn)

\* A request that goes on keeps its deployment, one that begins takes the present one.
LEMMA EnvStays ==
  ASSUME Typed, NEW r \in Requests, Request(r), req'[r].phase # "idle"
  PROVE  req'[r].env \in {deploy} \cup (IF req[r].phase = "idle" THEN {} ELSE {req[r].env})
  <1> DEFINE q == req[r]
  <1>0. q \in RequestType /\ RequestFits(q) /\ req \in [Requests -> RequestType]
    BY DEF Typed
  <1>1. q.phase # "idle" \/ PreflightAuth(r)
    BY DEF Request, GetBearer, RefreshAnswered, RefreshFails, RefreshStored, RefreshNotStored, MintAnswered,
           MintStored, MintFails, AskPrincipal, LookUpPrincipal, PrincipalAnswered, PrincipalUnknown, ReadLatest,
           PrincipalStored, PrincipalNotStored, Finish
  <1>2. CASE PreflightAuth(r)
    BY <1>0, <1>2 DEF PreflightAuth, IdleRequest
  <1>3. ASSUME WithoutToken(q).env = q.env
        PROVE  (GetBearer(r) \/ RefreshFails(r) \/ RefreshNotStored(r)) => req'[r].env = q.env
    <2>1. [WithoutToken(q) EXCEPT !.at = time].env = WithoutToken(q).env
      BY <1>0 DEF WithoutToken, RequestType
    <2> QED
      BY <1>0, <1>3, <2>1 DEF GetBearer, RefreshFails, RefreshNotStored, RequestType
  <1>4. q.phase # "idle" => WithoutToken(q).env = q.env
    BY <1>0 DEF WithoutToken, RequestType
  <1>5. Finish(r) => req'[r].phase = "idle"
    BY <1>0 DEF Finish, IdleRequest
  <1>6. RefreshAnswered(r) => req'[r].env = q.env
    BY <1>0 DEF RefreshAnswered, RequestType
  <1>7. RefreshStored(r) => req'[r].env = q.env
    BY <1>0 DEF RefreshStored, RequestType
  <1>8. MintAnswered(r) => req'[r].env = q.env
    BY <1>0 DEF MintAnswered, RequestType
  <1>9. MintStored(r) => req'[r].env = q.env
    BY <1>0 DEF MintStored, RequestType
  <1>10. MintFails(r) => req'[r].env = q.env
    BY <1>0 DEF MintFails, RequestType
  <1>11. AskPrincipal(r) => req'[r].env = q.env
    BY <1>0 DEF AskPrincipal, RequestType
  <1>12. LookUpPrincipal(r) => req'[r].env = q.env
    BY <1>0 DEF LookUpPrincipal, RequestType
  <1>13. PrincipalAnswered(r) => req'[r].env = q.env
    BY <1>0 DEF PrincipalAnswered, RequestType
  <1>14. PrincipalUnknown(r) => req'[r].env = q.env
    BY <1>0 DEF PrincipalUnknown, RequestType
  <1>15. ReadLatest(r) => req'[r].env = q.env
    BY <1>0 DEF ReadLatest, RequestType
  <1>16. PrincipalStored(r) => req'[r].env = q.env
    BY <1>0 DEF PrincipalStored, RequestType
  <1>17. PrincipalNotStored(r) => req'[r].env = q.env
    BY <1>0 DEF PrincipalNotStored, RequestType
  <1> QED
    BY <1>1, <1>2, <1>3, <1>4, <1>5, <1>6, <1>7, <1>8, <1>9, <1>10, <1>11, <1>12, <1>13, <1>14, <1>15, <1>16, <1>17 DEF Request

\* What the slot gives a request to read is the actor's.
LEMMA StoredIsOwn ==
  ASSUME WorldFits, slot # None => Own(slot), NEW d, Stored(d) # None
  PROVE  Stored(d) \in Bundle /\ Own(Stored(d))
  BY StoredIsSlot DEF Stored

\* No account is called None.
LEMMA NoneIsNobody == None \notin OwnAccounts
  BY SetsAssumption, BoundsAssumption

\* A request of a settled deployment carries and stores its user's own authority.
LEMMA RequestStaysOwn ==
  ASSUME Typed, AllIsOwn, ModeStands, deploy.mode = "per_user_oauth",
         NEW r \in Requests, Request(r)
  PROVE  RequestIsOwn(req'[r]) /\ (slot' # None => Own(slot'))
  <1> DEFINE q == req[r]
  <1>0. /\ q \in RequestType /\ RequestFits(q) /\ WorldFits /\ req \in [Requests -> RequestType]
        /\ RequestIsOwn(q) /\ (slot # None => Own(slot))
        /\ (q.phase # "idle" => q.env \in Deployment /\ q.env.mode = "per_user_oauth")
    BY DEF Typed, AllIsOwn, ModeStands, RequestFits
  <1> USE NoneIsNobody DEF RequestIsOwn, Carrying, Borne
  <1>1. CASE PreflightAuth(r)
    <2>1. PICK p \in {"authorize", "reauth"}, o \in BOOLEAN :
            req' = [req EXCEPT ![r] = [IdleRequest EXCEPT !.phase = p, !.env = deploy, !.owed = o]]
      BY <1>1 DEF PreflightAuth
    <2>2. req'[r].phase \in {"authorize", "reauth"}
      BY <1>0, <2>1 DEF IdleRequest
    <2> QED
      BY <1>0, <1>1, <2>2 DEF PreflightAuth
  <1>2. CASE GetBearer(r)
    <2> DEFINE existing == Stored(q.env)
               k1 == [q EXCEPT !.phase = "bearer", !.bearer = Bearer(existing)]
               k2 == [q EXCEPT !.phase = "refreshing", !.hold = existing, !.at = time]
               k3 == [WithoutToken(q) EXCEPT !.at = time]
    <2>1. q.env \in Deployment /\ q.phase = "authorize"
      BY <1>0, <1>2 DEF GetBearer
    <2>2. existing # None => RequestIsOwn(k1) /\ RequestIsOwn(k2)
      <3>1. existing # None => existing \in Bundle /\ Own(existing)
        BY <1>0, StoredIsOwn
      <3>2. existing # None => Bearer(existing).owner \in OwnAccounts
        BY <3>1, BearerFits DEF Own
      <3> HIDE DEF existing
      <3>3. k1.phase = "bearer" /\ k1.bearer = Bearer(existing) /\ k2.phase = "refreshing" /\ k2.hold = existing
        BY <1>0 DEF RequestType
      <3> QED
        BY <3>1, <3>2, <3>3
    <2>3. RequestIsOwn(k3)
      <3>1. WithoutToken(q) \in RequestType /\ WithoutToken(q).phase \in {"minting", "reauth"}
        BY <1>0, <2>1, WithoutTokenFits DEF RequestFits
      <3>2. k3.phase \in {"minting", "reauth"}
        BY <3>1 DEF RequestType
      <3> QED
        BY <3>2
    <2>4. \E k \in {k1, k2, k3} : req' = [req EXCEPT ![r] = k] /\ (k \in {k1, k2} => existing # None \/ k = k3)
      BY <1>2 DEF GetBearer
    <2> HIDE DEF k1, k2, k3
    <2>5. PICK k : req' = [req EXCEPT ![r] = k] /\ RequestIsOwn(k)
      BY <2>2, <2>3, <2>4
    <2>6. req'[r] = k
      BY <1>0, <2>5
    <2> QED
      BY <1>0, <1>2, <2>5, <2>6 DEF GetBearer
  <1>3. CASE RefreshAnswered(r)
    <2> DEFINE refresh == IF Rotates THEN issued + 1 ELSE q.hold.refresh
               t == NewTokens(q.hold.owner, q.at, refresh, q.env)
               h == CarryForwardPrincipal(t, q.hold)
    <2>1. q.phase = "refreshing" /\ q.hold \in Bundle /\ Own(q.hold)
      BY <1>0, <1>3 DEF RefreshAnswered, RequestFits
    <2>2. h.owner = q.hold.owner /\ h.sysId = q.hold.sysId
      BY DEF CarryForwardPrincipal, NewTokens
    <2>3. Own(h)
      BY <2>1, <2>2 DEF Own
    <2>4. req' = [req EXCEPT ![r] = [q EXCEPT !.phase = "rotating", !.hold = h]] /\ slot' = slot
      BY <1>3 DEF RefreshAnswered
    <2> HIDE DEF h
    <2>5. req'[r].phase = "rotating" /\ req'[r].hold = h
      BY <1>0, <2>4 DEF RequestType
    <2> QED
      BY <1>0, <2>3, <2>4, <2>5
  <1>4. CASE RefreshFails(r) \/ RefreshNotStored(r)
    <2>1. q.env \in Deployment
      BY <1>0, <1>4 DEF RefreshFails, RefreshNotStored
    <2>2. req' = [req EXCEPT ![r] = WithoutToken(q)] /\ slot' = slot
      BY <1>4 DEF RefreshFails, RefreshNotStored
    <2>3. req'[r].phase \in {"minting", "reauth"}
      BY <1>0, <2>1, <2>2, WithoutTokenFits
    <2> QED
      BY <1>0, <2>2, <2>3
  <1>5. CASE RefreshStored(r) \/ MintStored(r)
    <2>1. q.phase \in Carrying /\ q.hold \in Bundle /\ Own(q.hold)
      BY <1>0, <1>5 DEF RefreshStored, MintStored, RequestFits
    <2>2. Bearer(q.hold).owner \in OwnAccounts
      BY <2>1, BearerFits DEF Own
    <2>3. req' = [req EXCEPT ![r] = [q EXCEPT !.phase = "bearer", !.hold = None, !.bearer = Bearer(q.hold)]]
          /\ slot' = q.hold
      BY <1>5 DEF RefreshStored, MintStored
    <2>4. req'[r].phase = "bearer" /\ req'[r].bearer = Bearer(q.hold)
      BY <1>0, <2>3 DEF RequestType
    <2> QED
      BY <2>1, <2>2, <2>3, <2>4
  <1>6. ~ MintAnswered(r)
    BY <1>0 DEF MintAnswered, RequestFits
  <1>7. CASE MintFails(r) \/ PrincipalNotStored(r) \/ PrincipalUnknown(r)
    <2>1. req'[r].phase \in {"failed", "reauth"} /\ slot' = slot
      BY <1>0, <1>7 DEF MintFails, PrincipalNotStored, PrincipalUnknown, RequestType
    <2> QED
      BY <1>0, <2>1
  <1>8. CASE AskPrincipal(r)
    <2>1. req'[r].phase = "looking" /\ req'[r].bearer = q.bearer /\ slot' = slot /\ q.phase \in Borne
      BY <1>0, <1>8 DEF AskPrincipal, RequestType
    <2> QED
      BY <1>0, <2>1
  <1>9. CASE LookUpPrincipal(r)
    <2> DEFINE existing == Stored(q.env)
               p == [sysId |-> existing.sysId, roles |-> existing.roles]
    <2>1. q.phase = "looking" /\ slot' = slot
      BY <1>9 DEF LookUpPrincipal
    <2>2. HasFreshPrincipal(existing, q.at) => existing.sysId \in OwnAccounts
      BY <1>0, StoredIsOwn DEF HasFreshPrincipal, Own
    <2>3. req' = [req EXCEPT ![r] = IF HasFreshPrincipal(existing, q.at)
                                    THEN [q EXCEPT !.phase = "signed", !.principal = p]
                                    ELSE [q EXCEPT !.phase = "resolving"]]
      BY <1>9 DEF LookUpPrincipal
    <2>4. p.sysId = existing.sysId
      OBVIOUS
    <2> HIDE DEF p, existing
    <2>5. /\ req'[r].bearer = q.bearer
          /\ \/ req'[r].phase = "signed" /\ req'[r].principal = p /\ HasFreshPrincipal(existing, q.at)
             \/ req'[r].phase = "resolving"
      BY <1>0, <2>3 DEF RequestType
    <2> QED
      BY <1>0, <2>1, <2>2, <2>4, <2>5
  <1>10. CASE PrincipalAnswered(r)
    <2>1. q.phase = "resolving" /\ slot' = slot
      BY <1>10 DEF PrincipalAnswered
    <2>2. req'[r].phase = "rereading" /\ req'[r].bearer = q.bearer /\ req'[r].principal.sysId = q.bearer.owner
      BY <1>0, <1>10 DEF PrincipalAnswered, RequestType
    <2> QED
      BY <1>0, <2>1, <2>2
  <1>11. CASE ReadLatest(r)
    <2> DEFINE latest == Stored(q.env)
               h == Sealed(q.env, StampPrincipal(latest, q.principal, q.at))
    <2>1. q.phase = "rereading" /\ q.env \in Deployment /\ q.principal \in Principal /\ q.at \in Times
          /\ slot' = slot
      BY <1>0, <1>11 DEF ReadLatest, RequestFits, RequestType
    <2>2. latest # None => Own(h)
      <3>1. ASSUME latest # None PROVE Own(h)
        <4>1. latest \in Bundle /\ Own(latest)
          BY <1>0, <3>1, StoredIsOwn
        <4>2. h.owner = latest.owner /\ h.sysId = q.principal.sysId
          BY <2>1, <4>1, StampedFits, SealedFits
        <4> QED
          BY <1>0, <2>1, <4>1, <4>2 DEF Own
      <3> QED
        BY <3>1
    <2>3. req' = [req EXCEPT ![r] = IF latest = None THEN [q EXCEPT !.phase = "signed"]
                                    ELSE [q EXCEPT !.phase = "stamping", !.hold = h]]
      BY <1>11 DEF ReadLatest
    <2> HIDE DEF h, latest
    <2>4. /\ req'[r].bearer = q.bearer /\ req'[r].principal = q.principal
          /\ \/ req'[r].phase = "signed"
             \/ req'[r].phase = "stamping" /\ req'[r].hold = h /\ latest # None
      BY <1>0, <2>3 DEF RequestType
    <2> QED
      BY <1>0, <2>1, <2>2, <2>4
  <1>12. CASE PrincipalStored(r)
    <2>1. q.phase = "stamping" /\ slot' = q.hold
      BY <1>12 DEF PrincipalStored
    <2>2. req'[r].phase = "signed" /\ req'[r].bearer = q.bearer /\ req'[r].principal = q.principal
      BY <1>0, <1>12 DEF PrincipalStored, RequestType
    <2> QED
      BY <1>0, <2>1, <2>2
  <1>13. CASE Finish(r)
    <2>1. req'[r].phase = "idle" /\ slot' = slot
      BY <1>0, <1>13 DEF Finish, IdleRequest
    <2> QED
      BY <1>0, <2>1
  <1> QED
    BY <1>1, <1>2, <1>3, <1>4, <1>5, <1>6, <1>7, <1>8, <1>9, <1>10, <1>11, <1>12, <1>13 DEF Request

\* So does a link callback.
LEMMA CallbackStaysOwn ==
  ASSUME Typed, AllIsOwn, NEW l \in Links, Callback(l)
  PROVE  CallbackIsOwn(link'[l]) /\ (slot' # None => Own(slot'))
  <1> DEFINE k == link[l]
  <1>0. k \in LinkType /\ LinkFits(k) /\ WorldFits /\ link \in [Links -> LinkType]
        /\ CallbackIsOwn(k) /\ (slot # None => Own(slot))
    BY DEF Typed, AllIsOwn
  <1> USE DEF CallbackIsOwn
  <1>1. CASE MintTicket(l)
    <2>1. PICK r \in Requests :
            link' = [link EXCEPT ![l].phase = "ticket",
                       ![l].expected = IF Stored(req[r].env) = None THEN None ELSE Stored(req[r].env).sysId]
      BY <1>1 DEF MintTicket
    <2> DEFINE x == IF Stored(req[r].env) = None THEN None ELSE Stored(req[r].env).sysId
    <2>2. x \in OwnAccounts \cup {None}
      BY <1>0, StoredIsOwn DEF Own
    <2>3. link' = [link EXCEPT ![l].phase = "ticket", ![l].expected = x] /\ slot' = slot
      BY <1>1, <2>1 DEF MintTicket
    <2> HIDE DEF x
    <2>4. link'[l].phase = "ticket" /\ link'[l].expected = x
      BY <1>0, <2>3 DEF LinkType
    <2> QED
      BY <1>0, <2>2, <2>3, <2>4
  <1>2. ASSUME NEW account \in Accounts, SignIn(l, account)
        PROVE  CallbackIsOwn(link'[l]) /\ (slot' # None => Own(slot'))
    <2>0. PICK v \in Roles :
            link' = [link EXCEPT ![l].phase = "exchanged", ![l].env = deploy,
                        ![l].hold = StampPrincipal(NewTokens(account, time, issued + 1, deploy),
                                                   [sysId |-> account, roles |-> v], time)]
      BY <1>2 DEF SignIn
    <2> DEFINE h == StampPrincipal(NewTokens(account, time, issued + 1, deploy),
                                   [sysId |-> account, roles |-> v], time)
    <2>1. h.owner = h.sysId
      BY DEF StampPrincipal, NewTokens
    <2>2. link' = [link EXCEPT ![l].phase = "exchanged", ![l].env = deploy, ![l].hold = h] /\ slot' = slot
      BY <1>2, <2>0 DEF SignIn
    <2> HIDE DEF h
    <2>3. link'[l].phase = "exchanged" /\ link'[l].hold = h /\ link'[l].expected = k.expected
      BY <1>0, <2>2 DEF LinkType
    <2> QED
      BY <1>0, <2>1, <2>2, <2>3
  <1>3. CallbackIsOwn(IdleLink)
    BY DEF IdleLink
  <1>4. CASE CheckBinding(l)
    <2> DEFINE existing == Stored(k.env)
    <2>1. k.phase = "exchanged" /\ k.hold \in Bundle /\ slot' = slot
      BY <1>0, <1>4 DEF CheckBinding, LinkFits
    <2>2. MatchesBinding(l, k.hold.sysId, existing) => k.hold.sysId \in OwnAccounts
      <3>1. existing # None => existing.sysId \in OwnAccounts \cup {None}
        BY <1>0, StoredIsOwn DEF Own
      <3> HIDE DEF existing
      <3> QED
        BY <1>0, <3>1 DEF MatchesBinding
    <2>3. link' = [link EXCEPT ![l] = IF MatchesBinding(l, k.hold.sysId, existing)
                                      THEN [k EXCEPT !.phase = "bound"] ELSE IdleLink]
      BY <1>4 DEF CheckBinding
    <2> HIDE DEF existing
    <2>4. \/ link'[l] = IdleLink
          \/ /\ link'[l].phase = "bound" /\ link'[l].hold = k.hold /\ link'[l].expected = k.expected
             /\ MatchesBinding(l, k.hold.sysId, existing)
      BY <1>0, <2>3 DEF LinkType
    <2> QED
      BY <1>0, <1>3, <2>1, <2>2, <2>4 DEF Own
  <1>5. CASE LinkStored(l) \/ LinkFails(l)
    <2>1. link'[l] = IdleLink
      BY <1>0, <1>5 DEF LinkStored, LinkFails
    <2>2. slot' = slot \/ (slot' = k.hold /\ k.phase = "bound")
      BY <1>5 DEF LinkStored, LinkFails
    <2> QED
      BY <1>0, <1>3, <2>1, <2>2
  <1> QED
    BY <1>1, <1>2, <1>4, <1>5 DEF Callback

\* Every step of a deployment that was never switched keeps all its authority its users' own.
LEMMA SettledStep == ASSUME Typed, Settled, [Next]_vars PROVE Settled'
  <1> SUFFICES ASSUME ~ switched' PROVE ModeStands' /\ (deploy'.mode = "per_user_oauth" => AllIsOwn')
    BY DEF Settled
  <1>1. ASSUME NEW r \in Requests, Request(r)
        PROVE  ModeStands' /\ (deploy'.mode = "per_user_oauth" => AllIsOwn')
    <2>1. Moves(r)
      BY <1>1, RequestStep
    <2>2. /\ deploy' = deploy /\ switched' = switched /\ link' = link
          /\ \A s \in Requests : s # r => req'[s] = req[s]
      BY <2>1 DEF Moves, env, Typed
    <2>3. ModeStands /\ (deploy.mode = "per_user_oauth" => AllIsOwn)
      BY <2>2 DEF Settled
    <2>4. ModeStands'
      BY <1>1, <2>2, <2>3, EnvStays DEF ModeStands
    <2>5. ASSUME deploy.mode = "per_user_oauth" PROVE AllIsOwn'
      BY <1>1, <2>2, <2>3, <2>5, RequestStaysOwn DEF AllIsOwn
    <2> QED
      BY <2>2, <2>4, <2>5
  <1>2. ASSUME NEW l \in Links, Callback(l)
        PROVE  ModeStands' /\ (deploy'.mode = "per_user_oauth" => AllIsOwn')
    <2>1. LinkMoves(l)
      BY <1>2, LinkStep
    <2>2. /\ deploy' = deploy /\ switched' = switched /\ req' = req
          /\ \A m \in Links : m # l => link'[m] = link[m]
      BY <2>1 DEF LinkMoves, env, Typed
    <2>3. ModeStands /\ (deploy.mode = "per_user_oauth" => AllIsOwn)
      BY <2>2 DEF Settled
    <2>4. ASSUME deploy.mode = "per_user_oauth" PROVE AllIsOwn'
      BY <1>2, <2>2, <2>3, <2>4, CallbackStaysOwn DEF AllIsOwn
    <2> QED
      BY <2>2, <2>3, <2>4 DEF ModeStands
  <1>3. CASE World
    <2>1. UNCHANGED <<slot, req, link>>
      BY <1>3, WorldStep DEF Typed
    <2>2. deploy'.mode = deploy.mode /\ switched' = switched
      <3>1. ~ SwitchMode
        BY DEF SwitchMode
      <3>2. deploy \in Deployment
        BY DEF Typed, WorldFits
      <3> QED
        BY <1>3, <3>1, <3>2 DEF World, Tick, ChangeRoles, Revoke, RotateKek, DropPreviousKek, env, Deployment
    <2> QED
      BY <2>1, <2>2 DEF Settled, ModeStands, AllIsOwn
  <1>4. CASE UNCHANGED vars
    BY <1>4 DEF vars, Settled, ModeStands, AllIsOwn
  <1> QED
    BY <1>1, <1>2, <1>3, <1>4 DEF Next

-----------------------------------------------------------------------------
(***************************************************************************)
(* What a step leaves in a request, a callback and the slot.               *)
(***************************************************************************)

\* The part of a bundle that outlives a refresh.
SamePrincipal(b, c) == b.sysId = c.sysId /\ b.roles = c.roles /\ b.asOf = c.asOf

\* Roles that this step's read gave.
JustRead(v) == v \in {roles, None} /\ (v = None => unread' = time)

\* A request that goes on, by the phase it goes to.
GoesOn(q, n) ==
  /\ q.phase # "idle" /\ n.phase # "idle"
  /\ n.env = q.env /\ n.owed = q.owed /\ n.at \in {q.at, time}
  /\ n.phase = "reauth" =>
       \/ mishap'
       \/ q.phase = "authorize" /\ (Stored(q.env) = None \/ Stored(q.env).refresh = None)
       \/ q.phase = "refreshing" /\ q.hold.refresh \notin valid
  /\ n.phase = "refreshing" => slot # None /\ n.hold = slot
  /\ n.phase = "rotating" =>
       /\ q.phase = "refreshing" /\ SamePrincipal(n.hold, q.hold)
       /\ n.hold.refresh \in valid' /\ n.hold.kek = q.env.cur
  /\ n.phase = "minted" => n.hold.sysId = None /\ n.hold.refresh \in valid' /\ n.hold.kek = q.env.cur
  /\ n.phase = "rereading" => n.at = q.at /\ JustRead(n.principal.roles)
  /\ n.phase = "stamping" =>
       /\ q.phase = "rereading" /\ slot # None /\ n.at = q.at /\ n.principal = q.principal
       /\ n.hold.roles = q.principal.roles /\ n.hold.asOf = q.at
       /\ n.hold.refresh = slot.refresh /\ n.hold.kek = q.env.cur
  /\ n.phase = "signed" =>
       /\ n.at = q.at
       /\ \/ q.phase = "looking" /\ HasFreshPrincipal(slot, q.at) /\ n.principal.roles = slot.roles
          \/ q.phase \in {"rereading", "stamping"} /\ n.principal = q.principal

Begins(q, n) ==
  /\ q.phase = "idle" /\ n.phase \in {"authorize", "reauth"}
  /\ n.env = deploy /\ n.at = 0 /\ n.owed = (slot # None)
  /\ n.phase = "reauth" => ~ PreflightPasses

\* Refresh tokens that ServiceNow honours are lost by rotation and revocation only.
Outcome(r) ==
  /\ ~ Rotates => valid \subseteq valid'
  /\ mishap => mishap'
  /\ slot' = slot \/ (req[r].phase \in Carrying \ {"refreshing"} /\ slot' = req[r].hold)
  /\ req'[r] = IdleRequest \/ Begins(req[r], req'[r]) \/ GoesOn(req[r], req'[r])

\* What a step of a request leaves it with, and what it has stored.
LEMMA RequestOutcome == ASSUME Typed, NEW r \in Requests, Request(r) PROVE Outcome(r)
  <1> DEFINE q == req[r]
             n == req'[r]
  <1>0. /\ q \in RequestType /\ RequestFits(q) /\ WorldFits /\ req \in [Requests -> RequestType]
        /\ DOMAIN q = {"phase", "env", "at", "hold", "bearer", "principal", "owed"}
    BY DEF Typed, RequestType
  <1>1. CASE PreflightAuth(r)
    <2> DEFINE p == IF PreflightPasses THEN "authorize" ELSE "reauth"
               o == slot # None
    <2>1. n = [IdleRequest EXCEPT !.phase = p, !.env = deploy, !.owed = o]
      BY <1>0, <1>1 DEF PreflightAuth
    <2> HIDE DEF p, o
    <2>2. n.phase = p /\ n.env = deploy /\ n.at = 0 /\ n.owed = o
      BY <2>1 DEF IdleRequest
    <2> QED
      BY <1>1, <2>2 DEF PreflightAuth, Outcome, Begins, p, o
  <1>2. CASE GetBearer(r)
    <2> DEFINE existing == Stored(q.env)
               k1 == [q EXCEPT !.phase = "bearer", !.bearer = Bearer(existing)]
               k2 == [q EXCEPT !.phase = "refreshing", !.hold = existing, !.at = time]
               k3 == [WithoutToken(q) EXCEPT !.at = time]
    <2>1. q.env \in Deployment /\ q.phase = "authorize" /\ UNCHANGED <<slot, valid, mishap>>
      BY <1>0, <1>2 DEF GetBearer, RequestFits
    <2>2. GoesOn(q, k1)
      BY <1>0, <2>1 DEF RequestType, GoesOn
    <2>3. existing # None => GoesOn(q, k2)
      <3>1. existing # None => slot # None /\ existing = slot
        BY DEF Stored
      <3> QED
        BY <1>0, <2>1, <3>1 DEF RequestType, GoesOn
    <2>4. existing = None \/ existing.refresh = None => GoesOn(q, k3)
      <3>1. WithoutToken(q) \in RequestType /\ WithoutToken(q).phase \in {"minting", "reauth"}
            /\ WithoutToken(q).env = q.env /\ WithoutToken(q).owed = q.owed
        BY <1>0, <2>1, WithoutTokenFits DEF RequestFits, WithoutToken, RequestType
      <3>2. k3.phase \in {"minting", "reauth"} /\ k3.env = q.env /\ k3.owed = q.owed /\ k3.at = time
        BY <3>1 DEF RequestType
      <3> HIDE DEF k3, existing
      <3> QED
        BY <2>1, <3>2 DEF GoesOn, existing
    <2>5. \/ n = k1
          \/ n = k2 /\ existing # None
          \/ n = k3 /\ (existing = None \/ existing.refresh = None)
      BY <1>0, <1>2 DEF GetBearer
    <2> HIDE DEF k1, k2, k3, existing
    <2> QED
      BY <2>1, <2>2, <2>3, <2>4, <2>5 DEF Outcome
  <1>3. CASE RefreshAnswered(r)
    <2> DEFINE refresh == IF Rotates THEN issued + 1 ELSE q.hold.refresh
               t == NewTokens(q.hold.owner, q.at, refresh, q.env)
               h == CarryForwardPrincipal(t, q.hold)
    <2>1. /\ q.phase = "refreshing" /\ q.hold.refresh \in valid /\ UNCHANGED <<slot, mishap>>
          /\ valid' = (valid \ {q.hold.refresh}) \cup {refresh}
          /\ n = [q EXCEPT !.phase = "rotating", !.hold = h]
      BY <1>0, <1>3 DEF RefreshAnswered
    <2>2. SamePrincipal(h, q.hold) /\ h.refresh = refresh /\ h.kek = q.env.cur
      BY DEF CarryForwardPrincipal, NewTokens, SamePrincipal
    <2>3. refresh \in valid' /\ (~ Rotates => valid \subseteq valid')
      BY <2>1
    <2> HIDE DEF h, refresh
    <2>4. n.phase = "rotating" /\ n.hold = h /\ n.env = q.env /\ n.owed = q.owed /\ n.at = q.at
      BY <1>0, <2>1 DEF RequestType
    <2> QED
      BY <2>1, <2>2, <2>3, <2>4 DEF Outcome, GoesOn
  <1>4. CASE RefreshFails(r) \/ RefreshNotStored(r)
    <2>1. q.phase \in {"refreshing", "rotating"} /\ n = WithoutToken(q) /\ UNCHANGED <<slot, valid>>
      BY <1>0, <1>4 DEF RefreshFails, RefreshNotStored
    <2>2. /\ mishap => mishap'
          /\ mishap' \/ (q.phase = "refreshing" /\ q.hold.refresh \notin valid)
      BY <1>0, <1>4 DEF RefreshFails, RefreshNotStored, WorldFits
    <2>3. n.phase \in {"minting", "reauth"} /\ n.env = q.env /\ n.owed = q.owed /\ n.at = q.at
      BY <1>0, <2>1 DEF WithoutToken, RequestType
    <2> QED
      BY <2>1, <2>2, <2>3 DEF Outcome, GoesOn
  <1>5. CASE RefreshStored(r) \/ MintStored(r)
    <2>1. q.phase \in {"rotating", "minted"} /\ slot' = q.hold /\ UNCHANGED <<valid, mishap>>
          /\ n = [q EXCEPT !.phase = "bearer", !.hold = None, !.bearer = Bearer(q.hold)]
      BY <1>0, <1>5 DEF RefreshStored, MintStored
    <2>2. n.phase = "bearer" /\ n.env = q.env /\ n.owed = q.owed /\ n.at = q.at
      BY <1>0, <2>1 DEF RequestType
    <2> QED
      BY <2>1, <2>2 DEF Outcome, GoesOn, Carrying
  <1>6. CASE MintAnswered(r)
    <2> DEFINE h == NewTokens(SharedAccount, q.at, issued + 1, q.env)
    <2>1. /\ q.phase = "minting" /\ UNCHANGED <<slot, mishap>> /\ valid' = valid \cup {issued + 1}
          /\ n = [q EXCEPT !.phase = "minted", !.hold = h]
      BY <1>0, <1>6 DEF MintAnswered
    <2>2. h.sysId = None /\ h.refresh = issued + 1 /\ h.kek = q.env.cur
      BY DEF NewTokens
    <2> HIDE DEF h
    <2>3. n.phase = "minted" /\ n.hold = h /\ n.env = q.env /\ n.owed = q.owed /\ n.at = q.at
      BY <1>0, <2>1 DEF RequestType
    <2> QED
      BY <2>1, <2>2, <2>3 DEF Outcome, GoesOn
  <1>7. CASE MintFails(r) \/ PrincipalNotStored(r) \/ PrincipalUnknown(r)
    <2>1. /\ q.phase # "idle" /\ n.phase \in {"failed", "reauth"} /\ UNCHANGED <<slot, valid>>
          /\ n.env = q.env /\ n.owed = q.owed /\ n.at = q.at
          /\ (mishap => mishap') /\ (n.phase = "reauth" => mishap')
      BY <1>0, <1>7 DEF MintFails, PrincipalNotStored, PrincipalUnknown, RequestType
    <2> QED
      BY <2>1 DEF Outcome, GoesOn
  <1>8. CASE AskPrincipal(r)
    <2>1. /\ q.phase # "idle" /\ n.phase = "looking" /\ n.env = q.env /\ n.owed = q.owed /\ n.at = time
          /\ UNCHANGED <<slot, valid, mishap>>
      BY <1>0, <1>8 DEF AskPrincipal, RequestType
    <2> QED
      BY <2>1 DEF Outcome, GoesOn
  <1>9. CASE LookUpPrincipal(r)
    <2> DEFINE existing == Stored(q.env)
               p == [sysId |-> existing.sysId, roles |-> existing.roles]
    <2>1. /\ q.phase = "looking" /\ UNCHANGED <<slot, valid, mishap>>
          /\ n = IF HasFreshPrincipal(existing, q.at)
                 THEN [q EXCEPT !.phase = "signed", !.principal = p]
                 ELSE [q EXCEPT !.phase = "resolving"]
      BY <1>0, <1>9 DEF LookUpPrincipal
    <2>2. HasFreshPrincipal(existing, q.at) => HasFreshPrincipal(slot, q.at) /\ p.roles = slot.roles
      BY DEF HasFreshPrincipal, Stored
    <2> HIDE DEF p, existing
    <2>3. /\ n.env = q.env /\ n.owed = q.owed /\ n.at = q.at
          /\ \/ n.phase = "signed" /\ n.principal = p /\ HasFreshPrincipal(existing, q.at)
             \/ n.phase = "resolving"
      BY <1>0, <2>1 DEF RequestType
    <2> QED
      BY <2>1, <2>2, <2>3 DEF Outcome, GoesOn
  <1>10. CASE PrincipalAnswered(r)
    <2>1. /\ q.phase = "resolving" /\ n.phase = "rereading" /\ n.env = q.env /\ n.owed = q.owed
          /\ n.at = q.at /\ JustRead(n.principal.roles) /\ UNCHANGED <<slot, valid, mishap>>
      BY <1>0, <1>10 DEF PrincipalAnswered, ReadRoles, JustRead, RequestType
    <2> QED
      BY <2>1 DEF Outcome, GoesOn
  <1>11. CASE ReadLatest(r)
    <2> DEFINE latest == Stored(q.env)
               h == Sealed(q.env, StampPrincipal(latest, q.principal, q.at))
    <2>1. /\ q.phase = "rereading" /\ UNCHANGED <<slot, valid, mishap>>
          /\ n = IF latest = None THEN [q EXCEPT !.phase = "signed"]
                 ELSE [q EXCEPT !.phase = "stamping", !.hold = h]
      BY <1>0, <1>11 DEF ReadLatest
    <2>2. latest # None => /\ slot # None /\ h.roles = q.principal.roles /\ h.asOf = q.at
                           /\ h.refresh = slot.refresh /\ h.kek = q.env.cur
      <3>1. latest # None => latest \in Bundle /\ latest = slot /\ slot # None
        BY <1>0, StoredIsSlot DEF Stored
      <3> HIDE DEF latest
      <3> QED
        BY <3>1 DEF Sealed, StampPrincipal, Bundle
    <2> HIDE DEF h, latest
    <2>3. /\ n.env = q.env /\ n.owed = q.owed /\ n.at = q.at /\ n.principal = q.principal
          /\ \/ n.phase = "signed"
             \/ n.phase = "stamping" /\ n.hold = h /\ latest # None
      BY <1>0, <2>1 DEF RequestType
    <2> QED
      BY <2>1, <2>2, <2>3 DEF Outcome, GoesOn
  <1>12. CASE PrincipalStored(r)
    <2>1. /\ q.phase = "stamping" /\ slot' = q.hold /\ n.phase = "signed" /\ n.principal = q.principal
          /\ n.env = q.env /\ n.owed = q.owed /\ n.at = q.at /\ UNCHANGED <<valid, mishap>>
      BY <1>0, <1>12 DEF PrincipalStored, RequestType
    <2> QED
      BY <2>1 DEF Outcome, GoesOn, Carrying
  <1>13. CASE Finish(r)
    BY <1>0, <1>13 DEF Finish, Outcome
  <1> QED
    BY <1>1, <1>2, <1>3, <1>4, <1>5, <1>6, <1>7, <1>8, <1>9, <1>10, <1>11, <1>12, <1>13 DEF Request

\* A callback seals what it was just given, and stores what it checked.
CallbackOutcome(l) ==
  LET k == link[l]
      n == link'[l]
  IN  /\ valid \subseteq valid'
      /\ slot' = slot \/ (k.phase = "bound" /\ slot' = k.hold)
      /\ n.phase = "exchanged" =>
           /\ n.env = deploy /\ n.hold.kek = deploy.cur /\ n.hold.refresh \in valid'
           /\ JustRead(n.hold.roles) /\ n.hold.asOf = time
      /\ n.phase = "bound" => k.phase = "exchanged" /\ n.hold = k.hold /\ n.env = k.env

\* What a step of a callback leaves it with, and what it has stored.
LEMMA CallbacksOutcome == ASSUME Typed, NEW l \in Links, Callback(l) PROVE CallbackOutcome(l)
  <1> DEFINE k == link[l]
             n == link'[l]
  <1>0. k \in LinkType /\ link \in [Links -> LinkType]
    BY DEF Typed
  <1>1. CASE MintTicket(l)
    <2>1. PICK r \in Requests :
            link' = [link EXCEPT ![l].phase = "ticket",
                       ![l].expected = IF Stored(req[r].env) = None THEN None ELSE Stored(req[r].env).sysId]
      BY <1>1 DEF MintTicket
    <2> DEFINE x == IF Stored(req[r].env) = None THEN None ELSE Stored(req[r].env).sysId
    <2>2. link' = [link EXCEPT ![l].phase = "ticket", ![l].expected = x] /\ UNCHANGED <<slot, valid>>
      BY <1>1, <2>1 DEF MintTicket
    <2> HIDE DEF x
    <2>3. n.phase = "ticket"
      BY <1>0, <2>2 DEF LinkType
    <2> QED
      BY <2>2, <2>3 DEF CallbackOutcome
  <1>2. ASSUME NEW account \in Accounts, SignIn(l, account) PROVE CallbackOutcome(l)
    <2>0. PICK v \in Roles :
            /\ ReadRoles(v)
            /\ link' = [link EXCEPT ![l].phase = "exchanged", ![l].env = deploy,
                           ![l].hold = StampPrincipal(NewTokens(account, time, issued + 1, deploy),
                                                      [sysId |-> account, roles |-> v], time)]
      BY <1>2 DEF SignIn
    <2> DEFINE h == StampPrincipal(NewTokens(account, time, issued + 1, deploy),
                                   [sysId |-> account, roles |-> v], time)
    <2>1. h.kek = deploy.cur /\ h.refresh = issued + 1 /\ JustRead(h.roles) /\ h.asOf = time
      BY <2>0 DEF StampPrincipal, NewTokens, ReadRoles, JustRead
    <2>2. /\ link' = [link EXCEPT ![l].phase = "exchanged", ![l].env = deploy, ![l].hold = h]
          /\ slot' = slot /\ valid' = valid \cup {issued + 1}
      BY <1>2, <2>0 DEF SignIn
    <2> HIDE DEF h
    <2>3. n.phase = "exchanged" /\ n.env = deploy /\ n.hold = h
      BY <1>0, <2>2 DEF LinkType
    <2> QED
      BY <2>1, <2>2, <2>3 DEF CallbackOutcome
  <1>3. IdleLink.phase = "idle"
    BY DEF IdleLink
  <1>4. CASE CheckBinding(l)
    <2>1. /\ k.phase = "exchanged" /\ UNCHANGED <<slot, valid>>
          /\ n = [k EXCEPT !.phase = "bound"] \/ n = IdleLink
      BY <1>0, <1>4 DEF CheckBinding
    <2>2. n = IdleLink \/ (n.phase = "bound" /\ n.hold = k.hold /\ n.env = k.env)
      BY <1>0, <2>1 DEF LinkType
    <2> QED
      BY <1>3, <2>1, <2>2 DEF CallbackOutcome
  <1>5. CASE LinkStored(l) \/ LinkFails(l)
    <2>1. n = IdleLink /\ valid' = valid /\ (slot' = slot \/ (k.phase = "bound" /\ slot' = k.hold))
      BY <1>0, <1>5 DEF LinkStored, LinkFails
    <2> QED
      BY <1>3, <2>1 DEF CallbackOutcome
  <1> QED
    BY <1>1, <1>2, <1>4, <1>5 DEF Callback

-----------------------------------------------------------------------------
(***************************************************************************)
(* Roles and when they were the account's.                                 *)
(***************************************************************************)

\* These roles are what a role read gave at some moment not before at.
Known(v, at) ==
  /\ at <= time
  /\ v = None => unread \in Times /\ unread >= at
  /\ v # None => v <= roles /\ (v < roles => changed[v] >= at)

BundleKnows(b) == b.sysId # None => Known(b.roles, b.asOf)

RequestKnows(q) ==
  /\ q.at <= time
  /\ q.phase \in Carrying => BundleKnows(q.hold)
  /\ q.phase \in {"rereading", "stamping"} => Known(q.principal.roles, q.at)
  /\ q.phase = "signed" => Known(q.principal.roles, q.at - PrincipalTtl)

CallbackKnows(k) == k.phase \in {"exchanged", "bound"} => BundleKnows(k.hold)

Informed ==
  /\ \A v \in 0..MaxRoles : v < roles => changed[v] \in Times
  /\ slot # None => BundleKnows(slot)
  /\ \A r \in Requests : RequestKnows(req[r])
  /\ \A l \in Links : CallbackKnows(link[l])

\* A number of role changes is not None.
LEMMA NumbersAreNotNone == ASSUME WorldFits PROVE roles # None /\ time # None
  BY BoundsAssumption DEF WorldFits, Times

\* What was known stays known while role reads fail.
LEMMA KnownThroughReads ==
  ASSUME WorldFits, UNCHANGED <<time, roles, changed>>, unread' \in {unread, time},
         NEW v, NEW at \in Int, Known(v, at)
  PROVE  Known(v, at)'
  BY DEF Known, WorldFits, Times

\* And while the world goes on.
LEMMA KnownLasts ==
  ASSUME Typed, World, NEW v \in Roles, NEW at \in Int, Known(v, at)
  PROVE  Known(v, at)'
  <1>0. WorldFits /\ unread' = unread
    BY DEF Typed, World, Tick, ChangeRoles, Revoke, RotateKek, DropPreviousKek, SwitchMode
  <1>1. CASE Tick
    BY <1>0, <1>1 DEF Tick, Known, WorldFits, Times
  <1>2. CASE ChangeRoles
    <2>1. /\ roles' = roles + 1 /\ time' = time /\ roles \in 0..MaxRoles
          /\ changed'[roles] = time /\ \A u \in 0..MaxRoles : u # roles => changed'[u] = changed[u]
      BY <1>0, <1>2, Bounds DEF ChangeRoles, WorldFits
    <2>2. CASE v = None
      BY <1>0, <2>1, <2>2 DEF Known
    <2>3. CASE v \in 0..MaxRoles
      BY <1>0, <2>1, <2>3, BoundsAssumption DEF Known, WorldFits, Times
    <2> QED
      BY <2>2, <2>3 DEF Roles
  <1>3. CASE UNCHANGED <<time, roles, changed>>
    BY <1>0, <1>3 DEF Known
  <1> QED
    BY <1>1, <1>2, <1>3 DEF World, Revoke, RotateKek, DropPreviousKek, SwitchMode, env

\* What a bundle says of roles stays known with them.
LEMMA BundleKnowledgeLasts ==
  ASSUME Typed, World \/ (UNCHANGED <<time, roles, changed>> /\ unread' \in {unread, time}),
         NEW b \in Bundle, BundleKnows(b)
  PROVE  BundleKnows(b)'
  <1>1. b.roles \in Roles /\ b.asOf \in Int
    BY Bounds DEF Bundle, Times
  <1> QED
    BY <1>1, KnownLasts, KnownThroughReads DEF BundleKnows, Typed

\* What a request knows stays known while role reads fail.
LEMMA RequestKnowledgeLasts ==
  ASSUME Typed, UNCHANGED <<time, roles, changed>>, unread' \in {unread, time},
         NEW q, RequestFits(q), RequestKnows(q)
  PROVE  RequestKnows(q)'
  <1>1. q.at \in Int /\ q.at - PrincipalTtl \in Int /\ (q.phase \in Carrying => q.hold \in Bundle)
    BY Bounds DEF RequestFits, RequestType, Times
  <1> QED
    BY <1>1, BundleKnowledgeLasts, KnownThroughReads DEF RequestKnows, BundleKnows, Typed

\* A request that moves reads, resolves or carries on recent roles.
LEMMA RequestStaysInformed ==
  ASSUME Typed, Informed, NEW r \in Requests, Request(r)
  PROVE  RequestKnows(req[r])' /\ (slot' # None => BundleKnows(slot)')
  <1> DEFINE q == req[r]
             n == req'[r]
  <1>0. /\ Moves(r) /\ Outcome(r) /\ RequestFits(q) /\ RequestFits(n) /\ RequestKnows(q) /\ WorldFits
        /\ slot # None => slot \in Bundle /\ BundleKnows(slot)
    BY RequestStep, RequestOutcome DEF Typed, Informed, Moves, WorldFits
  <1>1. UNCHANGED <<time, roles, changed>> /\ unread' \in {unread, time}
    BY <1>0 DEF Moves, env
  <1>2. slot' # None => BundleKnows(slot')
    BY <1>0 DEF Outcome, RequestKnows
  <1>3. n.phase # "rereading" => RequestKnows(n)
    <2> SUFFICES ASSUME n.phase # "rereading" PROVE RequestKnows(n)
      OBVIOUS
    <2>1. CASE n = IdleRequest
      BY <1>0, <2>1, Bounds DEF IdleRequest, RequestKnows, Carrying, WorldFits, Times
    <2>2. CASE Begins(q, n)
      BY <1>0, <2>2, Bounds DEF Begins, RequestKnows, Carrying, WorldFits, Times
    <2>3. CASE GoesOn(q, n)
      <3>1. n.at <= time
        BY <1>0, <2>3 DEF GoesOn, RequestKnows, WorldFits, Times
      <3>2. CASE n.phase = "refreshing"
        BY <1>0, <2>3, <3>1, <3>2 DEF GoesOn, RequestKnows
      <3>3. CASE n.phase = "rotating"
        BY <1>0, <2>3, <3>1, <3>3 DEF GoesOn, RequestKnows, BundleKnows, SamePrincipal, Carrying
      <3>4. CASE n.phase = "minted"
        BY <2>3, <3>1, <3>4 DEF GoesOn, RequestKnows, BundleKnows
      <3>6. CASE n.phase = "stamping"
        BY <1>0, <2>3, <3>1, <3>6 DEF GoesOn, RequestKnows, BundleKnows
      <3>7. CASE n.phase = "signed"
        <4>0. q.at \in Int /\ PrincipalTtl \in Nat /\ time \in Int /\ roles \in 0..MaxRoles
          BY <1>0, Bounds DEF RequestFits, RequestType, WorldFits, Times
        <4>1. ASSUME NEW v \in Roles, NEW at \in Int, Known(v, at), q.at - at <= PrincipalTtl,
                     q.at <= time
              PROVE  Known(v, q.at - PrincipalTtl)
          <5>1. CASE v = None
            BY <4>0, <4>1, <5>1, Bounds DEF Known, Times
          <5>2. CASE v \in 0..MaxRoles
            <6>1. v # None /\ (v < roles => changed[v] \in Times)
              BY <5>2, BoundsAssumption DEF Informed
            <6> QED
              BY <4>0, <4>1, <5>2, <6>1, Bounds DEF Known, Times
          <5> QED
            BY <5>1, <5>2 DEF Roles
        <4>2. CASE q.phase = "looking"
          <5>1. slot # None /\ slot.sysId # None /\ q.at - slot.asOf <= PrincipalTtl
                /\ n.principal.roles = slot.roles /\ n.at = q.at
            BY <2>3, <3>7, <4>2 DEF GoesOn, HasFreshPrincipal
          <5>2. slot.roles \in Roles /\ slot.asOf \in Int /\ Known(slot.roles, slot.asOf)
            BY <1>0, <5>1, Bounds DEF Bundle, Times, BundleKnows
          <5>3. Known(slot.roles, q.at - PrincipalTtl)
            BY <1>0, <4>1, <5>1, <5>2 DEF RequestKnows
          <5> QED
            BY <3>1, <3>7, <5>1, <5>3 DEF RequestKnows, Carrying
        <4>3. CASE q.phase \in {"rereading", "stamping"}
          <5>1. n.principal = q.principal /\ n.at = q.at
            BY <2>3, <3>7, <4>3 DEF GoesOn
          <5>2. q.principal.roles \in Roles /\ Known(q.principal.roles, q.at)
            BY <1>0, <4>3 DEF RequestFits, Principal, RequestKnows
          <5>3. Known(q.principal.roles, q.at - PrincipalTtl)
            BY <1>0, <4>0, <4>1, <5>2 DEF RequestKnows
          <5> QED
            BY <3>1, <3>7, <5>1, <5>3 DEF RequestKnows, Carrying
        <4> QED
          BY <2>3, <3>7, <4>2, <4>3 DEF GoesOn
      <3> QED
        BY <3>1, <3>2, <3>3, <3>4, <3>6, <3>7 DEF RequestKnows, Carrying
    <2> QED
      BY <1>0, <2>1, <2>2, <2>3 DEF Outcome
  <1>4. ASSUME n.phase = "rereading" PROVE RequestKnows(req[r])'
    <2>1. n.at = q.at /\ JustRead(n.principal.roles)
      <3>1. n # IdleRequest /\ ~ Begins(q, n)
        BY <1>4 DEF IdleRequest, Begins
      <3> QED
        BY <1>0, <1>4, <3>1 DEF Outcome, GoesOn
    <2>2. q.at <= time /\ q.at \in Int /\ time \in Times /\ roles \in 0..MaxRoles
      BY <1>0, Bounds DEF RequestKnows, RequestFits, RequestType, WorldFits, Times
    <2>3. Known(req[r].principal.roles, req[r].at)'
      BY <1>0, <1>1, <2>1, <2>2, NumbersAreNotNone DEF Known, JustRead, Times
    <2> QED
      BY <1>1, <1>4, <2>1, <2>2, <2>3 DEF RequestKnows, Carrying, Known
  <1>5. ASSUME n.phase # "rereading" PROVE RequestKnows(req[r])'
    BY <1>0, <1>1, <1>3, <1>5, RequestKnowledgeLasts DEF RequestKnows, BundleKnows, Known
  <1>6. slot' # None => BundleKnows(slot)'
    <2>1. slot' # None => slot' \in Bundle /\ BundleKnows(slot')
      BY <1>0, <1>2 DEF Moves
    <2> QED
      BY <1>1, <2>1, BundleKnowledgeLasts DEF BundleKnows, Known
  <1> QED
    BY <1>4, <1>5, <1>6

\* No step puts older roles on a bundle or a request.
LEMMA InformedStep == ASSUME Typed, Informed, [Next]_vars PROVE Informed'
  <1>1. ASSUME NEW r \in Requests, Request(r) PROVE Informed'
    <2>1. RequestKnows(req[r])' /\ (slot' # None => BundleKnows(slot)')
      BY <1>1, RequestStaysInformed
    <2>2. /\ UNCHANGED <<time, roles, changed, link>> /\ unread' \in {unread, time}
          /\ \A s \in Requests : s # r => req'[s] = req[s]
      BY <1>1, RequestStep DEF Moves, env, Typed
    <2>3. ASSUME NEW s \in Requests, s # r PROVE RequestKnows(req[s])'
      <3>1. RequestFits(req[s]) /\ RequestKnows(req[s]) /\ req'[s] = req[s]
        BY <2>2, <2>3 DEF Typed, Informed
      <3> QED
        BY <2>2, <3>1, RequestKnowledgeLasts DEF RequestKnows, BundleKnows, Known
    <2>4. ASSUME NEW l \in Links PROVE CallbackKnows(link[l])'
      <3>1. LinkFits(link[l]) /\ CallbackKnows(link[l]) /\ link'[l] = link[l]
        BY <2>2 DEF Typed, Informed
      <3> QED
        BY <2>2, <3>1, BundleKnowledgeLasts DEF CallbackKnows, LinkFits, BundleKnows, Known
    <2> QED
      BY <2>1, <2>2, <2>3, <2>4 DEF Informed
  <1>2. ASSUME NEW l \in Links, Callback(l) PROVE Informed'
    <2>0. CallbackOutcome(l) /\ WorldFits
      BY <1>2, CallbacksOutcome DEF Typed
    <2>1. /\ UNCHANGED <<time, roles, changed, req>> /\ unread' \in {unread, time}
          /\ LinkFits(link'[l]) /\ \A m \in Links : m # l => link'[m] = link[m]
      BY <1>2, LinkStep DEF LinkMoves, env, Typed
    <2>2. CallbackKnows(link[l])'
      <3>1. CASE link'[l].phase = "exchanged"
        <4>1. JustRead(link'[l].hold.roles) /\ link'[l].hold.asOf = time
          BY <2>0, <3>1 DEF CallbackOutcome
        <4>2. Known(link[l].hold.roles, link[l].hold.asOf)'
          BY <2>0, <2>1, <4>1, NumbersAreNotNone, Bounds DEF Known, JustRead, WorldFits, Times
        <4> QED
          BY <4>2 DEF CallbackKnows, BundleKnows
      <3>2. CASE link'[l].phase = "bound"
        <4>1. link'[l].hold \in Bundle /\ BundleKnows(link'[l].hold)
          BY <2>0, <2>1, <3>2 DEF CallbackOutcome, Informed, CallbackKnows, LinkFits
        <4> QED
          BY <2>1, <4>1, BundleKnowledgeLasts DEF CallbackKnows, BundleKnows, Known
      <3> QED
        BY <3>1, <3>2 DEF CallbackKnows
    <2>3. ASSUME NEW m \in Links, m # l PROVE CallbackKnows(link[m])'
      <3>1. LinkFits(link[m]) /\ CallbackKnows(link[m]) /\ link'[m] = link[m]
        BY <2>1, <2>3 DEF Typed, Informed
      <3> QED
        BY <2>1, <3>1, BundleKnowledgeLasts DEF CallbackKnows, LinkFits, BundleKnows, Known
    <2>4. slot' # None => BundleKnows(slot)'
      <3>1. slot' # None => slot' \in Bundle /\ BundleKnows(slot')
        <4>1. slot' = slot \/ (link[l].phase = "bound" /\ slot' = link[l].hold)
          BY <2>0 DEF CallbackOutcome
        <4>2. LinkFits(link[l]) /\ CallbackKnows(link[l])
          BY DEF Typed, Informed
        <4> QED
          BY <2>0, <4>1, <4>2 DEF Informed, CallbackKnows, LinkFits, WorldFits
      <3> QED
        BY <2>1, <3>1, BundleKnowledgeLasts DEF BundleKnows, Known
    <2>5. ASSUME NEW r \in Requests PROVE RequestKnows(req[r])'
      <3>1. RequestFits(req[r]) /\ RequestKnows(req[r]) /\ req'[r] = req[r]
        BY <2>1 DEF Typed, Informed
      <3> QED
        BY <2>1, <3>1, RequestKnowledgeLasts DEF RequestKnows, BundleKnows, Known
    <2> QED
      BY <2>1, <2>2, <2>3, <2>4, <2>5 DEF Informed
  <1>3. CASE World
    <2>0. UNCHANGED <<slot, req, link>> /\ WorldFits /\ WorldFits'
      BY <1>3, WorldStep DEF Typed
    <2>1. slot' # None => BundleKnows(slot)'
      <3>1. ASSUME slot # None PROVE BundleKnows(slot)'
        <4>1. slot \in Bundle /\ slot' = slot
          BY <2>0, <3>1 DEF WorldFits
        <4> QED
          BY <1>3, <3>1, <4>1, BundleKnowledgeLasts DEF Informed, BundleKnows, Known
      <3> QED
        BY <2>0, <3>1
    <2>2. ASSUME NEW r \in Requests PROVE RequestKnows(req[r])'
      <3>1. RequestFits(req[r]) /\ RequestKnows(req[r]) /\ req'[r] = req[r]
        BY <2>0 DEF Typed, Informed
      <3>2. req[r].at \in Int /\ req[r].at - PrincipalTtl \in Int
        BY <3>1, Bounds DEF RequestFits, RequestType, Times
      <3>3. req[r].at <= time'
        BY <1>3, <2>0, <3>1, <3>2 DEF RequestKnows, World, Tick, ChangeRoles, Revoke, RotateKek,
           DropPreviousKek, SwitchMode, env, WorldFits, Times
      <3>4. req[r].phase \in Carrying => BundleKnows(req[r].hold)'
        <4>1. req[r].phase \in Carrying => req[r].hold \in Bundle /\ BundleKnows(req[r].hold)
          BY <3>1 DEF RequestFits, RequestKnows
        <4> QED
          BY <1>3, <3>1, <4>1, BundleKnowledgeLasts DEF BundleKnows, Known
      <3>5. req[r].phase \in {"rereading", "stamping", "signed"} => req[r].principal.roles \in Roles
        BY <3>1 DEF RequestFits, Principal
      <3>6. req[r].phase \in {"rereading", "stamping"} => Known(req[r].principal.roles, req[r].at)'
        BY <1>3, <3>1, <3>2, <3>5, KnownLasts DEF RequestKnows, Known
      <3>7. req[r].phase = "signed" => Known(req[r].principal.roles, req[r].at - PrincipalTtl)'
        BY <1>3, <3>1, <3>2, <3>5, KnownLasts DEF RequestKnows, Known
      <3> QED
        BY <3>1, <3>3, <3>4, <3>6, <3>7 DEF RequestKnows
    <2>3. ASSUME NEW l \in Links PROVE CallbackKnows(link[l])'
      <3>1. LinkFits(link[l]) /\ CallbackKnows(link[l]) /\ link'[l] = link[l]
        BY <2>0 DEF Typed, Informed
      <3> QED
        BY <1>3, <3>1, BundleKnowledgeLasts DEF CallbackKnows, LinkFits, BundleKnows, Known
    <2>4. \A v \in 0..MaxRoles : v < roles' => changed'[v] \in Times
      <3>1. CASE ChangeRoles
        BY <2>0, <3>1, Bounds DEF ChangeRoles, Informed, WorldFits
      <3>2. CASE ~ ChangeRoles
        BY <1>3, <3>2 DEF World, Tick, Revoke, RotateKek, DropPreviousKek, SwitchMode, env, Informed
      <3> QED
        BY <3>1, <3>2
    <2> QED
      BY <2>1, <2>2, <2>3, <2>4 DEF Informed
  <1>4. CASE UNCHANGED vars
    BY <1>4 DEF vars, Informed, RequestKnows, CallbackKnows, BundleKnows, Known
  <1> QED
    BY <1>1, <1>2, <1>3, <1>4 DEF Next

-----------------------------------------------------------------------------
(***************************************************************************)
(* That a linked account is not lost without a cause.                      *)
(***************************************************************************)

\* A key the deployment of the day can open.
Opened(k) == k \in {deploy.cur, deploy.prev}

\* A bundle ServiceNow honours, unless something went wrong.
Good(b) == b.refresh # None /\ (~ mishap => b.refresh \in valid)

\* A deployment that is still running somewhere.
InUse(d) ==
  /\ d.cur <= deploy.cur /\ Opened(d.cur)
  /\ d.cur = deploy.cur => deploy.prev \in {d.prev, None}

RequestIsKept(q) ==
  /\ q.phase = "idle" => q.env = None
  /\ q.phase # "idle" => InUse(q.env) /\ (q.owed => slot # None)
  /\ q.phase \in Carrying => Good(q.hold)
  /\ q.phase \in Carrying \ {"refreshing"} => q.hold.kek = q.env.cur
  /\ q.phase = "reauth" /\ q.owed => mishap \/ q.env.cur < deploy.cur

CallbackIsKept(k) ==
  k.phase \in {"exchanged", "bound"} => Good(k.hold) /\ InUse(k.env) /\ k.hold.kek = k.env.cur

SlotIsKept == slot # None => Good(slot) /\ Opened(slot.kek)

Kept ==
  /\ SlotIsKept
  /\ \A r \in Requests : RequestIsKept(req[r])
  /\ \A l \in Links : CallbackIsKept(link[l])

\* A request that finds a good bundle in the slot, with the key ring of the day, can use it.
LEMMA SlotServes ==
  ASSUME WorldFits, SlotIsKept, slot # None, NEW d \in Deployment, InUse(d), d.cur = deploy.cur
  PROVE  Stored(d) # None /\ Stored(d).refresh # None
  <1>1. slot \in Bundle /\ slot.kek \in {deploy.cur, deploy.prev} /\ slot.refresh # None
    BY DEF WorldFits, SlotIsKept, Opened, Good
  <1>2. slot.kek # None
    BY <1>1, BoundsAssumption DEF Bundle
  <1>3. Opens(d, slot)
    BY <1>1, <1>2 DEF InUse, Opens
  <1> QED
    BY <1>1, <1>3 DEF Stored

\* A request that moves leaves the slot readable and honoured, or a mishap behind.
LEMMA RequestStaysKept ==
  ASSUME Rotates = FALSE, Typed, Kept, NEW r \in Requests, Request(r)
  PROVE  RequestIsKept(req[r])' /\ SlotIsKept'
  <1> DEFINE q == req[r]
             n == req'[r]
  <1>0. /\ Outcome(r) /\ RequestFits(q) /\ RequestFits(n) /\ RequestIsKept(q) /\ WorldFits /\ SlotIsKept
        /\ deploy' = deploy /\ deploy \in Deployment /\ deploy.cur \in Nat
    BY RequestStep, RequestOutcome, Bounds DEF Typed, Kept, Moves, WorldFits, env, Deployment
  <1>1. ASSUME NEW b, Good(b) PROVE Good(b)'
    BY <1>0, <1>1 DEF Outcome, Good
  <1>2. SlotIsKept'
    <2>1. CASE slot' = slot
      BY <1>0, <1>1, <2>1 DEF SlotIsKept, Opened, Good
    <2>2. CASE q.phase \in Carrying \ {"refreshing"} /\ slot' = q.hold
      <3>1. Good(q.hold) /\ q.hold.kek = q.env.cur /\ Opened(q.env.cur)
        BY <1>0, <2>2 DEF RequestIsKept, InUse, Carrying
      <3>2. q.hold.refresh # None /\ (~ mishap' => q.hold.refresh \in valid')
        BY <1>0, <3>1 DEF Good, Outcome
      <3> QED
        BY <1>0, <2>2, <3>1, <3>2 DEF SlotIsKept, Opened, Good
    <2> QED
      BY <1>0, <2>1, <2>2 DEF Outcome
  <1>3. slot # None => slot' # None
    BY <1>0, BundleAssumption DEF Outcome, RequestFits, Carrying
  <1>4. RequestIsKept(req[r])'
    <2>1. CASE n = IdleRequest
      BY <2>1 DEF IdleRequest, RequestIsKept, Carrying
    <2>2. CASE Begins(q, n)
      <3>1. InUse(deploy)
        BY <1>0 DEF InUse, Opened
      <3>2. slot # None => PreflightPasses
        <4>1. slot # None => Stored(deploy) # None /\ Stored(deploy).refresh # None
          BY <1>0, <3>1, SlotServes
        <4> QED
          BY <4>1 DEF PreflightPasses
      <3> QED
        BY <1>0, <1>3, <2>2, <3>1, <3>2 DEF Begins, RequestIsKept, Carrying, InUse, Opened
    <2>3. CASE GoesOn(q, n)
      <3>1. /\ n.env = q.env /\ n.owed = q.owed /\ InUse(q.env) /\ (q.owed => slot # None)
            /\ n.phase # "idle" => q.env \in Deployment
        BY <1>0, <2>3 DEF GoesOn, RequestIsKept, RequestFits
      <3>2. InUse(req[r].env)' /\ (n.owed => slot' # None)
        BY <1>0, <1>3, <3>1 DEF InUse, Opened
      <3>3. n.phase \in Carrying => Good(req[r].hold)'
        <4>1. n.phase = "refreshing" => Good(req[r].hold)'
          BY <1>0, <2>3 DEF GoesOn, SlotIsKept, Good, Outcome
        <4>2. n.phase \in {"rotating", "minted"} => Good(req[r].hold)'
          <5>1. \A g \in valid' : g # None
            <6>1. Moves(r)
              BY RequestStep
            <6> QED
              BY <6>1, Bounds, BoundsAssumption DEF Moves
          <5> QED
            BY <2>3, <5>1 DEF GoesOn, Good
        <4>3. n.phase = "stamping" => Good(req[r].hold)'
          BY <1>0, <2>3 DEF GoesOn, SlotIsKept, Good, Outcome
        <4> QED
          BY <4>1, <4>2, <4>3 DEF Carrying
      <3>4. n.phase \in Carrying \ {"refreshing"} => n.hold.kek = n.env.cur
        BY <2>3, <3>1 DEF GoesOn, Carrying
      <3>5. n.phase = "reauth" /\ n.owed => mishap' \/ n.env.cur < deploy.cur
        <4> SUFFICES ASSUME n.phase = "reauth", q.owed, ~ mishap' PROVE q.env.cur < deploy.cur
          BY <3>1
        <4>1. ~ mishap
          BY <1>0 DEF Outcome
        <4>2. ~ (q.phase = "refreshing" /\ q.hold.refresh \notin valid)
          BY <1>0, <4>1 DEF RequestIsKept, Good, Carrying
        <4>3. Stored(q.env) = None \/ Stored(q.env).refresh = None
          BY <2>3, <4>2 DEF GoesOn
        <4>4. q.env \in Deployment /\ q.env.cur \in Nat /\ q.env.cur <= deploy.cur
          BY <3>1, Bounds DEF Deployment, InUse
        <4>5. q.env.cur # deploy.cur
          BY <1>0, <3>1, <4>3, <4>4, SlotServes
        <4> QED
          BY <1>0, <4>4, <4>5
      <3>6. n.phase = "idle" => n.env = None
        BY <2>3 DEF GoesOn
      <3> QED
        BY <1>0, <3>2, <3>3, <3>4, <3>5, <3>6 DEF RequestIsKept
    <2> QED
      BY <1>0, <2>1, <2>2, <2>3 DEF Outcome
  <1> QED
    BY <1>2, <1>4

\* Of the world, a revocation alone takes a token away, and that is a mishap; a key is dropped
\* when nothing is sealed under it and no deployment that used it still runs.
LEMMA WorldKeeps ==
  ASSUME Typed, Kept, World
  PROVE  /\ \A b : Good(b) => Good(b)'
         /\ mishap => mishap'
         /\ deploy.cur <= deploy'.cur
         /\ slot # None => Opened(slot.kek)'
         /\ \A r \in Requests : req[r].phase # "idle" => InUse(req[r].env)'
         /\ \A l \in Links : link[l].phase \in {"exchanged", "bound"} => InUse(link[l].env)'
  <1>0. /\ WorldFits /\ deploy \in Deployment /\ deploy.cur \in Nat
        /\ UNCHANGED <<slot, req, link>>
        /\ DOMAIN deploy = {"mode", "cur", "prev"}
        /\ None \notin Nat /\ deploy.cur # None
    <2>1. None \notin Nat
      BY BoundsAssumption
    <2> QED
      BY <2>1, WorldStep, Bounds DEF Typed, WorldFits, Deployment
  <1>1. \A d \in Deployment : d # None /\ d.cur \in Nat
    BY BundleAssumption, Bounds DEF Deployment
  <1>2. ASSUME NEW r \in Requests, req[r].phase # "idle" PROVE req[r].env \in Deployment /\ InUse(req[r].env)
    BY <1>2 DEF Typed, RequestFits, Kept, RequestIsKept
  <1>3. ASSUME NEW l \in Links, link[l].phase \in {"exchanged", "bound"}
        PROVE  link[l].env \in Deployment /\ InUse(link[l].env)
    BY <1>3 DEF Typed, LinkFits, Kept, CallbackIsKept
  <1>4. CASE UNCHANGED deploy
    <2>1. (\A b : Good(b) => Good(b)') /\ (mishap => mishap')
      BY <1>0, <1>4 DEF World, Tick, ChangeRoles, Revoke, RotateKek, DropPreviousKek, SwitchMode, Good, WorldFits
    <2> QED
      BY <1>0, <1>2, <1>3, <1>4, <2>1 DEF Kept, SlotIsKept, Opened, InUse
  <1>5. CASE RotateKek
    <2>1. deploy.prev = None /\ deploy' = [deploy EXCEPT !.cur = deploy.cur + 1, !.prev = deploy.cur]
          /\ UNCHANGED <<valid, mishap>>
      BY <1>5 DEF RotateKek
    <2>2. deploy'.cur = deploy.cur + 1 /\ deploy'.prev = deploy.cur
      BY <1>0, <2>1
    <2>3. slot # None => slot.kek = deploy.cur
      BY <1>0, <2>1, Bounds DEF Kept, SlotIsKept, Opened, WorldFits, Bundle
    <2>4. ASSUME NEW d \in Deployment, InUse(d) PROVE InUse(d)'
      BY <1>0, <1>1, <2>1, <2>2, <2>4 DEF InUse, Opened
    <2> QED
      BY <1>0, <1>2, <1>3, <2>1, <2>2, <2>3, <2>4 DEF Opened, Good, InUse
  <1>6. CASE DropPreviousKek
    <2>1. /\ slot # None => slot.kek = deploy.cur
          /\ \A d \in InFlight : d # None => d.cur = deploy.cur
          /\ deploy' = [deploy EXCEPT !.prev = None] /\ UNCHANGED <<valid, mishap>>
      BY <1>6 DEF DropPreviousKek
    <2>2. deploy'.cur = deploy.cur /\ deploy'.prev = None
      BY <1>0, <2>1
    <2>3. ASSUME NEW d \in Deployment, d \in InFlight PROVE InUse(d)'
      BY <1>0, <1>1, <2>1, <2>2, <2>3 DEF InUse, Opened
    <2> QED
      BY <1>0, <1>2, <1>3, <2>1, <2>2, <2>3 DEF Opened, Good, InUse, InFlight
  <1>7. CASE SwitchMode
    <2>1. \E m \in Modes : deploy' = [deploy EXCEPT !.mode = m]
      BY <1>7 DEF SwitchMode
    <2>2. deploy'.cur = deploy.cur /\ deploy'.prev = deploy.prev /\ UNCHANGED <<valid, mishap>>
      BY <1>0, <1>7, <2>1 DEF SwitchMode
    <2> QED
      BY <1>0, <1>2, <1>3, <2>2 DEF Kept, SlotIsKept, Opened, Good, InUse
  <1> QED
    BY <1>4, <1>5, <1>6, <1>7 DEF World, Tick, ChangeRoles, Revoke, env

\* Without rotation no step loses the bundle that the slot keeps.
LEMMA KeptStep == ASSUME Rotates = FALSE, Typed, Kept, [Next]_vars PROVE Kept'
  <1>1. ASSUME NEW r \in Requests, Request(r) PROVE Kept'
    <2>0. Outcome(r) /\ RequestFits(req[r])
      BY <1>1, RequestOutcome DEF Typed
    <2>1. RequestIsKept(req[r])' /\ SlotIsKept'
      BY <1>1, RequestStaysKept
    <2>2. UNCHANGED <<deploy, link>> /\ \A s \in Requests : s # r => req'[s] = req[s]
      BY <1>1, RequestStep DEF Moves, env, Typed
    <2>3. slot # None => slot' # None
      BY <2>0, BundleAssumption DEF Outcome, RequestFits, Carrying
    <2>4. \A b : Good(b) => Good(b)'
      BY <2>0 DEF Outcome, Good
    <2>5. mishap => mishap'
      BY <2>0 DEF Outcome
    <2>6. \A s \in Requests : RequestIsKept(req[s])'
      BY <2>1, <2>2, <2>3, <2>4, <2>5 DEF Kept, RequestIsKept, InUse, Opened, Good
    <2>7. \A l \in Links : CallbackIsKept(link[l])'
      BY <2>2, <2>4 DEF Kept, CallbackIsKept, InUse, Opened, Good
    <2> QED
      BY <2>1, <2>6, <2>7 DEF Kept
  <1>2. ASSUME NEW l \in Links, Callback(l) PROVE Kept'
    <2>0. CallbackOutcome(l) /\ LinkFits(link[l]) /\ LinkFits(link'[l]) /\ CallbackIsKept(link[l])
          /\ LinkMoves(l) /\ deploy \in Deployment /\ deploy.cur \in Nat
      BY <1>2, CallbacksOutcome, LinkStep, Bounds DEF Typed, LinkMoves, Kept, WorldFits, Deployment
    <2>1. UNCHANGED <<deploy, req, mishap>> /\ \A m \in Links : m # l => link'[m] = link[m]
      BY <2>0 DEF LinkMoves, env, Typed
    <2>2. slot # None => slot' # None
      BY <2>0, BundleAssumption DEF CallbackOutcome, LinkFits
    <2>3. \A b : Good(b) => Good(b)'
      BY <2>0, <2>1 DEF CallbackOutcome, Good
    <2>4. SlotIsKept'
      BY <2>0, <2>1, <2>3 DEF CallbackOutcome, CallbackIsKept, Kept, SlotIsKept, InUse, Opened, Good
    <2>5. CallbackIsKept(link[l])'
      <3>1. \A g \in valid' : g # None
        BY <2>0, Bounds, BoundsAssumption DEF LinkMoves
      <3>2. CASE link'[l].phase = "exchanged"
        BY <2>0, <2>1, <3>1, <3>2 DEF CallbackOutcome, CallbackIsKept, InUse, Opened, Good
      <3>3. CASE link'[l].phase = "bound"
        BY <2>0, <2>1, <2>3, <3>3 DEF CallbackOutcome, CallbackIsKept, InUse, Opened, Good
      <3> QED
        BY <3>2, <3>3 DEF CallbackIsKept
    <2>6. \A m \in Links : CallbackIsKept(link[m])'
      BY <2>1, <2>3, <2>5 DEF Kept, CallbackIsKept, InUse, Opened, Good
    <2>7. \A r \in Requests : RequestIsKept(req[r])'
      BY <2>1, <2>2, <2>3 DEF Kept, RequestIsKept, InUse, Opened, Good
    <2> QED
      BY <2>4, <2>6, <2>7 DEF Kept
  <1>3. CASE World
    <2>0. UNCHANGED <<slot, req, link>> /\ WorldFits'
      BY <1>3, WorldStep DEF Typed
    <2>1. SlotIsKept'
      BY <1>3, <2>0, WorldKeeps DEF Kept, SlotIsKept, Good, Opened
    <2>2. ASSUME NEW r \in Requests PROVE RequestIsKept(req[r])'
      <3>1. RequestIsKept(req[r]) /\ RequestFits(req[r])
        BY DEF Kept, Typed
      <3>2. req[r].phase = "reauth" => req[r].env.cur \in Nat /\ deploy.cur \in Nat /\ deploy'.cur \in Nat
        BY <2>0, <3>1, Bounds DEF RequestFits, Deployment, WorldFits, Typed
      <3>3. deploy.cur <= deploy'.cur /\ (mishap => mishap')
        BY <1>3, WorldKeeps
      <3>4. req[r].phase = "reauth" /\ req[r].owed => mishap' \/ req[r].env.cur < deploy'.cur
        BY <3>1, <3>2, <3>3 DEF RequestIsKept
      <3>5. req[r].phase # "idle" => InUse(req[r].env)'
        BY <1>3, WorldKeeps
      <3>6. req[r].phase \in Carrying => Good(req[r].hold)'
        BY <1>3, <2>0, <3>1, WorldKeeps DEF RequestIsKept, Good
      <3> QED
        BY <2>0, <3>1, <3>4, <3>5, <3>6 DEF RequestIsKept, InUse, Opened, Good
    <2>3. ASSUME NEW l \in Links PROVE CallbackIsKept(link[l])'
      <3>1. CallbackIsKept(link[l])
        BY DEF Kept
      <3>2. link[l].phase \in {"exchanged", "bound"} => InUse(link[l].env)' /\ Good(link[l].hold)'
        BY <1>3, <2>0, <3>1, WorldKeeps DEF CallbackIsKept, Good
      <3> QED
        BY <2>0, <3>1, <3>2 DEF CallbackIsKept, InUse, Opened, Good
    <2> QED
      BY <2>1, <2>2, <2>3 DEF Kept
  <1>4. CASE UNCHANGED vars
    BY <1>4 DEF vars, Kept, SlotIsKept, RequestIsKept, CallbackIsKept, InUse, Opened, Good
  <1> QED
    BY <1>1, <1>2, <1>3, <1>4 DEF Next

-----------------------------------------------------------------------------
(***************************************************************************)
(* The theorems.                                                           *)
(***************************************************************************)

IInv == Typed /\ Settled

\* The invariant holds at first.
LEMMA InvInit == Init => IInv
  <1> SUFFICES ASSUME Init PROVE Settled
    BY TypedInit DEF IInv
  <1> QED
    BY DEF Init, Settled, ModeStands, AllIsOwn, RequestIsOwn, CallbackIsOwn, IdleRequest, IdleLink, Carrying, Borne

\* Every step keeps it.
LEMMA InvStep == IInv /\ [Next]_vars => IInv'
  BY TypedStep, SettledStep DEF IInv

\* The inductive invariant.
LEMMA InvHolds == Spec => []IInv
  BY InvInit, InvStep, PTL DEF Spec

\* Every variable has its type, and only the phases that carry a bundle across
\* an await hold one, over any interleaving of requests, callbacks, key
\* rotations and mode changes.
THEOREM TokenTypeCorrect == Spec => []TypeOK
  <1>1. IInv => TypeOK
    BY TypedIsTypeOK DEF IInv
  <1> QED
    BY InvHolds, <1>1, PTL

\* If the actor's name belongs to one account, a script is signed for the
\* account whose bearer carries it, however refreshes, stamps and new links
\* interleave, until the operator changes the mode.
THEOREM SignedStaysOwn ==
  ASSUME \A a, b \in OwnAccounts : a = b
  PROVE  Spec => []SignedActorOwnsBearer
  <1>1. IInv => SignedActorOwnsBearer
    <2> SUFFICES ASSUME IInv, NEW r \in Requests, req[r].phase = "signed", ~ switched
                 PROVE  req[r].principal.sysId = req[r].bearer.owner
      BY DEF SignedActorOwnsBearer
    <2>1. req[r].env.mode = "per_user_oauth"
      BY DEF IInv, Typed, RequestFits, Signing
    <2>2. deploy.mode = "per_user_oauth"
      BY <2>1 DEF IInv, Settled, ModeStands
    <2>3. RequestIsOwn(req[r])
      BY <2>2 DEF IInv, Settled, AllIsOwn
    <2> QED
      BY <2>3 DEF RequestIsOwn, Borne
  <1> QED
    BY InvHolds, <1>1, PTL

\* Roles are recent wherever they are carried.
LEMMA InformedHolds == Spec => []Informed
  <1>1. Init => Informed
    <2> SUFFICES ASSUME Init PROVE Informed
      OBVIOUS
    <2>1. \A v \in 0..MaxRoles : ~ (v < 0)
      BY Bounds
    <2> QED
      BY <2>1 DEF Init, Informed, RequestKnows, CallbackKnows, IdleRequest, IdleLink, Carrying
  <1>2. Typed /\ Informed /\ [Next]_vars => Informed'
    BY InformedStep
  <1>3. IInv => Typed
    BY DEF IInv
  <1> QED
    BY <1>1, <1>2, <1>3, InvHolds, PTL DEF Spec

\* The five-minute freshness of a principal (servicenow-oauth.ts): the roles a script is signed
\* with were the account's own within PrincipalTtl before the request asked, or are none
\* because a role read of that time failed, whatever refreshes carry them on, stamps race,
\* role reads fail and roles, keys or modes change.
THEOREM RolesStayRecent == Spec => []RolesAreRecent
  <1>1. Typed /\ Informed => RolesAreRecent
    <2> SUFFICES ASSUME Typed, Informed, NEW r \in Requests, req[r].phase = "signed"
                 PROVE  \/ req[r].principal.roles = roles
                        \/ LastGiven(req[r].principal.roles) >= req[r].at - PrincipalTtl
      BY DEF RolesAreRecent
    <2>1. Known(req[r].principal.roles, req[r].at - PrincipalTtl)
      BY DEF Informed, RequestKnows
    <2>2. CASE req[r].principal.roles = None
      BY <2>1, <2>2 DEF Known, LastGiven
    <2>3. CASE req[r].principal.roles \in 0..MaxRoles
      <3>1. req[r].principal.roles # None /\ roles \in Nat /\ req[r].principal.roles \in Nat
        BY <2>3, Bounds, BoundsAssumption DEF Typed, WorldFits
      <3> QED
        BY <2>1, <3>1 DEF Known, LastGiven
    <2> QED
      BY <2>2, <2>3 DEF Typed, RequestFits, Principal, Roles
  <1>2. IInv => Typed
    BY DEF IInv
  <1> QED
    BY <1>1, <1>2, InvHolds, InformedHolds, PTL

\* Where refresh tokens do not rotate, a user who had linked an account is sent to sign in
\* again only after a revocation, an outage or a lost write, or by a request that still runs
\* with an older key ring: no race of refreshes, stamps, links and key rotations loses the row.
THEOREM ReauthStaysCaused ==
  ASSUME Rotates = FALSE
  PROVE  Spec => []ReauthHasACause
  <1>1. Init => Kept
    BY DEF Init, Kept, SlotIsKept, RequestIsKept, CallbackIsKept, IdleRequest, IdleLink, Carrying
  <1>2. Typed /\ Kept /\ [Next]_vars => Kept'
    BY KeptStep
  <1>3. Typed /\ Kept => ReauthHasACause
    <2> SUFFICES ASSUME Typed, Kept, NEW r \in Requests, req[r].phase = "reauth", req[r].owed
                 PROVE  mishap \/ deploy.cur # req[r].env.cur
      BY DEF ReauthHasACause
    <2>1. mishap \/ req[r].env.cur < deploy.cur
      BY DEF Kept, RequestIsKept
    <2>2. req[r].env.cur \in Nat /\ deploy.cur \in Nat
      BY Bounds DEF Typed, RequestFits, Deployment, WorldFits
    <2> QED
      BY <2>1, <2>2
  <1>4. IInv => Typed
    BY DEF IInv
  <1> QED
    BY <1>1, <1>2, <1>3, <1>4, InvHolds, PTL DEF Spec
=============================================================================
