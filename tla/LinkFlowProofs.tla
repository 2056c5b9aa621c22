---------------------------- MODULE LinkFlowProofs ----------------------------
(***************************************************************************)
(* For any tickets, visits, callbacks and lifetimes: a ticket starts one   *)
(* flow before it expires, a state is redeemed once, and a user is linked  *)
(* to nobody else's account.                                               *)
(***************************************************************************)
EXTENDS LinkFlow, FiniteSetTheorems, TLAPS

Wanted == {"consumed", "exchanged", "bound", "linked"}

-----------------------------------------------------------------------------
(***************************************************************************)
(* Types, and what a request has by the phase it is in.                    *)
(***************************************************************************)

CallbackFits(k) ==
  /\ k.phase \in Wanted => k.record \in Record /\ k.state \in Visits
  /\ k.phase \in {"exchanged", "bound", "linked"} => k.account \in Accounts

PhasesFit ==
  /\ \A v \in Visits : visit[v].phase \in {"verified", "claimed"} =>
       visit[v].ticket \in Tickets /\ ticket[visit[v].ticket] # None /\ visit[v].at <= now
  /\ \A c \in Callbacks : CallbackFits(callback[c])
  /\ \A t \in Tickets : used[t] # {} => ticket[t] # None

Typed == TypeOK /\ PhasesFit

VisitType ==
  [phase : {"new", "verified", "claimed", "redirected", "refused"}, ticket : Tickets \cup {None}, at : 0..MaxTime]
CallbackType ==
  [phase : {"new", "consumed", "exchanged", "bound", "linked", "refused"},
   record : Record \cup {None}, account : Accounts \cup {None}, state : Visits \cup {None}]

\* What the alarm and a refused claim leave of an object is of its type.
LEMMA CleanedIsTyped ==
  ASSUME NEW R, \A r \in R : r.expiresAt \in Nat, NEW o \in Objects(R), NEW at
  PROVE  CleanupExpired(o, at) \in Objects(R)
  BY DEF CleanupExpired, Objects, Empty

\* An object that was just created is well typed.
LEMMA CreatedIsTyped ==
  ASSUME NEW R, NEW r \in R, r.expiresAt \in Nat
  PROVE  Create(r) \in Objects(R)
  BY DEF Create, Objects

\* A redeemed record, exchanged.
LEMMA SignedIn ==
  ASSUME NEW k \in CallbackType, NEW a \in Accounts, CallbackFits(k), k.phase = "consumed"
  PROVE  /\ [k EXCEPT !.phase = "exchanged", !.account = a] \in CallbackType
         /\ CallbackFits([k EXCEPT !.phase = "exchanged", !.account = a])
  BY DEF CallbackType, CallbackFits, Wanted

\* Every step keeps the types and what each phase carries.
LEMMA TypedStep == ASSUME Typed, [Next]_vars PROVE Typed'
  <1> USE LinkAssumption DEF Typed, TypeOK, PhasesFit
  <1>0. ASSUME NEW c \in Callbacks, NEW k \in CallbackType, CallbackFits(k),
               callback' = [callback EXCEPT ![c] = k], UNCHANGED <<now, ticket, nonce, visit, used>>,
               state' \in [Visits -> Objects(Record)], linked' \in [Users -> Accounts \cup {None}]
        PROVE  Typed'
    <2>1. callback \in [Callbacks -> CallbackType]
      BY DEF CallbackType
    <2>2. callback' \in [Callbacks -> CallbackType] /\ \A d \in Callbacks : CallbackFits(callback'[d])
      BY <1>0, <2>1
    <2> QED
      BY <1>0, <2>2 DEF CallbackType
  <1>1. CASE Tick
    BY <1>1 DEF Tick
  <1>2. ASSUME NEW t \in Tickets, AlarmOfNonce(t) PROVE Typed'
    <2>1. CleanupExpired(nonce[t], now) \in Objects(Claim)
      BY CleanedIsTyped DEF Claim
    <2> QED
      BY <1>2, <2>1 DEF AlarmOfNonce
  <1>3. ASSUME NEW t \in Tickets, NEW u \in Users, MintTicket(t, u) PROVE Typed'
    <2>1. PICK known \in {linked[u], None} :
            ticket' = [ticket EXCEPT ![t] = [user |-> u, expected |-> known, exp |-> now + TicketTtl]]
      BY <1>3 DEF MintTicket
    <2>2. [user |-> u, expected |-> known, exp |-> now + TicketTtl] \in Ticket
      BY DEF Ticket
    <2>3. ticket' \in [Tickets -> Ticket \cup {None}] /\ \A s \in Tickets : ticket[s] # None => ticket'[s] # None
      BY <2>1, <2>2
    <2> QED
      BY <1>3, <2>3 DEF MintTicket
  <1>4. ASSUME NEW v \in Visits, NEW t \in Tickets, VerifyTicket(v, t) PROVE Typed'
    BY <1>4 DEF VerifyTicket
  <1>5. ASSUME NEW v \in Visits, ClaimNonce(v) PROVE Typed'
    <2> DEFINE t == visit[v].ticket
    <2>1. t \in Tickets /\ ticket[t] \in Ticket /\ ticket[t] # None
      BY <1>5 DEF ClaimNonce
    <2>2. Create([expiresAt |-> ticket[t].exp]) \in Objects(Claim)
      BY <2>1, CreatedIsTyped DEF Claim, Ticket
    <2>3. CleanupExpired(nonce[t], visit[v].at) \in Objects(Claim)
      BY <2>1, CleanedIsTyped DEF Claim
    <2> HIDE DEF t
    <2>4. nonce' \in [Tickets -> Objects(Claim)] /\ used' \in [Tickets -> SUBSET (Visits \X Nat)]
      BY <1>5, <2>1, <2>2, <2>3 DEF ClaimNonce, t
    <2>5. PICK p \in {"claimed", "refused"} : visit' = [visit EXCEPT ![v].phase = p]
      BY <1>5 DEF ClaimNonce
    <2>6. \A s \in Tickets : used'[s] # {} => used[s] # {} \/ s = t
      BY <1>5, <2>1 DEF ClaimNonce, t
    <2>7. UNCHANGED <<now, ticket, state, callback, linked>>
      BY <1>5 DEF ClaimNonce
    <2>10. visit \in [Visits -> VisitType] /\ visit[v] \in VisitType /\ visit[v].phase = "verified"
      BY <1>5 DEF VisitType, ClaimNonce
    <2>11. visit' \in [Visits -> VisitType]
      BY <2>5, <2>10 DEF VisitType
    <2>8. TypeOK'
      BY <2>4, <2>7, <2>11 DEF VisitType
    <2>12. \A w \in Visits : /\ visit'[w].ticket = visit[w].ticket /\ visit'[w].at = visit[w].at
                             /\ visit'[w].phase \in {"verified", "claimed"} => visit[w].phase \in {"verified", "claimed"}
      BY <2>5, <2>10 DEF VisitType
    <2>9. PhasesFit'
      BY <2>1, <2>6, <2>7, <2>12
    <2> QED
      BY <2>8, <2>9
  <1>6. ASSUME NEW v \in Visits, CreateState(v) PROVE Typed'
    <2> DEFINE t == ticket[visit[v].ticket]
               r == [user |-> t.user, expected |-> t.expected, expiresAt |-> visit[v].at + StateTtl]
    <2>1. t \in Ticket /\ visit[v].at \in Nat
      BY <1>6 DEF CreateState
    <2>2. r \in Record /\ r.expiresAt \in Nat
      BY <2>1 DEF Record, Ticket
    <2>3. Create(r) \in Objects(Record)
      BY <2>2, CreatedIsTyped
    <2>4. state' = [state EXCEPT ![v] = Create(r)]
      BY <1>6 DEF CreateState
    <2> QED
      BY <1>6, <2>3, <2>4 DEF CreateState
  <1>7. ASSUME NEW v \in Visits, VisitDies(v) PROVE Typed'
    BY <1>7 DEF VisitDies
  <1>8. ASSUME NEW v \in Visits, AlarmOfState(v) PROVE Typed'
    <2>1. CleanupExpired(state[v], now) \in Objects(Record)
      BY CleanedIsTyped DEF Record
    <2> QED
      BY <1>8, <2>1 DEF AlarmOfState
  <1>9. ASSUME NEW c \in Callbacks, NEW v \in Visits, ConsumeState(c, v) PROVE Typed'
    <2> DEFINE r == state[v].record
               k == [phase |-> IF r # None /\ now <= r.expiresAt THEN "consumed" ELSE "refused",
                     record |-> r, account |-> None, state |-> v]
    <2>1. r \in Record \cup {None} /\ Consume(state[v]) \in Objects(Record)
      BY DEF Objects, Empty, Consume
    <2>2. callback' = [callback EXCEPT ![c] = k]
      BY <1>9 DEF ConsumeState
    <2>3. state' \in [Visits -> Objects(Record)]
      BY <1>9, <2>1 DEF ConsumeState
    <2>4. k \in CallbackType /\ CallbackFits(k)
      BY <2>1 DEF CallbackType, CallbackFits, Wanted
    <2> HIDE DEF k
    <2> QED
      BY <1>0, <1>9, <2>2, <2>3, <2>4 DEF ConsumeState
  <1>10. ASSUME NEW c \in Callbacks, NEW a \in Accounts, Exchange(c, a) PROVE Typed'
    <2> DEFINE k == [callback[c] EXCEPT !.phase = "exchanged", !.account = a]
    <2>1. callback' = [callback EXCEPT ![c] = k]
      BY <1>10 DEF Exchange
    <2>3. callback[c] \in CallbackType /\ CallbackFits(callback[c]) /\ callback[c].phase = "consumed"
      BY <1>10 DEF Exchange, CallbackType
    <2>2. k \in CallbackType /\ CallbackFits(k)
      BY <2>3, SignedIn
    <2> HIDE DEF k
    <2> QED
      BY <1>0, <1>10, <2>1, <2>2 DEF Exchange
  <1>11. ASSUME NEW c \in Callbacks, NEW p \in {"bound", "refused", "linked"},
                callback[c].phase \in {"exchanged", "bound"} \/ p = "refused",
                callback' = [callback EXCEPT ![c].phase = p], UNCHANGED <<now, ticket, nonce, visit, state, used>>,
                linked' \in [Users -> Accounts \cup {None}]
         PROVE  Typed'
    <2> DEFINE k == [callback[c] EXCEPT !.phase = p]
    <2>1. callback' = [callback EXCEPT ![c] = k]
      BY <1>11
    <2>2. k \in CallbackType /\ CallbackFits(k)
      BY <1>11 DEF CallbackType, CallbackFits, Wanted
    <2> HIDE DEF k
    <2> QED
      BY <1>0, <1>11, <2>1, <2>2
  <1>12. ASSUME NEW c \in Callbacks, CheckBinding(c) PROVE Typed'
    <2>1. PICK p \in {"bound", "refused"} : callback' = [callback EXCEPT ![c].phase = p]
      BY <1>12 DEF CheckBinding
    <2> QED
      BY <1>11, <1>12, <2>1 DEF CheckBinding
  <1>13. ASSUME NEW c \in Callbacks, StoreTokens(c) \/ CallbackDies(c) PROVE Typed'
    <2>1. StoreTokens(c) => linked' \in [Users -> Accounts \cup {None}]
      BY DEF StoreTokens, CallbackFits, Wanted, Record
    <2> QED
      BY <1>11, <1>13, <2>1 DEF StoreTokens, CallbackDies
  <1>14. CASE UNCHANGED vars
    BY <1>14 DEF vars
  <1> QED
    BY <1>1, <1>2, <1>3, <1>4, <1>5, <1>6, <1>7, <1>8, <1>9, <1>10, <1>12, <1>13, <1>14 DEF Next

-----------------------------------------------------------------------------
(***************************************************************************)
(* A ticket starts one flow.                                               *)
(***************************************************************************)

OnTime(t) == {x \in used[t] : x[2] < ticket[t].exp}

\* While a ticket is good, the object that its claim left remembers it.
ClaimsAreKept ==
  \A t \in Tickets :
    /\ \A x, y \in OnTime(t) : x = y
    /\ OnTime(t) # {} /\ now < ticket[t].exp => nonce[t].record = [expiresAt |-> ticket[t].exp]

\* A claim that has not expired outlives an alarm and stops another claim.
LEMMA GoodClaimStays ==
  ASSUME NEW exp \in Nat, NEW at \in Nat, at < exp, NEW o, o.record = [expiresAt |-> exp],
         o \in Objects(Claim)
  PROVE  CleanupExpired(o, at).record = [expiresAt |-> exp] /\ ~ Claimable(o, at)
  <1>1. [expiresAt |-> exp] \in Claim
    BY DEF Claim
  <1>2. o.record # None
    BY <1>1, LinkAssumption
  <1> QED
    BY <1>2 DEF CleanupExpired, Claimable, Objects, Empty

\* Every step keeps claims: a claimed nonce outlives its ticket.
LEMMA ClaimStep == ASSUME Typed, ClaimsAreKept, [Next]_vars PROVE ClaimsAreKept'
  <1> SUFFICES ASSUME NEW t \in Tickets
               PROVE  /\ \A x, y \in OnTime(t)' : x = y
                      /\ OnTime(t)' # {} /\ now' < ticket'[t].exp => nonce'[t].record = [expiresAt |-> ticket'[t].exp]
    BY DEF ClaimsAreKept
  <1> DEFINE Kept == /\ \A x, y \in OnTime(t)' : x = y
                     /\ OnTime(t)' # {} /\ now' < ticket'[t].exp =>
                          nonce'[t].record = [expiresAt |-> ticket'[t].exp]
  <1>0. now \in Nat /\ now' \in Nat /\ MaxTime \in Nat /\ nonce[t] \in Objects(Claim)
        /\ used[t] \subseteq Visits \X Nat
    BY TypedStep, LinkAssumption DEF Typed, TypeOK
  <1>1. ASSUME ticket'[t] = ticket[t], used'[t] = used[t], now' >= now,
               nonce'[t] = nonce[t]
        PROVE  Kept
    <2>1. OnTime(t)' = OnTime(t)
      BY <1>1 DEF OnTime
    <2>2. CASE OnTime(t) = {}
      BY <2>1, <2>2
    <2>3. CASE OnTime(t) # {}
      <3>1. ticket[t] \in Ticket
        BY <2>3 DEF OnTime, Typed, TypeOK, PhasesFit
      <3>2. ticket[t].exp \in Nat
        BY <3>1 DEF Ticket
      <3> QED
        BY <1>0, <1>1, <2>1, <3>2 DEF ClaimsAreKept
    <2> QED
      BY <2>2, <2>3
  <1>2. ASSUME ticket'[t] = ticket[t], used'[t] = used[t], now' = now, NEW at \in Nat, at <= now,
               nonce'[t] = CleanupExpired(nonce[t], at)
        PROVE  Kept
    <2>1. OnTime(t)' = OnTime(t)
      BY <1>2 DEF OnTime
    <2>2. CASE OnTime(t) = {}
      BY <2>1, <2>2
    <2>3. CASE OnTime(t) # {}
      <3>1. ticket[t] \in Ticket
        BY <2>3 DEF OnTime, Typed, TypeOK, PhasesFit
      <3>2. ticket[t].exp \in Nat
        BY <3>1 DEF Ticket
      <3>3. now < ticket[t].exp => CleanupExpired(nonce[t], at).record = [expiresAt |-> ticket[t].exp]
        BY <1>0, <1>2, <2>3, <3>2, GoodClaimStays DEF ClaimsAreKept
      <3> QED
        BY <1>2, <2>1, <3>3 DEF ClaimsAreKept
    <2> QED
      BY <2>2, <2>3
  <1>3. CASE Tick
    BY <1>0, <1>1, <1>3 DEF Tick
  <1>4. ASSUME NEW s \in Tickets, AlarmOfNonce(s) PROVE Kept
    BY <1>0, <1>1, <1>2, <1>4 DEF AlarmOfNonce, Typed, TypeOK
  <1>5. ASSUME NEW s \in Tickets, NEW u \in Users, MintTicket(s, u) PROVE Kept
    <2>1. CASE s = t
      <3>1. used'[t] = {}
        BY <1>5, <2>1 DEF MintTicket, Typed, PhasesFit
      <3> QED
        BY <3>1 DEF OnTime
    <2>2. CASE s # t
      BY <1>0, <1>1, <1>5, <2>2 DEF MintTicket, Typed, TypeOK
    <2> QED
      BY <2>1, <2>2
  <1>6. ASSUME NEW v \in Visits, ClaimNonce(v) PROVE Kept
    <2> DEFINE at == visit[v].at
    <2>1. visit[v].ticket \in Tickets /\ at \in Nat /\ at <= now /\ ticket[visit[v].ticket] \in Ticket
      BY <1>6, <1>0 DEF ClaimNonce, Typed, TypeOK, PhasesFit
    <2>2. CASE visit[v].ticket # t
      BY <1>0, <1>1, <1>6, <2>1, <2>2 DEF ClaimNonce, Typed, TypeOK
    <2>3. CASE visit[v].ticket = t /\ ~ Claimable(nonce[t], at)
      BY <1>0, <1>2, <1>6, <2>1, <2>3 DEF ClaimNonce, Typed, TypeOK
    <2>4. CASE visit[v].ticket = t /\ Claimable(nonce[t], at)
      <3>1. /\ nonce'[t].record = [expiresAt |-> ticket[t].exp]
            /\ used'[t] = used[t] \cup {<<v, now>>} /\ ticket' = ticket /\ now' = now
        BY <1>6, <2>1, <2>4 DEF ClaimNonce, Create, Typed, TypeOK
      <3>2. ticket[t].exp \in Nat
        BY <2>1, <2>4 DEF Ticket
      <3>3. ASSUME now < ticket[t].exp, OnTime(t) # {} PROVE FALSE
        <4>1. nonce[t].record = [expiresAt |-> ticket[t].exp] /\ at < ticket[t].exp
          BY <1>0, <2>1, <3>2, <3>3 DEF ClaimsAreKept
        <4>2. ~ Claimable(nonce[t], at)
          BY <1>0, <2>1, <3>2, <4>1, GoodClaimStays
        <4> QED
          BY <2>4, <4>2
      <3>4. CASE now < ticket[t].exp
        <4>1. OnTime(t)' \subseteq {<<v, now>>}
          BY <3>1, <3>3, <3>4 DEF OnTime
        <4> QED
          BY <3>1, <4>1
      <3>5. CASE ~ (now < ticket[t].exp)
        <4>1. OnTime(t)' = OnTime(t)
          BY <3>1, <3>5 DEF OnTime
        <4> QED
          BY <3>1, <3>5, <4>1 DEF ClaimsAreKept
      <3> QED
        BY <3>4, <3>5
    <2> QED
      BY <2>2, <2>3, <2>4
  <1>7. \/ now' = now /\ UNCHANGED <<ticket, nonce, used>>
        \/ Tick
        \/ \E s \in Tickets : AlarmOfNonce(s) \/ \E u \in Users : MintTicket(s, u)
        \/ \E v \in Visits : ClaimNonce(v)
    BY DEF Next, vars, VerifyTicket, CreateState, VisitDies, AlarmOfState, ConsumeState, Exchange, CheckBinding,
           StoreTokens, CallbackDies
  <1> QED
    BY <1>0, <1>1, <1>3, <1>4, <1>5, <1>6, <1>7

-----------------------------------------------------------------------------
(***************************************************************************)
(* A state is redeemed once.                                               *)
(***************************************************************************)

\* The record a callback came by is gone, and its visit creates no other.
StatesAreSpent ==
  /\ \A c \in Callbacks : callback[c].phase \in Wanted =>
       visit[callback[c].state].phase = "redirected" /\ state[callback[c].state].record = None
  /\ \A c, d \in Callbacks :
       callback[c].state = callback[d].state /\ {callback[c].phase, callback[d].phase} \subseteq Wanted => c = d

\* Every step keeps a spent state spent.
LEMMA StateStep == ASSUME Typed, StatesAreSpent, [Next]_vars PROVE StatesAreSpent'
  <1> USE DEF Typed, TypeOK, PhasesFit, CallbackFits, StatesAreSpent
  <1>1. ASSUME \A v \in Visits : /\ visit[v].phase = "redirected" => visit'[v].phase = "redirected"
                                 /\ visit[v].phase = "redirected" /\ state[v].record = None => state'[v].record = None,
               \A c \in Callbacks : callback'[c].phase \in Wanted =>
                  callback[c].phase \in Wanted /\ callback'[c].state = callback[c].state
        PROVE  StatesAreSpent'
    BY <1>1
  <1>2. ASSUME NEW v \in Visits, NEW t \in Tickets, VerifyTicket(v, t) PROVE StatesAreSpent'
    BY <1>1, <1>2 DEF VerifyTicket
  <1>3. ASSUME NEW v \in Visits, ClaimNonce(v) PROVE StatesAreSpent'
    BY <1>1, <1>3 DEF ClaimNonce
  <1>4. ASSUME NEW v \in Visits, CreateState(v) PROVE StatesAreSpent'
    BY <1>1, <1>4 DEF CreateState
  <1>5. ASSUME NEW v \in Visits, VisitDies(v) PROVE StatesAreSpent'
    BY <1>1, <1>5 DEF VisitDies
  <1>6. ASSUME NEW v \in Visits, AlarmOfState(v) PROVE StatesAreSpent'
    <2>1. state[v].record = None => CleanupExpired(state[v], now).record = None
      BY DEF CleanupExpired, Empty
    <2> QED
      BY <1>1, <1>6, <2>1 DEF AlarmOfState
  <1>7. ASSUME NEW c \in Callbacks, NEW v \in Visits, ConsumeState(c, v) PROVE StatesAreSpent'
    <2> DEFINE r == state[v].record
               k == [phase |-> IF r # None /\ now <= r.expiresAt THEN "consumed" ELSE "refused",
                     record |-> r, account |-> None, state |-> v]
    <2>1. callback' = [callback EXCEPT ![c] = k]
      BY <1>7 DEF ConsumeState
    <2>2. /\ visit' = visit /\ visit[v].phase = "redirected"
          /\ \A w \in Visits : state[w].record = None => state'[w].record = None
          /\ state'[v].record = None
      BY <1>7 DEF ConsumeState, Consume, Empty
    <2> HIDE DEF r
    <2>3. CASE r # None
      <3>1. \A d \in Callbacks : callback[d].phase \in Wanted => callback[d].state # v
        BY <2>3 DEF r
      <3>2. \A d \in Callbacks \ {c} : callback'[d] = callback[d]
        BY <2>1
      <3>3. callback'[c].state = v
        BY <2>1
      <3> QED
        BY <2>2, <3>1, <3>2, <3>3
    <2>4. CASE r = None
      <3>1. callback'[c].phase = "refused" /\ \A d \in Callbacks \ {c} : callback'[d] = callback[d]
        BY <2>1, <2>4
      <3>2. \A d \in Callbacks : callback'[d].phase \in Wanted => callback'[d] = callback[d]
        BY <3>1 DEF Wanted
      <3> QED
        BY <1>1, <2>2, <3>2
    <2> QED
      BY <2>3, <2>4
  <1>8. ASSUME UNCHANGED <<visit, state>>,
               \A c \in Callbacks : callback'[c].phase \in Wanted =>
                  callback[c].phase \in Wanted /\ callback'[c].state = callback[c].state
        PROVE  StatesAreSpent'
    BY <1>1, <1>8
  <1>9. ASSUME NEW c \in Callbacks, NEW a \in Accounts, Exchange(c, a) PROVE StatesAreSpent'
    BY <1>8, <1>9 DEF Exchange, Wanted
  <1>10. ASSUME NEW c \in Callbacks, CheckBinding(c) PROVE StatesAreSpent'
    <2>1. PICK p \in {"bound", "refused"} : callback' = [callback EXCEPT ![c].phase = p]
      BY <1>10 DEF CheckBinding
    <2> QED
      BY <1>8, <1>10, <2>1 DEF CheckBinding, Wanted
  <1>11. ASSUME NEW c \in Callbacks, StoreTokens(c) \/ CallbackDies(c) PROVE StatesAreSpent'
    BY <1>8, <1>11 DEF StoreTokens, CallbackDies, Wanted
  <1>12. CASE UNCHANGED <<visit, state, callback>>
    BY <1>8, <1>12
  <1>13. \/ UNCHANGED <<visit, state, callback>>
         \/ \E v \in Visits : (\E t \in Tickets : VerifyTicket(v, t)) \/ ClaimNonce(v) \/ CreateState(v)
                              \/ VisitDies(v) \/ AlarmOfState(v)
         \/ \E c \in Callbacks : (\E v \in Visits : ConsumeState(c, v)) \/ (\E a \in Accounts : Exchange(c, a))
                                 \/ CheckBinding(c) \/ StoreTokens(c) \/ CallbackDies(c)
    BY DEF Next, vars, Tick, AlarmOfNonce, MintTicket
  <1> QED
    BY <1>2, <1>3, <1>4, <1>5, <1>6, <1>7, <1>9, <1>10, <1>11, <1>12, <1>13

-----------------------------------------------------------------------------
(***************************************************************************)
(* Nobody is linked to a stranger's account.                               *)
(***************************************************************************)

\* The accounts LinkIsOwn allows a user.
MayLink(u, a) ==
  IF LinkedBefore[u] # None /\ Own[u] = {} THEN a = LinkedBefore[u] ELSE a \in Own[u] \cup {LinkedBefore[u]}

\* A principal a ticket, a record or a callback demands, and one that has
\* passed the binding check, is one its user may be linked to.
Demands(r) == r.expected # None => MayLink(r.user, r.expected)

BindingsAreOwn ==
  /\ \A u \in Users : linked[u] # None => MayLink(u, linked[u])
  /\ \A t \in Tickets : ticket[t] # None => Demands(ticket[t])
  /\ \A v \in Visits : state[v].record # None => Demands(state[v].record)
  /\ \A c \in Callbacks : callback[c].phase \in Wanted => Demands(callback[c].record)
  /\ \A c \in Callbacks : callback[c].phase = "bound" => MayLink(callback[c].record.user, callback[c].account)

\* The binding check lets none but such an account pass.
LEMMA BoundIsOwn ==
  ASSUME NEW r \in Record, Demands(r), NEW a \in Accounts,
         NEW existing \in {linked[r.user], None}, linked[r.user] # None => MayLink(r.user, linked[r.user]),
         MatchesBinding(r, a, existing)
  PROVE  MayLink(r.user, a)
  <1>1. CASE r.expected # None
    BY <1>1 DEF MatchesBinding, Demands
  <1>2. CASE r.expected = None /\ existing # None
    BY <1>2 DEF MatchesBinding
  <1>3. CASE r.expected = None /\ existing = None
    BY <1>3 DEF MatchesBinding, MayLink
  <1> QED
    BY <1>1, <1>2, <1>3

\* Every step keeps bindings with their own people.
LEMMA OwnStep == ASSUME Typed, BindingsAreOwn, [Next]_vars PROVE BindingsAreOwn'
  <1> USE LinkAssumption DEF Typed, TypeOK, PhasesFit, CallbackFits, BindingsAreOwn
  <1>1. ASSUME NEW t \in Tickets, NEW u \in Users, MintTicket(t, u) PROVE BindingsAreOwn'
    <2>1. PICK known \in {linked[u], None} :
            ticket' = [ticket EXCEPT ![t] = [user |-> u, expected |-> known, exp |-> now + TicketTtl]]
      BY <1>1 DEF MintTicket
    <2>2. Demands([user |-> u, expected |-> known, exp |-> now + TicketTtl])
      BY DEF Demands
    <2>3. \A s \in Tickets : ticket'[s] # None => Demands(ticket'[s])
      BY <2>1, <2>2
    <2> QED
      BY <1>1, <2>3 DEF MintTicket
  <1>2. ASSUME NEW v \in Visits, CreateState(v) PROVE BindingsAreOwn'
    <2> DEFINE t == ticket[visit[v].ticket]
               r == [user |-> t.user, expected |-> t.expected, expiresAt |-> visit[v].at + StateTtl]
    <2>1. Demands(t)
      BY <1>2 DEF CreateState
    <2>2. Demands(r)
      BY <2>1 DEF Demands
    <2>3. state' = [state EXCEPT ![v] = [record |-> r, alarm |-> r.expiresAt]]
      BY <1>2 DEF CreateState, Create
    <2> HIDE DEF r
    <2>4. \A w \in Visits : state'[w].record # None => Demands(state'[w].record)
      BY <2>2, <2>3
    <2> QED
      BY <1>2, <2>4 DEF CreateState
  <1>3. ASSUME NEW v \in Visits, AlarmOfState(v) PROVE BindingsAreOwn'
    <2>1. CleanupExpired(state[v], now).record \in {state[v].record, None}
      BY DEF CleanupExpired, Empty, Objects
    <2>2. \A w \in Visits : state'[w].record # None => Demands(state'[w].record)
      BY <1>3, <2>1 DEF AlarmOfState
    <2> QED
      BY <1>3, <2>2 DEF AlarmOfState
  <1>4. ASSUME NEW c \in Callbacks, NEW v \in Visits, ConsumeState(c, v) PROVE BindingsAreOwn'
    <2> DEFINE r == state[v].record
               k == [phase |-> IF r # None /\ now <= r.expiresAt THEN "consumed" ELSE "refused",
                     record |-> r, account |-> None, state |-> v]
    <2>1. callback' = [callback EXCEPT ![c] = k]
      BY <1>4 DEF ConsumeState
    <2>2. k.phase # "bound" /\ (k.phase \in Wanted => Demands(k.record))
      BY DEF Wanted
    <2>3. \A w \in Visits : state'[w].record # None => Demands(state'[w].record)
      BY <1>4 DEF ConsumeState, Consume, Empty
    <2> HIDE DEF k
    <2>4. \A d \in Callbacks : /\ callback'[d].phase \in Wanted => Demands(callback'[d].record)
                               /\ callback'[d].phase = "bound" => callback'[d] = callback[d]
      BY <2>1, <2>2
    <2> QED
      BY <1>4, <2>3, <2>4 DEF ConsumeState
  <1>5. ASSUME NEW c \in Callbacks, NEW a \in Accounts, Exchange(c, a) PROVE BindingsAreOwn'
    <2>1. \A d \in Callbacks : /\ callback'[d].record = callback[d].record
                               /\ callback'[d].phase \in Wanted => callback[d].phase \in Wanted
                               /\ callback'[d].phase = "bound" => callback'[d] = callback[d]
      BY <1>5 DEF Exchange, Wanted
    <2> QED
      BY <1>5, <2>1 DEF Exchange
  <1>6. ASSUME NEW c \in Callbacks, CheckBinding(c) PROVE BindingsAreOwn'
    <2> DEFINE k == callback[c]
    <2>1. PICK existing \in {linked[k.record.user], None} :
            callback' = [callback EXCEPT ![c].phase =
              IF MatchesBinding(k.record, k.account, existing) THEN "bound" ELSE "refused"]
      BY <1>6 DEF CheckBinding
    <2>2. k.record \in Record /\ k.record.user \in Users /\ k.account \in Accounts /\ Demands(k.record)
      BY <1>6 DEF CheckBinding, Wanted, Record
    <2>3. MatchesBinding(k.record, k.account, existing) => MayLink(k.record.user, k.account)
      BY <2>2, BoundIsOwn
    <2>4. /\ callback'[c].record = k.record /\ callback'[c].account = k.account
          /\ callback'[c].phase = "bound" => MatchesBinding(k.record, k.account, existing)
          /\ \A d \in Callbacks \ {c} : callback'[d] = callback[d]
      BY <2>1
    <2> HIDE DEF k
    <2>5. \A d \in Callbacks : /\ callback'[d].phase \in Wanted => Demands(callback'[d].record)
                               /\ callback'[d].phase = "bound" => MayLink(callback'[d].record.user, callback'[d].account)
      BY <2>2, <2>3, <2>4
    <2> QED
      BY <1>6, <2>5 DEF CheckBinding
  <1>7. ASSUME NEW c \in Callbacks, StoreTokens(c) PROVE BindingsAreOwn'
    <2>1. \A u \in Users : linked'[u] # None => MayLink(u, linked'[u])
      BY <1>7 DEF StoreTokens
    <2>2. \A d \in Callbacks : /\ callback'[d].record = callback[d].record
                               /\ callback'[d].phase \in Wanted => callback[d].phase \in Wanted
                               /\ callback'[d].phase = "bound" => callback'[d] = callback[d]
      BY <1>7 DEF StoreTokens, Wanted
    <2> QED
      BY <1>7, <2>1, <2>2 DEF StoreTokens
  <1>8. ASSUME NEW c \in Callbacks, CallbackDies(c) PROVE BindingsAreOwn'
    <2>1. \A d \in Callbacks : /\ callback'[d].record = callback[d].record
                               /\ callback'[d].phase \in Wanted => callback[d].phase \in Wanted
                               /\ callback'[d].phase = "bound" => callback'[d] = callback[d]
      BY <1>8 DEF CallbackDies, Wanted
    <2> QED
      BY <1>8, <2>1 DEF CallbackDies
  <1>9. CASE UNCHANGED <<ticket, state, callback, linked>>
    BY <1>9
  <1>10. \/ UNCHANGED <<ticket, state, callback, linked>>
         \/ \E t \in Tickets, u \in Users : MintTicket(t, u)
         \/ \E v \in Visits : CreateState(v) \/ AlarmOfState(v)
         \/ \E c \in Callbacks : (\E v \in Visits : ConsumeState(c, v)) \/ (\E a \in Accounts : Exchange(c, a))
                                 \/ CheckBinding(c) \/ StoreTokens(c) \/ CallbackDies(c)
    BY DEF Next, vars, Tick, AlarmOfNonce, VerifyTicket, ClaimNonce, VisitDies
  <1> QED
    BY <1>1, <1>2, <1>3, <1>4, <1>5, <1>6, <1>7, <1>8, <1>9, <1>10

-----------------------------------------------------------------------------
(***************************************************************************)
(* The theorems.                                                           *)
(***************************************************************************)

IInv == Typed /\ ClaimsAreKept /\ StatesAreSpent /\ BindingsAreOwn

\* The invariant holds at first.
LEMMA InvInit == Init => IInv
  <1> SUFFICES ASSUME Init PROVE IInv
    OBVIOUS
  <1>1. Typed
    BY LinkAssumption DEF Init, Typed, TypeOK, PhasesFit, CallbackFits, Wanted, Objects, Empty, NewVisit, NewCallback
  <1>2. ClaimsAreKept
    BY DEF Init, ClaimsAreKept, OnTime
  <1>3. StatesAreSpent
    BY DEF Init, StatesAreSpent, NewCallback, Wanted
  <1>4. BindingsAreOwn
    BY LinkAssumption DEF Init, BindingsAreOwn, NewCallback, Wanted, Empty, MayLink
  <1> QED
    BY <1>1, <1>2, <1>3, <1>4 DEF IInv

\* The inductive invariant.
LEMMA Invariance == Spec => []IInv
  <1>1. IInv /\ [Next]_vars => IInv'
    BY TypedStep, ClaimStep, StateStep, OwnStep DEF IInv
  <1> QED
    BY <1>1, InvInit, PTL DEF Spec

\* Tickets, visits, states and callbacks are what they should be.
THEOREM LinkTypeCorrect == Spec => []TypeOK
  <1>1. IInv => TypeOK
    BY DEF IInv, Typed
  <1> QED
    BY <1>1, Invariance, PTL

\* However often a ticket is visited and a callback delivered, whatever dies and
\* whenever the alarm comes, a ticket starts one flow before it expires and a
\* state is redeemed by one callback.
THEOREM LinksStayUsedOnce == Spec => []LinksAreUsedOnce
  <1>1. ASSUME IInv PROVE LinksAreUsedOnce
    <2>1. ASSUME NEW t \in Tickets PROVE Cardinality({x \in used[t] : x[2] < ticket[t].exp}) <= 1
      <3>1. CASE OnTime(t) = {}
        BY <3>1, FS_EmptySet DEF OnTime
      <3>2. CASE OnTime(t) # {}
        <4>1. PICK x \in OnTime(t) : TRUE
          BY <3>2
        <4>2. OnTime(t) = {x}
          BY <1>1, <4>1 DEF IInv, ClaimsAreKept
        <4>3. Cardinality(OnTime(t)) = 1
          BY <4>2, FS_Singleton
        <4> QED
          BY <4>3 DEF OnTime
      <3> QED
        BY <3>1, <3>2
    <2> QED
      BY <1>1, <2>1 DEF IInv, StatesAreSpent, LinksAreUsedOnce, Wanted
  <1> QED
    BY <1>1, Invariance, PTL

\* Whoever signs in at ServiceNow, and whichever callbacks meet, no user is linked
\* to an account but the one linked before or one that bears the user's name.
THEOREM LinksStayOwn == Spec => []LinkIsOwn
  <1>1. IInv => LinkIsOwn
    BY DEF IInv, BindingsAreOwn, LinkIsOwn, MayLink
  <1> QED
    BY <1>1, Invariance, PTL
=============================================================================
