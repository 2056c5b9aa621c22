------------------------------ MODULE AccessProofs ------------------------------
(***************************************************************************)
(* Who gets in: the sign-in that hands out authority (SignIn, with the     *)
(* rate limit of ConsentRate and the one-time records of OneTimeRecord)    *)
(* and the admission of the requests that use it (Admission).              *)
(*                                                                         *)
(* For any flows, browsers, people, groups and lifetimes: a flow is in one *)
(* place at a time, so that one sign-in gives one grant; what callback,    *)
(* consent, post, grant and token carry is the signer's own, and vouched   *)
(* for by groups the person was in since a time that is known at each of   *)
(* these places; and the window of a source counts the source's own last   *)
(* writes.                                                                 *)
(*                                                                         *)
(* For any number of slots and leases, any limits and any lag of the       *)
(* callers' clocks: the live leases of a user stay within the limit, a     *)
(* lease that is gone stays gone, and a stream is only aborted after two   *)
(* renewals in a row that did not put its lease back, or one and as much   *)
(* time lost on the way as a lease has beyond two renewal periods.         *)
(***************************************************************************)
EXTENDS SignIn, Admission, FiniteSetTheorems, TLAPS

(***************************************************************************)
(* Types.                                                                  *)
(***************************************************************************)

Policies == {DefaultPolicy, None} \cup {GroupPolicy[g].policy : g \in DOMAIN GroupPolicy}
Properties == [user : People \cup {Operator}, mode : Modes, policy : Policies, refresh : BOOLEAN]

FlowType ==
  [phase : {"new", "admitted", "started"}, by : Browsers \cup {None}, cookie : BOOLEAN,
   page : Browsers \cup {None}, signer : People \cup {None}, spent : BOOLEAN]
RequestType ==
  [phase : {"new", "consumed", "exchanged", "read", "proven", "approved", "refused", "answered"},
   by : Browsers \cup {None}, flow : Flows \cup {None}, code : Flows \cup {None},
   props : Properties \cup {None}]
GrantType == [props : Properties, at : Nat, by : Browsers, redeemed : BOOLEAN]
TokenType ==
  [flow : Flows, user : People \cup {Operator}, policy : Policies, mode : Modes, exp : Nat]
ObjectType(records) == [record : records \cup {None}, alarm : Nat \cup {None}]
StateRecords == [expiresAt : Nat]
ConsentRecords == [props : Properties, expiresAt : Nat]
Listing == [groups : GroupLists, since : Nat]

SignInTypeOK ==
  /\ authMode \in AuthModes /\ now \in Nat
  /\ directory \in [People -> Seq(Listing) \ {<<>>}]
  /\ flow \in [Flows -> FlowType]
  /\ state \in [Flows -> ObjectType(StateRecords)]
  /\ consent \in [Flows -> ObjectType(ConsentRecords)]
  /\ entry \in [Flows -> Nat \cup {None}]
  /\ callback \in [Callbacks -> RequestType] /\ post \in [Posts -> RequestType]
  /\ grant \in [Flows -> GrantType \cup {None}]
  /\ completed \in [Flows -> Nat]
  /\ tokens \subseteq TokenType

-----------------------------------------------------------------------------
(***************************************************************************)
(* What holds of a flow by the place it has reached.                       *)
(***************************************************************************)

\* A flow in the hands of a callback or of an approved post.
AtCallback(f, c) == callback[c].phase \in {"consumed", "exchanged"} /\ callback[c].flow = f
AtPost(f, q) == post[q].phase = "approved" /\ post[q].flow = f

\* With OIDC a flow is in one place at a time: the state object, one callback,
\* the consent object, one post, the grant.
OnePlace(f) ==
  /\ state[f].record # None =>
       /\ \A c \in Callbacks : ~ AtCallback(f, c)
       /\ consent[f].record = None
       /\ \A q \in Posts : ~ AtPost(f, q)
       /\ completed[f] = 0
  /\ \A c \in Callbacks : AtCallback(f, c) =>
       /\ \A d \in Callbacks : AtCallback(f, d) => d = c
       /\ consent[f].record = None
       /\ \A q \in Posts : ~ AtPost(f, q)
       /\ completed[f] = 0
  /\ consent[f].record # None =>
       /\ \A q \in Posts : ~ AtPost(f, q)
       /\ completed[f] = 0
  /\ \A q \in Posts : AtPost(f, q) =>
       /\ \A r \in Posts : AtPost(f, r) => r = q
       /\ completed[f] = 0
  /\ completed[f] <= 1
  /\ grant[f] # None => completed[f] = 1

OnePlaceEach == authMode = "oidc" => \A f \in Flows : OnePlace(f)

\* The records and requests there are belong to a flow that was started, in its browser.
Belongs(q, f) == f \in Flows /\ flow[f].phase = "started" /\ q.by = flow[f].by

FlowFits(f) ==
  /\ flow[f].phase # "new" => flow[f].by \in Browsers
  /\ flow[f].page \in {None, flow[f].by}
  /\ flow[f].phase # "started" =>
       /\ ~ flow[f].cookie /\ flow[f].page = None
       /\ state[f].record = None /\ consent[f].record = None /\ entry[f] = None
       /\ completed[f] = 0 /\ grant[f] = None
  /\ authMode = "oidc" => entry[f] = None
  /\ authMode # "oidc" => state[f].record = None /\ consent[f].record = None
  /\ grant[f] # None => entry[f] = None

CallbackFits(k) ==
  k.phase \in {"consumed", "exchanged"} =>
    /\ authMode = "oidc" /\ Belongs(k, k.flow)
    /\ k.code # None => flow[k.code].signer # None

PostFits(k) ==
  /\ k.phase \in {"read", "proven", "approved"} => Belongs(k, k.flow)
  /\ k.phase \in {"read", "proven"} => authMode # "oidc"
  /\ k.phase = "approved" => entry[k.flow] = None

FlowsFit ==
  /\ \A f \in Flows : FlowFits(f)
  /\ \A c \in Callbacks : CallbackFits(callback[c])
  /\ \A q \in Posts : PostFits(post[q])

-----------------------------------------------------------------------------
(***************************************************************************)
(* Whose authority is carried, and since when it is vouched for.           *)
(***************************************************************************)

\* Some groups p was in since t entitle to the policy, and to the mode or to more.
Vouched(p, mode, policy, t) ==
  \E groups \in ListedSince(p, t) : \E e \in Entitled(groups) : mode <= e.mode /\ policy = e.policy

\* The properties of flow f are its signer's, and were the groups' at t or later.
Carried(f, x, t) ==
  /\ x \in Properties /\ t <= now
  /\ x.mode <= ScopeMode[f]
  /\ x.user = IF authMode = "oidc" THEN flow[f].signer ELSE Operator
  /\ authMode = "oidc" => x.user \in People /\ Vouched(x.user, x.mode, x.policy, t)

TokenIsVouched(t) ==
  /\ now < t.exp /\ t.exp <= now + AccessTtl
  /\ t.mode <= ScopeMode[t.flow]
  /\ authMode = "oidc" =>
       t.user \in People /\ Vouched(t.user, t.mode, t.policy, t.exp - (2 * Ttl + AccessTtl))

AllVouched ==
  /\ \A c \in Callbacks : callback[c].phase = "exchanged" =>
       Carried(callback[c].flow, callback[c].props, now)
  /\ \A f \in Flows : consent[f].record # None =>
       Carried(f, consent[f].record.props, consent[f].record.expiresAt - Ttl)
  /\ \A q \in Posts : post[q].phase = "approved" => Carried(post[q].flow, post[q].props, now - Ttl)
  /\ \A f \in Flows : grant[f] # None =>
       Carried(f, grant[f].props, grant[f].at - Ttl) /\ grant[f].by = flow[f].by
  /\ \A t \in tokens : TokenIsVouched(t)

-----------------------------------------------------------------------------
(***************************************************************************)
(* The rate limit: the last count writes of a source are those since its   *)
(* window opened.                                                          *)
(***************************************************************************)

Sorted(s) == \A i, j \in 1..Len(s) : i <= j => s[i] <= s[j]

\* The writes of a source that the history remembers at time t.
WritesAt(s, t) ==
  /\ s \in Seq(Nat) /\ Sorted(s) /\ Len(s) <= MaxPerWindow + 1
  /\ \A i \in 1..Len(s) : s[i] <= t

\* The last w.count writes are those since the window opened; of a source that
\* was never evicted, all of them.
WindowAt(s, w, whole, t) ==
  LET before == w.resetAt - Window - 1
  IN  /\ w.resetAt <= t + Window
      /\ w.count <= Len(s) /\ before < s[Len(s) - w.count + 1]
      /\ whole /\ w.count < Len(s) => s[Len(s) - w.count] <= before
      /\ \A i \in 1..Len(s) : s[i] < w.resetAt

Distinct(ws) == \A i, j \in 1..Len(ws) : ws[i].key = ws[j].key => i = j

RateFits ==
  /\ windows \in Seq(Rate!Entry) /\ Distinct(windows)
  /\ admitted \in [Browsers -> Seq(Nat)]
  /\ \A b \in Browsers : WritesAt(admitted[b], now)
  /\ \A i \in 1..Len(windows) :
       LET w == windows[i] IN WindowAt(admitted[w.key], w, w.key \notin evicted, now)
  /\ \A b \in Browsers \ evicted :
       (\A i \in 1..Len(windows) : windows[i].key # b)
         => \A i \in 1..Len(admitted[b]) : admitted[b][i] < now

-----------------------------------------------------------------------------
(***************************************************************************)
(* The mapped groups: what the fold over a list of groups comes to is one  *)
(* of the entries the list entitles to, unless they are ambiguous.         *)
(***************************************************************************)

\* What the library's fold defines recursively, over each part S of the indices of a list.
Folded(list, S, f) ==
  f = [T \in SUBSET S |-> IF T = {} THEN None ELSE BetterPolicy(list[Min(T)], f[T \ {Min(T)}])]

\* The policy of a list of groups is the fold of the loop over the list.
LEMMA BestIsFolded ==
  ASSUME NEW groups
  PROVE  FoldRight(BetterPolicy, Reverse(groups), None)
           = (CHOOSE f : Folded(Reverse(groups), DOMAIN Reverse(groups), f))[DOMAIN Reverse(groups)]
  BY DEF FoldRight, MapThenFoldSet, Folded

\* A set of the parts of S that has every part whose proper parts it has, has them all.
LEMMA PartInduction ==
  ASSUME NEW S, IsFiniteSet(S), NEW P,
         \A T \in SUBSET S : (\A U \in SUBSET T : U # T => U \in P) => T \in P
  PROVE  S \in P
  <1> DEFINE Bad == {T \in SUBSET S : T \notin P}
  <1> SUFFICES ASSUME Bad # {} PROVE FALSE
    OBVIOUS
  <1>1. IsWellFoundedOn(StrictSubsetOrdering(S), FiniteSubsetsOf(S))
    BY FS_StrictSubsetOrderingWellFounded
  <1>2. Bad \subseteq FiniteSubsetsOf(S)
    BY FS_Subset DEF FiniteSubsetsOf
  <1> HIDE DEF Bad
  <1>3. PICK T \in Bad : \A U \in Bad : <<U, T>> \notin StrictSubsetOrdering(S)
    BY <1>1, <1>2, WFMin
  <1>4. \A U \in SUBSET T : U # T => U \in P
    BY <1>3 DEF StrictSubsetOrdering, Bad
  <1> QED
    BY <1>3, <1>4 DEF Bad

\* A finite set of integers that is not empty has a least element.
LEMMA LeastIsIn ==
  ASSUME NEW T \in SUBSET Int, IsFiniteSet(T), T # {}
  PROVE  Min(T) \in T
  <1> DEFINE P == {U \in SUBSET T : U # {} => \E x \in U : \A y \in U : x <= y}
  <1>1. ASSUME NEW U \in SUBSET T, \A V \in SUBSET U : V # U => V \in P
        PROVE  U \in P
    <2> SUFFICES ASSUME NEW z \in U PROVE \E x \in U : \A y \in U : x <= y
      OBVIOUS
    <2>1. U \ {z} \in P
      BY <1>1
    <2>2. CASE U \ {z} = {}
      BY <2>2
    <2>3. ASSUME NEW x \in U \ {z}, \A y \in U \ {z} : x <= y
          PROVE  \E w \in U : \A y \in U : w <= y
      <3>1. x \in Int /\ z \in Int
        OBVIOUS
      <3>2. CASE x <= z
        BY <2>3, <3>2
      <3>3. CASE z <= x
        BY <2>3, <3>1, <3>3
      <3> QED
        BY <3>1, <3>2, <3>3
    <2> QED
      BY <2>1, <2>2, <2>3
  <1>2. T \in P
    <2> HIDE DEF P
    <2> QED
      BY <1>1, PartInduction
  <1> QED
    BY <1>2 DEF Min

\* A function with these values satisfies Folded.
LEMMA FoldedIf ==
  ASSUME NEW list, NEW S, NEW f, f = [T \in SUBSET S |-> f[T]],
         \A T \in SUBSET S :
           f[T] = IF T = {} THEN None ELSE BetterPolicy(list[Min(T)], f[T \ {Min(T)}])
  PROVE  Folded(list, S, f)
  BY DEF Folded

TheFold(list, S) == CHOOSE f : Folded(list, S, f)
OneFold(list, S) == Folded(list, S, TheFold(list, S)) /\ \A g : Folded(list, S, g) => g = TheFold(list, S)

\* Over a part of the indices a fold is that of the part.
LEMMA FoldedRestricts ==
  ASSUME NEW list, NEW S, NEW T \in SUBSET S, NEW f, Folded(list, S, f)
  PROVE  Folded(list, T, Restrict(f, SUBSET T))
  <1> DEFINE g == Restrict(f, SUBSET T)
  <1>1. ASSUME NEW U \in SUBSET T
        PROVE  g[U] = IF U = {} THEN None ELSE BetterPolicy(list[Min(U)], g[U \ {Min(U)}])
    BY DEF Folded, Restrict
  <1>2. g = [U \in SUBSET T |-> g[U]]
    BY DEF Restrict
  <1> HIDE DEF g
  <1>3. Folded(list, T, g)
    BY <1>1, <1>2, FoldedIf
  <1> QED
    BY <1>3 DEF g

\* Two folds over one list agree.
LEMMA FoldsAgree ==
  ASSUME NEW list, NEW S, OneFold(list, S), NEW T \in SUBSET S, OneFold(list, T)
  PROVE  TheFold(list, S)[T] = TheFold(list, T)[T]
  <1>1. Folded(list, T, Restrict(TheFold(list, S), SUBSET T))
    <2>1. Folded(list, S, TheFold(list, S))
      BY DEF OneFold
    <2> QED
      BY <2>1, FoldedRestricts
  <1>2. Restrict(TheFold(list, S), SUBSET T) = TheFold(list, T)
    BY <1>1 DEF OneFold
  <1> QED
    BY <1>2 DEF Restrict

\* Over a finite set of indices there is one such function.
LEMMA OneFoldExists ==
  ASSUME NEW list, NEW S \in SUBSET Int, IsFiniteSet(S)
  PROVE  OneFold(list, S)
  <1> DEFINE P == {T \in SUBSET S : OneFold(list, T)}
  <1>1. ASSUME NEW T \in SUBSET S, \A U \in SUBSET T : U # T => U \in P
        PROVE  T \in P
    <2> DEFINE F(U) == TheFold(list, U)
               Less(U) == U \ {Min(U)}
               h == [U \in SUBSET T |->
                      IF U # T THEN F(U)[U]
                      ELSE IF U = {} THEN None ELSE BetterPolicy(list[Min(U)], F(Less(U))[Less(U)])]
    <2>1. ASSUME NEW U \in SUBSET T, U # T PROVE OneFold(list, U)
      BY <1>1, <2>1
    <2>2. ASSUME NEW U \in SUBSET T, U # {}
          PROVE  Less(U) \in SUBSET U /\ Less(U) # U
      <3>1. Min(U) \in U
        BY <2>2, FS_Subset, LeastIsIn
      <3> QED
        BY <3>1
    <2>3. ASSUME NEW U \in SUBSET T
          PROVE  h[U] = IF U = {} THEN None ELSE BetterPolicy(list[Min(U)], h[U \ {Min(U)}])
      <3>1. CASE U = {}
        <4>1. CASE U # T
          <5>1. Folded(list, U, F(U))
            BY <2>1, <4>1 DEF OneFold
          <5> QED
            BY <3>1, <4>1, <5>1 DEF Folded
        <4> QED
          BY <3>1, <4>1
      <3>2. CASE U # {}
        <4>1. Less(U) \in SUBSET U /\ Less(U) # U /\ Less(U) # T
          <5>1. Less(U) \in SUBSET U /\ Less(U) # U
            BY <2>2, <3>2
          <5>2. ASSUME Less(U) = T PROVE FALSE
            BY <5>1, <5>2
          <5> QED
            BY <5>1, <5>2
        <4>2. h[Less(U)] = F(Less(U))[Less(U)]
          BY <4>1
        <4>3. CASE U # T
          <5>1. Folded(list, U, F(U))
            BY <2>1, <4>3 DEF OneFold
          <5>2. F(U)[U] = BetterPolicy(list[Min(U)], F(U)[Less(U)])
            BY <3>2, <5>1 DEF Folded
          <5>3. F(U)[Less(U)] = F(Less(U))[Less(U)]
            <6>1. OneFold(list, U) /\ OneFold(list, Less(U))
              BY <2>1, <4>1, <4>3
            <6> QED
              BY <4>1, <6>1, FoldsAgree
          <5> QED
            BY <3>2, <4>2, <4>3, <5>2, <5>3
        <4> QED
          BY <3>2, <4>2, <4>3
      <3> QED
        BY <3>1, <3>2
    <2>4. h = [U \in SUBSET T |-> h[U]]
      OBVIOUS
    <2>5. ASSUME NEW g, Folded(list, T, g) PROVE g = h
      <3>1. ASSUME NEW U \in SUBSET T, U # T PROVE g[U] = F(U)[U]
        <4>1. Folded(list, U, Restrict(g, SUBSET U))
          BY <2>5, FoldedRestricts
        <4>2. Restrict(g, SUBSET U) = F(U)
          BY <2>1, <3>1, <4>1 DEF OneFold
        <4> QED
          BY <4>2 DEF Restrict
      <3>2. g[T] = IF T = {} THEN None ELSE BetterPolicy(list[Min(T)], g[Less(T)])
        BY <2>5 DEF Folded
      <3>3. T # {} => g[Less(T)] = F(Less(T))[Less(T)]
        BY <2>2, <3>1
      <3>4. g = [U \in SUBSET T |-> g[U]]
        BY <2>5 DEF Folded
      <3>5. ASSUME NEW U \in SUBSET T PROVE g[U] = h[U]
        BY <3>1, <3>2, <3>3
      <3> HIDE DEF h
      <3> QED
        BY <2>4, <3>4, <3>5
    <2> HIDE DEF h
    <2>6. Folded(list, T, h)
      BY <2>3, <2>4, FoldedIf
    <2>7. TheFold(list, T) = h
      BY <2>5, <2>6 DEF TheFold
    <2> QED
      BY <2>5, <2>6, <2>7 DEF OneFold
  <1>2. S \in P
    <2> HIDE DEF P
    <2> QED
      BY <1>1, PartInduction
  <1> QED
    BY <1>2

\* The entry best for the indices in T.
BestAmong(list, T, best) ==
  \/ best = Ambiguous
  \/ best = None /\ \A i \in T : list[i] \notin DOMAIN GroupPolicy
  \/ \E i \in T : /\ list[i] \in DOMAIN GroupPolicy /\ best = GroupPolicy[list[i]]
                  /\ \A j \in T : list[j] \in DOMAIN GroupPolicy =>
                       GroupPolicy[list[j]].mode <= best.mode

\* One turn of the loop keeps the best of the groups seen so far.
LEMMA BetterIsBest ==
  ASSUME NEW list, NEW T, NEW i \in T, NEW best, BestAmong(list, T \ {i}, best)
  PROVE  BestAmong(list, T, BetterPolicy(list[i], best))
  <1>0. \A g \in DOMAIN GroupPolicy : GroupPolicy[g].mode \in 0..2 /\ GroupPolicy[g] # None
    BY SignInAssumption DEF Modes
  <1>1. CASE best = Ambiguous \/ list[i] \notin DOMAIN GroupPolicy
    BY <1>1 DEF BestAmong, BetterPolicy
  <1>2. CASE best # Ambiguous /\ list[i] \in DOMAIN GroupPolicy
    <2> DEFINE found == GroupPolicy[list[i]]
    <2>1. found.mode \in 0..2
      BY <1>0, <1>2
    <2>2. CASE best = None
      <3>1. \A j \in T \ {i} : list[j] \notin DOMAIN GroupPolicy
        BY <1>0, <1>2, <2>2 DEF BestAmong
      <3>2. BetterPolicy(list[i], best) = found
        BY <1>2, <2>2 DEF BetterPolicy
      <3> QED
        BY <1>2, <2>1, <3>1, <3>2 DEF BestAmong
    <2>3. CASE best # None
      <3>1. PICK k \in T \ {i} :
              /\ list[k] \in DOMAIN GroupPolicy /\ best = GroupPolicy[list[k]]
              /\ \A j \in T \ {i} : list[j] \in DOMAIN GroupPolicy =>
                   GroupPolicy[list[j]].mode <= best.mode
        BY <1>2, <2>3 DEF BestAmong
      <3>2. best.mode \in 0..2 /\ \A j \in T : list[j] \in DOMAIN GroupPolicy => GroupPolicy[list[j]].mode \in 0..2
        BY <1>0, <3>1
      <3>3. CASE found.mode > best.mode
        <4>1. BetterPolicy(list[i], best) = found
          BY <1>2, <2>3, <3>3 DEF BetterPolicy
        <4>2. \A j \in T : list[j] \in DOMAIN GroupPolicy => GroupPolicy[list[j]].mode <= found.mode
          BY <2>1, <3>1, <3>2, <3>3
        <4> QED
          BY <1>2, <4>1, <4>2 DEF BestAmong
      <3>4. CASE ~ (found.mode > best.mode)
        <4>1. BetterPolicy(list[i], best) \in {Ambiguous, best}
          BY <1>2, <2>3, <3>4 DEF BetterPolicy
        <4>2. \A j \in T : list[j] \in DOMAIN GroupPolicy => GroupPolicy[list[j]].mode <= best.mode
          BY <2>1, <3>1, <3>2, <3>4
        <4> QED
          BY <3>1, <4>1, <4>2 DEF BestAmong
      <3> QED
        BY <3>3, <3>4
    <2> QED
      BY <2>2, <2>3
  <1> QED
    BY <1>1, <1>2

\* The fold over a list is the best of its groups, or an ambiguity.
LEMMA FoldIsBest ==
  ASSUME NEW list, NEW S \in SUBSET Int, IsFiniteSet(S)
  PROVE  BestAmong(list, S, TheFold(list, S)[S])
  <1> DEFINE f == TheFold(list, S)
             P == {T \in SUBSET S : BestAmong(list, T, f[T])}
  <1>1. Folded(list, S, f)
    BY OneFoldExists DEF OneFold
  <1> HIDE DEF f
  <1>2. ASSUME NEW T \in SUBSET S, \A U \in SUBSET T : U # T => U \in P
        PROVE  T \in P
    <2>1. CASE T = {}
      <3>1. f[T] = None
        BY <1>1, <2>1 DEF Folded
      <3> QED
        BY <2>1, <3>1 DEF BestAmong
    <2>2. CASE T # {}
      <3>1. Min(T) \in T
        BY <2>2, FS_Subset, LeastIsIn
      <3>2. f[T] = BetterPolicy(list[Min(T)], f[T \ {Min(T)}])
        BY <1>1, <2>2 DEF Folded
      <3>3. BestAmong(list, T \ {Min(T)}, f[T \ {Min(T)}])
        BY <1>2, <3>1
      <3> QED
        BY <3>1, <3>2, <3>3, BetterIsBest
    <2> QED
      BY <2>1, <2>2
  <1>3. S \in P
    <2> HIDE DEF P
    <2> QED
      BY <1>2, PartInduction
  <1> QED
    BY <1>3 DEF f

\* bestGroupPolicy finds an entry the list entitles to, or throws.
LEMMA BestIsEntitled ==
  ASSUME NEW groups \in GroupLists, BestGroupPolicy(groups) # Ambiguous
  PROVE  /\ BestGroupPolicy(groups) \in Entitled(groups)
         /\ BestGroupPolicy(groups).mode \in Modes /\ BestGroupPolicy(groups).policy \in Policies
  <1> DEFINE list == Reverse(groups)
             S == DOMAIN list
             best == TheFold(list, S)[S]
  <1>1. groups \in Seq(Range(groups))
    BY SignInAssumption
  <1>2. /\ S = 1..Len(groups) /\ DOMAIN groups = 1..Len(groups) /\ Len(groups) \in Nat
        /\ \A i \in S : list[i] = groups[Len(groups) - i + 1]
    BY <1>1 DEF Reverse
  <1>3. S \in SUBSET Int /\ IsFiniteSet(S)
    BY <1>2, FS_Interval
  <1>4. BestAmong(list, S, best)
    BY <1>3, FoldIsBest
  <1>5. FoldRight(BetterPolicy, Reverse(groups), None) = best
    BY BestIsFolded DEF TheFold
  <1>6. BestGroupPolicy(groups) = IF best = None THEN [mode |-> 0, policy |-> DefaultPolicy] ELSE best
    BY <1>5 DEF BestGroupPolicy
  <1>7. {list[i] : i \in S} = Range(groups)
    <2>1. ASSUME NEW i \in S PROVE list[i] \in Range(groups)
      BY <1>2 DEF Range
    <2>2. ASSUME NEW g \in Range(groups) PROVE \E i \in S : list[i] = g
      <3>1. PICK j \in 1..Len(groups) : groups[j] = g
        BY <1>2 DEF Range
      <3>2. Len(groups) - j + 1 \in S /\ list[Len(groups) - j + 1] = groups[j]
        BY <1>2
      <3> QED
        BY <3>1, <3>2
    <2> QED
      BY <2>1, <2>2
  <1> DEFINE mapped == {GroupPolicy[g] : g \in Range(groups) \cap DOMAIN GroupPolicy}
  <1>8. Entitled(groups) = IF mapped = {} THEN {[mode |-> 0, policy |-> DefaultPolicy]}
                           ELSE {e \in mapped : \A other \in mapped : other.mode <= e.mode}
    BY DEF Entitled
  <1> HIDE DEF list, S, best
  <1>9. CASE best = None
    <2>1. \A g \in DOMAIN GroupPolicy : GroupPolicy[g] # None
      BY SignInAssumption
    <2>2. best # Ambiguous
      BY <1>9, AmbiguousAssumption
    <2>3. \A i \in S : list[i] \notin DOMAIN GroupPolicy
      BY <1>4, <1>9, <2>1, <2>2 DEF BestAmong
    <2>4. mapped = {}
      BY <1>7, <2>3
    <2> QED
      BY <1>6, <1>8, <1>9, <2>4 DEF Modes, Policies
  <1>10. CASE best # None
    <2>1. BestGroupPolicy(groups) = best
      BY <1>6, <1>10
    <2>2. PICK i \in S : /\ list[i] \in DOMAIN GroupPolicy /\ best = GroupPolicy[list[i]]
                         /\ \A j \in S : list[j] \in DOMAIN GroupPolicy =>
                              GroupPolicy[list[j]].mode <= best.mode
      BY <1>4, <1>10, <2>1 DEF BestAmong
    <2>3. best \in mapped /\ \A e \in mapped : e.mode <= best.mode
      BY <1>7, <2>2
    <2>4. best \in Entitled(groups)
      BY <1>8, <2>3
    <2>5. best.mode \in Modes /\ best.policy \in Policies
      BY <2>2, SignInAssumption DEF Policies
    <2> QED
      BY <2>1, <2>4, <2>5
  <1> QED
    BY <1>9, <1>10

-----------------------------------------------------------------------------
(***************************************************************************)
(* Types are kept.                                                         *)
(***************************************************************************)

\* What the constants are.
LEMMA Parameters ==
  /\ Ttl \in Nat \ {0} /\ AccessTtl \in Nat \ {0}
  /\ MaxPerWindow \in Nat \ {0} /\ MaxKeys \in Nat \ {0} /\ Window \in Nat \ {0}
  /\ ScopeMode \in [Flows -> Modes] /\ Operator \notin People
  /\ None \notin Flows /\ None \notin Browsers /\ None \notin People
  BY SignInAssumption

\* An alarm leaves a record of the same kind, or none.
LEMMA CleanedFits ==
  ASSUME NEW R, NEW object \in ObjectType(R), NEW t,
         \A record \in R : record.expiresAt \in Nat
  PROVE  CleanupExpired(object, t) \in ObjectType(R)
  BY DEF CleanupExpired, Empty, ObjectType

\* New flows and requests and empty objects are well typed.
LEMMA RequestTypes ==
  /\ NewRequest \in RequestType /\ NewFlow \in FlowType
  /\ \A R : Empty \in ObjectType(R)
  BY DEF NewRequest, NewFlow, RequestType, FlowType, Empty, ObjectType

\* Each flow, request, grant and consent record has its type.
LEMMA Members ==
  ASSUME SignInTypeOK
  PROVE  /\ \A f \in Flows : flow[f] \in FlowType
         /\ \A c \in Callbacks : callback[c] \in RequestType
         /\ \A q \in Posts : post[q] \in RequestType
         /\ \A f \in Flows : grant[f] \in GrantType \cup {None}
         /\ \A f \in Flows : consent[f].record \in ConsentRecords \cup {None}
  BY DEF SignInTypeOK, ObjectType

\* A flow or a request replaced by one of its type.
LEMMA FlowReplaced ==
  ASSUME SignInTypeOK, NEW f \in Flows, NEW x \in FlowType, flow' = [flow EXCEPT ![f] = x]
  PROVE  flow' \in [Flows -> FlowType]
  BY DEF SignInTypeOK

\* The same of a callback.
LEMMA CallbackReplaced ==
  ASSUME SignInTypeOK, NEW c \in Callbacks, NEW k \in RequestType, callback' = [callback EXCEPT ![c] = k]
  PROVE  callback' \in [Callbacks -> RequestType]
  BY DEF SignInTypeOK

\* The properties of a grant are well typed, if the claims are not ambiguous.
LEMMA ClaimsFit ==
  ASSUME SignInTypeOK, NEW f \in Flows, NEW p \in People, NEW refresh \in BOOLEAN,
         CurrentPolicy(p) # Ambiguous
  PROVE  PropsFromClaims(f, p, refresh) \in Properties
  <1>1. directory[p] \in Seq(Listing) /\ directory[p] # <<>>
    BY DEF SignInTypeOK
  <1>2. Last(directory[p]) \in Listing
    BY <1>1 DEF Last
  <1>3. CurrentPolicy(p).mode \in Modes /\ CurrentPolicy(p).policy \in Policies
    BY <1>2, BestIsEntitled DEF CurrentPolicy, Listing
  <1>4. ScopeMode[f] \in Modes
    BY Parameters
  <1>5. Least(ScopeMode[f], CurrentPolicy(p).mode) \in Modes
    BY <1>3, <1>4 DEF Least
  <1> QED
    BY <1>3, <1>5 DEF PropsFromClaims, Properties

\* A step of a flow keeps the types.
LEMMA FlowTypeStep ==
  ASSUME SignInTypeOK, NEW f \in Flows,
         \/ StartOidc(f) \/ ShowPage(f) \/ AlarmOf(f)
         \/ \E b \in Browsers : Authorize(f, b)
         \/ \E p \in People : SignInAtProvider(f, p)
  PROVE  SignInTypeOK'
  <1> USE Parameters
  <1>1. CASE StartOidc(f)
    <2>1. Create([expiresAt |-> now + Ttl]) \in ObjectType(StateRecords)
      BY DEF SignInTypeOK, Create, ObjectType, StateRecords
    <2>2. flow' \in [Flows -> FlowType]
      <3>1. PICK delivered \in BOOLEAN :
              flow' = [flow EXCEPT ![f] = [flow[f] EXCEPT !.phase = "started", !.cookie = delivered]]
        BY <1>1 DEF StartOidc
      <3>2. [flow[f] EXCEPT !.phase = "started", !.cookie = delivered] \in FlowType
        BY Members DEF FlowType
      <3> QED
        BY <3>1, <3>2, FlowReplaced
    <2>3. state' \in [Flows -> ObjectType(StateRecords)]
      BY <1>1, <2>1 DEF StartOidc, SignInTypeOK
    <2> QED
      BY <1>1, <2>2, <2>3 DEF StartOidc, SignInTypeOK, providerVars
  <1>2. CASE ShowPage(f)
    <2>1. flow' \in [Flows -> FlowType]
      <3>1. flow[f] \in FlowType
        BY DEF SignInTypeOK
      <3>2. PICK page \in {flow[f].by, None} :
              flow' = [flow EXCEPT ![f] = [flow[f] EXCEPT !.phase = "started", !.page = page]]
        BY <1>2 DEF ShowPage
      <3>3. page \in Browsers \cup {None}
        BY <3>1 DEF FlowType
      <3>4. [flow[f] EXCEPT !.phase = "started", !.page = page] \in FlowType
        BY <3>1, <3>3 DEF FlowType
      <3> QED
        BY <3>2, <3>4, FlowReplaced
    <2>2. entry' \in [Flows -> Nat \cup {None}]
      BY <1>2 DEF ShowPage, SignInTypeOK
    <2> QED
      BY <1>2, <2>1, <2>2 DEF ShowPage, SignInTypeOK, providerVars
  <1>3. CASE AlarmOf(f)
    <2>1. \A r \in StateRecords : r.expiresAt \in Nat
      BY DEF StateRecords
    <2>2. \A r \in ConsentRecords : r.expiresAt \in Nat
      BY DEF ConsentRecords
    <2>3. CleanupExpired(state[f], now) \in ObjectType(StateRecords)
      BY <2>1, CleanedFits DEF SignInTypeOK
    <2>4. CleanupExpired(consent[f], now) \in ObjectType(ConsentRecords)
      BY <2>2, CleanedFits DEF SignInTypeOK
    <2> QED
      BY <1>3, <2>3, <2>4 DEF AlarmOf, SignInTypeOK, providerVars
  <1>4. ASSUME NEW b \in Browsers, Authorize(f, b) PROVE SignInTypeOK'
    <2>1. flow' \in [Flows -> FlowType]
      <3>1. [flow[f] EXCEPT !.phase = "admitted", !.by = b] \in FlowType
        BY Members DEF FlowType
      <3> QED
        BY <1>4, <3>1, FlowReplaced DEF Authorize
    <2>2. now' = now
      BY <1>4 DEF Authorize, Allowed, Rate!Count, Rate!Reopen, Rate!Open
    <2> QED
      BY <1>4, <2>1, <2>2 DEF Authorize, SignInTypeOK, stores, providerVars
  <1>5. ASSUME NEW p \in People, SignInAtProvider(f, p) PROVE SignInTypeOK'
    <2>1. flow' \in [Flows -> FlowType]
      <3>1. [flow[f] EXCEPT !.signer = p] \in FlowType
        BY Members DEF FlowType
      <3> QED
        BY <1>5, <3>1, FlowReplaced DEF SignInAtProvider
    <2> QED
      BY <1>5, <2>1 DEF SignInAtProvider, SignInTypeOK, stores, providerVars
  <1> QED
    BY <1>1, <1>2, <1>3, <1>4, <1>5

\* A step of a callback keeps the types.
LEMMA CallbackTypeStep ==
  ASSUME SignInTypeOK, FlowsFit, NEW c \in Callbacks,
         \/ \E b \in Browsers, f \in Flows, code \in Flows \cup {None} : ConsumeState(c, b, f, code)
         \/ ExchangeCode(c) \/ (AskConsent(c) /\ AllVouched)
  PROVE  SignInTypeOK'
  <1> USE Parameters
  <1>1. ASSUME NEW b \in Browsers, NEW f \in Flows, NEW code \in Flows \cup {None},
               ConsumeState(c, b, f, code)
        PROVE  SignInTypeOK'
    <2>1. callback' \in [Callbacks -> RequestType]
      BY <1>1 DEF ConsumeState, SignInTypeOK, RequestType, NewRequest
    <2>2. state' \in [Flows -> ObjectType(StateRecords)]
      BY <1>1, RequestTypes DEF ConsumeState, SignInTypeOK, Consume
    <2> QED
      BY <1>1, <2>1, <2>2 DEF ConsumeState, SignInTypeOK, providerVars
  <1>2. CASE ExchangeCode(c)
    <2> DEFINE f == callback[c].flow
               p == flow[f].signer
    <2>1. f \in Flows /\ callback[c] \in RequestType /\ callback[c].code = f
      BY <1>2 DEF ExchangeCode, FlowsFit, CallbackFits, Belongs, SignInTypeOK
    <2>2. p \in People
      BY <1>2, <2>1 DEF FlowsFit, CallbackFits, ExchangeCode, SignInTypeOK, FlowType
    <2>3. flow' \in [Flows -> FlowType]
      <3>0. flow[f] \in FlowType
        BY <2>1, Members
      <3>1. [flow[f] EXCEPT !.spent = TRUE] \in FlowType
        BY <3>0 DEF FlowType
      <3> QED
        BY <1>2, <2>1, <3>1, FlowReplaced DEF ExchangeCode
    <2>4. callback' \in [Callbacks -> RequestType]
      <3>1. CASE CurrentPolicy(p) = Ambiguous
        <4>1. [callback[c] EXCEPT !.phase = "refused"] \in RequestType
          BY <2>1 DEF RequestType
        <4> QED
          BY <1>2, <3>1, <4>1, CallbackReplaced DEF ExchangeCode
      <3>2. CASE CurrentPolicy(p) # Ambiguous
        <4>1. PICK refresh \in BOOLEAN :
                callback' = [callback EXCEPT ![c] =
                    [callback[c] EXCEPT !.phase = "exchanged", !.props = PropsFromClaims(f, p, refresh)]]
          BY <1>2, <3>2 DEF ExchangeCode
        <4>2. PropsFromClaims(f, p, refresh) \in Properties
          BY <2>1, <2>2, <3>2, ClaimsFit
        <4>3. [callback[c] EXCEPT !.phase = "exchanged", !.props = PropsFromClaims(f, p, refresh)] \in RequestType
          BY <2>1, <4>2 DEF RequestType
        <4> QED
          BY <4>1, <4>3, CallbackReplaced
      <3> QED
        BY <3>1, <3>2
    <2> QED
      BY <1>2, <2>3, <2>4 DEF ExchangeCode, SignInTypeOK, stores, providerVars
  <1>3. CASE AskConsent(c) /\ AllVouched
    <2> DEFINE f == callback[c].flow
    <2>1. f \in Flows /\ callback[c] \in RequestType
      BY <1>3 DEF AskConsent, FlowsFit, CallbackFits, Belongs, SignInTypeOK
    <2>2. callback[c].props \in Properties
      BY <1>3 DEF AskConsent, AllVouched, Carried
    <2>3. Create([props |-> callback[c].props, expiresAt |-> now + Ttl]) \in ObjectType(ConsentRecords)
      BY <2>2 DEF SignInTypeOK, Create, ObjectType, ConsentRecords
    <2>4. callback' \in [Callbacks -> RequestType]
      BY <1>3 DEF AskConsent, SignInTypeOK, RequestType, NewRequest
    <2>5. consent' \in [Flows -> ObjectType(ConsentRecords)]
      BY <1>3, <2>1, <2>3 DEF AskConsent, SignInTypeOK
    <2>6. flow' \in [Flows -> FlowType]
      <3>1. flow[f] \in FlowType /\ callback[c].by \in Browsers \cup {None}
        BY <2>1 DEF SignInTypeOK, RequestType
      <3>2. [flow[f] EXCEPT !.cookie = FALSE, !.page = callback[c].by] \in FlowType
        BY <3>1 DEF FlowType
      <3> QED
        BY <1>3, <2>1, <3>2 DEF AskConsent, SignInTypeOK
    <2> QED
      BY <1>3, <2>4, <2>5, <2>6 DEF AskConsent, SignInTypeOK, providerVars
  <1> QED
    BY <1>1, <1>2, <1>3

\* A post replaced by one of its type.
LEMMA PostReplaced ==
  ASSUME SignInTypeOK, NEW q \in Posts, NEW k \in RequestType, post' = [post EXCEPT ![q] = k]
  PROVE  post' \in [Posts -> RequestType]
  BY DEF SignInTypeOK

\* The clock stands while a write is counted or denied.
LEMMA ClockStands ==
  ASSUME NEW b, Allowed(b) \/ Rate!Deny(b) \/ Rate!Restart
  PROVE  now' = now
  BY DEF Allowed, Rate!Deny, Rate!Restart, Rate!Count, Rate!Reopen, Rate!Open, Rate!vars

\* A post under way is one for a flow.
LEMMA PostHasFlow ==
  ASSUME SignInTypeOK, FlowsFit, NEW q \in Posts, post[q].phase \in {"read", "proven", "approved"}
  PROVE  /\ post[q].flow \in Flows /\ post[q].by \in Browsers
         /\ flow[post[q].flow].phase = "started" /\ post[q].by = flow[post[q].flow].by
  BY DEF FlowsFit, PostFits, Belongs, FlowFits

\* A step of a post keeps the types.
LEMMA PostTypeStep ==
  ASSUME SignInTypeOK, FlowsFit, AllVouched, NEW q \in Posts,
         \/ \E b \in Browsers, f \in Flows : ConsumeConsent(q, b, f) \/ ReadEntry(q, b, f)
         \/ \E right \in BOOLEAN : CheckSecret(q, right)
         \/ BurnEntry(q) \/ Complete(q)
  PROVE  SignInTypeOK'
  <1>1. ASSUME NEW b \in Browsers, NEW f \in Flows, ConsumeConsent(q, b, f) PROVE SignInTypeOK'
    <2> DEFINE p == IF now > consent[f].record.expiresAt THEN "refused" ELSE "approved"
               k == [NewRequest EXCEPT !.phase = p, !.by = b, !.flow = f, !.props = consent[f].record.props]
    <2>1. consent[f].record \in ConsentRecords
      BY <1>1, Members DEF ConsumeConsent
    <2>2. k \in RequestType
      <3>1. consent[f].record.props \in Properties /\ p \in {"refused", "approved"}
        BY <2>1 DEF ConsentRecords
      <3> HIDE DEF p
      <3> QED
        BY <3>1 DEF NewRequest, RequestType
    <2>3. post' \in [Posts -> RequestType]
      BY <1>1, <2>2, PostReplaced DEF ConsumeConsent
    <2>4. consent' \in [Flows -> ObjectType(ConsentRecords)]
      BY <1>1, RequestTypes DEF ConsumeConsent, SignInTypeOK, Consume
    <2> QED
      BY <1>1, <2>3, <2>4 DEF ConsumeConsent, SignInTypeOK, providerVars
  <1>2. ASSUME NEW b \in Browsers, NEW f \in Flows, ReadEntry(q, b, f) PROVE SignInTypeOK'
    <2>1. [NewRequest EXCEPT !.phase = "read", !.by = b, !.flow = f] \in RequestType
      BY DEF NewRequest, RequestType
    <2>2. post' \in [Posts -> RequestType]
      BY <1>2, <2>1, PostReplaced DEF ReadEntry
    <2> QED
      BY <1>2, <2>2 DEF ReadEntry, SignInTypeOK, stores, providerVars
  <1>3. ASSUME NEW right \in BOOLEAN, CheckSecret(q, right) PROVE SignInTypeOK'
    <2>1. post[q] \in RequestType /\ NewRequest \in RequestType
      BY Members, RequestTypes
    <2>2. [post[q] EXCEPT !.phase = "proven"] \in RequestType
      BY <2>1 DEF RequestType
    <2>3. PICK k \in RequestType : post' = [post EXCEPT ![q] = k]
      BY <1>3, <2>1, <2>2 DEF CheckSecret
    <2>4. post' \in [Posts -> RequestType]
      BY <2>3, PostReplaced
    <2>5. now' = now
      BY <1>3, ClockStands DEF CheckSecret
    <2> QED
      BY <1>3, <2>4, <2>5 DEF CheckSecret, SignInTypeOK, stores, providerVars
  <1>4. CASE BurnEntry(q)
    <2> DEFINE f == post[q].flow
    <2>1. f \in Flows /\ post[q] \in RequestType
      BY <1>4, PostHasFlow, Members DEF BurnEntry
    <2>2. OperatorProps(f) \in Properties
      BY <2>1, Parameters DEF OperatorProps, Properties, Policies
    <2>3. [post[q] EXCEPT !.phase = "approved", !.props = OperatorProps(f)] \in RequestType
      BY <2>1, <2>2 DEF RequestType
    <2>4. post' \in [Posts -> RequestType]
      BY <1>4, <2>3, PostReplaced DEF BurnEntry
    <2>5. entry' \in [Flows -> Nat \cup {None}]
      BY <1>4 DEF BurnEntry, SignInTypeOK
    <2> QED
      BY <1>4, <2>4, <2>5 DEF BurnEntry, SignInTypeOK, providerVars
  <1>5. CASE Complete(q)
    <2> DEFINE f == post[q].flow
               g == [props |-> post[q].props, at |-> now, by |-> post[q].by, redeemed |-> FALSE]
    <2>1. f \in Flows /\ post[q].by \in Browsers
      BY <1>5, PostHasFlow DEF Complete
    <2>2. post[q].props \in Properties
      BY <1>5 DEF Complete, AllVouched, Carried
    <2>3. g \in GrantType
      BY <2>1, <2>2 DEF GrantType, SignInTypeOK
    <2>4. grant' \in [Flows -> GrantType \cup {None}]
      BY <1>5, <2>1, <2>3 DEF Complete, SignInTypeOK
    <2>5. completed' \in [Flows -> Nat]
      BY <1>5, <2>1 DEF Complete, SignInTypeOK
    <2>6. [NewRequest EXCEPT !.phase = "answered"] \in RequestType
      BY DEF NewRequest, RequestType
    <2>7. post' \in [Posts -> RequestType]
      BY <1>5, <2>6, PostReplaced DEF Complete
    <2> QED
      BY <1>5, <2>4, <2>5, <2>7 DEF Complete, SignInTypeOK, stores
  <1> QED
    BY <1>1, <1>2, <1>3, <1>4, <1>5

\* The properties a refresh gives are well typed.
LEMMA RefreshedFits ==
  ASSUME SignInTypeOK, AllVouched, NEW f \in Flows, NEW requested, Refresh(f, requested)
  PROVE  grant[f] \in GrantType /\ grant[f].props \in Properties /\ RefreshedProps(f) \in Properties
  <1>1. grant[f] \in GrantType /\ grant[f].props \in Properties
    BY Members DEF Refresh, GrantType
  <1>2. CASE authMode = "oidc"
    <2>1. grant[f].props.user \in People
      BY <1>2 DEF Refresh, AllVouched, Carried
    <2>2. CurrentPolicy(grant[f].props.user) # Ambiguous
      BY <1>2 DEF Refresh
    <2> QED
      BY <1>1, <1>2, <2>1, <2>2, ClaimsFit DEF RefreshedProps
  <1>3. CASE authMode # "oidc"
    BY <1>1, <1>3 DEF RefreshedProps
  <1> QED
    BY <1>1, <1>2, <1>3

\* The token that Mint adds.
Minted(f, props, requested) ==
  [flow |-> f, user |-> props.user, policy |-> props.policy,
   mode |-> TokenMode(props, requested), exp |-> now + AccessTtl]

\* A token that is minted is well typed.
LEMMA MintedFits ==
  ASSUME SignInTypeOK, NEW f \in Flows, NEW props \in Properties, NEW requested \in Modes
  PROVE  Minted(f, props, requested) \in TokenType
  <1>1. TokenMode(props, requested) \in Modes
    BY DEF TokenMode, Properties, Least
  <1>2. now + AccessTtl \in Nat
    BY Parameters DEF SignInTypeOK
  <1> QED
    BY <1>1, <1>2 DEF Minted, Properties, TokenType

\* A step of the token endpoint keeps the types.
LEMMA ProviderTypeStep ==
  ASSUME SignInTypeOK, AllVouched, NEW f \in Flows, NEW requested \in Modes,
         RedeemCode(f, requested) \/ Refresh(f, requested)
  PROVE  SignInTypeOK'
  <1>1. CASE RedeemCode(f, requested)
    <2>1. grant[f] \in GrantType
      BY <1>1, Members DEF RedeemCode
    <2>2. grant[f].props \in Properties
      BY <2>1 DEF GrantType
    <2>3. tokens' = tokens \cup {Minted(f, grant[f].props, requested)}
      BY <1>1 DEF RedeemCode, Mint, Minted
    <2>4. [grant[f] EXCEPT !.redeemed = TRUE] \in GrantType
      BY <2>1 DEF GrantType
    <2>5. grant' \in [Flows -> GrantType \cup {None}]
      BY <1>1, <2>4 DEF RedeemCode, SignInTypeOK
    <2>6. tokens' \subseteq TokenType
      BY <2>2, <2>3, MintedFits DEF SignInTypeOK
    <2> QED
      BY <1>1, <2>5, <2>6 DEF RedeemCode, SignInTypeOK, stores
  <1>2. CASE Refresh(f, requested)
    <2>1. grant[f] \in GrantType /\ RefreshedProps(f) \in Properties
      BY <1>2, RefreshedFits
    <2>2. tokens' = tokens \cup {Minted(f, RefreshedProps(f), requested)}
      BY <1>2 DEF Refresh, Mint, Minted
    <2>3. [grant[f] EXCEPT !.props = RefreshedProps(f)] \in GrantType
      BY <2>1 DEF GrantType
    <2>4. grant' \in [Flows -> GrantType \cup {None}]
      BY <1>2, <2>3 DEF Refresh, SignInTypeOK
    <2>5. tokens' \subseteq TokenType
      BY <2>1, <2>2, MintedFits DEF SignInTypeOK
    <2> QED
      BY <1>2, <2>4, <2>5 DEF Refresh, SignInTypeOK, stores
  <1> QED
    BY <1>1, <1>2

\* The clock, the rate limit and the groups.
WorldNext ==
  \/ Tick \/ RateRestart
  \/ \E b \in Browsers : TooMany(b) \/ Stray(b)
  \/ \E p \in People, list \in GroupLists : Regroup(p, list)

\* The clock, the rate limit and the groups keep the types.
LEMMA WorldTypeStep == ASSUME SignInTypeOK, WorldNext PROVE SignInTypeOK'
  <1>1. CASE Tick
    <2>1. now' \in Nat /\ tokens' \subseteq TokenType
      BY <1>1 DEF Tick, Rate!Tick, SignInTypeOK
    <2> QED
      BY <1>1, <2>1 DEF Tick, SignInTypeOK, stores
  <1>2. CASE RateRestart \/ \E b \in Browsers : TooMany(b) \/ Stray(b)
    <2>1. now' = now
      BY <1>2, ClockStands DEF RateRestart, TooMany, Stray
    <2> QED
      BY <1>2, <2>1 DEF RateRestart, TooMany, Stray, vars, SignInTypeOK, stores, providerVars
  <1>3. ASSUME NEW p \in People, NEW list \in GroupLists, Regroup(p, list) PROVE SignInTypeOK'
    <2>1. [groups |-> list, since |-> now] \in Listing
      BY DEF Listing, SignInTypeOK
    <2>2. directory[p] \in Seq(Listing)
      BY DEF SignInTypeOK
    <2>3. Append(directory[p], [groups |-> list, since |-> now]) \in Seq(Listing) \ {<<>>}
      BY <2>1, <2>2
    <2>4. directory' \in [People -> Seq(Listing) \ {<<>>}]
      BY <1>3, <2>3 DEF Regroup, SignInTypeOK
    <2> QED
      BY <1>3, <2>4 DEF Regroup, SignInTypeOK, stores, providerVars
  <1> QED
    BY <1>1, <1>2, <1>3 DEF WorldNext

-----------------------------------------------------------------------------
(***************************************************************************)
(* Flows, callbacks and posts go on fitting each other.                    *)
(***************************************************************************)

FlowNext(f) ==
  \/ StartOidc(f) \/ ShowPage(f) \/ AlarmOf(f)
  \/ \E b \in Browsers : Authorize(f, b)
  \/ \E p \in People : SignInAtProvider(f, p)
ProviderNext(f) == \E requested \in Modes : RedeemCode(f, requested) \/ Refresh(f, requested)
CallbackNext(c) ==
  \/ \E b \in Browsers, f \in Flows, code \in Flows \cup {None} : ConsumeState(c, b, f, code)
  \/ ExchangeCode(c) \/ AskConsent(c)
PostNext(q) ==
  \/ \E b \in Browsers, f \in Flows : ConsumeConsent(q, b, f) \/ ReadEntry(q, b, f)
  \/ \E right \in BOOLEAN : CheckSecret(q, right)
  \/ BurnEntry(q) \/ Complete(q)

\* A step is one of the world, of a flow, of a callback or of a post.
LEMMA Steps ==
  ASSUME Next
  PROVE  \/ WorldNext
         \/ \E f \in Flows : FlowNext(f) \/ ProviderNext(f)
         \/ \E c \in Callbacks : CallbackNext(c)
         \/ \E q \in Posts : PostNext(q)
  BY DEF Next, WorldNext, FlowNext, ProviderNext, CallbackNext, PostNext

\* Every step keeps the types.
LEMMA TypeStep ==
  ASSUME SignInTypeOK, FlowsFit, AllVouched, [Next]_vars
  PROVE  SignInTypeOK'
  <1>1. CASE WorldNext
    BY <1>1, WorldTypeStep
  <1>2. ASSUME NEW f \in Flows, FlowNext(f) \/ ProviderNext(f) PROVE SignInTypeOK'
    BY <1>2, FlowTypeStep, ProviderTypeStep DEF FlowNext, ProviderNext
  <1>3. ASSUME NEW c \in Callbacks, CallbackNext(c) PROVE SignInTypeOK'
    BY <1>3, CallbackTypeStep DEF CallbackNext
  <1>4. ASSUME NEW q \in Posts, PostNext(q) PROVE SignInTypeOK'
    BY <1>4, PostTypeStep DEF PostNext
  <1>5. CASE UNCHANGED vars
    BY <1>5 DEF SignInTypeOK, vars, stores, providerVars
  <1> QED
    BY <1>1, <1>2, <1>3, <1>4, <1>5, Steps

\* A started flow stays in its browser, and who has signed in stays its signer.
FlowsGoOn ==
  /\ authMode' = authMode
  /\ \A f \in Flows :
       /\ flow[f].phase = "started" => flow'[f].phase = "started" /\ flow'[f].by = flow[f].by
       /\ flow[f].signer # None => flow'[f].signer = flow[f].signer

\* A flow goes on that keeps its browser and its signer.
LEMMA FlowReplacedGoesOn ==
  ASSUME SignInTypeOK, NEW f \in Flows, NEW x \in FlowType, flow' = [flow EXCEPT ![f] = x],
         authMode' = authMode,
         flow[f].phase = "started" => x.phase = "started" /\ x.by = flow[f].by,
         flow[f].signer # None => x.signer = flow[f].signer
  PROVE  FlowsGoOn
  BY DEF SignInTypeOK, FlowsGoOn

\* No step moves a started flow to another browser or changes its signer.
LEMMA FlowsGoOnStep == ASSUME SignInTypeOK, FlowsFit, Next PROVE FlowsGoOn
  <1>1. CASE UNCHANGED <<authMode, flow>>
    BY <1>1 DEF FlowsGoOn
  <1>2. WorldNext => UNCHANGED <<authMode, flow>>
    BY DEF WorldNext, Tick, RateRestart, TooMany, Stray, Regroup, vars
  <1>3. ASSUME NEW f \in Flows, FlowNext(f) PROVE FlowsGoOn
    <2> DEFINE Old == flow[f]
    <2>1. Old \in FlowType
      BY Members
    <2>2. CASE StartOidc(f)
      <3>1. PICK delivered \in BOOLEAN :
              flow' = [flow EXCEPT ![f] = [flow[f] EXCEPT !.phase = "started", !.cookie = delivered]]
        BY <2>2 DEF StartOidc
      <3> DEFINE x == [Old EXCEPT !.phase = "started", !.cookie = delivered]
      <3>2. x \in FlowType /\ x.by = Old.by /\ x.signer = Old.signer /\ x.phase = "started"
        BY <2>1 DEF FlowType
      <3> HIDE DEF x
      <3> QED
        BY <2>2, <3>1, <3>2, FlowReplacedGoesOn DEF StartOidc, x
    <2>3. CASE ShowPage(f)
      <3>1. PICK page \in {flow[f].by, None} :
              flow' = [flow EXCEPT ![f] = [flow[f] EXCEPT !.phase = "started", !.page = page]]
        BY <2>3 DEF ShowPage
      <3> DEFINE x == [Old EXCEPT !.phase = "started", !.page = page]
      <3>2. x \in FlowType /\ x.by = Old.by /\ x.signer = Old.signer /\ x.phase = "started"
        BY <2>1 DEF FlowType
      <3> HIDE DEF x
      <3> QED
        BY <2>3, <3>1, <3>2, FlowReplacedGoesOn DEF ShowPage, x
    <2>4. CASE AlarmOf(f)
      BY <1>1, <2>4 DEF AlarmOf
    <2>5. ASSUME NEW b \in Browsers, Authorize(f, b) PROVE FlowsGoOn
      <3> DEFINE x == [Old EXCEPT !.phase = "admitted", !.by = b]
      <3>1. x \in FlowType /\ x.signer = Old.signer
        BY <2>1 DEF FlowType
      <3> HIDE DEF x
      <3> QED
        BY <2>5, <3>1, FlowReplacedGoesOn DEF Authorize, x
    <2>6. ASSUME NEW p \in People, SignInAtProvider(f, p) PROVE FlowsGoOn
      <3> DEFINE x == [Old EXCEPT !.signer = p]
      <3>1. x \in FlowType /\ x.phase = Old.phase /\ x.by = Old.by
        BY <2>1 DEF FlowType
      <3> HIDE DEF x
      <3> QED
        BY <2>6, <3>1, FlowReplacedGoesOn DEF SignInAtProvider, x
    <2> QED
      BY <1>3, <2>2, <2>3, <2>4, <2>5, <2>6 DEF FlowNext
  <1>4. ASSUME NEW c \in Callbacks, CallbackNext(c) PROVE FlowsGoOn
    <2> DEFINE f == callback[c].flow
               Old == flow[f]
    <2>1. CASE \E b \in Browsers, g \in Flows, code \in Flows \cup {None} : ConsumeState(c, b, g, code)
      BY <1>1, <2>1 DEF ConsumeState
    <2>2. ASSUME ExchangeCode(c) \/ AskConsent(c)
          PROVE  f \in Flows /\ Old \in FlowType /\ callback[c].by \in Browsers
      BY <2>2, Members DEF ExchangeCode, AskConsent, FlowsFit, CallbackFits, Belongs, FlowFits
    <2>3. CASE ExchangeCode(c)
      <3> DEFINE x == [Old EXCEPT !.spent = TRUE]
      <3>1. Old \in FlowType
        BY <2>2, <2>3
      <3>2. x \in FlowType /\ x.phase = Old.phase /\ x.by = Old.by /\ x.signer = Old.signer
        BY <3>1 DEF FlowType
      <3> HIDE DEF x
      <3> QED
        BY <2>2, <2>3, <3>2, FlowReplacedGoesOn DEF ExchangeCode, x
    <2>4. CASE AskConsent(c)
      <3> DEFINE x == [Old EXCEPT !.cookie = FALSE, !.page = callback[c].by]
      <3>1. Old \in FlowType /\ callback[c].by \in Browsers
        BY <2>2, <2>4
      <3>2. x \in FlowType /\ x.phase = Old.phase /\ x.by = Old.by /\ x.signer = Old.signer
        BY <3>1 DEF FlowType
      <3> HIDE DEF x
      <3>3. flow' = flow \/ flow' = [flow EXCEPT ![f] = x]
        BY <2>4 DEF AskConsent, x
      <3> QED
        BY <1>1, <2>2, <2>4, <3>2, <3>3, FlowReplacedGoesOn DEF AskConsent
    <2> QED
      BY <1>4, <2>1, <2>3, <2>4 DEF CallbackNext
  <1>5. ASSUME NEW q \in Posts, PostNext(q) PROVE UNCHANGED <<authMode, flow>>
    BY <1>5 DEF PostNext, ConsumeConsent, ReadEntry, CheckSecret, BurnEntry, Complete
  <1>6. ASSUME NEW f \in Flows, ProviderNext(f) PROVE UNCHANGED <<authMode, flow>>
    BY <1>6 DEF ProviderNext, RedeemCode, Refresh
  <1> QED
    BY <1>1, <1>2, <1>3, <1>4, <1>5, <1>6, Steps

\* A request that a step leaves alone, or that is replaced by one that fits.
LEMMA CallbacksGoOn ==
  ASSUME SignInTypeOK, FlowsFit, FlowsGoOn, NEW c \in Callbacks, NEW k,
         callback' = callback \/ (callback' = [callback EXCEPT ![c] = k] /\ CallbackFits(k)')
  PROVE  \A d \in Callbacks : CallbackFits(callback[d])'
  <1> SUFFICES ASSUME NEW d \in Callbacks PROVE CallbackFits(callback[d])'
    OBVIOUS
  <1>1. CASE callback'[d] = callback[d]
    <2>1. CallbackFits(callback[d])
      BY DEF FlowsFit
    <2>2. callback[d].code # None => callback[d].code \in Flows
      BY Members DEF RequestType
    <2> QED
      BY <1>1, <2>1, <2>2 DEF CallbackFits, FlowsGoOn, Belongs
  <1>2. CASE callback'[d] # callback[d]
    <2>1. callback'[d] = k
      BY <1>2 DEF SignInTypeOK
    <2> QED
      BY <1>2, <2>1 DEF CallbackFits, Belongs
  <1> QED
    BY <1>1, <1>2

\* The same of a post.
LEMMA PostsGoOn ==
  ASSUME SignInTypeOK, FlowsFit, FlowsGoOn, NEW q \in Posts, NEW k,
         \A f \in Flows : flow[f].phase = "started" /\ entry[f] = None => entry'[f] = None,
         post' = post \/ (post' = [post EXCEPT ![q] = k] /\ PostFits(k)')
  PROVE  \A r \in Posts : PostFits(post[r])'
  <1> SUFFICES ASSUME NEW r \in Posts PROVE PostFits(post[r])'
    OBVIOUS
  <1>1. CASE post'[r] = post[r]
    <2>1. PostFits(post[r])
      BY DEF FlowsFit
    <2> QED
      BY <1>1, <2>1 DEF PostFits, FlowsGoOn, Belongs
  <1>2. CASE post'[r] # post[r]
    <2>1. post'[r] = k
      BY <1>2 DEF SignInTypeOK
    <2> QED
      BY <1>2, <2>1 DEF PostFits, Belongs
  <1> QED
    BY <1>1, <1>2

\* What a step has to show for the flows to fit.
LEMMA FlowsFitIf ==
  ASSUME SignInTypeOK, FlowsFit, FlowsGoOn,
         UNCHANGED callback \/ \E c \in Callbacks : \E k : callback' = [callback EXCEPT ![c] = k] /\ CallbackFits(k)',
         UNCHANGED post \/ \E q \in Posts : \E k : post' = [post EXCEPT ![q] = k] /\ PostFits(k)',
         \A f \in Flows : flow[f].phase = "started" /\ entry[f] = None => entry'[f] = None,
         \A f \in Flows : FlowFits(f)'
  PROVE  FlowsFit'
  <1>1. \A d \in Callbacks : CallbackFits(callback[d])'
    <2>1. ASSUME NEW c \in Callbacks, NEW k, callback' = [callback EXCEPT ![c] = k], CallbackFits(k)'
          PROVE  \A d \in Callbacks : CallbackFits(callback[d])'
      BY <2>1, CallbacksGoOn
    <2>2. CASE UNCHANGED callback
      BY <2>2, CallbacksGoOn
    <2> QED
      BY <2>1, <2>2
  <1>2. \A r \in Posts : PostFits(post[r])'
    <2>1. ASSUME NEW q \in Posts, NEW k, post' = [post EXCEPT ![q] = k], PostFits(k)'
          PROVE  \A r \in Posts : PostFits(post[r])'
      BY <2>1, PostsGoOn
    <2>2. CASE UNCHANGED post
      BY <2>2, PostsGoOn
    <2> QED
      BY <2>1, <2>2
  <1> QED
    BY <1>1, <1>2 DEF FlowsFit

\* The records of a flow that a step leaves alone.
RecordsStand(f) ==
  /\ flow'[f] = flow[f] /\ state'[f].record = state[f].record /\ consent'[f].record = consent[f].record
  /\ entry'[f] = entry[f] /\ completed'[f] = completed[f] /\ grant'[f] = grant[f]

\* A flow whose records stand goes on fitting.
LEMMA FlowStands ==
  ASSUME FlowsFit, NEW f \in Flows, authMode' = authMode, RecordsStand(f)
  PROVE  FlowFits(f)'
  BY DEF FlowsFit, FlowFits, RecordsStand

\* A step of a flow keeps flows and requests fitting.
LEMMA FlowsFitFlowStep ==
  ASSUME SignInTypeOK, FlowsFit, FlowsGoOn, NEW f \in Flows, FlowNext(f)
  PROVE  FlowsFit'
  <1> USE Parameters
  <1>1. UNCHANGED <<authMode, callback, post, completed, grant>>
    BY DEF FlowNext, StartOidc, ShowPage, AlarmOf, Authorize, SignInAtProvider, providerVars
  <1>2. FlowFits(f) /\ flow[f] \in FlowType
    BY Members DEF FlowsFit
  <1>3. \A g \in Flows \ {f} : RecordsStand(g)
    <2> SUFFICES ASSUME NEW g \in Flows \ {f} PROVE RecordsStand(g)
      OBVIOUS
    <2>1. CASE StartOidc(f) \/ ShowPage(f)
      BY <1>1, <2>1 DEF StartOidc, ShowPage, RecordsStand, SignInTypeOK, providerVars
    <2>2. CASE AlarmOf(f)
      BY <1>1, <2>2 DEF AlarmOf, RecordsStand, SignInTypeOK, providerVars
    <2>3. CASE (\E b \in Browsers : Authorize(f, b)) \/ \E p \in People : SignInAtProvider(f, p)
      BY <1>1, <2>3 DEF Authorize, SignInAtProvider, RecordsStand, SignInTypeOK, providerVars, stores
    <2> QED
      BY <2>1, <2>2, <2>3 DEF FlowNext
  <1>4. FlowFits(f)'
    <2>1. CASE StartOidc(f)
      <3>1. PICK delivered \in BOOLEAN :
              flow' = [flow EXCEPT ![f] = [flow[f] EXCEPT !.phase = "started", !.cookie = delivered]]
        BY <2>1 DEF StartOidc
      <3>2. flow'[f] = [flow[f] EXCEPT !.phase = "started", !.cookie = delivered]
        BY <3>1 DEF SignInTypeOK
      <3>3. /\ flow'[f].phase = "started" /\ flow'[f].by = flow[f].by /\ flow'[f].page = flow[f].page
        BY <1>2, <3>2 DEF FlowType
      <3> QED
        BY <1>1, <1>2, <2>1, <3>3 DEF StartOidc, FlowFits
    <2>2. CASE ShowPage(f)
      <3>1. PICK page \in {flow[f].by, None} :
              flow' = [flow EXCEPT ![f] = [flow[f] EXCEPT !.phase = "started", !.page = page]]
        BY <2>2 DEF ShowPage
      <3>2. flow'[f] = [flow[f] EXCEPT !.phase = "started", !.page = page]
        BY <3>1 DEF SignInTypeOK
      <3>3. /\ flow'[f].phase = "started" /\ flow'[f].by = flow[f].by
            /\ flow'[f].page = page
        BY <1>2, <3>2 DEF FlowType
      <3>4. authMode # "oidc" /\ grant[f] = None /\ flow[f].phase = "admitted"
        BY <1>2, <2>2 DEF ShowPage, FlowFits
      <3> QED
        BY <1>1, <1>2, <2>2, <3>3, <3>4 DEF ShowPage, FlowFits
    <2>3. CASE AlarmOf(f)
      <3>1. /\ state'[f].record \in {state[f].record, None}
            /\ consent'[f].record \in {consent[f].record, None}
        <4>1. state'[f] = CleanupExpired(state[f], now) /\ consent'[f] = CleanupExpired(consent[f], now)
          BY <2>3 DEF AlarmOf, SignInTypeOK
        <4>2. \A o : o.record = None \/ CleanupExpired(o, now).record \in {o.record, None}
          BY DEF CleanupExpired, Empty
        <4>3. state[f] \in ObjectType(StateRecords) /\ consent[f] \in ObjectType(ConsentRecords)
          BY DEF SignInTypeOK
        <4> QED
          BY <4>1, <4>3 DEF CleanupExpired, Empty, ObjectType
      <3> QED
        BY <1>1, <1>2, <2>3, <3>1 DEF AlarmOf, FlowFits
    <2>4. ASSUME NEW b \in Browsers, Authorize(f, b) PROVE FlowFits(f)'
      <3>1. flow'[f] = [flow[f] EXCEPT !.phase = "admitted", !.by = b]
        BY <2>4 DEF Authorize, SignInTypeOK
      <3>2. /\ flow'[f].phase = "admitted" /\ flow'[f].by = b /\ flow'[f].page = flow[f].page
            /\ flow'[f].cookie = flow[f].cookie
        BY <1>2, <3>1 DEF FlowType
      <3>3. flow[f].phase = "new"
        BY <2>4 DEF Authorize
      <3> QED
        BY <1>1, <1>2, <2>4, <3>2, <3>3 DEF Authorize, FlowFits, stores
    <2>5. ASSUME NEW p \in People, SignInAtProvider(f, p) PROVE FlowFits(f)'
      <3>1. flow'[f] = [flow[f] EXCEPT !.signer = p]
        BY <2>5 DEF SignInAtProvider, SignInTypeOK
      <3>2. /\ flow'[f].phase = flow[f].phase /\ flow'[f].by = flow[f].by /\ flow'[f].page = flow[f].page
            /\ flow'[f].cookie = flow[f].cookie
        BY <1>2, <3>1 DEF FlowType
      <3> QED
        BY <1>1, <1>2, <2>5, <3>2 DEF SignInAtProvider, FlowFits, stores
    <2> QED
      BY <2>1, <2>2, <2>3, <2>4, <2>5 DEF FlowNext
  <1>5. \A g \in Flows : flow[g].phase = "started" /\ entry[g] = None => entry'[g] = None
    BY DEF FlowNext, StartOidc, ShowPage, AlarmOf, Authorize, SignInAtProvider, stores, SignInTypeOK
  <1>6. \A g \in Flows : FlowFits(g)'
    BY <1>1, <1>3, <1>4, FlowStands
  <1> QED
    BY <1>1, <1>5, <1>6, FlowsFitIf

\* A step of a callback does.
LEMMA FlowsFitCallbackStep ==
  ASSUME SignInTypeOK, FlowsFit, FlowsGoOn, NEW c \in Callbacks, CallbackNext(c)
  PROVE  FlowsFit'
  <1> USE Parameters
  <1>1. UNCHANGED <<authMode, post, entry, completed, grant>>
    BY DEF CallbackNext, ConsumeState, ExchangeCode, AskConsent, providerVars, stores
  <1>2. ASSUME NEW b \in Browsers, NEW f \in Flows, NEW code \in Flows \cup {None},
               ConsumeState(c, b, f, code)
        PROVE  FlowsFit'
    <2>1. PICK p \in {"refused", "consumed"} :
            callback' = [callback EXCEPT ![c] =
                [NewRequest EXCEPT !.phase = p, !.by = b, !.flow = f, !.code = code]]
      BY <1>2 DEF ConsumeState
    <2>2. PICK k : /\ callback' = [callback EXCEPT ![c] = k]
                   /\ k.phase = p /\ k.by = b /\ k.flow = f /\ k.code = code
      <3> DEFINE x == [NewRequest EXCEPT !.phase = p, !.by = b, !.flow = f, !.code = code]
      <3>1. x.phase = p /\ x.by = b /\ x.flow = f /\ x.code = code
        BY DEF NewRequest
      <3>2. callback' = [callback EXCEPT ![c] = x]
        BY <2>1
      <3> HIDE DEF x
      <3> QED
        BY <3>1, <3>2
    <2>3. UNCHANGED flow /\ flow[f].cookie /\ b = flow[f].by
      BY <1>2 DEF ConsumeState, CookieHeld
    <2>4. state[f].record # None
      BY <1>2 DEF ConsumeState
    <2>5. flow[f].phase = "started" /\ authMode = "oidc"
      BY <2>3, <2>4 DEF FlowsFit, FlowFits
    <2>6. code # None => flow[code].signer # None
      BY <1>2 DEF ConsumeState
    <2>7. CallbackFits(k)'
      BY <1>1, <2>1, <2>2, <2>3, <2>5, <2>6 DEF CallbackFits, Belongs
    <2>8. \A g \in Flows : FlowFits(g)'
      <3> SUFFICES ASSUME NEW g \in Flows PROVE FlowFits(g)'
        OBVIOUS
      <3>1. state'[g].record \in {state[g].record, None}
        BY <1>2 DEF ConsumeState, Consume, Empty, SignInTypeOK
      <3>2. UNCHANGED <<flow, consent>>
        BY <1>2 DEF ConsumeState
      <3>3. FlowFits(g)
        BY DEF FlowsFit
      <3> QED
        BY <1>1, <3>1, <3>2, <3>3 DEF FlowFits
    <2> QED
      BY <1>1, <2>2, <2>7, <2>8, FlowsFitIf
  <1>3. CASE ExchangeCode(c)
    <2> DEFINE f == callback[c].flow
               Old == callback[c]
    <2>1. f \in Flows /\ Old \in RequestType /\ flow[f] \in FlowType /\ CallbackFits(Old)
      BY <1>3, Members DEF ExchangeCode, FlowsFit, CallbackFits, Belongs
    <2>2. PICK refresh \in BOOLEAN :
            callback' = [callback EXCEPT ![c] =
                   IF CurrentPolicy(flow[f].signer) = Ambiguous THEN [callback[c] EXCEPT !.phase = "refused"]
                   ELSE [callback[c] EXCEPT !.phase = "exchanged",
                                            !.props = PropsFromClaims(f, flow[f].signer, refresh)]]
      BY <1>3 DEF ExchangeCode
    <2>3. PICK k : /\ callback' = [callback EXCEPT ![c] = k]
                   /\ k.by = Old.by /\ k.flow = f /\ k.code = Old.code /\ k.phase \in {"refused", "exchanged"}
      <3>1. \A x : LET k == [Old EXCEPT !.phase = "exchanged", !.props = x]
                   IN  k.by = Old.by /\ k.flow = f /\ k.code = Old.code /\ k.phase = "exchanged"
        BY <2>1 DEF RequestType
      <3>2. LET k == [Old EXCEPT !.phase = "refused"]
            IN  k.by = Old.by /\ k.flow = f /\ k.code = Old.code /\ k.phase = "refused"
        BY <2>1 DEF RequestType
      <3>3. CASE CurrentPolicy(flow[f].signer) = Ambiguous
        BY <2>2, <3>2, <3>3
      <3>4. CASE CurrentPolicy(flow[f].signer) # Ambiguous
        BY <2>2, <3>1, <3>4
      <3> QED
        BY <3>3, <3>4
    <2>4. Old.phase = "consumed" /\ Old.code = f
      BY <1>3 DEF ExchangeCode
    <2>5. CallbackFits(k)'
      BY <1>1, <2>1, <2>3, <2>4 DEF CallbackFits, Belongs, FlowsGoOn
    <2>6. \A g \in Flows : FlowFits(g)'
      <3> SUFFICES ASSUME NEW g \in Flows PROVE FlowFits(g)'
        OBVIOUS
      <3>1. UNCHANGED <<state, consent>> /\ flow' = [flow EXCEPT ![f] = [flow[f] EXCEPT !.spent = TRUE]]
        BY <1>3 DEF ExchangeCode, stores
      <3>2. /\ flow'[g].phase = flow[g].phase /\ flow'[g].by = flow[g].by
            /\ flow'[g].page = flow[g].page /\ flow'[g].cookie = flow[g].cookie
        <4>1. CASE g = f
          <5>1. flow'[g] = [flow[g] EXCEPT !.spent = TRUE] /\ flow[g] \in FlowType
            BY <3>1, <4>1, Members DEF SignInTypeOK
          <5> QED
            BY <5>1 DEF FlowType
        <4>2. CASE g # f
          BY <3>1, <4>2 DEF SignInTypeOK
        <4> QED
          BY <4>1, <4>2
      <3>3. FlowFits(g)
        BY DEF FlowsFit
      <3> QED
        BY <1>1, <3>1, <3>2, <3>3 DEF FlowFits
    <2> QED
      BY <1>1, <2>3, <2>5, <2>6, FlowsFitIf
  <1>4. CASE AskConsent(c)
    <2> DEFINE f == callback[c].flow
               Old == callback[c]
    <2>1. f \in Flows /\ flow[f] \in FlowType /\ CallbackFits(Old) /\ Belongs(Old, f) /\ authMode = "oidc"
      BY <1>4, Members DEF AskConsent, FlowsFit, CallbackFits, Belongs
    <2>2. PICK k : callback' = [callback EXCEPT ![c] = k] /\ k.phase = "answered"
      <3> DEFINE x == [NewRequest EXCEPT !.phase = "answered"]
      <3>1. x.phase = "answered"
        BY DEF NewRequest
      <3>2. callback' = [callback EXCEPT ![c] = x]
        BY <1>4 DEF AskConsent
      <3> HIDE DEF x
      <3> QED
        BY <3>1, <3>2
    <2>3. CallbackFits(k)'
      BY <2>2 DEF CallbackFits
    <2>4. \A g \in Flows : FlowFits(g)'
      <3> SUFFICES ASSUME NEW g \in Flows PROVE FlowFits(g)'
        OBVIOUS
      <3>1. FlowFits(g) /\ UNCHANGED state
        BY <1>4 DEF FlowsFit, AskConsent
      <3>2. CASE g = f
        <4>1. PICK delivered \in BOOLEAN :
                flow' = IF delivered
                        THEN [flow EXCEPT ![f] = [flow[f] EXCEPT !.cookie = FALSE, !.page = callback[c].by]]
                        ELSE flow
          BY <1>4 DEF AskConsent
        <4>2. flow'[f] = flow[f] \/ flow'[f] = [flow[f] EXCEPT !.cookie = FALSE, !.page = callback[c].by]
          BY <2>1, <4>1 DEF SignInTypeOK
        <4>3. /\ flow'[f].phase = flow[f].phase /\ flow'[f].by = flow[f].by
              /\ flow'[f].page \in {flow[f].page, flow[f].by}
          BY <2>1, <4>2 DEF FlowType, Belongs
        <4> QED
          BY <1>1, <2>1, <3>1, <3>2, <4>3 DEF FlowFits, Belongs
      <3>3. CASE g # f
        <4>1. flow'[g] = flow[g] /\ consent'[g] = consent[g]
          BY <1>4, <3>3 DEF AskConsent, SignInTypeOK
        <4> QED
          BY <1>1, <3>1, <4>1 DEF FlowFits
      <3> QED
        BY <3>2, <3>3
    <2> QED
      BY <1>1, <2>2, <2>3, <2>4, FlowsFitIf
  <1> QED
    BY <1>2, <1>3, <1>4 DEF CallbackNext

\* A step of a post does.
LEMMA FlowsFitPostStep ==
  ASSUME SignInTypeOK, FlowsFit, FlowsGoOn, NEW q \in Posts, PostNext(q)
  PROVE  FlowsFit'
  <1> USE Parameters
  <1>1. UNCHANGED <<authMode, flow, state, callback>>
    BY DEF PostNext, ConsumeConsent, ReadEntry, CheckSecret, BurnEntry, Complete, stores
  <1>2. post[q] \in RequestType /\ PostFits(post[q])
    BY Members DEF FlowsFit
  <1>3. ASSUME NEW b \in Browsers, NEW f \in Flows, ConsumeConsent(q, b, f) PROVE FlowsFit'
    <2>1. UNCHANGED <<entry, completed, grant>>
      BY <1>3 DEF ConsumeConsent, providerVars
    <2>2. PICK k : post' = [post EXCEPT ![q] = k] /\ k.phase \in {"refused", "approved"} /\ k.by = b /\ k.flow = f
      <3>1. PICK p \in {"refused", "approved"} :
              post' = [post EXCEPT ![q] =
                [NewRequest EXCEPT !.phase = p, !.by = b, !.flow = f, !.props = consent[f].record.props]]
        BY <1>3 DEF ConsumeConsent
      <3> DEFINE x == [NewRequest EXCEPT !.phase = p, !.by = b, !.flow = f, !.props = consent[f].record.props]
      <3>2. x.phase = p /\ x.by = b /\ x.flow = f
        BY DEF NewRequest
      <3>3. post' = [post EXCEPT ![q] = x]
        BY <3>1
      <3> HIDE DEF x
      <3> QED
        BY <3>2, <3>3
    <2>3. flow[f].phase = "started" /\ flow[f].by = b /\ entry[f] = None
      BY <1>3 DEF ConsumeConsent, FlowsFit, FlowFits, AuthModes
    <2>4. PostFits(k)'
      BY <1>1, <2>1, <2>2, <2>3 DEF PostFits, Belongs
    <2>5. \A g \in Flows : FlowFits(g)'
      <3> SUFFICES ASSUME NEW g \in Flows PROVE FlowFits(g)'
        OBVIOUS
      <3>1. FlowFits(g) /\ consent'[g].record \in {consent[g].record, None}
        BY <1>3 DEF FlowsFit, ConsumeConsent, Consume, Empty, SignInTypeOK
      <3> QED
        BY <1>1, <2>1, <3>1 DEF FlowFits
    <2> QED
      BY <1>1, <2>1, <2>2, <2>4, <2>5, FlowsFitIf
  <1>4. ASSUME UNCHANGED <<entry, consent, completed, grant>>,
               \E k : post' = [post EXCEPT ![q] = k] /\ PostFits(k)'
        PROVE  FlowsFit'
    <2>1. \A g \in Flows : FlowFits(g)'
      BY <1>1, <1>4 DEF FlowsFit, FlowFits
    <2> QED
      BY <1>1, <1>4, <2>1, FlowsFitIf
  <1>5. ASSUME NEW b \in Browsers, NEW f \in Flows, ReadEntry(q, b, f) PROVE FlowsFit'
    <2> DEFINE x == [NewRequest EXCEPT !.phase = "read", !.by = b, !.flow = f]
    <2>1. PICK k : post' = [post EXCEPT ![q] = k] /\ k.phase = "read" /\ k.by = b /\ k.flow = f
      <3>1. x.phase = "read" /\ x.by = b /\ x.flow = f
        BY DEF NewRequest
      <3>2. post' = [post EXCEPT ![q] = x]
        BY <1>5 DEF ReadEntry
      <3> HIDE DEF x
      <3> QED
        BY <3>1, <3>2
    <2>2. flow[f].phase = "started" /\ flow[f].by = b /\ authMode # "oidc"
      BY <1>5 DEF ReadEntry, FlowsFit, FlowFits
    <2>3. PostFits(k)'
      BY <1>1, <2>1, <2>2 DEF PostFits, Belongs
    <2> QED
      BY <1>4, <1>5, <2>1, <2>3 DEF ReadEntry, stores, providerVars
  <1>6. ASSUME NEW right \in BOOLEAN, CheckSecret(q, right) PROVE FlowsFit'
    <2>1. post[q].phase = "read" /\ UNCHANGED <<entry, consent, completed, grant>>
      BY <1>6 DEF CheckSecret, stores, providerVars
    <2> DEFINE x == [post[q] EXCEPT !.phase = "proven"]
    <2>2. x.phase = "proven" /\ x.by = post[q].by /\ x.flow = post[q].flow
      BY <1>2 DEF RequestType
    <2>3. NewRequest.phase = "new"
      BY DEF NewRequest
    <2>4. post' = [post EXCEPT ![q] = x] \/ post' = [post EXCEPT ![q] = NewRequest]
      BY <1>6 DEF CheckSecret
    <2> HIDE DEF x
    <2>5. PICK k : /\ post' = [post EXCEPT ![q] = k]
                   /\ \/ k.phase = "new"
                      \/ k.phase = "proven" /\ k.by = post[q].by /\ k.flow = post[q].flow
      BY <2>2, <2>3, <2>4
    <2>6. PostFits(k)'
      BY <1>1, <1>2, <2>1, <2>5 DEF PostFits, Belongs
    <2> QED
      BY <1>4, <2>1, <2>5, <2>6
  <1>7. CASE BurnEntry(q)
    <2> DEFINE f == post[q].flow
               x == [post[q] EXCEPT !.phase = "approved", !.props = OperatorProps(f)]
    <2>1. /\ f \in Flows /\ post[q].by \in Browsers
          /\ flow[f].phase = "started" /\ post[q].by = flow[f].by
      BY <1>7, PostHasFlow DEF BurnEntry
    <2>2. PICK k : post' = [post EXCEPT ![q] = k] /\ k.phase = "approved" /\ k.by = post[q].by /\ k.flow = f
      <3>1. x.phase = "approved" /\ x.by = post[q].by /\ x.flow = f
        BY <1>2 DEF RequestType
      <3>2. post' = [post EXCEPT ![q] = x]
        BY <1>7 DEF BurnEntry
      <3> HIDE DEF x
      <3> QED
        BY <3>1, <3>2
    <2>3. entry' = [entry EXCEPT ![f] = None] /\ UNCHANGED <<consent, completed, grant>>
      BY <1>7 DEF BurnEntry, providerVars
    <2>4. PostFits(k)'
      BY <1>1, <2>1, <2>2, <2>3 DEF PostFits, Belongs, SignInTypeOK
    <2>5. \A g \in Flows : FlowFits(g)' /\ (entry[g] = None => entry'[g] = None)
      <3> SUFFICES ASSUME NEW g \in Flows PROVE FlowFits(g)' /\ (entry[g] = None => entry'[g] = None)
        OBVIOUS
      <3>1. FlowFits(g) /\ entry'[g] \in {entry[g], None}
        BY <2>3 DEF FlowsFit, SignInTypeOK
      <3> QED
        BY <1>1, <2>3, <3>1 DEF FlowFits
    <2> QED
      BY <1>1, <2>2, <2>4, <2>5, FlowsFitIf
  <1>8. CASE Complete(q)
    <2> DEFINE f == post[q].flow
    <2>1. f \in Flows /\ flow[f].phase = "started" /\ flow[f].by \in Browsers /\ entry[f] = None
      BY <1>2, <1>8, PostHasFlow DEF Complete, PostFits
    <2>2. PICK k : post' = [post EXCEPT ![q] = k] /\ k.phase = "answered"
      <3> DEFINE x == [NewRequest EXCEPT !.phase = "answered"]
      <3>1. x.phase = "answered"
        BY DEF NewRequest
      <3>2. post' = [post EXCEPT ![q] = x]
        BY <1>8 DEF Complete
      <3> HIDE DEF x
      <3> QED
        BY <3>1, <3>2
    <2>3. PostFits(k)'
      BY <2>2 DEF PostFits
    <2>4. UNCHANGED <<entry, consent>>
      BY <1>8 DEF Complete, stores
    <2>5. \A g \in Flows : FlowFits(g)'
      <3> SUFFICES ASSUME NEW g \in Flows PROVE FlowFits(g)'
        OBVIOUS
      <3>1. FlowFits(g)
        BY DEF FlowsFit
      <3>2. CASE g = f
        BY <1>1, <2>1, <2>4, <3>1, <3>2 DEF FlowFits
      <3>3. CASE g # f
        <4>1. completed'[g] = completed[g] /\ grant'[g] = grant[g]
          BY <1>8, <3>3 DEF Complete, SignInTypeOK
        <4> QED
          BY <1>1, <2>4, <3>1, <4>1 DEF FlowFits
      <3> QED
        BY <3>2, <3>3
    <2> QED
      BY <1>1, <2>2, <2>3, <2>4, <2>5, FlowsFitIf
  <1> QED
    BY <1>3, <1>5, <1>6, <1>7, <1>8 DEF PostNext

\* Every step does.
LEMMA FlowsFitStep ==
  ASSUME SignInTypeOK, FlowsFit, [Next]_vars
  PROVE  FlowsFit'
  <1>1. CASE WorldNext
    <2>1. UNCHANGED <<authMode, flow, state, consent, entry, callback, post, grant, completed>>
      BY <1>1 DEF WorldNext, Tick, RateRestart, TooMany, Stray, Regroup, vars, stores, providerVars
    <2> QED
      BY <2>1 DEF FlowsFit, FlowFits, CallbackFits, PostFits, Belongs
  <1>2. ASSUME NEW f \in Flows, Next, FlowNext(f) PROVE FlowsFit'
    BY <1>2, FlowsGoOnStep, FlowsFitFlowStep
  <1>3. ASSUME NEW f \in Flows, ProviderNext(f) PROVE FlowsFit'
    <2>1. UNCHANGED <<authMode, flow, state, consent, entry, callback, post, completed>>
      BY <1>3 DEF ProviderNext, RedeemCode, Refresh, stores
    <2>2. \A g \in Flows : grant'[g] # None => grant[g] # None
      BY <1>3 DEF ProviderNext, RedeemCode, Refresh, SignInTypeOK
    <2>3. \A g \in Flows : FlowFits(g)'
      <3> SUFFICES ASSUME NEW g \in Flows PROVE FlowFits(g)'
        OBVIOUS
      <3>1. FlowFits(g) /\ (grant'[g] # None => grant[g] # None)
        BY <2>2 DEF FlowsFit
      <3> QED
        BY <2>1, <3>1 DEF FlowFits
    <2> QED
      BY <2>1, <2>3 DEF FlowsFit, CallbackFits, PostFits, Belongs
  <1>4. ASSUME NEW c \in Callbacks, Next, CallbackNext(c) PROVE FlowsFit'
    BY <1>4, FlowsGoOnStep, FlowsFitCallbackStep
  <1>5. ASSUME NEW q \in Posts, Next, PostNext(q) PROVE FlowsFit'
    BY <1>5, FlowsGoOnStep, FlowsFitPostStep
  <1>6. CASE UNCHANGED vars
    BY <1>6 DEF FlowsFit, FlowFits, CallbackFits, PostFits, Belongs, vars, stores, providerVars
  <1> QED
    BY <1>1, <1>2, <1>3, <1>4, <1>5, <1>6, Steps

-----------------------------------------------------------------------------
(***************************************************************************)
(* With OIDC a flow goes from one place to the next.                       *)
(***************************************************************************)

\* A step that only takes flow f away from places.
NoNewPlace(f) ==
  /\ state'[f].record # None => state[f].record # None
  /\ \A c \in Callbacks : AtCallback(f, c)' => AtCallback(f, c)
  /\ consent'[f].record # None => consent[f].record # None
  /\ \A q \in Posts : AtPost(f, q)' => AtPost(f, q)
  /\ completed'[f] = completed[f]
  /\ grant'[f] # None => grant[f] # None

\* A flow that enters no new place stays in one place.
LEMMA FewerPlaces == ASSUME NEW f \in Flows, OnePlace(f), NoNewPlace(f) PROVE OnePlace(f)'
  BY DEF OnePlace, NoNewPlace

\* Nothing is under way for a flow that was not started.
LEMMA NotStartedIsNowhere ==
  ASSUME FlowsFit, NEW f \in Flows, flow[f].phase # "started"
  PROVE  /\ \A c \in Callbacks : ~ AtCallback(f, c)
         /\ \A q \in Posts : ~ AtPost(f, q)
         /\ state[f].record = None /\ consent[f].record = None /\ completed[f] = 0 /\ grant[f] = None
  BY DEF FlowsFit, FlowFits, CallbackFits, PostFits, Belongs, AtCallback, AtPost

\* A step of a flow keeps each flow in one place.
LEMMA OnePlaceFlowStep ==
  ASSUME SignInTypeOK, FlowsFit, authMode = "oidc", NEW f \in Flows, FlowNext(f),
         NEW g \in Flows, OnePlace(g)
  PROVE  OnePlace(g)'
  <1>1. UNCHANGED <<callback, post, completed, grant>>
    BY DEF FlowNext, StartOidc, ShowPage, AlarmOf, Authorize, SignInAtProvider, providerVars
  <1>2. CASE StartOidc(f) /\ g = f
    <2>1. flow[f].phase # "started" /\ UNCHANGED consent
      BY <1>2 DEF StartOidc
    <2> QED
      BY <1>1, <1>2, <2>1, NotStartedIsNowhere DEF OnePlace, AtCallback, AtPost
  <1>3. CASE StartOidc(f) /\ g # f
    <2>1. UNCHANGED <<state[g], consent[g]>>
      BY <1>3 DEF StartOidc, SignInTypeOK
    <2> QED
      BY <1>1, <2>1, FewerPlaces DEF NoNewPlace, AtCallback, AtPost
  <1>4. CASE AlarmOf(f)
    <2>1. ASSUME state'[g].record \in {state[g].record, None}, consent'[g].record \in {consent[g].record, None}
          PROVE  OnePlace(g)'
      BY <1>1, <2>1, FewerPlaces DEF NoNewPlace, AtCallback, AtPost
    <2>2. CASE g = f
      <3>1. state'[f] = CleanupExpired(state[f], now) /\ consent'[f] = CleanupExpired(consent[f], now)
        BY <1>4 DEF AlarmOf, SignInTypeOK
      <3>2. state[f] \in ObjectType(StateRecords) /\ consent[f] \in ObjectType(ConsentRecords)
        BY DEF SignInTypeOK
      <3>3. state'[f].record \in {state[f].record, None} /\ consent'[f].record \in {consent[f].record, None}
        BY <3>1, <3>2 DEF CleanupExpired, Empty, ObjectType
      <3> QED
        BY <2>1, <2>2, <3>3
    <2>3. CASE g # f
      <3>1. state'[g] = state[g] /\ consent'[g] = consent[g]
        BY <1>4, <2>3 DEF AlarmOf, SignInTypeOK
      <3> QED
        BY <2>1, <3>1
    <2> QED
      BY <2>2, <2>3
  <1>5. CASE UNCHANGED <<state, consent>>
    BY <1>1, <1>5, FewerPlaces DEF NoNewPlace, AtCallback, AtPost
  <1>6. \/ StartOidc(f) \/ AlarmOf(f) \/ UNCHANGED <<state, consent>>
    BY DEF FlowNext, ShowPage, Authorize, SignInAtProvider, stores
  <1> QED
    BY <1>2, <1>3, <1>4, <1>5, <1>6

\* A step of a callback does: consuming the state, it is the only one to.
LEMMA OnePlaceCallbackStep ==
  ASSUME SignInTypeOK, FlowsFit, NEW c \in Callbacks, CallbackNext(c),
         NEW g \in Flows, OnePlace(g)
  PROVE  OnePlace(g)'
  <1>1. UNCHANGED <<post, completed, grant>>
    BY DEF CallbackNext, ConsumeState, ExchangeCode, AskConsent, providerVars
  <1>2. ASSUME NEW b \in Browsers, NEW f \in Flows, NEW code \in Flows \cup {None},
               ConsumeState(c, b, f, code)
        PROVE  OnePlace(g)'
    <2>1. callback[c].phase = "new" /\ state[f].record # None /\ UNCHANGED consent
      BY <1>2 DEF ConsumeState
    <2>2. PICK p \in {"refused", "consumed"} :
            callback' = [callback EXCEPT ![c] =
                [NewRequest EXCEPT !.phase = p, !.by = b, !.flow = f, !.code = code]]
      BY <1>2 DEF ConsumeState
    <2>3. \A d \in Callbacks : AtCallback(g, d)' => AtCallback(g, d) \/ (d = c /\ g = f)
      <3> SUFFICES ASSUME NEW d \in Callbacks, AtCallback(g, d)', ~ AtCallback(g, d)
                   PROVE  d = c /\ g = f
        OBVIOUS
      <3>1. d = c
        BY <2>2 DEF AtCallback, SignInTypeOK
      <3>2. callback'[c] = [NewRequest EXCEPT !.phase = p, !.by = b, !.flow = f, !.code = code]
        BY <2>2 DEF SignInTypeOK
      <3>3. callback'[c].flow = f
        BY <3>2 DEF NewRequest
      <3> QED
        BY <3>1, <3>3 DEF AtCallback
    <2>4. CASE g = f
      <3>1. state'[f].record = None
        BY <1>2 DEF ConsumeState, Consume, Empty, SignInTypeOK
      <3>2. \A d \in Callbacks : AtCallback(f, d)' => d = c
        BY <2>1, <2>3, <2>4 DEF OnePlace
      <3> QED
        BY <1>1, <2>1, <2>4, <3>1, <3>2 DEF OnePlace, AtPost
    <2>5. CASE g # f
      <3>1. state'[g] = state[g]
        BY <1>2, <2>5 DEF ConsumeState, SignInTypeOK
      <3> QED
        BY <1>1, <2>1, <2>3, <2>5, <3>1, FewerPlaces DEF NoNewPlace, AtPost
    <2> QED
      BY <2>4, <2>5
  <1>3. CASE ExchangeCode(c)
    <2> DEFINE f == callback[c].flow
    <2>1. \A d \in Callbacks : AtCallback(g, d)' => AtCallback(g, d)
      <3> SUFFICES ASSUME NEW d \in Callbacks, AtCallback(g, d)' PROVE AtCallback(g, d)
        OBVIOUS
      <3>1. CASE d = c
        <4>1. callback[c] \in RequestType /\ callback[c].phase = "consumed"
          BY <1>3, Members DEF ExchangeCode
        <4>2. callback'[c].flow = f
          <5>1. \A x : [callback[c] EXCEPT !.phase = "exchanged", !.props = x].flow = f
            BY <4>1 DEF RequestType
          <5>2. [callback[c] EXCEPT !.phase = "refused"].flow = f
            BY <4>1 DEF RequestType
          <5> QED
            BY <1>3, <5>1, <5>2 DEF ExchangeCode, SignInTypeOK
        <4> QED
          BY <3>1, <4>1, <4>2 DEF AtCallback
      <3>2. CASE d # c
        BY <1>3, <3>2 DEF ExchangeCode, AtCallback, SignInTypeOK
      <3> QED
        BY <3>1, <3>2
    <2>2. UNCHANGED <<state, consent>>
      BY <1>3 DEF ExchangeCode, stores
    <2> QED
      BY <1>1, <2>1, <2>2, FewerPlaces DEF NoNewPlace, AtPost
  <1>4. CASE AskConsent(c)
    <2> DEFINE f == callback[c].flow
    <2>1. f \in Flows /\ AtCallback(f, c) /\ UNCHANGED state
      BY <1>4 DEF AskConsent, FlowsFit, CallbackFits, Belongs, AtCallback
    <2>2. ~ AtCallback(g, c)'
      <3>1. callback'[c] = [NewRequest EXCEPT !.phase = "answered"]
        BY <1>4 DEF AskConsent, SignInTypeOK
      <3>2. callback'[c].phase = "answered"
        BY <3>1 DEF NewRequest
      <3> QED
        BY <3>2 DEF AtCallback
    <2>3. \A d \in Callbacks : AtCallback(g, d)' => AtCallback(g, d) /\ d # c
      <3>1. \A d \in Callbacks : d # c => callback'[d] = callback[d]
        BY <1>4 DEF AskConsent, SignInTypeOK
      <3> QED
        BY <2>2, <3>1 DEF AtCallback
    <2>4. CASE g = f
      <3>1. \A d \in Callbacks : ~ AtCallback(g, d)'
        BY <2>1, <2>3, <2>4 DEF OnePlace
      <3>2. state[g].record = None /\ completed[g] = 0 /\ \A q \in Posts : ~ AtPost(g, q)
        BY <2>1, <2>4 DEF OnePlace
      <3> QED
        BY <1>1, <2>1, <3>1, <3>2 DEF OnePlace, AtPost
    <2>5. CASE g # f
      <3>1. consent'[g] = consent[g]
        BY <1>4, <2>5 DEF AskConsent, SignInTypeOK
      <3> QED
        BY <1>1, <2>1, <2>3, <3>1, FewerPlaces DEF NoNewPlace, AtPost
    <2> QED
      BY <2>4, <2>5
  <1> QED
    BY <1>2, <1>3, <1>4 DEF CallbackNext

\* A step of a post does: consuming the consent, it is the only one to.
LEMMA OnePlacePostStep ==
  ASSUME SignInTypeOK, FlowsFit, authMode = "oidc", NEW q \in Posts, PostNext(q),
         NEW g \in Flows, OnePlace(g)
  PROVE  OnePlace(g)'
  <1>1. UNCHANGED <<state, callback>>
    BY DEF PostNext, ConsumeConsent, ReadEntry, CheckSecret, BurnEntry, Complete, stores
  <1>2. \A r \in Posts : r # q => post'[r] = post[r]
    BY DEF PostNext, ConsumeConsent, ReadEntry, CheckSecret, BurnEntry, Complete, SignInTypeOK
  <1>3. (\E b \in Browsers, f \in Flows : ConsumeConsent(q, b, f)) \/ Complete(q)
    <2>1. ~ \E b \in Browsers, f \in Flows : ReadEntry(q, b, f)
      BY DEF ReadEntry, FlowsFit, FlowFits
    <2>2. ~ (\E right \in BOOLEAN : CheckSecret(q, right)) /\ ~ BurnEntry(q)
      BY DEF CheckSecret, BurnEntry, FlowsFit, PostFits
    <2> QED
      BY <2>1, <2>2 DEF PostNext
  <1>4. ASSUME NEW b \in Browsers, NEW f \in Flows, ConsumeConsent(q, b, f) PROVE OnePlace(g)'
    <2>1. post[q].phase = "new" /\ consent[f].record # None /\ UNCHANGED <<completed, grant>>
      BY <1>4 DEF ConsumeConsent, providerVars
    <2>2. AtPost(g, q)' => g = f
      <3>1. PICK p \in {"refused", "approved"} :
              post'[q] = [NewRequest EXCEPT !.phase = p, !.by = b, !.flow = f, !.props = consent[f].record.props]
        BY <1>4 DEF ConsumeConsent, SignInTypeOK
      <3>2. post'[q].flow = f
        BY <3>1 DEF NewRequest
      <3> QED
        BY <3>2 DEF AtPost
    <2>3. CASE g = f
      <3>1. consent'[f].record = None
        BY <1>4 DEF ConsumeConsent, Consume, Empty, SignInTypeOK
      <3>2. \A r \in Posts : AtPost(f, r)' => r = q
        BY <1>2, <2>1, <2>3 DEF OnePlace, AtPost
      <3> QED
        BY <1>1, <2>1, <2>3, <3>1, <3>2 DEF OnePlace, AtCallback
    <2>4. CASE g # f
      <3>1. consent'[g] = consent[g]
        BY <1>4, <2>4 DEF ConsumeConsent, SignInTypeOK
      <3>2. \A r \in Posts : AtPost(g, r)' => AtPost(g, r)
        BY <1>2, <2>2, <2>4 DEF AtPost
      <3> QED
        BY <1>1, <2>1, <3>1, <3>2, FewerPlaces DEF NoNewPlace, AtCallback
    <2> QED
      BY <2>3, <2>4
  <1>5. CASE Complete(q)
    <2> DEFINE f == post[q].flow
    <2>1. f \in Flows /\ AtPost(f, q) /\ UNCHANGED <<entry, consent>>
      BY <1>5, PostHasFlow DEF Complete, AtPost, stores
    <2>2. ~ AtPost(g, q)'
      <3>1. post'[q] = [NewRequest EXCEPT !.phase = "answered"]
        BY <1>5 DEF Complete, SignInTypeOK
      <3>2. post'[q].phase = "answered"
        BY <3>1 DEF NewRequest
      <3> QED
        BY <3>2 DEF AtPost
    <2>3. \A r \in Posts : AtPost(g, r)' => AtPost(g, r) /\ r # q
      BY <1>2, <2>2 DEF AtPost
    <2>4. CASE g = f
      <3>1. completed[f] = 0
        BY <2>1, <2>4 DEF OnePlace
      <3>2. completed'[f] = 1
        BY <1>5, <2>1, <3>1 DEF Complete, SignInTypeOK
      <3>3. \A r \in Posts : ~ AtPost(g, r)'
        BY <2>1, <2>3, <2>4 DEF OnePlace
      <3>4. state[f].record = None /\ consent[f].record = None /\ \A c \in Callbacks : ~ AtCallback(f, c)
        BY <2>1, <2>4 DEF OnePlace
      <3> QED
        BY <1>1, <2>1, <2>4, <3>2, <3>3, <3>4 DEF OnePlace, AtCallback
    <2>5. CASE g # f
      <3>1. completed'[g] = completed[g] /\ grant'[g] = grant[g]
        BY <1>5, <2>5 DEF Complete, SignInTypeOK
      <3> QED
        BY <1>1, <2>1, <2>3, <3>1, FewerPlaces DEF NoNewPlace, AtCallback
    <2> QED
      BY <2>4, <2>5
  <1> QED
    BY <1>3, <1>4, <1>5

\* Every step does.
LEMMA OnePlaceStep ==
  ASSUME SignInTypeOK, FlowsFit, OnePlaceEach, [Next]_vars
  PROVE  OnePlaceEach'
  <1>1. authMode' = authMode
    BY FlowsGoOnStep DEF FlowsGoOn, vars
  <1> SUFFICES ASSUME authMode = "oidc", NEW g \in Flows PROVE OnePlace(g)'
    BY <1>1 DEF OnePlaceEach
  <1>2. OnePlace(g)
    BY DEF OnePlaceEach
  <1>3. CASE WorldNext \/ UNCHANGED vars
    <2>1. UNCHANGED <<state, consent, callback, post, grant, completed>>
      BY <1>3 DEF WorldNext, Tick, RateRestart, TooMany, Stray, Regroup, vars, stores, providerVars
    <2> QED
      BY <1>2, <2>1 DEF OnePlace, AtCallback, AtPost
  <1>4. ASSUME NEW f \in Flows, ProviderNext(f) PROVE OnePlace(g)'
    <2>1. UNCHANGED <<state, consent, callback, post, completed>>
      BY <1>4 DEF ProviderNext, RedeemCode, Refresh, stores
    <2>2. grant'[g] # None => grant[g] # None
      BY <1>4 DEF ProviderNext, RedeemCode, Refresh, SignInTypeOK
    <2> QED
      BY <1>2, <2>1, <2>2, FewerPlaces DEF NoNewPlace, AtCallback, AtPost
  <1> QED
    BY <1>2, <1>3, <1>4, OnePlaceFlowStep, OnePlaceCallbackStep, OnePlacePostStep, Steps

-----------------------------------------------------------------------------
(***************************************************************************)
(* Authority stays vouched for.                                            *)
(***************************************************************************)

\* What a list of groups entitles to has a mode.
LEMMA EntitledModes ==
  ASSUME NEW groups, NEW e \in Entitled(groups)
  PROVE  e.mode \in Modes
  BY SignInAssumption DEF Entitled, Modes

\* Lists of one time on were lists of an earlier time on.
LEMMA ListedEarlier ==
  ASSUME SignInTypeOK, NEW p \in People, NEW t \in Int, NEW u \in Int, u <= t
  PROVE  ListedSince(p, t) \subseteq ListedSince(p, u)
  <1> DEFINE d == directory[p]
  <1>1. d \in Seq(Listing)
    BY DEF SignInTypeOK
  <1>2. \A j \in DOMAIN d : j # Len(d) => d[j + 1].since \in Nat
    <2>1. \A j \in DOMAIN d : j # Len(d) => d[j + 1] \in Listing
      BY <1>1
    <2> QED
      BY <2>1 DEF Listing
  <1> QED
    BY <1>2 DEF ListedSince

\* What is vouched for since a time is so since an earlier one, and less of it too.
LEMMA VouchedEarlier ==
  ASSUME SignInTypeOK, NEW p \in People, NEW mode \in Modes, NEW policy, NEW t \in Int, NEW u \in Int,
         u <= t, Vouched(p, mode, policy, t), NEW less \in Modes, less <= mode
  PROVE  Vouched(p, less, policy, u)
  <1>1. PICK groups \in ListedSince(p, t) : \E e \in Entitled(groups) : mode <= e.mode /\ policy = e.policy
    BY DEF Vouched
  <1>2. PICK e \in Entitled(groups) : mode <= e.mode /\ policy = e.policy
    BY <1>1
  <1>3. e.mode \in Modes
    BY EntitledModes
  <1>4. less <= e.mode
    BY <1>2, <1>3 DEF Modes
  <1>5. groups \in ListedSince(p, u)
    BY <1>1, ListedEarlier
  <1> QED
    BY <1>2, <1>4, <1>5 DEF Vouched

\* No step forgets a list that held at a time that has been.
ListsGoOn ==
  /\ now' \in Nat /\ now <= now'
  /\ \A p \in People, t \in Int : t <= now => ListedSince(p, t) \subseteq ListedSince(p, t)'

\* Every step keeps the lists that held.
LEMMA ListsGoOnStep == ASSUME SignInTypeOK, [Next]_vars PROVE ListsGoOn
  <1>0. now \in Nat
    BY DEF SignInTypeOK
  <1>1. ASSUME UNCHANGED directory, now' = now \/ now' = now + 1 PROVE ListsGoOn
    BY <1>0, <1>1 DEF ListsGoOn, ListedSince
  <1>2. CASE WorldNext
    <2>1. CASE Tick
      BY <1>1, <2>1 DEF Tick, Rate!Tick
    <2>2. CASE RateRestart \/ \E b \in Browsers : TooMany(b) \/ Stray(b)
      BY <1>1, <2>2, ClockStands DEF RateRestart, TooMany, Stray, vars
    <2>3. ASSUME NEW p \in People, NEW list \in GroupLists, Regroup(p, list) PROVE ListsGoOn
      <3>1. now' = now
        BY <2>3 DEF Regroup
      <3>2. directory' = [directory EXCEPT ![p] = Append(directory[p], [groups |-> list, since |-> now])]
        BY <2>3 DEF Regroup
      <3>3. ASSUME NEW r \in People, NEW t \in Int, t <= now PROVE ListedSince(r, t) \subseteq ListedSince(r, t)'
        <4>1. CASE r # p
          BY <3>2, <4>1 DEF SignInTypeOK, ListedSince
        <4>2. CASE r = p
          <5> DEFINE d == directory[p]
                     e == Append(d, [groups |-> list, since |-> now])
          <5>1. d \in Seq(Listing) /\ directory'[p] = e
            BY <3>2 DEF SignInTypeOK
          <5>2. /\ DOMAIN d = 1..Len(d) /\ Len(d) \in Nat /\ DOMAIN e = 1..(Len(d) + 1) /\ Len(e) = Len(d) + 1
                /\ \A i \in 1..Len(d) : e[i] = d[i]
                /\ e[Len(d) + 1].since = now
            BY <5>1
          <5>3. ASSUME NEW i \in 1..Len(d), i = Len(d) \/ d[i + 1].since >= t
                PROVE  i \in 1..Len(e) /\ e[i + 1].since >= t /\ e[i] = d[i]
            <6>1. CASE i = Len(d)
              BY <1>0, <3>3, <5>2, <6>1
            <6>2. CASE i # Len(d)
              BY <5>2, <5>3, <6>2
            <6> QED
              BY <6>1, <6>2
          <5> HIDE DEF d, e
          <5>4. ListedSince(p, t) = {d[i].groups : i \in {j \in 1..Len(d) : j = Len(d) \/ d[j + 1].since >= t}}
            BY <5>2 DEF ListedSince, d
          <5>5. ListedSince(p, t)' = {e[i].groups : i \in {j \in 1..Len(e) : j = Len(e) \/ e[j + 1].since >= t}}
            BY <5>1, <5>2 DEF ListedSince
          <5> QED
            BY <4>2, <5>3, <5>4, <5>5
        <4> QED
          BY <4>1, <4>2
      <3> QED
        BY <1>0, <3>1, <3>3 DEF ListsGoOn
    <2> QED
      BY <1>2, <2>1, <2>2, <2>3 DEF WorldNext
  <1>3. CASE UNCHANGED vars
    BY <1>1, <1>3 DEF vars
  <1>4. ASSUME NEW f \in Flows, FlowNext(f) PROVE ListsGoOn
    <2>1. UNCHANGED directory /\ now' = now
      BY <1>4, ClockStands DEF FlowNext, StartOidc, ShowPage, AlarmOf, Authorize, SignInAtProvider
    <2> QED
      BY <1>1, <2>1
  <1>5. ASSUME NEW f \in Flows, ProviderNext(f) PROVE ListsGoOn
    BY <1>1, <1>5 DEF ProviderNext, RedeemCode, Refresh
  <1>6. ASSUME NEW c \in Callbacks, CallbackNext(c) PROVE ListsGoOn
    BY <1>1, <1>6 DEF CallbackNext, ConsumeState, ExchangeCode, AskConsent
  <1>7. ASSUME NEW q \in Posts, PostNext(q) PROVE ListsGoOn
    <2>1. UNCHANGED directory /\ now' = now
      BY <1>7, ClockStands DEF PostNext, ConsumeConsent, ReadEntry, CheckSecret, BurnEntry, Complete
    <2> QED
      BY <1>1, <2>1
  <1> QED
    BY <1>2, <1>3, <1>4, <1>5, <1>6, <1>7, Steps

\* What is vouched for goes on being so.
LEMMA VouchedGoesOn ==
  ASSUME SignInTypeOK, ListsGoOn, NEW p \in People, NEW mode, NEW policy, NEW t \in Int, t <= now,
         Vouched(p, mode, policy, t)
  PROVE  Vouched(p, mode, policy, t)'
  BY DEF ListsGoOn, Vouched

\* Authority that is carried goes on being vouched for.
LEMMA CarriedGoesOn ==
  ASSUME SignInTypeOK, FlowsGoOn, ListsGoOn, NEW f \in Flows, NEW x, NEW t \in Int, Carried(f, x, t)
  PROVE  Carried(f, x, t)'
  <1>1. now \in Nat /\ now' \in Nat /\ now <= now' /\ t <= now
    BY DEF SignInTypeOK, ListsGoOn, Carried
  <1>2. authMode' = authMode
    BY DEF FlowsGoOn
  <1>3. CASE authMode = "oidc"
    <2>1. x.user \in People /\ x.user = flow[f].signer /\ Vouched(x.user, x.mode, x.policy, t)
      BY <1>3 DEF Carried
    <2>2. flow'[f].signer = flow[f].signer
      BY <2>1, Parameters DEF FlowsGoOn
    <2>3. Vouched(x.user, x.mode, x.policy, t)'
      BY <1>1, <2>1, VouchedGoesOn
    <2> QED
      BY <1>1, <1>2, <1>3, <2>1, <2>2, <2>3 DEF Carried
  <1>4. CASE authMode # "oidc"
    BY <1>1, <1>2, <1>4 DEF Carried
  <1> QED
    BY <1>3, <1>4

\* What is vouched for since t was so since any earlier time.
LEMMA CarriedEarlier ==
  ASSUME SignInTypeOK, NEW f, NEW x, NEW t \in Int, NEW u \in Int, u <= t, Carried(f, x, t)
  PROVE  Carried(f, x, u)
  <1>1. now \in Nat /\ x \in Properties /\ x.mode \in Modes
    BY DEF SignInTypeOK, Carried, Properties
  <1>2. authMode = "oidc" => Vouched(x.user, x.mode, x.policy, u)
    BY <1>1, VouchedEarlier DEF Carried, Modes
  <1> QED
    BY <1>1, <1>2 DEF Carried

\* The claims of a signer are vouched for by the groups of the moment.
LEMMA ClaimsAreCarried ==
  ASSUME SignInTypeOK, NEW f \in Flows, NEW p \in People, NEW refresh \in BOOLEAN,
         CurrentPolicy(p) # Ambiguous, authMode = "oidc", p = flow[f].signer
  PROVE  Carried(f, PropsFromClaims(f, p, refresh), now)
  <1> DEFINE d == directory[p]
             groups == Last(d).groups
             best == CurrentPolicy(p)
             x == PropsFromClaims(f, p, refresh)
  <1>1. d \in Seq(Listing) /\ d # <<>> /\ now \in Nat
    BY DEF SignInTypeOK
  <1>2. Last(d) \in Listing /\ Last(d) = d[Len(d)] /\ Len(d) \in DOMAIN d
    BY <1>1 DEF Last
  <1>3. groups \in ListedSince(p, now)
    BY <1>2 DEF ListedSince
  <1>4. groups \in GroupLists
    BY <1>2 DEF Listing
  <1>5. best \in Entitled(groups) /\ best.mode \in Modes
    BY <1>4, BestIsEntitled DEF CurrentPolicy
  <1>6. ScopeMode[f] \in Modes
    BY Parameters
  <1>7. /\ x \in Properties /\ x.user = p /\ x.policy = best.policy
        /\ x.mode = Least(ScopeMode[f], best.mode)
    BY ClaimsFit DEF PropsFromClaims
  <1>8. x.mode <= ScopeMode[f] /\ x.mode <= best.mode
    BY <1>5, <1>6, <1>7 DEF Least, Modes
  <1>9. Vouched(p, x.mode, x.policy, now)
    BY <1>3, <1>5, <1>7, <1>8 DEF Vouched
  <1> QED
    BY <1>1, <1>7, <1>8, <1>9 DEF Carried

\* What holds of each place, and what the steps keep.
CallbacksCarry ==
  \A c \in Callbacks : callback[c].phase = "exchanged" =>
    Carried(callback[c].flow, callback[c].props, now)
ConsentsCarry ==
  \A f \in Flows : consent[f].record # None =>
    Carried(f, consent[f].record.props, consent[f].record.expiresAt - Ttl)
PostsCarry ==
  \A q \in Posts : post[q].phase = "approved" => Carried(post[q].flow, post[q].props, now - Ttl)
GrantsCarry ==
  \A f \in Flows : grant[f] # None =>
    Carried(f, grant[f].props, grant[f].at - Ttl) /\ grant[f].by = flow[f].by
TokensVouched == \A t \in tokens : TokenIsVouched(t)

\* The parts of AllVouched by their names.
LEMMA AllVouchedIs ==
  AllVouched <=> CallbacksCarry /\ ConsentsCarry /\ PostsCarry /\ GrantsCarry /\ TokensVouched
  BY DEF AllVouched, CallbacksCarry, ConsentsCarry, PostsCarry, GrantsCarry, TokensVouched

\* Time passes only when nothing waits for storage alone.
LEMMA TimeStep ==
  ASSUME SignInTypeOK, [Next]_vars
  PROVE  now' = now \/ (Tick /\ Prompt)
  <1>1. WorldNext => now' = now \/ (Tick /\ Prompt)
    BY ClockStands DEF WorldNext, Tick, RateRestart, TooMany, Stray, Regroup, vars
  <1>2. \A f \in Flows : FlowNext(f) \/ ProviderNext(f) => now' = now
    BY ClockStands DEF FlowNext, StartOidc, ShowPage, AlarmOf, Authorize, SignInAtProvider,
       ProviderNext, RedeemCode, Refresh
  <1>3. \A c \in Callbacks : CallbackNext(c) => now' = now
    BY DEF CallbackNext, ConsumeState, ExchangeCode, AskConsent
  <1>4. \A q \in Posts : PostNext(q) => now' = now
    BY ClockStands DEF PostNext, ConsumeConsent, ReadEntry, CheckSecret, BurnEntry, Complete
  <1>5. UNCHANGED vars => now' = now
    BY DEF vars
  <1> QED
    BY <1>1, <1>2, <1>3, <1>4, <1>5, Steps

\* Every step keeps what callbacks carry: the claims of the exchange are those of the moment.
LEMMA CallbacksCarryStep ==
  ASSUME SignInTypeOK, FlowsFit, FlowsGoOn, ListsGoOn, CallbacksCarry, [Next]_vars
  PROVE  CallbacksCarry'
  <1> SUFFICES ASSUME NEW c \in Callbacks, callback'[c].phase = "exchanged"
               PROVE  Carried(callback[c].flow, callback[c].props, now)'
    BY DEF CallbacksCarry
  <1>1. now \in Int
    BY DEF SignInTypeOK
  <1>2. ASSUME callback'[c] = callback[c] PROVE Carried(callback[c].flow, callback[c].props, now)'
    <2>1. callback[c].flow \in Flows /\ Carried(callback[c].flow, callback[c].props, now)
      BY <1>2 DEF CallbacksCarry, FlowsFit, CallbackFits, Belongs
    <2>2. now' = now
      BY <1>2, TimeStep DEF Prompt
    <2> DEFINE f == callback[c].flow
               x == callback[c].props
    <2>3. ASSUME NEW g \in Flows, NEW y, g = f, y = x PROVE Carried(g, y, now)'
      <3>1. PICK t \in Int : t = now
        BY <1>1
      <3>2. Carried(g, y, t)'
        BY <2>1, <2>3, <3>1, CarriedGoesOn
      <3> QED
        BY <2>2, <3>1, <3>2 DEF Carried
    <2>4. PICK g, y : g = f /\ y = x
      OBVIOUS
    <2>5. Carried(g, y, now)'
      BY <2>1, <2>3, <2>4
    <2> QED
      BY <1>2, <2>4, <2>5 DEF Carried
  <1>3. CASE callback'[c] # callback[c]
    <2>1. CallbackNext(c)
      <3>1. UNCHANGED callback \/ \E d \in Callbacks : CallbackNext(d)
        BY Steps DEF WorldNext, Tick, RateRestart, TooMany, Stray, Regroup, vars, FlowNext, StartOidc, ShowPage,
           AlarmOf, Authorize, SignInAtProvider, ProviderNext, RedeemCode, Refresh,
           PostNext, ConsumeConsent, ReadEntry, CheckSecret, BurnEntry, Complete
      <3>2. ASSUME NEW d \in Callbacks, d # c, CallbackNext(d) PROVE callback'[c] = callback[c]
        BY <3>2 DEF CallbackNext, ConsumeState, ExchangeCode, AskConsent, SignInTypeOK
      <3> QED
        BY <1>3, <3>1, <3>2
    <2>2. ExchangeCode(c)
      <3>1. ASSUME NEW b \in Browsers, NEW f \in Flows, NEW code \in Flows \cup {None}, ConsumeState(c, b, f, code)
            PROVE  FALSE
        <4>1. PICK p \in {"refused", "consumed"} :
                callback'[c] = [NewRequest EXCEPT !.phase = p, !.by = b, !.flow = f, !.code = code]
          BY <3>1 DEF ConsumeState, SignInTypeOK
        <4>2. callback'[c].phase = p
          BY <4>1 DEF NewRequest
        <4> QED
          BY <4>2
      <3>2. ASSUME AskConsent(c) PROVE FALSE
        <4>1. callback'[c] = [NewRequest EXCEPT !.phase = "answered"]
          BY <3>2 DEF AskConsent, SignInTypeOK
        <4>2. callback'[c].phase = "answered"
          BY <4>1 DEF NewRequest
        <4> QED
          BY <4>2
      <3> QED
        BY <2>1, <3>1, <3>2 DEF CallbackNext
    <2> DEFINE f == callback[c].flow
               p == flow[f].signer
    <2>3. /\ callback[c] \in RequestType /\ callback[c].code = f
          /\ f \in Flows /\ flow[f] \in FlowType /\ p # None /\ authMode = "oidc"
      BY <2>2, Members, Parameters DEF ExchangeCode, FlowsFit, CallbackFits, Belongs
    <2>4. p \in People
      BY <2>3 DEF FlowType
    <2>5. PICK refresh \in BOOLEAN :
            callback'[c] = IF CurrentPolicy(p) = Ambiguous THEN [callback[c] EXCEPT !.phase = "refused"]
                           ELSE [callback[c] EXCEPT !.phase = "exchanged", !.props = PropsFromClaims(f, p, refresh)]
      BY <2>2 DEF ExchangeCode, SignInTypeOK
    <2>6. CurrentPolicy(p) # Ambiguous
      <3>1. [callback[c] EXCEPT !.phase = "refused"].phase = "refused"
        BY <2>3 DEF RequestType
      <3> QED
        BY <2>5, <3>1
    <2>7. callback'[c].flow = f /\ callback'[c].props = PropsFromClaims(f, p, refresh)
      <3>1. \A x : LET k == [callback[c] EXCEPT !.phase = "exchanged", !.props = x] IN k.flow = f /\ k.props = x
        BY <2>3 DEF RequestType
      <3> QED
        BY <2>5, <2>6, <3>1
    <2>8. Carried(f, PropsFromClaims(f, p, refresh), now)
      BY <2>3, <2>4, <2>6, ClaimsAreCarried
    <2>9. now' = now
      BY <2>2 DEF ExchangeCode
    <2>10. PICK y : y = PropsFromClaims(f, p, refresh)
      OBVIOUS
    <2>11. PICK g : g = f
      OBVIOUS
    <2>12. Carried(g, y, now)'
      <3>1. PICK t \in Int : t = now
        BY <1>1
      <3>2. Carried(g, y, t)'
        BY <2>3, <2>8, <2>10, <2>11, <3>1, CarriedGoesOn
      <3> QED
        BY <2>9, <3>1, <3>2 DEF Carried
    <2> QED
      BY <2>7, <2>10, <2>11, <2>12 DEF Carried
  <1> QED
    BY <1>2, <1>3

\* Authority that is carried since t is so since an earlier u after the step too.
LEMMA CarriedOn ==
  ASSUME SignInTypeOK, SignInTypeOK', FlowsGoOn, ListsGoOn, NEW f \in Flows, NEW x,
         NEW t \in Int, NEW u \in Int, u <= t, Carried(f, x, t)
  PROVE  Carried(f, x, u)'
  BY CarriedEarlier, CarriedGoesOn

\* Every step keeps what consent records carry, from the callback that made them.
LEMMA ConsentsCarryStep ==
  ASSUME SignInTypeOK, SignInTypeOK', FlowsFit, FlowsGoOn, ListsGoOn, CallbacksCarry, ConsentsCarry,
         [Next]_vars
  PROVE  ConsentsCarry'
  <1> SUFFICES ASSUME NEW f \in Flows, consent'[f].record # None
               PROVE  Carried(f, consent[f].record.props, consent[f].record.expiresAt - Ttl)'
    BY DEF ConsentsCarry
  <1>1. now \in Int /\ Ttl \in Int
    BY Parameters DEF SignInTypeOK
  <1>2. ASSUME consent'[f].record = consent[f].record
        PROVE  Carried(f, consent[f].record.props, consent[f].record.expiresAt - Ttl)'
    <2>1. consent[f].record \in ConsentRecords
      BY <1>2, Members
    <2>2. PICK t \in Int : t = consent[f].record.expiresAt - Ttl
      BY <1>1, <2>1 DEF ConsentRecords
    <2>3. PICK y : y = consent[f].record.props
      OBVIOUS
    <2>4. Carried(f, y, t)
      BY <1>2, <2>2, <2>3 DEF ConsentsCarry
    <2>5. Carried(f, y, t)'
      BY <2>4, CarriedGoesOn
    <2> QED
      BY <1>2, <2>2, <2>3, <2>5 DEF Carried
  <1>3. CASE consent'[f].record # consent[f].record
    <2>1. PICK c \in Callbacks : AskConsent(c)
      <3>1. CASE WorldNext \/ UNCHANGED vars
        BY <1>3, <3>1 DEF WorldNext, Tick, RateRestart, TooMany, Stray, Regroup, vars, stores
      <3>2. ASSUME NEW g \in Flows, FlowNext(g) \/ ProviderNext(g) PROVE FALSE
        <4>1. CASE AlarmOf(g)
          <5>1. consent' = [consent EXCEPT ![g] = CleanupExpired(consent[g], now)]
            BY <4>1 DEF AlarmOf
          <5>2. consent[f] \in ObjectType(ConsentRecords)
            BY DEF SignInTypeOK
          <5>3. CleanupExpired(consent[f], now).record \in {consent[f].record, None}
            BY <5>2 DEF CleanupExpired, Empty, ObjectType
          <5>4. consent'[f] \in {consent[f], CleanupExpired(consent[f], now)}
            BY <5>1 DEF SignInTypeOK
          <5> QED
            BY <1>3, <5>3, <5>4
        <4>2. ~ AlarmOf(g) => UNCHANGED consent
          BY <3>2 DEF FlowNext, StartOidc, ShowPage, Authorize, SignInAtProvider,
             ProviderNext, RedeemCode, Refresh, stores
        <4> QED
          BY <1>3, <4>1, <4>2
      <3>3. ASSUME NEW q \in Posts, PostNext(q) PROVE FALSE
        <4>1. ASSUME NEW b \in Browsers, NEW g \in Flows, ConsumeConsent(q, b, g) PROVE FALSE
          BY <1>3, <4>1 DEF ConsumeConsent, SignInTypeOK, Consume, Empty
        <4>2. UNCHANGED consent \/ \E b \in Browsers, g \in Flows : ConsumeConsent(q, b, g)
          BY <3>3 DEF PostNext, ReadEntry, CheckSecret, BurnEntry, Complete, stores
        <4> QED
          BY <1>3, <4>1, <4>2
      <3>4. ASSUME NEW c \in Callbacks, CallbackNext(c), ~ AskConsent(c) PROVE FALSE
        BY <1>3, <3>4 DEF CallbackNext, ConsumeState, ExchangeCode, stores
      <3> QED
        BY <3>1, <3>2, <3>3, <3>4, Steps
    <2> DEFINE g == callback[c].flow
               props == callback[c].props
    <2>2. g \in Flows /\ Carried(g, props, now)
      BY <2>1 DEF AskConsent, FlowsFit, CallbackFits, Belongs, CallbacksCarry
    <2>3. consent' = [consent EXCEPT ![g] = Create([props |-> props, expiresAt |-> now + Ttl])]
      BY <2>1 DEF AskConsent
    <2>4. g = f
      BY <1>3, <2>3 DEF SignInTypeOK
    <2>5. consent'[f] = Create([props |-> props, expiresAt |-> now + Ttl])
      BY <2>3, <2>4 DEF SignInTypeOK
    <2>6. consent'[f].record.props = props /\ consent'[f].record.expiresAt = now + Ttl
      BY <2>5 DEF Create
    <2>7. PICK y : y = props
      OBVIOUS
    <2>8. PICK t \in Int : t = now
      BY <1>1
    <2>9. Carried(f, y, t)'
      BY <2>2, <2>4, <2>7, <2>8, CarriedGoesOn
    <2>10. t = consent'[f].record.expiresAt - Ttl
      BY <1>1, <2>6, <2>8
    <2> QED
      BY <2>6, <2>7, <2>9, <2>10 DEF Carried
  <1> QED
    BY <1>2, <1>3

\* Every step keeps what approved posts carry: a consent no older than Ttl, or the operator's all.
LEMMA PostsCarryStep ==
  ASSUME SignInTypeOK, SignInTypeOK', FlowsFit, FlowsGoOn, ListsGoOn, ConsentsCarry, PostsCarry,
         [Next]_vars
  PROVE  PostsCarry'
  <1> SUFFICES ASSUME NEW q \in Posts, post'[q].phase = "approved"
               PROVE  Carried(post[q].flow, post[q].props, now - Ttl)'
    BY DEF PostsCarry
  <1>1. now \in Int /\ Ttl \in Nat
    BY Parameters DEF SignInTypeOK
  <1>2. ASSUME NEW f \in Flows, NEW y, NEW t \in Int, Carried(f, y, t), now - Ttl <= t, now' = now,
               post'[q].flow = f, post'[q].props = y
        PROVE  Carried(post[q].flow, post[q].props, now - Ttl)'
    <2>1. PICK u \in Int : u = now - Ttl
      BY <1>1
    <2>2. Carried(f, y, u)'
      BY <1>2, <2>1, CarriedOn
    <2> QED
      BY <1>2, <2>1, <2>2 DEF Carried
  <1>3. CASE post'[q] = post[q]
    <2>1. post[q].flow \in Flows /\ Carried(post[q].flow, post[q].props, now - Ttl)
      BY <1>3 DEF PostsCarry, FlowsFit, PostFits, Belongs
    <2>2. now' = now
      BY <1>3, TimeStep DEF Prompt
    <2>3. now - Ttl \in Int
      BY <1>1
    <2> QED
      BY <1>1, <1>2, <1>3, <2>1, <2>2, <2>3
  <1>4. CASE post'[q] # post[q]
    <2>1. PostNext(q)
      <3>1. UNCHANGED post \/ \E r \in Posts : PostNext(r)
        BY Steps DEF WorldNext, Tick, RateRestart, TooMany, Stray, Regroup, vars, FlowNext, StartOidc, ShowPage,
           AlarmOf, Authorize, SignInAtProvider, ProviderNext, RedeemCode, Refresh,
           CallbackNext, ConsumeState, ExchangeCode, AskConsent
      <3>2. ASSUME NEW r \in Posts, r # q, PostNext(r) PROVE post'[q] = post[q]
        BY <3>2 DEF PostNext, ConsumeConsent, ReadEntry, CheckSecret, BurnEntry, Complete, SignInTypeOK
      <3> QED
        BY <1>4, <3>1, <3>2
    <2>2. post[q] \in RequestType
      BY Members
    <2>3. ASSUME NEW b \in Browsers, NEW f \in Flows, ConsumeConsent(q, b, f)
          PROVE  Carried(post[q].flow, post[q].props, now - Ttl)'
      <3> DEFINE record == consent[f].record
      <3>1. PICK p \in {"refused", "approved"} :
              /\ p = IF now > record.expiresAt THEN "refused" ELSE "approved"
              /\ post'[q] = [NewRequest EXCEPT !.phase = p, !.by = b, !.flow = f, !.props = record.props]
        BY <2>3 DEF ConsumeConsent, SignInTypeOK
      <3>2. post'[q].phase = p /\ post'[q].flow = f /\ post'[q].props = record.props
        BY <3>1 DEF NewRequest
      <3>3. record \in ConsentRecords
        BY <2>3, Members DEF ConsumeConsent
      <3>4. record.expiresAt \in Nat /\ now <= record.expiresAt
        BY <1>1, <3>1, <3>2, <3>3 DEF ConsentRecords
      <3>5. Carried(f, record.props, record.expiresAt - Ttl)
        BY <2>3 DEF ConsumeConsent, ConsentsCarry
      <3>6. now' = now
        BY <2>3 DEF ConsumeConsent
      <3>7. record.expiresAt - Ttl \in Int /\ now - Ttl <= record.expiresAt - Ttl
        BY <1>1, <3>4
      <3> QED
        BY <1>2, <3>2, <3>5, <3>6, <3>7
    <2>4. CASE BurnEntry(q)
      <3> DEFINE f == post[q].flow
                 x == OperatorProps(f)
      <3>1. f \in Flows /\ authMode # "oidc"
        BY <2>4 DEF BurnEntry, FlowsFit, PostFits, Belongs
      <3>2. post'[q] = [post[q] EXCEPT !.phase = "approved", !.props = x]
        BY <2>4 DEF BurnEntry, SignInTypeOK
      <3>3. post'[q].flow = f /\ post'[q].props = x
        <4>1. \A y : LET k == [post[q] EXCEPT !.phase = "approved", !.props = y] IN k.flow = f /\ k.props = y
          BY <2>2 DEF RequestType
        <4> QED
          BY <3>2, <4>1
      <3>4. Carried(f, x, now)
        <4>1. x.user = Operator /\ x.mode = ScopeMode[f] /\ ScopeMode[f] \in Modes
          BY <3>1, Parameters DEF OperatorProps
        <4>2. x \in Properties
          BY <3>1, <4>1 DEF OperatorProps, Properties, Policies
        <4> QED
          BY <1>1, <3>1, <4>1, <4>2 DEF Carried, Modes
      <3>5. now' = now /\ now - Ttl <= now
        BY <1>1, <2>4 DEF BurnEntry
      <3> QED
        BY <1>1, <1>2, <3>1, <3>3, <3>4, <3>5
    <2>5. ASSUME NEW b \in Browsers, NEW f \in Flows, ReadEntry(q, b, f) PROVE FALSE
      <3>1. post'[q] = [NewRequest EXCEPT !.phase = "read", !.by = b, !.flow = f]
        BY <2>5 DEF ReadEntry, SignInTypeOK
      <3> QED
        BY <3>1 DEF NewRequest
    <2>6. ASSUME NEW right \in BOOLEAN, CheckSecret(q, right) PROVE FALSE
      <3>1. post'[q] \in {[post[q] EXCEPT !.phase = "proven"], NewRequest}
        BY <2>6 DEF CheckSecret, SignInTypeOK
      <3>2. [post[q] EXCEPT !.phase = "proven"].phase = "proven" /\ NewRequest.phase = "new"
        BY <2>2 DEF RequestType, NewRequest
      <3> QED
        BY <3>1, <3>2
    <2>7. CASE Complete(q)
      <3>1. post'[q] = [NewRequest EXCEPT !.phase = "answered"]
        BY <2>7 DEF Complete, SignInTypeOK
      <3> QED
        BY <3>1 DEF NewRequest
    <2> QED
      BY <2>1, <2>3, <2>4, <2>5, <2>6, <2>7 DEF PostNext
  <1> QED
    BY <1>3, <1>4

\* A refresh reads the claims again: they are vouched for at the moment.
LEMMA RefreshIsCarried ==
  ASSUME SignInTypeOK, FlowsFit, GrantsCarry, NEW f \in Flows, NEW requested \in Modes,
         Refresh(f, requested)
  PROVE  Carried(f, RefreshedProps(f), now)
  <1>1. Carried(f, grant[f].props, grant[f].at - Ttl)
    BY DEF Refresh, GrantsCarry
  <1>2. CASE authMode = "oidc"
    <2> DEFINE p == grant[f].props.user
    <2>1. p \in People /\ p = flow[f].signer
      BY <1>1, <1>2 DEF Carried
    <2>2. CurrentPolicy(p) # Ambiguous
      BY <1>2 DEF Refresh
    <2>3. RefreshedProps(f) = PropsFromClaims(f, p, TRUE)
      BY <1>2 DEF RefreshedProps
    <2> QED
      BY <1>2, <2>1, <2>2, <2>3, ClaimsAreCarried
  <1>3. CASE authMode # "oidc"
    <2>1. RefreshedProps(f) = grant[f].props /\ now \in Nat
      BY <1>3 DEF RefreshedProps, SignInTypeOK
    <2> QED
      BY <1>1, <1>3, <2>1 DEF Carried
  <1> QED
    BY <1>2, <1>3

\* Every step keeps what grants carry, approved in the browser of their flow.
LEMMA GrantsCarryStep ==
  ASSUME SignInTypeOK, SignInTypeOK', FlowsFit, FlowsGoOn, ListsGoOn, PostsCarry, GrantsCarry,
         [Next]_vars
  PROVE  GrantsCarry'
  <1> SUFFICES ASSUME NEW f \in Flows, grant'[f] # None
               PROVE  (Carried(f, grant[f].props, grant[f].at - Ttl) /\ grant[f].by = flow[f].by)'
    BY DEF GrantsCarry
  <1>1. now \in Nat /\ Ttl \in Nat
    BY Parameters DEF SignInTypeOK
  <1>2. ASSUME NEW y, NEW t \in Int, NEW u \in Int, Carried(f, y, t), u <= t,
               grant'[f].props = y, grant'[f].at - Ttl = u, grant'[f].by = flow[f].by,
               flow[f].phase = "started"
        PROVE  (Carried(f, grant[f].props, grant[f].at - Ttl) /\ grant[f].by = flow[f].by)'
    <2>1. Carried(f, y, u)'
      BY <1>2, CarriedOn
    <2>2. flow'[f].by = flow[f].by
      BY <1>2 DEF FlowsGoOn
    <2> QED
      BY <1>2, <2>1, <2>2 DEF Carried
  <1>3. ASSUME grant[f] # None
        PROVE  /\ grant[f] \in GrantType /\ grant[f].at \in Nat /\ grant[f].by = flow[f].by
               /\ flow[f].phase = "started" /\ Carried(f, grant[f].props, grant[f].at - Ttl)
    <2>1. grant[f] \in GrantType
      BY <1>3, Members
    <2> QED
      BY <1>3, <2>1 DEF GrantType, FlowsFit, FlowFits, GrantsCarry
  <1>4. CASE grant'[f] = grant[f]
    <2>1. grant[f].at - Ttl \in Int /\ grant[f].at - Ttl <= grant[f].at - Ttl
      BY <1>1, <1>3, <1>4
    <2> QED
      BY <1>2, <1>3, <1>4, <2>1
  <1>5. CASE grant'[f] # grant[f]
    <2>1. (\E q \in Posts : Complete(q) /\ post[q].flow = f) \/ ProviderNext(f)
      <3>1. CASE WorldNext \/ UNCHANGED vars
        BY <1>5, <3>1 DEF WorldNext, Tick, RateRestart, TooMany, Stray, Regroup, vars, providerVars
      <3>2. ASSUME NEW g \in Flows, FlowNext(g) PROVE FALSE
        BY <1>5, <3>2 DEF FlowNext, StartOidc, ShowPage, AlarmOf, Authorize, SignInAtProvider, providerVars
      <3>3. ASSUME NEW g \in Flows, ProviderNext(g) PROVE g = f
        BY <1>5, <3>3 DEF ProviderNext, RedeemCode, Refresh, SignInTypeOK
      <3>4. ASSUME NEW c \in Callbacks, CallbackNext(c) PROVE FALSE
        BY <1>5, <3>4 DEF CallbackNext, ConsumeState, ExchangeCode, AskConsent, providerVars
      <3>5. ASSUME NEW q \in Posts, PostNext(q) PROVE Complete(q) /\ post[q].flow = f
        <4>1. Complete(q)
          BY <1>5, <3>5 DEF PostNext, ConsumeConsent, ReadEntry, CheckSecret, BurnEntry, providerVars
        <4>2. post[q].flow = f
          BY <1>5, <4>1 DEF Complete, SignInTypeOK
        <4> QED
          BY <4>1, <4>2
      <3> QED
        BY <3>1, <3>2, <3>3, <3>4, <3>5, Steps
    <2>2. ASSUME NEW q \in Posts, Complete(q), post[q].flow = f
          PROVE  (Carried(f, grant[f].props, grant[f].at - Ttl) /\ grant[f].by = flow[f].by)'
      <3>1. grant'[f] = [props |-> post[q].props, at |-> now, by |-> post[q].by, redeemed |-> FALSE]
        BY <2>2 DEF Complete, SignInTypeOK
      <3>2. grant'[f].props = post[q].props /\ grant'[f].at = now /\ grant'[f].by = post[q].by
        BY <3>1
      <3>3. post[q].by = flow[f].by /\ flow[f].phase = "started"
        BY <2>2 DEF Complete, FlowsFit, PostFits, Belongs
      <3>4. Carried(f, post[q].props, now - Ttl)
        BY <2>2 DEF Complete, PostsCarry
      <3>5. now - Ttl \in Int /\ now - Ttl <= now - Ttl
        BY <1>1
      <3> QED
        BY <1>2, <3>2, <3>3, <3>4, <3>5
    <2>3. ASSUME NEW requested \in Modes, RedeemCode(f, requested)
          PROVE  (Carried(f, grant[f].props, grant[f].at - Ttl) /\ grant[f].by = flow[f].by)'
      <3>1. grant[f] # None
        BY <2>3 DEF RedeemCode
      <3>2. grant'[f] = [grant[f] EXCEPT !.redeemed = TRUE]
        BY <2>3 DEF RedeemCode, SignInTypeOK
      <3>3. grant'[f].props = grant[f].props /\ grant'[f].at = grant[f].at /\ grant'[f].by = grant[f].by
        BY <1>3, <3>1, <3>2 DEF GrantType
      <3>4. grant[f].at - Ttl \in Int /\ grant[f].at - Ttl <= grant[f].at - Ttl
        BY <1>1, <1>3, <3>1
      <3> QED
        BY <1>2, <1>3, <3>1, <3>3, <3>4
    <2>4. ASSUME NEW requested \in Modes, Refresh(f, requested)
          PROVE  (Carried(f, grant[f].props, grant[f].at - Ttl) /\ grant[f].by = flow[f].by)'
      <3>1. grant[f] # None
        BY <2>4 DEF Refresh
      <3>2. grant'[f] = [grant[f] EXCEPT !.props = RefreshedProps(f)]
        BY <2>4 DEF Refresh, SignInTypeOK
      <3>3. grant'[f].props = RefreshedProps(f) /\ grant'[f].at = grant[f].at /\ grant'[f].by = grant[f].by
        BY <1>3, <3>1, <3>2 DEF GrantType
      <3>4. grant[f].at - Ttl \in Int /\ grant[f].at - Ttl <= now
        BY <1>1, <1>3, <3>1 DEF Carried
      <3>5. Carried(f, RefreshedProps(f), now)
        BY <2>4, RefreshIsCarried
      <3> QED
        BY <1>1, <1>2, <1>3, <3>1, <3>3, <3>4, <3>5
    <2> QED
      BY <2>1, <2>2, <2>3, <2>4 DEF ProviderNext
  <1> QED
    BY <1>4, <1>5

\* What is minted for a flow is vouched for, when its properties are vouched
\* for since one consent and one code lifetime ago.
LEMMA MintedIsVouched ==
  ASSUME SignInTypeOK, NEW f \in Flows, NEW x, NEW u \in Int, Carried(f, x, u),
         now - 2 * Ttl <= u, NEW requested \in Modes
  PROVE  TokenIsVouched(Minted(f, x, requested))
  <1> DEFINE m == Minted(f, x, requested)
             least == TokenMode(x, requested)
             w == m.exp - (2 * Ttl + AccessTtl)
  <1>1. now \in Nat /\ Ttl \in Nat /\ AccessTtl \in Nat \ {0} /\ ScopeMode[f] \in Modes
    BY Parameters DEF SignInTypeOK
  <1>2. m.flow = f /\ m.user = x.user /\ m.policy = x.policy /\ m.mode = least /\ m.exp = now + AccessTtl
    BY DEF Minted
  <1>3. x.mode \in Modes /\ x.mode <= ScopeMode[f]
    BY DEF Carried, Properties
  <1>4. least \in Modes /\ least <= x.mode
    BY <1>3 DEF TokenMode, Least, Modes
  <1>5. least <= ScopeMode[f]
    BY <1>1, <1>3, <1>4 DEF Modes
  <1>6. w \in Int /\ w <= u
    BY <1>1, <1>2
  <1>7. ASSUME authMode = "oidc" PROVE x.user \in People /\ Vouched(x.user, least, x.policy, w)
    <2>1. x.user \in People /\ Vouched(x.user, x.mode, x.policy, u)
      BY <1>7 DEF Carried
    <2> QED
      BY <1>3, <1>4, <1>6, <2>1, VouchedEarlier
  <1>8. now < m.exp /\ m.exp <= now + AccessTtl
    BY <1>1, <1>2
  <1> QED
    BY <1>2, <1>5, <1>7, <1>8 DEF TokenIsVouched

\* Every step keeps tokens vouched for: minted with a code no older than Ttl, or refreshed.
LEMMA TokensVouchedStep ==
  ASSUME SignInTypeOK, FlowsFit, FlowsGoOn, ListsGoOn, GrantsCarry, TokensVouched, [Next]_vars
  PROVE  TokensVouched'
  <1> SUFFICES ASSUME NEW t \in tokens' PROVE TokenIsVouched(t)'
    BY DEF TokensVouched
  <1>1. now \in Nat /\ now' \in Nat /\ now <= now' /\ Ttl \in Nat /\ AccessTtl \in Nat
    BY Parameters DEF SignInTypeOK, ListsGoOn
  <1>2. TokenIsVouched(t) /\ t \in TokenType
    <2>1. CASE t \in tokens
      BY <2>1 DEF TokensVouched, SignInTypeOK
    <2>2. CASE t \notin tokens
      <3>1. PICK f \in Flows : ProviderNext(f)
        <4>1. CASE WorldNext \/ UNCHANGED vars
          BY <2>2, <4>1 DEF WorldNext, Tick, RateRestart, TooMany, Stray, Regroup, vars, providerVars
        <4>2. ASSUME NEW g \in Flows, FlowNext(g) PROVE FALSE
          BY <2>2, <4>2 DEF FlowNext, StartOidc, ShowPage, AlarmOf, Authorize, SignInAtProvider, providerVars
        <4>3. ASSUME NEW c \in Callbacks, CallbackNext(c) PROVE FALSE
          BY <2>2, <4>3 DEF CallbackNext, ConsumeState, ExchangeCode, AskConsent, providerVars
        <4>4. ASSUME NEW q \in Posts, PostNext(q) PROVE FALSE
          BY <2>2, <4>4 DEF PostNext, ConsumeConsent, ReadEntry, CheckSecret, BurnEntry, Complete, providerVars
        <4> QED
          BY <4>1, <4>2, <4>3, <4>4, Steps
      <3>2. PICK requested \in Modes : RedeemCode(f, requested) \/ Refresh(f, requested)
        BY <3>1 DEF ProviderNext
      <3>3. ASSUME RedeemCode(f, requested) PROVE TokenIsVouched(t) /\ t \in TokenType
        <4>1. t = Minted(f, grant[f].props, requested)
          BY <2>2, <3>3 DEF RedeemCode, Mint, Minted
        <4>2. grant[f] \in GrantType /\ Carried(f, grant[f].props, grant[f].at - Ttl)
          BY <3>3, Members DEF RedeemCode, GrantsCarry
        <4>3. grant[f].at \in Nat /\ grant[f].props \in Properties /\ now <= grant[f].at + Ttl
          BY <3>3, <4>2 DEF RedeemCode, GrantType
        <4>4. grant[f].at - Ttl \in Int /\ now - 2 * Ttl <= grant[f].at - Ttl
          BY <1>1, <4>3
        <4> QED
          BY <4>1, <4>2, <4>3, <4>4, MintedIsVouched, MintedFits
      <3>4. ASSUME Refresh(f, requested) PROVE TokenIsVouched(t) /\ t \in TokenType
        <4>1. t = Minted(f, RefreshedProps(f), requested)
          BY <2>2, <3>4 DEF Refresh, Mint, Minted
        <4>2. Carried(f, RefreshedProps(f), now)
          BY <3>4, RefreshIsCarried
        <4>3. RefreshedProps(f) \in Properties
          BY <4>2 DEF Carried
        <4>4. now \in Int /\ now - 2 * Ttl <= now
          BY <1>1
        <4> QED
          BY <4>1, <4>2, <4>3, <4>4, MintedIsVouched, MintedFits
      <3> QED
        BY <3>2, <3>3, <3>4
    <2> QED
      BY <2>1, <2>2
  <1>3. t.exp \in Nat
    BY <1>2 DEF TokenType
  <1>4. now' < t.exp
    <2>1. CASE Tick
      BY <1>1, <1>3, <2>1 DEF Tick
    <2>2. CASE now' = now
      BY <1>2, <2>2 DEF TokenIsVouched
    <2> QED
      BY <2>1, <2>2, TimeStep
  <1>5. t.exp <= now' + AccessTtl
    BY <1>1, <1>2, <1>3 DEF TokenIsVouched
  <1>6. PICK w \in Int : w = t.exp - (2 * Ttl + AccessTtl)
    BY <1>1, <1>3
  <1>7. w <= now
    BY <1>1, <1>2, <1>3, <1>6 DEF TokenIsVouched
  <1>8. ASSUME authMode = "oidc" PROVE Vouched(t.user, t.mode, t.policy, w)'
    BY <1>2, <1>6, <1>7, <1>8, VouchedGoesOn DEF TokenIsVouched
  <1>9. authMode' = authMode
    BY DEF FlowsGoOn
  <1> QED
    BY <1>2, <1>4, <1>5, <1>6, <1>8, <1>9 DEF TokenIsVouched

-----------------------------------------------------------------------------
(***************************************************************************)
(* The inductive invariant, and what it gives.                             *)
(***************************************************************************)

SignInInv == SignInTypeOK /\ FlowsFit /\ OnePlaceEach /\ AllVouched

\* The invariant holds at first.
LEMMA SignInInvInit == ASSUME Init PROVE SignInInv
  <1> USE DEF Init
  <1>1. now = 0 /\ tokens = {}
    BY DEF Rate!Init
  <1>2. /\ \A f \in Flows : flow[f] = NewFlow /\ state[f] = Empty /\ consent[f] = Empty
        /\ \A f \in Flows : entry[f] = None /\ grant[f] = None /\ completed[f] = 0
        /\ \A c \in Callbacks : callback[c] = NewRequest
        /\ \A q \in Posts : post[q] = NewRequest
    OBVIOUS
  <1>3. SignInTypeOK
    <2>1. directory \in [People -> Seq(Listing) \ {<<>>}]
      <3>1. \A p \in People : \E list \in GroupLists : directory[p] = <<[groups |-> list, since |-> 0]>>
        OBVIOUS
      <3>2. \A list \in GroupLists : <<[groups |-> list, since |-> 0]>> \in Seq(Listing) \ {<<>>}
        BY DEF Listing
      <3>3. \A p \in People : directory[p] \in Seq(Listing) \ {<<>>}
        BY <3>1, <3>2
      <3>4. directory \in [People -> {<<[groups |-> list, since |-> 0]>> : list \in GroupLists}]
        OBVIOUS
      <3> QED
        BY <3>3, <3>4
    <2> QED
      BY <1>1, <2>1, RequestTypes DEF SignInTypeOK
  <1>4. FlowsFit
    BY <1>2 DEF FlowsFit, FlowFits, CallbackFits, PostFits, NewFlow, NewRequest, Empty
  <1>5. OnePlaceEach
    BY <1>2 DEF OnePlaceEach, OnePlace, AtCallback, AtPost, NewRequest, Empty
  <1>6. AllVouched
    BY <1>1, <1>2 DEF AllVouched, NewRequest, Empty
  <1> QED
    BY <1>3, <1>4, <1>5, <1>6 DEF SignInInv

\* Every step keeps the invariant.
LEMMA SignInInvStep == ASSUME SignInInv, [Next]_vars PROVE SignInInv'
  <1> USE DEF SignInInv
  <1>1. SignInTypeOK' /\ FlowsFit' /\ OnePlaceEach'
    BY TypeStep, FlowsFitStep, OnePlaceStep
  <1>2. FlowsGoOn
    <2>1. CASE Next
      BY <2>1, FlowsGoOnStep
    <2>2. CASE UNCHANGED vars
      BY <2>2 DEF vars, FlowsGoOn
    <2> QED
      BY <2>1, <2>2
  <1>3. ListsGoOn
    BY ListsGoOnStep
  <1>4. CallbacksCarry /\ ConsentsCarry /\ PostsCarry /\ GrantsCarry /\ TokensVouched
    BY AllVouchedIs
  <1>5. CallbacksCarry' /\ ConsentsCarry' /\ PostsCarry' /\ GrantsCarry' /\ TokensVouched'
    BY <1>1, <1>2, <1>3, <1>4, CallbacksCarryStep, ConsentsCarryStep, PostsCarryStep,
       GrantsCarryStep, TokensVouchedStep
  <1>6. AllVouched'
    BY <1>5 DEF AllVouched, CallbacksCarry, ConsentsCarry, PostsCarry, GrantsCarry, TokensVouched
  <1> QED
    BY <1>1, <1>6

\* The inductive invariant of the sign-in.
THEOREM SignInInvariant == Spec => []SignInInv
  BY SignInInvInit, SignInInvStep, PTL DEF Spec

\* Flows, objects, requests, grants and tokens stay well typed, for any numbers
\* of flows, browsers and people and any groups.
THEOREM SignInTypeCorrect == Spec => []SignInTypeOK
  <1>1. SignInInv => SignInTypeOK
    BY DEF SignInInv
  <1> QED
    BY <1>1, SignInInvariant, PTL

\* One sign-in gives one grant, and a granted flow keeps no record that could
\* grant it again: what the single-use objects of the two handlers are for.
THEOREM GrantsStayFinal == Spec => []GrantsAreFinal
  <1>1. SignInInv => GrantsAreFinal
    <2> SUFFICES ASSUME SignInInv, NEW f \in Flows
                 PROVE  /\ authMode = "oidc" => completed[f] <= 1
                        /\ grant[f] # None =>
                             entry[f] = None /\ state[f].record = None /\ consent[f].record = None
      BY DEF GrantsAreFinal
    <2>1. FlowFits(f)
      BY DEF SignInInv, FlowsFit
    <2>2. authMode = "oidc" => OnePlace(f)
      BY DEF SignInInv, OnePlaceEach
    <2>3. completed[f] \in Nat
      BY DEF SignInInv, SignInTypeOK
    <2>4. CASE authMode = "oidc"
      BY <2>1, <2>2, <2>3, <2>4 DEF FlowFits, OnePlace
    <2>5. CASE authMode # "oidc"
      BY <2>1, <2>5 DEF FlowFits
    <2> QED
      BY <2>4, <2>5
  <1> QED
    BY <1>1, SignInInvariant, PTL

\* A grant is the signer's of its own flow, approved in the browser that
\* started the flow, however codes, states and pages are mixed.
THEOREM GrantsStayOwn == Spec => []GrantIsSignersOwn
  <1>1. SignInInv => GrantIsSignersOwn
    BY DEF SignInInv, AllVouched, Carried, GrantIsSignersOwn
  <1> QED
    BY <1>1, SignInInvariant, PTL

\* No live token has more than its flow asked for, or more than its person's
\* groups entitled to one consent, one code and one token lifetime ago.
THEOREM AuthorityStaysVouched == Spec => []AuthorityIsVouched
  <1>1. ASSUME SignInInv PROVE AuthorityIsVouched
    <2> SUFFICES ASSUME NEW t \in tokens
                 PROVE  /\ t.mode <= ScopeMode[t.flow]
                        /\ authMode = "oidc" =>
                             \E groups \in ListedSince(t.user, now - (2 * Ttl + AccessTtl)) :
                               \E e \in Entitled(groups) : t.mode <= e.mode /\ t.policy = e.policy
      BY DEF AuthorityIsVouched
    <2>1. TokenIsVouched(t) /\ t \in TokenType /\ now \in Nat
      BY <1>1 DEF SignInInv, AllVouched, SignInTypeOK
    <2>2. t.mode \in Modes /\ t.exp \in Nat /\ Ttl \in Nat /\ AccessTtl \in Nat
      BY <2>1, Parameters DEF TokenType
    <2> DEFINE u == now - (2 * Ttl + AccessTtl)
               w == t.exp - (2 * Ttl + AccessTtl)
    <2>3. u \in Int /\ w \in Int /\ u <= w
      BY <2>1, <2>2 DEF TokenIsVouched
    <2>4. CASE authMode = "oidc"
      <3>1. t.user \in People /\ Vouched(t.user, t.mode, t.policy, w)
        BY <2>1, <2>4 DEF TokenIsVouched
      <3>2. t.mode <= t.mode
        BY <2>2 DEF Modes
      <3>3. Vouched(t.user, t.mode, t.policy, u)
        BY <1>1, <2>2, <2>3, <3>1, <3>2, VouchedEarlier DEF SignInInv
      <3> QED
        BY <2>1, <3>3 DEF Vouched, TokenIsVouched
    <2> QED
      BY <2>1, <2>4 DEF TokenIsVouched
  <1> QED
    BY <1>1, SignInInvariant, PTL

-----------------------------------------------------------------------------
(***************************************************************************)
(* The rate limit: the windows that are pruned.                            *)
(***************************************************************************)

\* An instance has its own name for what it takes from a library.
LEMMA SameCardinality == \A S : Rate!Cardinality(S) = Cardinality(S)
  BY DEF Rate!Cardinality, Cardinality

Rank(L, j) == Rate!Cardinality({m \in L : m <= j})
Ranked(L, i) == CHOOSE j \in L : Rank(L, j) = i

\* Ranks are positions and rise with the elements.
LEMMA RanksRise ==
  ASSUME NEW L \in SUBSET Nat, IsFiniteSet(L)
  PROVE  /\ Cardinality(L) \in Nat
         /\ \A j \in L : Rank(L, j) \in 1..Cardinality(L)
         /\ \A j, k \in L : j < k => Rank(L, j) < Rank(L, k)
  <1> DEFINE UpTo(j) == {m \in L : m <= j}
  <1>0. \A m \in L : m \in Nat
    OBVIOUS
  <1>1. ASSUME NEW j \in L
        PROVE  IsFiniteSet(UpTo(j)) /\ Rank(L, j) \in Nat /\ Rank(L, j) <= Cardinality(L)
    <2>1. UpTo(j) \in SUBSET L
      OBVIOUS
    <2>2. IsFiniteSet(UpTo(j)) /\ Cardinality(UpTo(j)) <= Cardinality(L)
      BY <2>1, FS_Subset
    <2> QED
      BY <2>2, FS_CardinalityType, SameCardinality DEF Rank
  <1>2. Cardinality(L) \in Nat
    BY FS_CardinalityType
  <1>3. ASSUME NEW j \in L PROVE Rank(L, j) # 0
    <2>1. UpTo(j) # {}
      BY <1>3
    <2> QED
      BY <1>1, <2>1, FS_EmptySet, SameCardinality DEF Rank
  <1>4. ASSUME NEW j \in L, NEW k \in L, j < k PROVE Rank(L, j) < Rank(L, k)
    <2>1. UpTo(j) \in SUBSET UpTo(k)
      <3>1. \A m \in L : m <= j => m <= k
        BY <1>0, <1>4
      <3> QED
        BY <3>1
    <2>2. k \in UpTo(k) /\ k \notin UpTo(j)
      BY <1>0, <1>4
    <2>3. Cardinality(UpTo(j)) <= Cardinality(UpTo(k)) /\ Cardinality(UpTo(j)) # Cardinality(UpTo(k))
      BY <1>1, <2>1, <2>2, FS_Subset
    <2>4. Rank(L, j) \in Nat /\ Rank(L, k) \in Nat
      BY <1>1
    <2> QED
      BY <2>3, <2>4, SameCardinality DEF Rank
  <1>5. ASSUME NEW j \in L PROVE Rank(L, j) \in 1..Cardinality(L)
    <2>1. Rank(L, j) \in Nat /\ Rank(L, j) <= Cardinality(L) /\ Rank(L, j) # 0
      BY <1>1, <1>3
    <2> QED
      BY <1>2, <2>1
  <1> QED
    BY <1>2, <1>4, <1>5

\* Every rank is that of one element.
LEMMA RanksReach ==
  ASSUME NEW L \in SUBSET Nat, IsFiniteSet(L)
  PROVE  /\ \A i \in 1..Cardinality(L) : Ranked(L, i) \in L /\ Rank(L, Ranked(L, i)) = i
         /\ \A j \in L : Rank(L, j) \in 1..Cardinality(L) /\ Ranked(L, Rank(L, j)) = j
  <1> DEFINE n == Cardinality(L)
             rank == [j \in L |-> Rank(L, j)]
  <1>1. n \in Nat /\ IsFiniteSet(1..n) /\ Cardinality(1..n) = n
    <2>1. n \in Nat
      BY RanksRise
    <2> QED
      BY <2>1, FS_Interval
  <1>2. rank \in Injection(L, 1..n)
    <2>1. rank \in [L -> 1..n]
      BY RanksRise
    <2>2. ASSUME NEW j \in L, NEW k \in L, rank[j] = rank[k] PROVE j = k
      <3>1. ~ (j < k) /\ ~ (k < j)
        BY <2>2, RanksRise
      <3> QED
        BY <3>1
    <2> QED
      BY <2>1, <2>2 DEF Injection, IsInjective
  <1>3. rank \in Surjection(L, 1..n)
    BY <1>1, <1>2, FS_Injection
  <1>4. \A i \in 1..n : \E j \in L : Rank(L, j) = i
    BY <1>3 DEF Surjection
  <1>5. ASSUME NEW j \in L PROVE Rank(L, j) \in 1..n /\ Ranked(L, Rank(L, j)) = j
    <2>1. Rank(L, j) \in 1..n
      BY RanksRise
    <2>2. Ranked(L, Rank(L, j)) \in L /\ Rank(L, Ranked(L, Rank(L, j))) = Rank(L, j)
      BY DEF Ranked
    <2> QED
      BY <1>2, <2>1, <2>2 DEF Injection, IsInjective
  <1> QED
    BY <1>4, <1>5 DEF Ranked

\* Pruning keeps the live windows and no others.
LEMMA PrunedFits ==
  ASSUME windows \in Seq(Rate!Entry), Distinct(windows)
  PROVE  /\ Rate!Pruned \in Seq(Rate!Entry) /\ Distinct(Rate!Pruned)
         /\ \A i \in 1..Len(Rate!Pruned) : \E j \in Rate!Live : Rate!Pruned[i] = windows[j]
         /\ \A j \in Rate!Live : \E i \in 1..Len(Rate!Pruned) : Rate!Pruned[i] = windows[j]
  <1> DEFINE L == Rate!Live
             n == Rate!Cardinality(L)
             p == Rate!Pruned
  <1>1. DOMAIN windows = 1..Len(windows) /\ Len(windows) \in Nat /\ \A j \in 1..Len(windows) : windows[j] \in Rate!Entry
    OBVIOUS
  <1>2. L \in SUBSET Nat /\ L \subseteq 1..Len(windows) /\ IsFiniteSet(L)
    <2>1. L \in SUBSET (1..Len(windows))
      BY <1>1 DEF Rate!Live
    <2>2. IsFiniteSet(1..Len(windows))
      BY <1>1, FS_Interval
    <2>3. IsFiniteSet(L)
      BY <2>1, <2>2, FS_Subset
    <2>4. 1..Len(windows) \subseteq Nat
      BY <1>1
    <2> QED
      BY <2>1, <2>3, <2>4
  <1>3. n \in Nat
    BY <1>2, RanksRise, SameCardinality
  <1>4. p = [i \in 1..n |-> windows[Ranked(L, i)]]
    BY Zenon DEF Rate!Pruned, Ranked, Rank
  <1> HIDE DEF L, n, p
  <1>5. \A i \in 1..n : Ranked(L, i) \in L /\ Rank(L, Ranked(L, i)) = i
    BY <1>2, RanksReach, SameCardinality DEF n
  <1>6. \A j \in L : Rank(L, j) \in 1..n /\ Ranked(L, Rank(L, j)) = j
    BY <1>2, RanksReach, SameCardinality DEF n
  <1>7. p \in Seq(Rate!Entry) /\ Len(p) = n
    <2>1. \A i \in 1..n : windows[Ranked(L, i)] \in Rate!Entry
      BY <1>1, <1>2, <1>5
    <2> QED
      BY <1>3, <1>4, <2>1
  <1>8. Distinct(p)
    <2> SUFFICES ASSUME NEW i \in 1..n, NEW k \in 1..n, p[i].key = p[k].key PROVE i = k
      BY <1>7 DEF Distinct
    <2>1. Ranked(L, i) \in 1..Len(windows) /\ Ranked(L, k) \in 1..Len(windows)
      BY <1>2, <1>5
    <2>2. Ranked(L, i) = Ranked(L, k)
      BY <1>4, <2>1 DEF Distinct
    <2> QED
      BY <1>5, <2>2
  <1>9. \A i \in 1..n : \E j \in L : p[i] = windows[j]
    BY <1>4, <1>5
  <1>10. \A j \in L : \E i \in 1..n : p[i] = windows[j]
    BY <1>4, <1>6
  <1> QED
    BY <1>7, <1>8, <1>9, <1>10 DEF L, p

\* Making room drops a live window only as an evictee.
LEMMA RoomFits ==
  ASSUME windows \in Seq(Rate!Entry), Distinct(windows), now \in Nat
  PROVE  /\ Rate!MakeRoom \in Seq(Rate!Entry) /\ Distinct(Rate!MakeRoom)
         /\ \A i \in 1..Len(Rate!MakeRoom) : \E j \in 1..Len(windows) : Rate!MakeRoom[i] = windows[j]
         /\ \A j \in 1..Len(windows) :
              \/ \E i \in 1..Len(Rate!MakeRoom) : Rate!MakeRoom[i] = windows[j]
              \/ windows[j].resetAt <= now
              \/ windows[j] \in Rate!Evictees
  <1> DEFINE p == Rate!Pruned
             r == Rate!MakeRoom
  <1>1. p \in Seq(Rate!Entry) /\ Distinct(p)
    BY PrunedFits
  <1>2. \A i \in 1..Len(p) : \E j \in 1..Len(windows) : p[i] = windows[j]
    <2>1. Rate!Live \subseteq 1..Len(windows)
      BY DEF Rate!Live
    <2> QED
      BY <2>1, PrunedFits
  <1>3. ASSUME NEW j \in 1..Len(windows)
        PROVE  windows[j].resetAt <= now \/ \E i \in 1..Len(p) : p[i] = windows[j]
    <2>1. windows[j] \in Rate!Entry
      OBVIOUS
    <2>2. windows[j].resetAt \in Nat
      BY <2>1 DEF Rate!Entry
    <2>3. windows[j].resetAt <= now \/ j \in Rate!Live
      BY <2>2 DEF Rate!Live
    <2> QED
      BY <2>3, PrunedFits
  <1>4. CASE r = windows
    BY <1>4
  <1>5. CASE r # windows
    <2>1. r \in Seq(Rate!Entry) /\ \E c \in Nat : \A i \in 1..Len(r) : c + i \in 1..Len(p) /\ r[i] = p[c + i]
      <3>1. CASE r = p
        BY <1>1, <3>1
      <3>2. CASE r # p
        <4> DEFINE a == Len(p) - MaxKeys + 2
                   c == a - 1
        <4>1. r = SubSeq(p, a, Len(p)) /\ Len(p) >= MaxKeys
          BY <1>1, <1>5, <3>2, Parameters DEF Rate!MakeRoom
        <4> HIDE DEF p, r
        <4>2. a \in 1..(Len(p) + 1) /\ c \in Nat /\ Len(p) \in Nat
          BY <1>1, <4>1, Parameters
        <4>3. r \in Seq(Rate!Entry) /\ Len(r) = Len(p) - c /\ \A i \in 1..Len(r) : r[i] = p[c + i]
          BY <1>1, <4>1, <4>2
        <4>4. \A i \in 1..Len(r) : c + i \in 1..Len(p) /\ r[i] = p[c + i]
          BY <4>2, <4>3
        <4> QED
          BY <4>2, <4>3, <4>4
      <3> QED
        BY <3>1, <3>2
    <2>2. PICK c \in Nat : \A i \in 1..Len(r) : c + i \in 1..Len(p) /\ r[i] = p[c + i]
      BY <2>1
    <2>3. Distinct(r)
      <3> SUFFICES ASSUME NEW i \in 1..Len(r), NEW k \in 1..Len(r), r[i].key = r[k].key PROVE i = k
        BY DEF Distinct
      <3>1. c + i \in 1..Len(p) /\ c + k \in 1..Len(p) /\ p[c + i].key = p[c + k].key
        BY <2>2
      <3>2. c + i = c + k
        BY <1>1, <3>1 DEF Distinct
      <3> QED
        BY <2>1, <3>2
    <2>4. \A i \in 1..Len(r) : \E j \in 1..Len(windows) : r[i] = windows[j]
      BY <1>2, <2>2
    <2>5. ASSUME NEW j \in 1..Len(windows), ~ \E i \in 1..Len(r) : r[i] = windows[j], ~ (windows[j].resetAt <= now)
          PROVE  windows[j] \in Rate!Evictees
      <3>1. windows[j] \in Rate!Range(p)
        BY <1>1, <1>3, <2>5 DEF Rate!Range
      <3>2. windows[j] \notin Rate!Range(r)
        BY <2>1, <2>5 DEF Rate!Range
      <3> QED
        BY <3>1, <3>2 DEF Rate!Evictees
    <2> QED
      BY <2>1, <2>3, <2>4, <2>5
  <1> QED
    BY <1>4, <1>5

-----------------------------------------------------------------------------
(***************************************************************************)
(* The rate limit: writes are counted.                                     *)
(***************************************************************************)

\* The writes of a source after one more at time t.
Written(s, t) == Rate!Latest(Append(s, t))

\* The history after a write: the write last, before it what was remembered.
LEMMA WrittenFits ==
  ASSUME NEW t \in Nat, NEW s, WritesAt(s, t)
  PROVE  LET e == Written(s, t) IN
         /\ WritesAt(e, t) /\ Len(e) \in Nat \ {0} /\ e[Len(e)] = t
         /\ Len(e) = IF Len(s) > MaxPerWindow THEN Len(s) ELSE Len(s) + 1
         /\ \A i \in 1..(Len(e) - 1) : i + (Len(s) + 1 - Len(e)) \in 1..Len(s) /\ e[i] = s[i + (Len(s) + 1 - Len(e))]
  <1> DEFINE a == Append(s, t)
             m == Len(s) + 1
             k == IF m - MaxPerWindow > 1 THEN m - MaxPerWindow ELSE 1
             e == Written(s, t)
  <1>1. s \in Seq(Nat) /\ Len(s) \in Nat /\ Len(s) <= MaxPerWindow + 1 /\ MaxPerWindow \in Nat \ {0}
    BY Parameters DEF WritesAt
  <1>2. /\ a \in Seq(Nat) /\ Len(a) = m /\ a[m] = t /\ \A i \in 1..Len(s) : a[i] = s[i]
    BY <1>1
  <1>3. k \in 1..m /\ m \in Nat \ {0} /\ m - MaxPerWindow <= 2
    BY <1>1
  <1>4. e = SubSeq(a, k, m)
    <2>1. Rate!Max({1, m - MaxPerWindow}) = k
      BY <1>1 DEF Rate!Max
    <2> QED
      BY <1>2, <2>1 DEF Written, Rate!Latest
  <1> HIDE DEF a, e
  <1>5. e \in Seq(Nat) /\ Len(e) = m - k + 1 /\ \A i \in 1..Len(e) : e[i] = a[k + i - 1]
    BY <1>1, <1>2, <1>3, <1>4
  <1>6. Len(e) = IF Len(s) > MaxPerWindow THEN Len(s) ELSE Len(s) + 1
    <2>1. PICK l \in Nat : l = Len(s)
      BY <1>1
    <2>2. Len(e) = (l + 1) - (IF (l + 1) - MaxPerWindow > 1 THEN (l + 1) - MaxPerWindow ELSE 1) + 1
      BY <1>5, <2>1
    <2>3. l <= MaxPerWindow + 1 /\ MaxPerWindow \in Nat \ {0}
      BY <1>1, <2>1
    <2>4. CASE l > MaxPerWindow
      BY <2>1, <2>2, <2>3, <2>4
    <2>5. CASE ~ (l > MaxPerWindow)
      <3>1. (l + 1) - MaxPerWindow <= 1 /\ ~ ((l + 1) - MaxPerWindow > 1)
        BY <2>3, <2>5
      <3>2. Len(e) = (l + 1) - 1 + 1
        BY <2>2, <3>1
      <3> QED
        BY <2>1, <2>5, <3>2
    <2> QED
      BY <2>1, <2>4, <2>5
  <1>7. Len(e) \in Nat \ {0} /\ Len(e) <= MaxPerWindow + 1
    BY <1>1, <1>6
  <1>8. e[Len(e)] = t
    <2>1. Len(e) \in 1..Len(e) /\ k + Len(e) - 1 = m
      BY <1>3, <1>5, <1>7
    <2>2. e[Len(e)] = a[k + Len(e) - 1]
      BY <1>5, <2>1
    <2> QED
      BY <1>2, <2>1, <2>2
  <1>9. ASSUME NEW i \in 1..(Len(e) - 1)
        PROVE  i + (m - Len(e)) \in 1..Len(s) /\ e[i] = s[i + (m - Len(e))]
    <2>1. PICK h \in Nat \ {0} : h = Len(e)
      BY <1>7
    <2>2. h = m - k + 1 /\ i \in 1..(h - 1)
      BY <1>5, <2>1
    <2>3. i + (m - h) = k + i - 1 /\ k + i - 1 \in 1..Len(s) /\ i \in 1..h
      <3>1. k \in Nat /\ m = Len(s) + 1 /\ Len(s) \in Nat /\ 1 <= k /\ k <= m
        BY <1>1, <1>3
      <3> HIDE DEF k, m
      <3> QED
        BY <2>2, <3>1
    <2> QED
      BY <1>2, <1>5, <2>1, <2>3
  <1>10. \A i \in 1..Len(e) : e[i] <= t
    <2>1. ASSUME NEW i \in 1..Len(e), i # Len(e) PROVE e[i] <= t
      <3>1. i \in 1..(Len(e) - 1)
        BY <1>7, <2>1
      <3> QED
        BY <1>9, <3>1 DEF WritesAt
    <2> QED
      BY <1>8, <2>1
  <1>11. Sorted(e)
    <2> SUFFICES ASSUME NEW i \in 1..Len(e), NEW j \in 1..Len(e), i <= j PROVE e[i] <= e[j]
      BY DEF Sorted
    <2>1. CASE j = Len(e)
      BY <1>8, <1>10, <2>1
    <2>2. CASE j # Len(e)
      <3>1. i \in 1..(Len(e) - 1) /\ j \in 1..(Len(e) - 1)
        BY <1>7, <2>2
      <3>2. /\ i + (m - Len(e)) \in 1..Len(s) /\ e[i] = s[i + (m - Len(e))]
            /\ j + (m - Len(e)) \in 1..Len(s) /\ e[j] = s[j + (m - Len(e))]
        BY <1>9, <3>1
      <3>3. i + (m - Len(e)) <= j + (m - Len(e))
        BY <1>1, <1>7
      <3> QED
        BY <3>2, <3>3 DEF WritesAt, Sorted
    <2> QED
      BY <2>1, <2>2
  <1>12. WritesAt(e, t)
    BY <1>5, <1>7, <1>10, <1>11 DEF WritesAt
  <1> QED
    <2>1. \A i \in 1..(Len(e) - 1) : i + (Len(s) + 1 - Len(e)) \in 1..Len(s) /\ e[i] = s[i + (Len(s) + 1 - Len(e))]
      BY <1>9
    <2> QED
      BY <1>6, <1>7, <1>8, <1>12, <2>1 DEF e

\* A write counts in a live window that may still count.
LEMMA CountedFits ==
  ASSUME NEW t \in Nat, NEW s, WritesAt(s, t), NEW w \in Rate!Entry, NEW whole \in BOOLEAN,
         WindowAt(s, w, whole, t), t < w.resetAt, w.count < MaxPerWindow,
         NEW v, v.count = w.count + 1, v.resetAt = w.resetAt
  PROVE  WindowAt(Written(s, t), v, whole, t)
  <1> DEFINE e == Written(s, t)
             before == w.resetAt - Window - 1
             n == w.count
             l == Len(s)
             h == Len(e)
  <1>1. n \in Nat \ {0} /\ w.resetAt \in Nat /\ Window \in Nat \ {0} /\ MaxPerWindow \in Nat \ {0}
    BY Parameters DEF Rate!Entry
  <1>2. s \in Seq(Nat) /\ l \in Nat
    BY DEF WritesAt
  <1>3. /\ w.resetAt <= t + Window
        /\ n <= l /\ before < s[l - n + 1]
        /\ whole /\ n < l => s[l - n] <= before
        /\ \A i \in 1..l : s[i] < w.resetAt
    BY DEF WindowAt
  <1>4. WritesAt(e, t) /\ h \in Nat \ {0} /\ e[h] = t /\ h = IF l > MaxPerWindow THEN l ELSE l + 1
    BY WrittenFits
  <1>0. \A i \in 1..(h - 1) : i + (l + 1 - h) \in 1..l /\ e[i] = s[i + (l + 1 - h)]
    BY WrittenFits
  <1> HIDE DEF e, n, l, h
  <1>5. n <= l /\ n + 1 <= h
    <2>1. n <= l /\ n < MaxPerWindow
      BY <1>3 DEF n
    <2> QED
      BY <1>1, <1>2, <1>4, <2>1
  <1>6. before < e[h - (n + 1) + 1]
    <2>1. h - n \in 1..(h - 1) /\ (h - n) + (l + 1 - h) = l - n + 1
      BY <1>1, <1>2, <1>4, <1>5
    <2>2. e[h - n] = s[l - n + 1] /\ h - (n + 1) + 1 = h - n
      BY <1>0, <1>1, <1>4, <2>1
    <2> QED
      BY <1>3, <2>2
  <1>7. ASSUME whole, n + 1 < h PROVE e[h - (n + 1)] <= before
    <2>1. h - (n + 1) \in 1..(h - 1) /\ (h - (n + 1)) + (l + 1 - h) = l - n
      BY <1>1, <1>2, <1>4, <1>7
    <2>2. e[h - (n + 1)] = s[l - n] /\ l - n \in 1..l
      BY <1>0, <2>1
    <2>3. n < l
      BY <1>1, <1>2, <2>2
    <2> QED
      BY <1>3, <1>7, <2>2, <2>3
  <1>8. ASSUME NEW i \in 1..h PROVE e[i] < w.resetAt
    <2>1. e[i] \in Nat /\ e[i] <= t
      BY <1>4 DEF WritesAt, h
    <2> QED
      BY <1>1, <2>1
  <1> QED
    BY <1>3, <1>5, <1>6, <1>7, <1>8 DEF WindowAt, e, n, l, h

\* The write that opens a window is the first in it.
LEMMA OpenedFits ==
  ASSUME NEW t \in Nat, NEW s, WritesAt(s, t), NEW whole \in BOOLEAN,
         whole => \A i \in 1..Len(s) : s[i] < t,
         NEW v, v.count = 1, v.resetAt = t + Window
  PROVE  WindowAt(Written(s, t), v, whole, t)
  <1> DEFINE e == Written(s, t)
             l == Len(s)
             h == Len(e)
  <1>1. Window \in Nat \ {0} /\ s \in Seq(Nat) /\ l \in Nat
    BY Parameters DEF WritesAt
  <1>2. v.resetAt - Window - 1 = t - 1 /\ v.resetAt <= t + Window /\ t < v.resetAt /\ v.resetAt \in Nat
    BY <1>1
  <1>3. /\ WritesAt(e, t) /\ h \in Nat \ {0} /\ e[h] = t
        /\ \A i \in 1..(h - 1) : i + (l + 1 - h) \in 1..l /\ e[i] = s[i + (l + 1 - h)]
    BY WrittenFits
  <1> HIDE DEF e
  <1>4. 1 <= h /\ t - 1 < e[h - 1 + 1]
    BY <1>3
  <1>5. ASSUME whole, 1 < h PROVE e[h - 1] <= t - 1
    <2>1. h - 1 \in 1..(h - 1)
      BY <1>3, <1>5
    <2>2. PICK i \in 1..l : e[h - 1] = s[i]
      BY <1>3, <2>1
    <2>3. s[i] < t /\ s[i] \in Nat
      BY <1>1, <1>5
    <2> QED
      BY <2>2, <2>3
  <1>6. ASSUME NEW i \in 1..h PROVE e[i] < v.resetAt
    <2>1. e[i] \in Nat /\ e[i] <= t
      BY <1>3 DEF WritesAt
    <2> QED
      BY <1>2, <2>1
  <1> QED
    BY <1>2, <1>4, <1>5, <1>6 DEF WindowAt, e

-----------------------------------------------------------------------------
(***************************************************************************)
(* The rate limit: the windows go on counting.                             *)
(***************************************************************************)

\* Each window has its type and fits the writes of its source.
LEMMA RateMembers ==
  ASSUME RateFits, now \in Nat
  PROVE  /\ Len(windows) \in Nat /\ DOMAIN windows = 1..Len(windows)
         /\ \A i \in 1..Len(windows) :
              /\ windows[i] \in Rate!Entry /\ windows[i].key \in Browsers
              /\ windows[i].count \in 1..MaxPerWindow /\ windows[i].resetAt \in Nat
              /\ WindowAt(admitted[windows[i].key], windows[i], windows[i].key \notin evicted, now)
  <1>1. windows \in Seq(Rate!Entry)
    BY DEF RateFits
  <1>2. Len(windows) \in Nat /\ DOMAIN windows = 1..Len(windows)
    BY <1>1
  <1>3. ASSUME NEW i \in 1..Len(windows)
        PROVE  /\ windows[i] \in Rate!Entry /\ windows[i].key \in Browsers
               /\ windows[i].count \in 1..MaxPerWindow /\ windows[i].resetAt \in Nat
    <2>1. windows[i] \in Rate!Entry
      BY <1>1
    <2> QED
      BY <2>1 DEF Rate!Entry
  <1> QED
    BY <1>2, <1>3 DEF RateFits

\* An admitted write changes the history of its source alone.
LEMMA AdmittedFits ==
  ASSUME RateFits, now \in Nat, NEW b \in Browsers, Rate!Admit(b)
  PROVE  /\ admitted' \in [Browsers -> Seq(Nat)]
         /\ admitted'[b] = Written(admitted[b], now)
         /\ \A k \in Browsers : k # b => admitted'[k] = admitted[k]
         /\ \A k \in Browsers : WritesAt(admitted'[k], now)
  <1>1. /\ admitted \in [Browsers -> Seq(Nat)] /\ \A k \in Browsers : WritesAt(admitted[k], now)
    BY DEF RateFits
  <1>2. admitted' = [admitted EXCEPT ![b] = Written(admitted[b], now)]
    BY DEF Rate!Admit, Written
  <1>3. WritesAt(Written(admitted[b], now), now)
    BY <1>1, WrittenFits
  <1>4. Written(admitted[b], now) \in Seq(Nat)
    BY <1>3 DEF WritesAt
  <1> QED
    BY <1>1, <1>2, <1>3, <1>4

\* The window of a source, replaced by one that counts the write.
LEMMA ReplacedFits ==
  ASSUME RateFits, now \in Nat, now' = now, UNCHANGED evicted, NEW b \in Browsers, Rate!Admit(b),
         NEW i \in 1..Len(windows), windows[i].key = b,
         NEW v \in Rate!Entry, v.key = b, windows' = [windows EXCEPT ![i] = v],
         WindowAt(Written(admitted[b], now), v, b \notin evicted, now)
  PROVE  RateFits'
  <1>1. windows \in Seq(Rate!Entry) /\ Distinct(windows)
    BY DEF RateFits
  <1>2. /\ windows' \in Seq(Rate!Entry) /\ Len(windows') = Len(windows)
        /\ \A j \in 1..Len(windows) : windows'[j] = IF j = i THEN v ELSE windows[j]
    BY <1>1
  <1>3. \A j \in 1..Len(windows) : windows'[j].key = windows[j].key
    BY <1>2
  <1>4. Distinct(windows')
    BY <1>1, <1>2, <1>3 DEF Distinct
  <1>5. /\ admitted' \in [Browsers -> Seq(Nat)]
        /\ admitted'[b] = Written(admitted[b], now)
        /\ \A k \in Browsers : k # b => admitted'[k] = admitted[k]
        /\ \A k \in Browsers : WritesAt(admitted'[k], now)
    BY AdmittedFits
  <1>6. ASSUME NEW j \in 1..Len(windows)
        PROVE  WindowAt(admitted'[windows'[j].key], windows'[j], windows'[j].key \notin evicted, now)
    <2>1. CASE j = i
      BY <1>2, <1>5, <2>1
    <2>2. CASE j # i
      <3>1. windows'[j] = windows[j] /\ windows[j].key # b /\ windows[j].key \in Browsers
        BY <1>1, <1>2, <2>2, RateMembers DEF Distinct
      <3>2. WindowAt(admitted[windows[j].key], windows[j], windows[j].key \notin evicted, now)
        BY RateMembers
      <3> QED
        BY <1>5, <3>1, <3>2
    <2> QED
      BY <2>1, <2>2
  <1>7. ASSUME NEW k \in Browsers \ evicted, \A j \in 1..Len(windows) : windows'[j].key # k,
               NEW j \in 1..Len(admitted'[k])
        PROVE  admitted'[k][j] < now
    <2>1. k # b /\ \A l \in 1..Len(windows) : windows[l].key # k
      BY <1>3, <1>7
    <2>2. admitted'[k] = admitted[k]
      BY <1>5, <2>1
    <2> QED
      BY <1>7, <2>1, <2>2 DEF RateFits
  <1> QED
    BY <1>2, <1>4, <1>5, <1>6, <1>7 DEF RateFits

\* The index of a tracked source is that of its window.
LEMMA Indexed ==
  ASSUME RateFits, now \in Nat, NEW b \in Rate!Tracked
  PROVE  Rate!IndexOf(b) \in 1..Len(windows) /\ windows[Rate!IndexOf(b)].key = b
  <1>1. DOMAIN windows = 1..Len(windows)
    BY RateMembers
  <1>2. \E i \in DOMAIN windows : windows[i].key = b
    BY DEF Rate!Tracked
  <1>3. Rate!IndexOf(b) \in DOMAIN windows /\ windows[Rate!IndexOf(b)].key = b
    BY <1>2 DEF Rate!IndexOf
  <1> QED
    BY <1>1, <1>3

\* Counting a write in a live window keeps the windows fitting.
LEMMA CountFits == ASSUME RateFits, now \in Nat, NEW b \in Browsers, Rate!Count(b) PROVE RateFits'
  <1> DEFINE i == Rate!IndexOf(b)
             w == windows[i]
             x == [w EXCEPT !.count = w.count + 1]
  <1>1. b \in Rate!Tracked /\ now < w.resetAt /\ ~ (w.count >= MaxPerWindow)
    BY DEF Rate!Count, Rate!HasLiveWindow, Rate!AtCap, Rate!WindowOf
  <1>2. i \in 1..Len(windows) /\ w.key = b
    BY <1>1, Indexed
  <1>3. /\ w \in Rate!Entry /\ w.count \in 1..MaxPerWindow /\ w.resetAt \in Nat
        /\ WindowAt(admitted[b], w, b \notin evicted, now)
    BY <1>2, RateMembers
  <1>4. w.count < MaxPerWindow /\ w.count + 1 \in 1..MaxPerWindow
    BY <1>1, <1>3, Parameters
  <1>5. x \in Rate!Entry /\ x.key = b /\ x.count = w.count + 1 /\ x.resetAt = w.resetAt
    BY <1>2, <1>3, <1>4 DEF Rate!Entry
  <1>6. windows' = [windows EXCEPT ![i] = x] /\ Rate!Admit(b) /\ now' = now /\ UNCHANGED evicted
    BY DEF Rate!Count
  <1>7. WritesAt(admitted[b], now)
    BY DEF RateFits
  <1>8. PICK v \in Rate!Entry : v = x
    BY <1>5
  <1> HIDE DEF x
  <1>9. WindowAt(Written(admitted[b], now), v, b \notin evicted, now)
    BY <1>1, <1>3, <1>4, <1>5, <1>7, <1>8, CountedFits
  <1> QED
    BY <1>2, <1>5, <1>6, <1>8, <1>9, ReplacedFits

\* Before a window is opened there is no write at this very time.
LEMMA FreshFits ==
  ASSUME RateFits, now \in Nat, NEW b \in Browsers,
         b \notin evicted => \A i \in 1..Len(admitted[b]) : admitted[b][i] < now
  PROVE  /\ Rate!Fresh(b) \in Rate!Entry /\ Rate!Fresh(b).key = b
         /\ WindowAt(Written(admitted[b], now), Rate!Fresh(b), b \notin evicted, now)
  <1>1. Rate!Fresh(b) = [key |-> b, count |-> 1, resetAt |-> now + Window]
    BY DEF Rate!Fresh
  <1>2. now + Window \in Nat /\ 1 \in 1..MaxPerWindow
    BY Parameters
  <1>3. WritesAt(admitted[b], now)
    BY DEF RateFits
  <1>4. Rate!Fresh(b) \in Rate!Entry
    BY <1>1, <1>2 DEF Rate!Entry
  <1>5. Rate!Fresh(b).count = 1 /\ Rate!Fresh(b).resetAt = now + Window
    BY <1>1
  <1>6. WindowAt(Written(admitted[b], now), Rate!Fresh(b), b \notin evicted, now)
    BY <1>3, <1>5, OpenedFits
  <1> QED
    BY <1>1, <1>4, <1>6

\* So does opening the window of a source anew.
LEMMA ReopenFits == ASSUME RateFits, now \in Nat, NEW b \in Browsers, Rate!Reopen(b) PROVE RateFits'
  <1> DEFINE i == Rate!IndexOf(b)
             w == windows[i]
  <1>1. b \in Rate!Tracked /\ ~ (now < w.resetAt)
    BY DEF Rate!Reopen, Rate!HasLiveWindow, Rate!WindowOf
  <1>2. i \in 1..Len(windows) /\ w.key = b
    BY <1>1, Indexed
  <1>3. w.resetAt \in Nat /\ WindowAt(admitted[b], w, b \notin evicted, now)
    BY <1>2, RateMembers
  <1>4. admitted[b] \in Seq(Nat)
    BY DEF RateFits
  <1>5. \A j \in 1..Len(admitted[b]) : admitted[b][j] < now
    <2>1. \A j \in 1..Len(admitted[b]) : admitted[b][j] \in Nat /\ admitted[b][j] < w.resetAt
      BY <1>3, <1>4 DEF WindowAt
    <2>2. w.resetAt <= now
      BY <1>1, <1>3
    <2> QED
      BY <1>3, <2>1, <2>2
  <1>6. windows' = [windows EXCEPT ![i] = Rate!Fresh(b)] /\ Rate!Admit(b) /\ now' = now /\ UNCHANGED evicted
    BY DEF Rate!Reopen
  <1>7. /\ Rate!Fresh(b) \in Rate!Entry /\ Rate!Fresh(b).key = b
        /\ WindowAt(Written(admitted[b], now), Rate!Fresh(b), b \notin evicted, now)
    BY <1>5, FreshFits
  <1> QED
    BY <1>2, <1>6, <1>7, ReplacedFits

\* So does opening a window for a new source, making room for it.
LEMMA OpenFits == ASSUME RateFits, now \in Nat, NEW b \in Browsers, Rate!Open(b) PROVE RateFits'
  <1> DEFINE r == Rate!MakeRoom
             v == Rate!Fresh(b)
  <1>1. windows \in Seq(Rate!Entry) /\ Distinct(windows)
    BY DEF RateFits
  <1>2. /\ r \in Seq(Rate!Entry) /\ Distinct(r)
        /\ \A i \in 1..Len(r) : \E j \in 1..Len(windows) : r[i] = windows[j]
        /\ \A j \in 1..Len(windows) :
             \/ \E i \in 1..Len(r) : r[i] = windows[j]
             \/ windows[j].resetAt <= now
             \/ windows[j] \in Rate!Evictees
    BY <1>1, RoomFits
  <1>3. /\ windows' = Append(r, v) /\ evicted' = evicted \cup {w.key : w \in Rate!Evictees}
        /\ Rate!Admit(b) /\ now' = now
    BY DEF Rate!Open
  <1>4. \A j \in 1..Len(windows) : windows[j].key # b
    <2>1. b \notin Rate!Tracked
      BY DEF Rate!Open
    <2> QED
      BY <2>1, RateMembers DEF Rate!Tracked
  <1>5. b \notin evicted => \A i \in 1..Len(admitted[b]) : admitted[b][i] < now
    BY <1>4 DEF RateFits
  <1>6. /\ v \in Rate!Entry /\ v.key = b
        /\ WindowAt(Written(admitted[b], now), v, b \notin evicted, now)
    BY <1>5, FreshFits
  <1>7. /\ admitted' \in [Browsers -> Seq(Nat)]
        /\ admitted'[b] = Written(admitted[b], now)
        /\ \A k \in Browsers : k # b => admitted'[k] = admitted[k]
        /\ \A k \in Browsers : WritesAt(admitted'[k], now)
    BY <1>3, AdmittedFits
  <1> HIDE DEF r, v
  <1>8. /\ Len(r) \in Nat /\ windows' \in Seq(Rate!Entry) /\ Len(windows') = Len(r) + 1
        /\ \A i \in 1..Len(r) : windows'[i] = r[i]
        /\ windows'[Len(r) + 1] = v
    BY <1>2, <1>3, <1>6
  <1>9. \A i \in 1..Len(r) : windows'[i].key # b
    BY <1>2, <1>4, <1>8
  <1>10. Distinct(windows')
    <2> SUFFICES ASSUME NEW i \in 1..(Len(r) + 1), NEW j \in 1..(Len(r) + 1), windows'[i].key = windows'[j].key
                 PROVE  i = j
      BY <1>8 DEF Distinct
    <2>1. CASE i \in 1..Len(r) /\ j \in 1..Len(r)
      BY <1>2, <1>8, <2>1 DEF Distinct
    <2>2. CASE ~ (i \in 1..Len(r) /\ j \in 1..Len(r))
      <3>1. i = Len(r) + 1 \/ j = Len(r) + 1
        BY <1>8, <2>2
      <3>2. \A l \in 1..(Len(r) + 1) : l = Len(r) + 1 \/ l \in 1..Len(r)
        BY <1>8
      <3> QED
        BY <1>6, <1>8, <1>9, <3>1, <3>2
    <2> QED
      BY <2>1, <2>2
  <1>11. ASSUME NEW i \in 1..(Len(r) + 1)
         PROVE  WindowAt(admitted'[windows'[i].key], windows'[i], windows'[i].key \notin evicted', now)
    <2>1. CASE i = Len(r) + 1
      <3>1. WindowAt(Written(admitted[b], now), v, b \notin evicted', now)
        BY <1>3, <1>6 DEF WindowAt
      <3> QED
        BY <1>6, <1>7, <1>8, <2>1, <3>1
    <2>2. CASE i # Len(r) + 1
      <3>1. i \in 1..Len(r)
        BY <1>8, <2>2
      <3>2. PICK j \in 1..Len(windows) : r[i] = windows[j]
        BY <1>2, <3>1
      <3>3. windows'[i] = windows[j] /\ windows[j].key # b /\ windows[j].key \in Browsers
        BY <1>4, <1>8, <3>1, <3>2, RateMembers
      <3>4. WindowAt(admitted[windows[j].key], windows[j], windows[j].key \notin evicted, now)
        BY RateMembers
      <3>5. WindowAt(admitted[windows[j].key], windows[j], windows[j].key \notin evicted', now)
        BY <1>3, <3>4 DEF WindowAt
      <3> QED
        BY <1>7, <3>3, <3>5
    <2> QED
      BY <2>1, <2>2
  <1>12. ASSUME NEW k \in Browsers \ evicted', \A i \in 1..Len(windows') : windows'[i].key # k
         PROVE  \A i \in 1..Len(admitted'[k]) : admitted'[k][i] < now
    <2>1. k # b
      BY <1>6, <1>8, <1>12
    <2>2. admitted'[k] = admitted[k] /\ k \notin evicted /\ admitted[k] \in Seq(Nat)
      BY <1>3, <1>7, <1>12, <2>1 DEF RateFits
    <2>3. CASE \A j \in 1..Len(windows) : windows[j].key # k
      BY <2>2, <2>3 DEF RateFits
    <2>4. ASSUME NEW j \in 1..Len(windows), windows[j].key = k
          PROVE  \A i \in 1..Len(admitted[k]) : admitted[k][i] < now
      <3>1. \A i \in 1..Len(r) : r[i] # windows[j]
        BY <1>8, <1>12, <2>4
      <3>2. windows[j] \notin Rate!Evictees
        BY <1>3, <1>12, <2>4
      <3>3. windows[j].resetAt <= now /\ windows[j].resetAt \in Nat
        BY <1>2, <3>1, <3>2, RateMembers
      <3>4. WindowAt(admitted[k], windows[j], k \notin evicted, now)
        BY <2>4, RateMembers
      <3>5. \A i \in 1..Len(admitted[k]) : admitted[k][i] \in Nat /\ admitted[k][i] < windows[j].resetAt
        BY <2>2, <3>4 DEF WindowAt
      <3> QED
        BY <3>3, <3>5
    <2> QED
      BY <2>2, <2>3, <2>4
  <1> QED
    BY <1>3, <1>7, <1>8, <1>10, <1>11, <1>12 DEF RateFits

\* With no windows there is nothing to fit.
LEMMA RateInit == ASSUME Rate!Init PROVE RateFits
  <1>1. windows = <<>> /\ evicted = {} /\ now = 0 /\ \A b \in Browsers : admitted[b] = <<>>
    BY DEF Rate!Init
  <1>2. admitted \in [Browsers -> Seq(Nat)]
    BY DEF Rate!Init
  <1> QED
    BY <1>1, <1>2, Parameters DEF RateFits, Distinct, WritesAt, Sorted

\* After a restart there is nothing to fit.
LEMMA RestartFits == ASSUME now \in Nat, Rate!Restart PROVE RateFits'
  <1>1. windows' = <<>> /\ evicted' = {} /\ now' = now /\ \A b \in Browsers : admitted'[b] = <<>>
    BY DEF Rate!Restart
  <1>2. admitted' \in [Browsers -> Seq(Nat)]
    BY DEF Rate!Restart
  <1> QED
    BY <1>1, <1>2, Parameters DEF RateFits, Distinct, WritesAt, Sorted

\* Time alone keeps the windows fitting.
LEMMA RateTickFits == ASSUME RateFits, now \in Nat, Rate!Tick PROVE RateFits'
  <1>1. now' = now + 1 /\ UNCHANGED <<windows, admitted, evicted>>
    BY DEF Rate!Tick
  <1>2. ASSUME NEW b \in Browsers
        PROVE  WritesAt(admitted[b], now + 1) /\ \A i \in 1..Len(admitted[b]) : admitted[b][i] < now + 1
    <2>1. WritesAt(admitted[b], now)
      BY DEF RateFits
    <2>2. \A i \in 1..Len(admitted[b]) : admitted[b][i] \in Nat /\ admitted[b][i] <= now
      BY <2>1 DEF WritesAt
    <2>3. \A i \in 1..Len(admitted[b]) : admitted[b][i] <= now + 1 /\ admitted[b][i] < now + 1
      BY <2>2
    <2> QED
      BY <2>1, <2>3 DEF WritesAt
  <1>3. ASSUME NEW i \in 1..Len(windows)
        PROVE  WindowAt(admitted[windows[i].key], windows[i], windows[i].key \notin evicted, now + 1)
    <2>1. /\ WindowAt(admitted[windows[i].key], windows[i], windows[i].key \notin evicted, now)
          /\ windows[i].resetAt \in Nat
      BY RateMembers
    <2>2. windows[i].resetAt <= now + Window => windows[i].resetAt <= now + 1 + Window
      BY <2>1, Parameters
    <2> QED
      BY <2>1, <2>2 DEF WindowAt
  <1> QED
    BY <1>1, <1>2, <1>3 DEF RateFits

\* Every page and every guess at the secret passes the rate limit; nothing else changes it.
LEMMA RateStep == ASSUME SignInTypeOK, FlowsFit, RateFits, [Next]_vars PROVE RateFits'
  <1>1. now \in Nat
    BY DEF SignInTypeOK
  <1>2. ASSUME UNCHANGED <<windows, admitted, evicted>>, now' = now PROVE RateFits'
    BY <1>2 DEF RateFits
  <1>3. ASSUME NEW b \in Browsers, Allowed(b) \/ Rate!Deny(b) PROVE RateFits'
    <2>1. CASE Allowed(b)
      BY <1>1, <2>1, CountFits, ReopenFits, OpenFits DEF Allowed
    <2>2. CASE Rate!Deny(b)
      BY <1>2, <2>2 DEF Rate!Deny, Rate!vars
    <2> QED
      BY <1>3, <2>1, <2>2
  <1>4. CASE WorldNext
    <2>1. CASE Tick
      BY <1>1, <2>1, RateTickFits DEF Tick
    <2>2. CASE RateRestart
      BY <1>1, <2>2, RestartFits DEF RateRestart
    <2>3. ASSUME NEW b \in Browsers, TooMany(b) \/ Stray(b) PROVE RateFits'
      BY <1>3, <2>3 DEF TooMany, Stray
    <2>4. CASE \E p \in People, list \in GroupLists : Regroup(p, list)
      BY <1>2, <2>4 DEF Regroup, rateVars
    <2> QED
      BY <1>4, <2>1, <2>2, <2>3, <2>4 DEF WorldNext
  <1>5. ASSUME NEW f \in Flows, FlowNext(f) PROVE RateFits'
    <2>1. CASE \E b \in Browsers : Authorize(f, b)
      BY <1>3, <2>1 DEF Authorize
    <2>2. CASE ~ \E b \in Browsers : Authorize(f, b)
      BY <1>2, <1>5, <2>2 DEF FlowNext, StartOidc, ShowPage, AlarmOf, SignInAtProvider, rateVars
    <2> QED
      BY <2>1, <2>2
  <1>6. ASSUME NEW f \in Flows, ProviderNext(f) PROVE RateFits'
    BY <1>2, <1>6 DEF ProviderNext, RedeemCode, Refresh, rateVars
  <1>7. ASSUME NEW c \in Callbacks, CallbackNext(c) PROVE RateFits'
    BY <1>2, <1>7 DEF CallbackNext, ConsumeState, ExchangeCode, AskConsent, rateVars
  <1>8. ASSUME NEW q \in Posts, PostNext(q) PROVE RateFits'
    <2>1. ASSUME NEW right \in BOOLEAN, CheckSecret(q, right) PROVE RateFits'
      <3>1. post[q].by \in Browsers
        BY <1>8, <2>1 DEF CheckSecret, FlowsFit, FlowFits, PostFits, Belongs
      <3> QED
        BY <1>3, <2>1, <3>1 DEF CheckSecret
    <2>2. CASE ~ \E right \in BOOLEAN : CheckSecret(q, right)
      BY <1>2, <1>8, <2>2 DEF PostNext, ConsumeConsent, ReadEntry, BurnEntry, Complete, rateVars
    <2> QED
      BY <2>1, <2>2
  <1>9. CASE UNCHANGED vars
    BY <1>2, <1>9 DEF vars, rateVars
  <1> QED
    BY <1>4, <1>5, <1>6, <1>7, <1>8, <1>9, Steps

\* What the entry of a source says of its writes.
LEMMA WindowSays ==
  ASSUME RateFits, now \in Nat, NEW b \in Rate!Tracked
  PROVE  LET w == Rate!WindowOf(b)
             s == admitted[b] IN
         /\ s \in Seq(Nat) /\ Len(s) \in Nat /\ Sorted(s)
         /\ w.count \in 1..MaxPerWindow /\ w.resetAt \in Nat /\ b \in Browsers
         /\ WindowAt(s, w, b \notin evicted, now)
  <1>1. Rate!IndexOf(b) \in 1..Len(windows) /\ windows[Rate!IndexOf(b)].key = b
    BY Indexed
  <1>2. /\ Rate!WindowOf(b).count \in 1..MaxPerWindow /\ Rate!WindowOf(b).resetAt \in Nat /\ b \in Browsers
        /\ WindowAt(admitted[b], Rate!WindowOf(b), b \notin evicted, now)
    BY <1>1, RateMembers DEF Rate!WindowOf
  <1>3. WritesAt(admitted[b], now)
    BY <1>2 DEF RateFits
  <1>4. admitted[b] \in Seq(Nat) /\ Sorted(admitted[b])
    BY <1>3 DEF WritesAt
  <1>5. Len(admitted[b]) \in Nat
    BY <1>4
  <1> QED
    BY <1>2, <1>4, <1>5

\* The rate limit counts each source's own writes: unless it was evicted, all of
\* those in its window (ConsentRateDO.allow), and it is denied for no others.
THEOREM RateLimitStaysExact == Spec => []RateLimitIsExact
  <1>1. ASSUME RateFits, now \in Nat, NEW b \in Rate!Tracked \ evicted
        PROVE  Rate!WindowOf(b).count = Rate!WritesSince(b, Rate!WindowOf(b).resetAt - Window - 1)
    <2> DEFINE w == Rate!WindowOf(b)
               s == admitted[b]
               l == Len(s)
               n == w.count
               t == w.resetAt - Window - 1
    <2>1. /\ s \in Seq(Nat) /\ l \in Nat /\ Sorted(s) /\ n \in 1..MaxPerWindow /\ w.resetAt \in Nat
          /\ WindowAt(s, w, TRUE, now)
      BY <1>1, WindowSays DEF WindowAt
    <2>2. n <= l /\ t < s[l - n + 1] /\ (n < l => s[l - n] <= t) /\ t \in Int /\ n \in Nat \ {0}
      BY <2>1, Parameters DEF WindowAt
    <2>3. DOMAIN s = 1..l /\ \A i \in 1..l : s[i] \in Nat
      BY <2>1
    <2> HIDE DEF s, n, l, t
    <2>4. {i \in 1..l : s[i] > t} = (l - n + 1)..l
      <3>1. l - n + 1 \in 1..l
        BY <2>1, <2>2
      <3>2. ASSUME NEW i \in (l - n + 1)..l PROVE i \in 1..l /\ s[i] > t
        <4>1. i \in 1..l /\ l - n + 1 <= i
          BY <2>1, <2>2, <3>1
        <4>2. s[l - n + 1] <= s[i]
          BY <2>1, <3>1, <4>1 DEF Sorted, l
        <4> QED
          BY <2>2, <2>3, <3>1, <4>1, <4>2
      <3>3. ASSUME NEW i \in 1..l, i \notin (l - n + 1)..l PROVE ~ (s[i] > t)
        <4>1. i <= l - n /\ l - n \in 1..l /\ n < l
          BY <2>1, <2>2, <3>3
        <4>2. s[i] <= s[l - n] /\ s[l - n] <= t
          BY <2>1, <2>2, <4>1 DEF Sorted, l
        <4> QED
          BY <2>2, <2>3, <4>1, <4>2
      <3> QED
        BY <3>2, <3>3
    <2>5. Cardinality((l - n + 1)..l) = n
      <3>1. /\ l - n + 1 \in Int /\ l \in Int
            /\ Cardinality((l - n + 1)..l) = IF l - n + 1 > l THEN 0 ELSE l - (l - n + 1) + 1
        BY <2>1, <2>2, FS_Interval
      <3> QED
        BY <2>1, <2>2, <3>1
    <2>6. Rate!WritesSince(b, t) = Rate!Cardinality({i \in 1..l : s[i] > t})
      BY <2>3 DEF Rate!WritesSince, s
    <2> QED
      BY <2>4, <2>5, <2>6, SameCardinality DEF n, t
  <1>2. ASSUME RateFits, now \in Nat, NEW b \in Browsers, Rate!HasLiveWindow(b), Rate!AtCap(b)
        PROVE  Rate!WritesSince(b, now - Window) >= MaxPerWindow
    <2> DEFINE w == Rate!WindowOf(b)
               s == admitted[b]
               l == Len(s)
               m == MaxPerWindow
               u == now - Window
               many == {i \in 1..l : s[i] > u}
    <2>1. b \in Rate!Tracked /\ now < w.resetAt /\ w.count >= m
      BY <1>2 DEF Rate!HasLiveWindow, Rate!AtCap
    <2>2. /\ s \in Seq(Nat) /\ l \in Nat /\ Sorted(s) /\ w.count \in 1..m /\ w.resetAt \in Nat
          /\ WindowAt(s, w, b \notin evicted, now)
      BY <1>2, <2>1, WindowSays
    <2>3. w.count = m /\ m \in Nat \ {0} /\ Window \in Nat
      BY <2>1, <2>2, Parameters
    <2>4. m <= l /\ w.resetAt - Window - 1 < s[l - m + 1]
      BY <2>2, <2>3 DEF WindowAt
    <2>5. DOMAIN s = 1..l /\ \A i \in 1..l : s[i] \in Nat
      BY <2>2
    <2> HIDE DEF s, l, m
    <2>6. l - m + 1 \in 1..l /\ u \in Int /\ u < s[l - m + 1]
      <3>1. l - m + 1 \in 1..l
        BY <2>2, <2>3, <2>4
      <3>2. s[l - m + 1] \in Nat
        BY <2>5, <3>1
      <3>3. u <= w.resetAt - Window - 1
        BY <1>2, <2>1, <2>2, <2>3
      <3> QED
        BY <1>2, <2>2, <2>3, <2>4, <3>1, <3>2, <3>3
    <2>7. (l - m + 1)..l \in SUBSET many
      <3> SUFFICES ASSUME NEW i \in (l - m + 1)..l PROVE i \in 1..l /\ s[i] > u
        OBVIOUS
      <3>1. i \in 1..l /\ l - m + 1 <= i
        BY <2>2, <2>3, <2>6
      <3>2. s[l - m + 1] <= s[i]
        BY <2>2, <2>6, <3>1 DEF Sorted, l
      <3> QED
        BY <2>5, <2>6, <3>1, <3>2
    <2>8. Cardinality((l - m + 1)..l) = m
      <3>1. /\ l - m + 1 \in Int /\ l \in Int
            /\ Cardinality((l - m + 1)..l) = IF l - m + 1 > l THEN 0 ELSE l - (l - m + 1) + 1
        BY <2>2, <2>3, FS_Interval
      <3> QED
        BY <2>2, <2>3, <2>6, <3>1
    <2>9. IsFiniteSet(many)
      <3>1. IsFiniteSet(1..l)
        BY <2>2, FS_Interval
      <3>2. many \in SUBSET (1..l)
        OBVIOUS
      <3> QED
        BY <3>1, <3>2, FS_Subset
    <2>10. Cardinality((l - m + 1)..l) <= Cardinality(many) /\ Cardinality(many) \in Nat
      BY <2>7, <2>9, FS_Subset, FS_CardinalityType
    <2>11. Rate!WritesSince(b, u) = Rate!Cardinality(many)
      BY <2>5 DEF Rate!WritesSince, s
    <2> QED
      BY <2>3, <2>8, <2>10, <2>11, SameCardinality DEF m
  <1>3. RateFits /\ now \in Nat => RateLimitIsExact
    BY <1>1, <1>2 DEF RateLimitIsExact, Rate!EveryWriteCounts, Rate!DeniedOnlyAtCap
  <1>4. Init => RateFits
    BY RateInit DEF Init
  <1>5. SignInInv /\ RateFits /\ [Next]_vars => RateFits'
    BY RateStep DEF SignInInv
  <1>6. SignInInv => now \in Nat
    BY DEF SignInInv, SignInTypeOK
  <1> QED
    BY <1>3, <1>4, <1>5, <1>6, SignInInvariant, PTL DEF Spec

-----------------------------------------------------------------------------
(***************************************************************************)
(* Admission of requests.                                                  *)
(***************************************************************************)

\* The limits, periods and the bound on lag are numbers, all but the last positive.
LEMMA Limits ==
  /\ MaxRequests \in Nat \ {0} /\ MaxInFlight \in Nat \ {0} /\ RateWindow \in Nat \ {0}
  /\ StaleLease \in Nat \ {0} /\ RenewEvery \in Nat \ {0} /\ MaxLag \in Nat
  /\ Slack \in Nat \ {0} /\ StaleLease = Slack + RenewEvery + RenewEvery
  BY AdmissionAssumption DEF AdmissionAssumption, Slack

USE Limits

\* Pruning keeps live leases as they are and brings none in.
LEMMA PruneKeeps ==
  ASSUME NEW lag \in 0..MaxLag
  PROVE  /\ DOMAIN PruneLeases(lag) = {id \in DOMAIN leases : LiveTo(lag, leases[id])}
         /\ \A id \in DOMAIN PruneLeases(lag) : PruneLeases(lag)[id] = leases[id]
  BY DEF PruneLeases, Restrict

-----------------------------------------------------------------------------
(***************************************************************************)
(* The limit.  It is on the whole map, not only on the leases that are     *)
(* live to an exact clock: a lagging caller can bring those back.          *)
(***************************************************************************)

MapBounded == IsFiniteSet(DOMAIN leases) /\ Cardinality(DOMAIN leases) <= MaxInFlight

\* A map whose leases all were in a bounded map is bounded.
LEMMA SmallerMap ==
  ASSUME MapBounded, NEW S \in SUBSET DOMAIN leases
  PROVE  IsFiniteSet(S) /\ Cardinality(S) <= MaxInFlight /\ Cardinality(S) \in Nat
  <1>1. IsFiniteSet(S) /\ Cardinality(S) <= Cardinality(DOMAIN leases)
    BY FS_Subset DEF MapBounded
  <1>2. Cardinality(S) \in Nat /\ Cardinality(DOMAIN leases) \in Nat
    BY <1>1, FS_CardinalityType DEF MapBounded
  <1> QED
    BY <1>1, <1>2 DEF MapBounded

\* No step outgrows the limit: only admit adds a lease, after it pruned.
LEMMA MapStep == ASSUME MapBounded, [AdmissionNext]_admissionVars PROVE MapBounded'
  <1>1. ASSUME NEW S \in SUBSET DOMAIN leases, DOMAIN leases' = S PROVE MapBounded'
    BY <1>1, SmallerMap DEF MapBounded
  <1>2. ASSUME NEW s \in Slots, NEW lag \in 0..MaxLag, Admit(s, lag) PROVE MapBounded'
    <2> DEFINE P == DOMAIN PruneLeases(lag)
    <2>1. P \in SUBSET DOMAIN leases
      BY PruneKeeps
    <2>2. IsFiniteSet(P) /\ Cardinality(P) \in Nat /\ Cardinality(P) < MaxInFlight
      BY <1>2, <2>1, SmallerMap DEF Admit, Admissible
    <2>3. PICK id \in FreshIds : DOMAIN leases' = P \cup {id}
      BY <1>2 DEF Admit
    <2>4. IsFiniteSet(P \cup {id}) /\ Cardinality(P \cup {id}) <= Cardinality(P) + 1
      <3>1. /\ IsFiniteSet(P \cup {id})
            /\ Cardinality(P \cup {id}) = IF id \in P THEN Cardinality(P) ELSE Cardinality(P) + 1
        BY <2>2, FS_AddElement
      <3> QED
        BY <2>2, <3>1
    <2>5. Cardinality(P \cup {id}) \in Nat
      BY <2>4, FS_CardinalityType
    <2> QED
      BY <2>2, <2>3, <2>4, <2>5 DEF MapBounded
  <1>3. ASSUME NEW s \in Slots, NEW lag \in 0..MaxLag, RefuseConcurrency(s, lag) PROVE MapBounded'
    BY <1>1, <1>3, PruneKeeps DEF RefuseConcurrency
  <1>4. ASSUME NEW id \in LeaseIds, NEW lag \in 0..MaxLag, Renew(id, lag) PROVE MapBounded'
    BY <1>1, <1>4, PruneKeeps DEF Renew, RenewLease
  <1>5. ASSUME NEW id \in LeaseIds, Release(id) PROVE MapBounded'
    BY <1>1, <1>5 DEF Release, ReleaseLease, Restrict
  <1>6. CASE AdmissionTick
    BY <1>1, <1>6 DEF AdmissionTick
  <1>7. CASE UNCHANGED leases
    BY <1>1, <1>7
  <1>8. \/ UNCHANGED leases \/ AdmissionTick
        \/ \E s \in Slots, lag \in 0..MaxLag : Admit(s, lag) \/ RefuseConcurrency(s, lag)
        \/ \E id \in LeaseIds, lag \in 0..MaxLag : Renew(id, lag)
        \/ \E id \in LeaseIds : Release(id)
    BY DEF AdmissionNext, admissionVars, HandlerResponds, Finish, SendRenew, HearRenewed, AnswerIsLost, LetGo, Evict, RenewIsLost,
       ReleaseIsLost
  <1> QED
    BY <1>2, <1>3, <1>4, <1>5, <1>6, <1>7, <1>8

\* At most MaxInFlight leases of a user are live at any time, whatever was leaked,
\* released or renewed late, and however the callers' clocks lag (mcp-admission.ts).
THEOREM LeasesStayBounded == AdmissionSpec => []LeasesBounded
  <1>1. AdmissionInit => MapBounded
    BY FS_EmptySet DEF AdmissionInit, MapBounded
  <1>2. MapBounded => LeasesBounded
    BY SmallerMap DEF LeasesBounded
  <1> QED
    BY <1>1, <1>2, MapStep, PTL DEF AdmissionSpec

-----------------------------------------------------------------------------
(***************************************************************************)
(* Leases that are gone.                                                   *)
(***************************************************************************)

\* A released or pruned lease never comes back, however late its renewal arrives:
\* only admit adds an id, and one nobody refers to (mcp-admission.ts).
THEOREM GoneLeasesStayGone == AdmissionSpec => NoLeaseIsResurrected
  <1> DEFINE Kept == \A id \in LeaseIds : id \notin DOMAIN leases /\ id \in DOMAIN leases' => id \in FreshIds
  <1>1. ASSUME [AdmissionNext]_admissionVars PROVE Kept
    <2>1. ASSUME DOMAIN leases' \subseteq DOMAIN leases PROVE Kept
      BY <2>1
    <2>2. ASSUME NEW s \in Slots, NEW lag \in 0..MaxLag, Admit(s, lag) PROVE Kept
      <3>1. PICK id \in FreshIds : DOMAIN leases' = DOMAIN PruneLeases(lag) \cup {id}
        BY <2>2 DEF Admit
      <3> QED
        BY <3>1, PruneKeeps
    <2>3. ASSUME NEW s \in Slots, NEW lag \in 0..MaxLag, RefuseConcurrency(s, lag) PROVE Kept
      BY <2>1, <2>3, PruneKeeps DEF RefuseConcurrency
    <2>4. ASSUME NEW id \in LeaseIds, NEW lag \in 0..MaxLag, Renew(id, lag) PROVE Kept
      BY <2>1, <2>4, PruneKeeps DEF Renew, RenewLease
    <2>5. ASSUME NEW id \in LeaseIds, Release(id) PROVE Kept
      BY <2>1, <2>5 DEF Release, ReleaseLease, Restrict
    <2>6. CASE AdmissionTick
      BY <2>1, <2>6 DEF AdmissionTick
    <2>7. CASE UNCHANGED leases
      BY <2>1, <2>7
    <2>8. \/ UNCHANGED leases \/ AdmissionTick
          \/ \E s \in Slots, lag \in 0..MaxLag : Admit(s, lag) \/ RefuseConcurrency(s, lag)
          \/ \E id \in LeaseIds, lag \in 0..MaxLag : Renew(id, lag)
          \/ \E id \in LeaseIds : Release(id)
      BY <1>1 DEF AdmissionNext, admissionVars, HandlerResponds, Finish, SendRenew, HearRenewed, AnswerIsLost, LetGo, Evict, RenewIsLost,
         ReleaseIsLost
    <2> QED
      BY <2>2, <2>3, <2>4, <2>5, <2>6, <2>7, <2>8
  <1>2. [AdmissionNext]_admissionVars => [Kept]_admissionVars
    BY <1>1
  <1> QED
    BY <1>2, PTL DEF AdmissionSpec, NoLeaseIsResurrected

-----------------------------------------------------------------------------
(***************************************************************************)
(* Type correctness.                                                       *)
(***************************************************************************)

\* A slot holds a lease of its own while it is busy, and a lease that is being
\* released is held by nobody.
Holders ==
  /\ \A s \in Slots : held[s] = NoLease <=> phase[s] = "idle"
  /\ \A s, t \in Slots : held[s] = held[t] /\ held[s] # NoLease => s = t
  /\ \A c \in calls : c.call = "release" => \A s \in Slots : held[s] # c.id

Held == TypeOK /\ Holders

\* A map over leases of the right type is of the right type.
LeasesOK(m) == DOMAIN m \subseteq LeaseIds /\ \A id \in DOMAIN m : m[id] \in 0..(StaleLease + MaxLag)

\* What the object's methods leave is well typed.
LEMMA MethodTypes ==
  ASSUME TypeOK, NEW lag \in 0..MaxLag
  PROVE  /\ LeasesOK(PruneLeases(lag)) /\ FullLease(lag) \in 0..(StaleLease + MaxLag)
         /\ ~RateLimited(lag) => Counted(lag) \in [age : 0..(RateWindow + MaxLag), count : 0..MaxRequests]
  <1>1. LeasesOK(PruneLeases(lag))
    BY PruneKeeps DEF LeasesOK, TypeOK
  <1>2. FullLease(lag) \in 0..(StaleLease + MaxLag)
    BY DEF FullLease
  <1>3. CurrentWindow(lag) \in [age : 0..(RateWindow + MaxLag), count : 0..MaxRequests]
    BY DEF CurrentWindow, TypeOK
  <1> QED
    BY <1>1, <1>2, <1>3 DEF Counted, RateLimited

\* Every step keeps the state well typed.
LEMMA AdmissionTypeStep == ASSUME Held, [AdmissionNext]_admissionVars PROVE TypeOK'
  <1> USE DEF Held, TypeOK, Serving
  <1>1. ASSUME NEW s \in Slots, NEW lag \in 0..MaxLag, Admit(s, lag) PROVE TypeOK'
    <2>1. PICK id \in FreshIds :
            /\ leases' = [i \in DOMAIN PruneLeases(lag) \cup {id} |-> IF i = id THEN FullLease(lag) ELSE leases[i]]
            /\ \/ /\ phase' = [phase EXCEPT ![s] = "handling"] /\ held' = [held EXCEPT ![s] = id]
                  /\ late' = [late EXCEPT ![s] = Capped(lag, Slack)]
               \/ UNCHANGED <<phase, held, late>>
      BY <1>1 DEF Admit
    <2>2. LeasesOK(leases')
      BY <2>1, MethodTypes, PruneKeeps DEF LeasesOK, FreshIds
    <2>3. window' \in [age : 0..(RateWindow + MaxLag), count : 0..MaxRequests]
      BY <1>1, MethodTypes DEF Admit, Admissible
    <2>4. Capped(lag, Slack) \in 0..Slack
      BY DEF Capped
    <2>5. /\ phase' \in [Slots -> Serving \cup {"idle"}] /\ held' \in [Slots -> LeaseIds \cup {NoLease}]
          /\ late' \in [Slots -> 0..Slack]
      BY <2>1, <2>4 DEF FreshIds
    <2> QED
      BY <1>1, <2>2, <2>3, <2>5 DEF Admit, LeasesOK
  <1>2. ASSUME NEW s \in Slots, NEW lag \in 0..MaxLag, RefuseConcurrency(s, lag) PROVE TypeOK'
    BY <1>2, MethodTypes DEF RefuseConcurrency, LeasesOK
  <1>3. ASSUME NEW s \in Slots, HandlerResponds(s) \/ HearRenewed(s) \/ AnswerIsLost(s) PROVE TypeOK'
    BY <1>3 DEF HandlerResponds, HearRenewed, AnswerIsLost, Capped
  <1>4. ASSUME NEW s \in Slots, Finish(s) \/ SendRenew(s) \/ Evict(s) PROVE TypeOK'
    <2>1. held[s] \in LeaseIds
      BY <1>4 DEF Finish, SendRenew, Evict, Holders
    <2> QED
      BY <1>4, <2>1 DEF Finish, SendRenew, Evict, LetGo, Call
  <1>5. ASSUME NEW id \in LeaseIds, NEW lag \in 0..MaxLag, Renew(id, lag) PROVE TypeOK'
    <2>1. LeasesOK(leases')
      BY <1>5, MethodTypes, PruneKeeps DEF Renew, RenewLease, LeasesOK
    <2>2. Capped(lag, Slack) \in 0..Slack
      BY DEF Capped
    <2>3. /\ phase' \in [Slots -> Serving \cup {"idle"}] /\ failed' \in [Slots -> 0..2]
          /\ late' \in [Slots -> 0..Slack]
      BY <1>5, <2>2 DEF Renew
    <2> QED
      BY <1>5, <2>1, <2>3 DEF Renew, LeasesOK
  <1>6. ASSUME NEW id \in LeaseIds, RenewIsLost(id) PROVE TypeOK'
    BY <1>6 DEF RenewIsLost, Capped
  <1>7. ASSUME NEW id \in LeaseIds, Release(id) \/ ReleaseIsLost(id) PROVE TypeOK'
    BY <1>7 DEF Release, ReleaseIsLost, ReleaseLease, Restrict
  <1>8. CASE AdmissionTick
    BY <1>8 DEF AdmissionTick, Capped
  <1>9. CASE UNCHANGED admissionVars
    BY <1>9 DEF admissionVars
  <1> QED
    BY <1>1, <1>2, <1>3, <1>4, <1>5, <1>6, <1>7, <1>8, <1>9 DEF AdmissionNext

\* Every step keeps who holds what.
LEMMA HoldersStep == ASSUME Held, [AdmissionNext]_admissionVars PROVE Holders'
  <1> USE LeaseIdsAssumption DEF Held, TypeOK, Holders, Serving
  <1>1. ASSUME NEW s \in Slots, NEW lag \in 0..MaxLag, Admit(s, lag) PROVE Holders'
    <2>1. phase[s] = "idle" /\ UNCHANGED calls
      BY <1>1 DEF Admit
    <2>2. PICK id \in FreshIds :
             \/ phase' = [phase EXCEPT ![s] = "handling"] /\ held' = [held EXCEPT ![s] = id]
             \/ UNCHANGED <<phase, held>>
      BY <1>1 DEF Admit
    <2> QED
      BY <2>1, <2>2 DEF FreshIds
  <1>2. ASSUME NEW s \in Slots, NEW lag \in 0..MaxLag, RefuseConcurrency(s, lag) PROVE Holders'
    BY <1>2 DEF RefuseConcurrency
  <1>3. ASSUME NEW s \in Slots, HandlerResponds(s) \/ HearRenewed(s) \/ AnswerIsLost(s) \/ SendRenew(s) PROVE Holders'
    BY <1>3 DEF HandlerResponds, HearRenewed, AnswerIsLost, SendRenew, Call
  <1>4. ASSUME NEW s \in Slots, Finish(s) \/ Evict(s) PROVE Holders'
    BY <1>4 DEF Finish, Evict, LetGo, Call
  <1>5. ASSUME NEW id \in LeaseIds, NEW lag \in 0..MaxLag, Renew(id, lag) PROVE Holders'
    <2>1. UNCHANGED held /\ calls' \subseteq calls
      BY <1>5 DEF Renew
    <2>2. \A s \in Slots : phase'[s] = "idle" <=> phase[s] = "idle"
      BY <1>5 DEF Renew
    <2> QED
      BY <2>1, <2>2
  <1>6. ASSUME NEW id \in LeaseIds, RenewIsLost(id) \/ Release(id) \/ ReleaseIsLost(id) PROVE Holders'
    BY <1>6 DEF RenewIsLost, Release, ReleaseIsLost
  <1>7. CASE AdmissionTick
    BY <1>7 DEF AdmissionTick
  <1>8. CASE UNCHANGED admissionVars
    BY <1>8 DEF admissionVars
  <1> QED
    BY <1>1, <1>2, <1>3, <1>4, <1>5, <1>6, <1>7, <1>8 DEF AdmissionNext

\* At the start nothing is held.
LEMMA InitHeld == AdmissionInit => Held
  <1> SUFFICES ASSUME AdmissionInit PROVE Held
    OBVIOUS
  <1> USE DEF AdmissionInit
  <1>1. window \in [age : 0..(RateWindow + MaxLag), count : 0..MaxRequests]
    BY SMT
  <1>2. DOMAIN leases = {} /\ calls = {}
    OBVIOUS
  <1>3. phase \in [Slots -> Serving \cup {"idle"}] /\ held \in [Slots -> LeaseIds \cup {NoLease}]
    OBVIOUS
  <1>4. timer \in [Slots -> 0..RenewEvery] /\ failed \in [Slots -> 0..2] /\ late \in [Slots -> 0..Slack]
    OBVIOUS
  <1>5. Holders
    BY <1>2 DEF Holders
  <1> QED
    BY <1>1, <1>2, <1>3, <1>4, <1>5 DEF Held, TypeOK

\* Whatever is leaked, late or lagging, the object, the calls and the slots stay well
\* typed, and no two slots hold the same lease.
THEOREM AdmissionTypeCorrect == AdmissionSpec => [](TypeOK /\ Holders)
  <1>1. AdmissionInit => Held
    BY InitHeld
  <1>2. Held /\ [AdmissionNext]_admissionVars => Held'
    BY AdmissionTypeStep, HoldersStep DEF Held
  <1>3. Held => TypeOK /\ Holders
    BY DEF Held
  <1> QED
    BY <1>1, <1>2, <1>3, PTL DEF AdmissionSpec

-----------------------------------------------------------------------------
(***************************************************************************)
(* Why a stream is lost.                                                   *)
(***************************************************************************)

\* Two renewals in a row went wrong, or one and all the time a lease has to spare.
Caused(s) == failed[s] = 2 \/ late[s] = Slack

LeaseOf(s) == leases[held[s]]

\* Where the time went since the lease of a slot was put back, beside what it is late.
Missed(s) == IF failed[s] = 0 THEN 0 ELSE RenewEvery
Waited(s) == IF phase[s] = "streaming" THEN RenewEvery - timer[s] ELSE 0

\* While nothing has caused a loss, what is left of a lease and where its time went make up
\* a whole lease.
LeaseLasts(s) ==
  /\ held[s] \in DOMAIN leases
  /\ LeaseOf(s) + late[s] + Missed(s) + Waited(s) >= StaleLease + MaxLag

\* A renewal is under way only for a loop that waits for nothing else.
AsksWhenDue(s) ==
  /\ phase[s] # "idle" /\ Call("renew", held[s]) \in calls => phase[s] = "streaming" /\ timer[s] = 0
  /\ phase[s] # "streaming" => timer[s] = 0
  /\ phase[s] \in {"idle", "handling", "renewed"} => failed[s] = 0

LeasesLast ==
  \A s \in Slots :
    /\ AsksWhenDue(s)
    /\ phase[s] \in {"handling", "streaming", "renewed"} /\ ~Caused(s) => LeaseLasts(s)
    /\ phase[s] = "refused" => Caused(s)

\* Such a lease is live to every caller: no call prunes it.
LEMMA ServingIsNotPruned ==
  ASSUME Held, LeasesLast, NEW lag \in 0..MaxLag,
         NEW t \in Slots, phase[t] \in {"handling", "streaming", "renewed"}, ~Caused(t)
  PROVE  held[t] \in DOMAIN PruneLeases(lag) /\ PruneLeases(lag)[held[t]] = leases[held[t]]
  <1>1. held[t] \in DOMAIN leases /\ LeaseOf(t) + late[t] + Missed(t) + Waited(t) >= StaleLease + MaxLag
    BY DEF LeasesLast, LeaseLasts
  <1>2. LeaseOf(t) \in Nat /\ late[t] \in 0..Slack /\ late[t] # Slack /\ timer[t] \in 0..RenewEvery
    BY <1>1 DEF Held, TypeOK, LeaseOf, Caused
  <1>3. Missed(t) \in 0..RenewEvery /\ Waited(t) \in 0..RenewEvery
    BY <1>2 DEF Missed, Waited
  <1>4. leases[held[t]] > MaxLag
    BY <1>1, <1>2, <1>3 DEF LeaseOf
  <1>5. LiveTo(lag, leases[held[t]])
    BY <1>2, <1>4 DEF LiveTo, LeaseOf
  <1> QED
    BY <1>1, <1>5, PruneKeeps

\* Every step keeps it.
LEMMA LastsStep == ASSUME Held, LeasesLast, [AdmissionNext]_admissionVars PROVE LeasesLast'
  <1> USE DEF Held, TypeOK, LeasesLast, AsksWhenDue, LeaseLasts, LeaseOf, Serving
  \* Slots that a step leaves alone keep their lease if the step does.
  <1>a. ASSUME NEW t \in Slots,
               /\ phase'[t] = phase[t] /\ held'[t] = held[t] /\ timer'[t] = timer[t]
               /\ failed'[t] = failed[t] /\ late'[t] = late[t],
               phase[t] # "idle" /\ Call("renew", held[t]) \in calls' => Call("renew", held[t]) \in calls,
               phase[t] \in {"handling", "streaming", "renewed"} /\ ~Caused(t) =>
                  held[t] \in DOMAIN leases' /\ leases'[held[t]] >= leases[held[t]]
        PROVE  /\ AsksWhenDue(t)'
               /\ phase'[t] \in {"handling", "streaming", "renewed"} /\ ~Caused(t)' => LeaseLasts(t)'
               /\ phase'[t] = "refused" => Caused(t)'
    <2>1. Caused(t)' <=> Caused(t)
      BY <1>a DEF Caused
    <2>2. Missed(t)' = Missed(t) /\ Waited(t)' = Waited(t)
      BY <1>a DEF Missed, Waited
    <2>3. AsksWhenDue(t)'
      BY <1>a
    <2>4. ASSUME phase'[t] \in {"handling", "streaming", "renewed"}, ~Caused(t)' PROVE LeaseLasts(t)'
      <3>1. LeaseLasts(t) /\ held[t] \in DOMAIN leases' /\ leases'[held[t]] >= leases[held[t]]
        BY <1>a, <2>1, <2>4
      <3>2. leases[held[t]] \in Nat /\ leases'[held[t]] \in Nat
        BY <3>1, AdmissionTypeStep
      <3>3. late[t] \in Nat /\ Missed(t) \in Nat /\ Waited(t) \in Nat
        BY DEF Missed, Waited
      <3>4. leases'[held[t]] + late[t] + Missed(t) + Waited(t) >= StaleLease + MaxLag
        BY <3>1, <3>2, <3>3
      <3> QED
        BY <1>a, <2>2, <3>1, <3>4
    <2> QED
      BY <1>a, <2>1, <2>3, <2>4
  <1>1. ASSUME NEW s \in Slots, NEW lag \in 0..MaxLag, Admit(s, lag) PROVE LeasesLast'
    <2>1. phase[s] = "idle" /\ UNCHANGED <<calls, timer, failed>>
      BY <1>1 DEF Admit
    <2>2. PICK id \in FreshIds :
            /\ leases' = [i \in DOMAIN PruneLeases(lag) \cup {id} |-> IF i = id THEN FullLease(lag) ELSE leases[i]]
            /\ \/ /\ phase' = [phase EXCEPT ![s] = "handling"] /\ held' = [held EXCEPT ![s] = id]
                  /\ late' = [late EXCEPT ![s] = Capped(lag, Slack)]
               \/ UNCHANGED <<phase, held, late>>
      BY <1>1 DEF Admit
    <2>3. \A t \in Slots : phase[t] \in {"handling", "streaming", "renewed"} /\ ~Caused(t) =>
             held[t] \in DOMAIN leases' /\ leases'[held[t]] = leases[held[t]]
      <3>1. \A t \in Slots : held[t] # id
        BY DEF FreshIds
      <3> QED
        BY <2>2, <3>1, ServingIsNotPruned
    <2>4. CASE UNCHANGED <<phase, held, late>>
      BY <1>a, <2>1, <2>3, <2>4
    <2>5. CASE /\ phase' = [phase EXCEPT ![s] = "handling"] /\ held' = [held EXCEPT ![s] = id]
               /\ late' = [late EXCEPT ![s] = Capped(lag, Slack)]
      <3>1. \A t \in Slots \ {s} : phase'[t] = phase[t] /\ held'[t] = held[t] /\ late'[t] = late[t]
        BY <2>5
      <3>2. phase'[s] = "handling" /\ held'[s] = id /\ late'[s] = Capped(lag, Slack)
        BY <2>5
      <3>3. Call("renew", id) \notin calls'
        BY <2>1 DEF FreshIds, Call
      <3>4. AsksWhenDue(s)'
        BY <2>1, <3>2, <3>3
      <3>5. ~Caused(s)' => LeaseLasts(s)'
        <4>1. ~Caused(s)' => Capped(lag, Slack) = lag
          BY <3>2 DEF Caused, Capped
        <4>2. id \in DOMAIN leases' /\ leases'[id] = StaleLease + MaxLag - lag
          BY <2>2 DEF FullLease
        <4>3. Missed(s)' = 0 /\ Waited(s)' = 0
          BY <2>1, <3>2 DEF Missed, Waited
        <4> QED
          BY <3>2, <4>1, <4>2, <4>3
      <3> QED
        BY <1>a, <2>1, <2>3, <3>1, <3>2, <3>4, <3>5
    <2> QED
      BY <2>2, <2>4, <2>5
  <1>2. ASSUME NEW s \in Slots, NEW lag \in 0..MaxLag, RefuseConcurrency(s, lag) PROVE LeasesLast'
    <2>1. \A t \in Slots : phase[t] \in {"handling", "streaming", "renewed"} /\ ~Caused(t) =>
             held[t] \in DOMAIN leases' /\ leases'[held[t]] = leases[held[t]]
      BY <1>2, ServingIsNotPruned DEF RefuseConcurrency
    <2> QED
      BY <1>2, <1>a, <2>1 DEF RefuseConcurrency
  <1>3. ASSUME NEW s \in Slots, HandlerResponds(s) \/ HearRenewed(s) PROVE LeasesLast'
    <2>1. \A t \in Slots \ {s} : phase'[t] = phase[t] /\ held'[t] = held[t] /\ timer'[t] = timer[t]
      BY <1>3 DEF HandlerResponds, HearRenewed
    <2>2. /\ phase'[s] = "streaming" /\ phase[s] \in {"handling", "renewed"} /\ timer'[s] = RenewEvery
          /\ UNCHANGED <<leases, calls, held, failed, late>>
      BY <1>3 DEF HandlerResponds, HearRenewed
    <2>3. Caused(s)' <=> Caused(s)
      BY <2>2 DEF Caused
    <2>4. Missed(s)' = Missed(s) /\ Waited(s)' = 0 /\ Waited(s) = 0
      BY <2>2 DEF Missed, Waited
    <2>5. AsksWhenDue(s)'
      BY <2>2
    <2>6. ~Caused(s)' => LeaseLasts(s)'
      BY <2>2, <2>3, <2>4
    <2> QED
      BY <1>a, <2>1, <2>2, <2>5, <2>6
  <1>4. ASSUME NEW s \in Slots, Finish(s) \/ Evict(s) PROVE LeasesLast'
    <2>1. /\ phase'[s] = "idle" /\ timer'[s] = 0 /\ failed'[s] = 0 /\ UNCHANGED leases
          /\ \A t \in Slots \ {s} : /\ phase'[t] = phase[t] /\ held'[t] = held[t] /\ timer'[t] = timer[t]
                                    /\ failed'[t] = failed[t] /\ late'[t] = late[t]
          /\ \A id \in LeaseIds : Call("renew", id) \in calls' => Call("renew", id) \in calls
      BY <1>4 DEF Finish, Evict, LetGo, Call
    <2>2. \A t \in Slots : phase[t] # "idle" => held[t] \in LeaseIds
      BY DEF Holders
    <2> QED
      BY <1>a, <2>1, <2>2
  <1>5. ASSUME NEW s \in Slots, SendRenew(s) PROVE LeasesLast'
    <2>1. /\ phase[s] = "streaming" /\ timer[s] = 0 /\ calls' = calls \cup {Call("renew", held[s])}
          /\ UNCHANGED <<leases, phase, held, timer, failed, late>>
      BY <1>5 DEF SendRenew
    <2>2. \A t \in Slots \ {s} : phase[t] # "idle" => held[t] # held[s]
      BY LeaseIdsAssumption DEF Holders
    <2>3. \A t \in Slots \ {s} : phase[t] # "idle" /\ Call("renew", held[t]) \in calls' => Call("renew", held[t]) \in calls
      BY <2>1, <2>2 DEF Call
    <2>4. /\ Caused(s)' <=> Caused(s)
          /\ Missed(s)' = Missed(s) /\ Waited(s)' = Waited(s)
      BY <2>1 DEF Caused, Missed, Waited
    <2> QED
      BY <1>a, <2>1, <2>3, <2>4
  <1>6. ASSUME NEW id \in LeaseIds, NEW lag \in 0..MaxLag, Renew(id, lag) PROVE LeasesLast'
    <2> DEFINE renewed == id \in DOMAIN PruneLeases(lag)
               Asked(t) == held[t] = id /\ phase[t] = "streaming"
    <2>1. /\ leases' = [i \in DOMAIN PruneLeases(lag) |-> IF i = id THEN FullLease(lag) ELSE leases[i]]
          /\ Call("renew", id) \in calls /\ calls' = calls \ {Call("renew", id)}
          /\ UNCHANGED <<held, timer>>
      BY <1>6 DEF Renew, RenewLease
    <2>2. \A t \in Slots :
             /\ phase'[t] = IF ~Asked(t) THEN phase[t] ELSE IF renewed THEN "renewed" ELSE "refused"
             /\ failed'[t] = IF Asked(t) /\ renewed THEN 0 ELSE failed[t]
             /\ late'[t] = IF Asked(t) /\ renewed THEN Capped(lag, Slack) ELSE late[t]
      BY <1>6 DEF Renew
    <2>3. \A t \in Slots : phase[t] \in {"handling", "streaming", "renewed"} /\ ~Caused(t) =>
             held[t] \in DOMAIN PruneLeases(lag)
      BY ServingIsNotPruned
    <2>4. \A t \in Slots : phase[t] # "idle" /\ ~Asked(t) => held[t] # id
      BY <2>1
    <2>5. ASSUME NEW t \in Slots, ~Asked(t)
          PROVE  /\ AsksWhenDue(t)'
                 /\ phase'[t] \in {"handling", "streaming", "renewed"} /\ ~Caused(t)' => LeaseLasts(t)'
                 /\ phase'[t] = "refused" => Caused(t)'
      <3>1. phase[t] \in {"handling", "streaming", "renewed"} /\ ~Caused(t) =>
               held[t] \in DOMAIN leases' /\ leases'[held[t]] = leases[held[t]]
        BY <2>1, <2>3, <2>4, <2>5
      <3> QED
        BY <1>a, <2>1, <2>2, <2>5, <3>1
    <2>6. ASSUME NEW t \in Slots, Asked(t)
          PROVE  /\ AsksWhenDue(t)'
                 /\ phase'[t] \in {"handling", "streaming", "renewed"} /\ ~Caused(t)' => LeaseLasts(t)'
                 /\ phase'[t] = "refused" => Caused(t)'
      <3>1. held'[t] = id /\ timer'[t] = 0 /\ Call("renew", id) \notin calls'
        BY <2>1, <2>6
      <3>2. CASE renewed
        <4>1. phase'[t] = "renewed" /\ failed'[t] = 0 /\ late'[t] = Capped(lag, Slack)
          BY <2>2, <2>6, <3>2
        <4>2. ~Caused(t)' => Capped(lag, Slack) = lag
          BY <4>1 DEF Caused, Capped
        <4>3. id \in DOMAIN leases' /\ leases'[id] = StaleLease + MaxLag - lag
          BY <2>1, <3>2 DEF FullLease
        <4>4. Missed(t)' = 0 /\ Waited(t)' = 0
          BY <4>1 DEF Missed, Waited
        <4> QED
          BY <3>1, <4>1, <4>2, <4>3, <4>4
      <3>3. CASE ~renewed
        <4>1. phase'[t] = "refused" /\ failed'[t] = failed[t] /\ late'[t] = late[t]
          BY <2>2, <2>6, <3>3
        <4>2. Caused(t)
          BY <2>3, <2>6, <3>3
        <4> QED
          BY <3>1, <4>1, <4>2 DEF Caused
      <3> QED
        BY <3>2, <3>3
    <2> QED
      BY <2>5, <2>6
  <1>7. ASSUME NEW s \in Slots, AnswerIsLost(s) PROVE LeasesLast'
    <2>1. /\ \A t \in Slots \ {s} : phase'[t] = phase[t] /\ timer'[t] = timer[t] /\ failed'[t] = failed[t]
          /\ phase'[s] = "streaming" /\ phase[s] \in {"renewed", "refused"} /\ timer'[s] = RenewEvery
          /\ failed'[s] = IF phase[s] = "refused" THEN Capped(failed[s] + 1, 2) ELSE failed[s]
          /\ UNCHANGED <<leases, calls, held, late>>
      BY <1>7 DEF AnswerIsLost
    <2>2. Call("renew", held[s]) \notin calls
      BY <2>1
    <2>3. CASE phase[s] = "refused"
      <3>1. Caused(s)'
        BY <2>1, <2>3 DEF Caused, Capped
      <3> QED
        BY <1>a, <2>1, <2>2, <3>1
    <2>4. CASE phase[s] = "renewed"
      <3>1. failed'[s] = failed[s] /\ (Caused(s)' <=> Caused(s))
        BY <2>1, <2>4 DEF Caused
      <3>2. Missed(s)' = Missed(s) /\ Waited(s)' = 0 /\ Waited(s) = 0
        BY <2>1, <2>4, <3>1 DEF Missed, Waited
      <3> QED
        BY <1>a, <2>1, <2>2, <2>4, <3>1, <3>2
    <2> QED
      BY <2>1, <2>3, <2>4
  <1>8. ASSUME NEW id \in LeaseIds, RenewIsLost(id) PROVE LeasesLast'
    <2> DEFINE Asked(t) == held[t] = id /\ phase[t] = "streaming"
    <2>1. /\ \A t \in Slots : /\ timer'[t] = IF Asked(t) THEN RenewEvery ELSE timer[t]
                              /\ failed'[t] = IF Asked(t) THEN Capped(failed[t] + 1, 2) ELSE failed[t]
          /\ calls' = calls \ {Call("renew", id)}
          /\ UNCHANGED <<leases, phase, held, late>>
      BY <1>8 DEF RenewIsLost
    <2>2. ASSUME NEW t \in Slots, Asked(t)
          PROVE  /\ AsksWhenDue(t)'
                 /\ phase'[t] \in {"handling", "streaming", "renewed"} /\ ~Caused(t)' => LeaseLasts(t)'
                 /\ phase'[t] = "refused" => Caused(t)'
      <3>1. AsksWhenDue(t)'
        BY <2>1, <2>2
      <3>2. ASSUME ~Caused(t)' PROVE LeaseLasts(t)'
        <4>1. failed[t] = 0 /\ failed'[t] = 1 /\ ~Caused(t)
          BY <2>1, <2>2, <3>2 DEF Caused, Capped
        <4>2. Missed(t)' = RenewEvery /\ Waited(t)' = 0 /\ Missed(t) = 0 /\ Waited(t) = RenewEvery - timer[t]
          BY <2>1, <2>2, <4>1 DEF Missed, Waited
        <4>3. LeaseLasts(t) /\ leases[held[t]] \in Nat /\ late[t] \in Nat /\ timer[t] \in 0..RenewEvery
          BY <2>2, <4>1
        <4>4. leases[held[t]] + late[t] + RenewEvery + 0 >= StaleLease + MaxLag
          BY <4>2, <4>3
        <4> QED
          BY <2>1, <4>2, <4>3, <4>4
      <3> QED
        BY <2>1, <2>2, <3>1, <3>2
    <2> QED
      BY <1>a, <2>1, <2>2
  <1>9. ASSUME NEW id \in LeaseIds, Release(id) \/ ReleaseIsLost(id) PROVE LeasesLast'
    <2>1. \A s \in Slots : held[s] # id
      BY <1>9 DEF Release, ReleaseIsLost, Holders, Call
    <2>2. \A s \in Slots : held[s] \in DOMAIN leases => held[s] \in DOMAIN leases' /\ leases'[held[s]] = leases[held[s]]
      BY <1>9, <2>1 DEF Release, ReleaseIsLost, ReleaseLease, Restrict
    <2> QED
      BY <1>9, <1>a, <2>2 DEF Release, ReleaseIsLost
  <1>10. CASE AdmissionTick
    <2>1. /\ \A s \in Slots :
               /\ timer'[s] = IF timer[s] > 0 THEN timer[s] - 1 ELSE 0
               /\ late'[s] = IF phase[s] \in Serving /\ timer[s] = 0 THEN Capped(late[s] + 1, Slack) ELSE late[s]
          /\ UNCHANGED <<calls, phase, held, failed>>
      BY <1>10 DEF AdmissionTick
    <2>2. \A id \in DOMAIN leases : id \in DOMAIN leases' /\ leases'[id] = IF leases[id] > 0 THEN leases[id] - 1 ELSE 0
      BY <1>10 DEF AdmissionTick
    <2>3. ASSUME NEW t \in Slots PROVE AsksWhenDue(t)' /\ (phase'[t] = "refused" => Caused(t)')
      BY <2>1 DEF Caused, Capped
    <2>4. ASSUME NEW t \in Slots, phase[t] \in {"handling", "streaming", "renewed"}, ~Caused(t)' PROVE LeaseLasts(t)'
      <3>1. ~Caused(t) /\ late'[t] = IF timer[t] = 0 THEN late[t] + 1 ELSE late[t]
        BY <2>1, <2>4 DEF Caused, Capped
      <3>2. LeaseLasts(t) /\ leases[held[t]] \in Nat /\ late[t] \in Nat /\ timer[t] \in 0..RenewEvery
        BY <2>4, <3>1
      <3>3. Missed(t)' = Missed(t) /\ Missed(t) \in Nat /\ Waited(t) \in Nat
        BY <2>1, <3>2 DEF Missed, Waited
      <3>4. late'[t] + Waited(t)' = late[t] + Waited(t) + 1
        BY <2>1, <2>4, <3>1, <3>2 DEF Waited
      <3>5. leases'[held[t]] \in Nat /\ leases'[held[t]] + 1 >= leases[held[t]]
        BY <2>2, <3>2
      <3>6. late'[t] \in Nat /\ Waited(t)' \in Nat
        BY <2>1, <2>4, <3>1, <3>2 DEF Waited
      <3>7. leases'[held[t]] + late'[t] + Missed(t)' + Waited(t)' >= StaleLease + MaxLag
        BY <3>2, <3>3, <3>4, <3>5, <3>6
      <3> QED
        BY <2>1, <2>2, <3>2, <3>7
    <2> QED
      BY <2>1, <2>3, <2>4
  <1>11. CASE UNCHANGED <<leases, calls, phase, held, timer, failed, late>>
    BY <1>11 DEF Caused, Missed, Waited
  <1> QED
    BY <1>1, <1>2, <1>3, <1>4, <1>5, <1>6, <1>7, <1>8, <1>9, <1>10, <1>11 DEF AdmissionNext, admissionVars

\* A renewal is refused, and the stream cut, only if two renewals in a row did not put the
\* lease back, or the handler, the calls and answers under way and the callers' clocks have
\* cost the time a lease has beyond two renewals (index.ts, renewMcpAdmissionUntilReleased).
THEOREM StreamsAreLostForCause == AdmissionSpec => []LossHasACause
  <1>1. AdmissionInit => Held /\ LeasesLast
    BY InitHeld DEF AdmissionInit, LeasesLast, AsksWhenDue
  <1>2. Held /\ LeasesLast /\ [AdmissionNext]_admissionVars => (Held /\ LeasesLast)'
    BY AdmissionTypeStep, HoldersStep, LastsStep DEF Held
  <1>3. Held /\ LeasesLast => LossHasACause
    BY DEF LeasesLast, Caused, LossHasACause
  <1> QED
    BY <1>1, <1>2, <1>3, PTL DEF AdmissionSpec
=============================================================================
