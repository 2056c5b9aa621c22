------------------------- MODULE DurableObjectProofs -------------------------
(***************************************************************************)
(* Theorems about two Durable Objects: the budget of a day with the runs   *)
(* that reserve from it, for every finite set of runs and all limits, and  *)
(* the mutation ledger, for every set of hashes and results and every      *)
(* retention.                                                              *)
(***************************************************************************)
EXTENDS DailyBudget, MutationLedger, FiniteSetTheorems, TLAPS

-----------------------------------------------------------------------------
(***************************************************************************)
(* Sums over finite sets.  The library's induction theorems cannot be      *)
(* instantiated here, so induction is on a set of subsets: a set of them   *)
(* that has every finite set whose proper subsets it has, has them all.    *)
(***************************************************************************)
LEMMA SubsetInduction ==
  ASSUME NEW S, IsFiniteSet(S), NEW P,
         \A T \in SUBSET S : (\A U \in SUBSET T : U # T => U \in P) => T \in P
  PROVE  S \in P
  <1> DEFINE Bad == {T \in SUBSET S : T \notin P}
  <1> SUFFICES ASSUME Bad # {} PROVE FALSE
    OBVIOUS
  <1>1. IsWellFoundedOn(StrictSubsetOrdering(S), FiniteSubsetsOf(S))
    BY FS_StrictSubsetOrderingWellFounded
  <1>2. Bad \subseteq FiniteSubsetsOf(S)
    BY FS_Subset DEF FiniteSubsetsOf
  <1> HIDE DEF Bad
  <1>3. PICK T \in Bad : \A U \in Bad : <<U, T>> \notin StrictSubsetOrdering(S)
    BY <1>1, <1>2, WFMin
  <1>4. \A U \in SUBSET T : U # T => U \in P
    BY <1>3 DEF StrictSubsetOrdering, Bad
  <1> QED
    BY <1>3, <1>4 DEF Bad

First(S) == CHOOSE x \in S : TRUE

\* What the library's fold defines recursively: the sum of w over each subset of S.
Sums(w, S, f) ==
  f = [T \in SUBSET S |-> IF T = {} THEN 0 ELSE w[First(T)] + f[T \ {First(T)}]]

\* The element a fold takes first is one of the set.
LEMMA FirstIn == \A S : S # {} => First(S) \in S
  BY DEF First

\* The library's sum is the value at the set of a function that satisfies Sums.
LEMMA SumIs == ASSUME NEW w, NEW S PROVE SumFunctionOnSet(w, S) = (CHOOSE f : Sums(w, S, f))[S]
  BY DEF SumFunctionOnSet, FoldFunctionOnSet, MapThenFoldSet, Sums, First

\* A function with these values satisfies Sums.
LEMMA SumsIf ==
  ASSUME NEW w, NEW S, NEW f, f = [T \in SUBSET S |-> f[T]],
         \A T \in SUBSET S : f[T] = IF T = {} THEN 0 ELSE w[First(T)] + f[T \ {First(T)}]
  PROVE  Sums(w, S, f)
  BY DEF Sums

\* The sums over the subsets of a part of S are those over the subsets of S.
LEMMA SumsRestrict ==
  ASSUME NEW w, NEW S, NEW T \in SUBSET S, NEW f, Sums(w, S, f)
  PROVE  Sums(w, T, Restrict(f, SUBSET T))
  <1> DEFINE g == Restrict(f, SUBSET T)
  <1>1. ASSUME NEW U \in SUBSET T
        PROVE  g[U] = IF U = {} THEN 0 ELSE w[First(U)] + g[U \ {First(U)}]
    BY DEF Sums, Restrict
  <1>2. g = [U \in SUBSET T |-> g[U]]
    BY DEF Restrict
  <1> HIDE DEF g
  <1>3. Sums(w, T, g)
    BY <1>1, <1>2, SumsIf
  <1> QED
    BY <1>3 DEF g

TheSums(w, S) == CHOOSE f : Sums(w, S, f)

OneSum(w, S) == Sums(w, S, TheSums(w, S)) /\ \A g : Sums(w, S, g) => g = TheSums(w, S)

\* The same sums, said of the functions chosen for S and for a part of it.
LEMMA SumsAgree ==
  ASSUME NEW w, NEW S, OneSum(w, S), NEW T \in SUBSET S, OneSum(w, T)
  PROVE  TheSums(w, S)[T] = TheSums(w, T)[T]
  <1>1. Sums(w, T, Restrict(TheSums(w, S), SUBSET T))
    <2>1. Sums(w, S, TheSums(w, S))
      BY DEF OneSum
    <2> QED
      BY <2>1, SumsRestrict
  <1>2. Restrict(TheSums(w, S), SUBSET T) = TheSums(w, T)
    BY <1>1 DEF OneSum
  <1> QED
    BY <1>2 DEF Restrict

\* Over a finite set there is one such function.
LEMMA OneSumExists ==
  ASSUME NEW w, NEW S, IsFiniteSet(S)
  PROVE  OneSum(w, S)
  <1> DEFINE P == {T \in SUBSET S : OneSum(w, T)}
  <1>1. ASSUME NEW T \in SUBSET S, \A U \in SUBSET T : U # T => U \in P
        PROVE  T \in P
    <2> DEFINE F(U) == TheSums(w, U)
               h == [U \in SUBSET T |->
                      IF U # T THEN F(U)[U]
                      ELSE IF U = {} THEN 0 ELSE w[First(U)] + F(U \ {First(U)})[U \ {First(U)}]]
    <2>1. ASSUME NEW U \in SUBSET T, U # T PROVE OneSum(w, U)
      BY <1>1, <2>1
    <2>2. ASSUME NEW U \in SUBSET T
          PROVE  h[U] = IF U = {} THEN 0 ELSE w[First(U)] + h[U \ {First(U)}]
      <3> DEFINE R == U \ {First(U)}
      <3>1. CASE U = {}
        <4>1. CASE U # T
          <5>1. Sums(w, U, F(U))
            BY <2>1, <4>1 DEF OneSum
          <5> QED
            BY <3>1, <4>1, <5>1 DEF Sums
        <4> QED
          BY <3>1, <4>1
      <3>2. CASE U # {}
        <4>1. R \in SUBSET U /\ R # U /\ R # T
          BY <3>2, FirstIn
        <4>2. h[R] = F(R)[R]
          BY <4>1
        <4>3. CASE U # T
          <5>1. Sums(w, U, F(U))
            BY <2>1, <4>3 DEF OneSum
          <5>2. F(U)[U] = w[First(U)] + F(U)[R]
            BY <3>2, <5>1 DEF Sums
          <5>3. F(U)[R] = F(R)[R]
            <6>1. OneSum(w, U) /\ OneSum(w, R)
              BY <2>1, <4>1, <4>3
            <6> QED
              BY <4>1, <6>1, SumsAgree
          <5> QED
            BY <3>2, <4>2, <4>3, <5>2, <5>3
        <4> QED
          BY <3>2, <4>2, <4>3
      <3> QED
        BY <3>1, <3>2
    <2>3. h = [U \in SUBSET T |-> h[U]]
      OBVIOUS
    <2>4. ASSUME NEW g, Sums(w, T, g) PROVE g = h
      <3>1. ASSUME NEW U \in SUBSET T, U # T PROVE g[U] = F(U)[U]
        <4>1. Sums(w, U, Restrict(g, SUBSET U))
          BY <2>4, SumsRestrict
        <4>2. Restrict(g, SUBSET U) = F(U)
          BY <2>1, <3>1, <4>1 DEF OneSum
        <4> QED
          BY <4>2 DEF Restrict
      <3>2. g[T] = IF T = {} THEN 0 ELSE w[First(T)] + g[T \ {First(T)}]
        BY <2>4 DEF Sums
      <3>3. T # {} => T \ {First(T)} # T
        BY FirstIn
      <3>4. g = [U \in SUBSET T |-> g[U]]
        BY <2>4 DEF Sums
      <3>5. ASSUME NEW U \in SUBSET T PROVE g[U] = h[U]
        BY <3>1, <3>2, <3>3
      <3> HIDE DEF h
      <3> QED
        BY <2>3, <3>4, <3>5
    <2> HIDE DEF h
    <2>5. Sums(w, T, h)
      BY <2>2, <2>3, SumsIf
    <2>6. TheSums(w, T) = h
      BY <2>4, <2>5 DEF TheSums
    <2> QED
      BY <2>4, <2>5, <2>6 DEF OneSum
  <1>2. S \in P
    <2> HIDE DEF P
    <2> QED
      BY <1>1, SubsetInduction
  <1> QED
    BY <1>2

\* The sum over the empty set, and over a set with one element taken out.
LEMMA SumUnfolds ==
  ASSUME NEW w, NEW S, IsFiniteSet(S)
  PROVE  SumFunctionOnSet(w, S) =
           IF S = {} THEN 0 ELSE w[First(S)] + SumFunctionOnSet(w, S \ {First(S)})
  <1> DEFINE R == S \ {First(S)}
  <1>1. OneSum(w, S) /\ OneSum(w, R)
    BY OneSumExists, FS_Subset
  <1>2. SumFunctionOnSet(w, S) = TheSums(w, S)[S] /\ SumFunctionOnSet(w, R) = TheSums(w, R)[R]
    BY SumIs DEF TheSums
  <1>3. TheSums(w, S)[S] = IF S = {} THEN 0 ELSE w[First(S)] + TheSums(w, S)[R]
    BY <1>1 DEF Sums, OneSum
  <1>4. TheSums(w, S)[R] = TheSums(w, R)[R]
    BY <1>1, SumsAgree
  <1> QED
    BY <1>2, <1>3, <1>4

\* Nothing sums to zero.
LEMMA EmptySum == ASSUME NEW w PROVE SumFunctionOnSet(w, {}) = 0
  BY SumUnfolds, FS_EmptySet

\* What is left of a finite set without its first element.
LEMMA SmallerPart ==
  ASSUME NEW T, T # {}, IsFiniteSet(T)
  PROVE  /\ First(T) \in T
         /\ T \ {First(T)} \in SUBSET T /\ T \ {First(T)} # T
         /\ IsFiniteSet(T \ {First(T)})
  BY FirstIn, FS_Subset

\* A sum of naturals is one, and a sum of zeros is zero.
LEMMA SumNat ==
  ASSUME NEW w, NEW S, IsFiniteSet(S), \A x \in S : w[x] \in Nat
  PROVE  SumFunctionOnSet(w, S) \in Nat
  <1> DEFINE P == {T \in SUBSET S : SumFunctionOnSet(w, T) \in Nat}
  <1>1. ASSUME NEW T \in SUBSET S, \A U \in SUBSET T : U # T => U \in P
        PROVE  T \in P
    <2>1. IsFiniteSet(T)
      BY FS_Subset
    <2>2. CASE T = {}
      BY <2>2, EmptySum
    <2>3. CASE T # {}
      <3>1. SumFunctionOnSet(w, T \ {First(T)}) \in Nat /\ w[First(T)] \in Nat
        BY <1>1, <2>1, <2>3, SmallerPart
      <3>2. SumFunctionOnSet(w, T) = w[First(T)] + SumFunctionOnSet(w, T \ {First(T)})
        BY <2>1, <2>3, SumUnfolds
      <3> QED
        BY <3>1, <3>2
    <2> QED
      BY <2>2, <2>3
  <1>2. S \in P
    <2> HIDE DEF P
    <2> QED
      BY <1>1, SubsetInduction
  <1> QED
    BY <1>2

\* Zeros sum to zero.
LEMMA SumZero ==
  ASSUME NEW w, NEW S, IsFiniteSet(S), \A x \in S : w[x] = 0
  PROVE  SumFunctionOnSet(w, S) = 0
  <1> DEFINE P == {T \in SUBSET S : SumFunctionOnSet(w, T) = 0}
  <1>1. ASSUME NEW T \in SUBSET S, \A U \in SUBSET T : U # T => U \in P
        PROVE  T \in P
    <2>1. IsFiniteSet(T)
      BY FS_Subset
    <2>2. CASE T = {}
      BY <2>2, EmptySum
    <2>3. CASE T # {}
      <3>1. SumFunctionOnSet(w, T \ {First(T)}) = 0 /\ w[First(T)] = 0
        BY <1>1, <2>1, <2>3, SmallerPart
      <3>2. SumFunctionOnSet(w, T) = w[First(T)] + SumFunctionOnSet(w, T \ {First(T)})
        BY <2>1, <2>3, SumUnfolds
      <3> QED
        BY <3>1, <3>2
    <2> QED
      BY <2>2, <2>3
  <1>2. S \in P
    <2> HIDE DEF P
    <2> QED
      BY <1>1, SubsetInduction
  <1> QED
    BY <1>2

\* Any element may be taken out of a sum.
LEMMA SumRemoves ==
  ASSUME NEW w, NEW S, IsFiniteSet(S), \A x \in S : w[x] \in Nat, NEW y \in S
  PROVE  SumFunctionOnSet(w, S) = w[y] + SumFunctionOnSet(w, S \ {y})
  <1> DEFINE P == {T \in SUBSET S : \A x \in T :
                     SumFunctionOnSet(w, T) = w[x] + SumFunctionOnSet(w, T \ {x})}
  <1>1. ASSUME NEW T \in SUBSET S, \A U \in SUBSET T : U # T => U \in P
        PROVE  T \in P
    <2> SUFFICES ASSUME NEW x \in T
                 PROVE  SumFunctionOnSet(w, T) = w[x] + SumFunctionOnSet(w, T \ {x})
      OBVIOUS
    <2> DEFINE first == First(T)
               both == T \ {first, x}
    <2>1. IsFiniteSet(T) /\ IsFiniteSet(T \ {x}) /\ IsFiniteSet(both)
      BY FS_Subset
    <2>2. first \in T
      BY FirstIn
    <2>3. SumFunctionOnSet(w, T) = w[first] + SumFunctionOnSet(w, T \ {first})
      BY <2>1, SumUnfolds
    <2>4. CASE x # first
      <3>1. T \ {first} \in P /\ T \ {x} \in P
        BY <1>1, <2>2
      <3>2. (T \ {first}) \ {x} = both /\ (T \ {x}) \ {first} = both
        OBVIOUS
      <3>3. /\ SumFunctionOnSet(w, T \ {first}) = w[x] + SumFunctionOnSet(w, both)
            /\ SumFunctionOnSet(w, T \ {x}) = w[first] + SumFunctionOnSet(w, both)
        BY <2>2, <2>4, <3>1, <3>2
      <3>4. w[x] \in Nat /\ w[first] \in Nat /\ SumFunctionOnSet(w, both) \in Nat
        BY <2>1, <2>2, SumNat
      <3> QED
        BY <2>3, <3>3, <3>4
    <2> QED
      BY <2>3, <2>4
  <1>2. S \in P
    <2> HIDE DEF P
    <2> QED
      BY <1>1, SubsetInduction
  <1> QED
    BY <1>2

\* A sum grows with its terms.
LEMMA SumGrows ==
  ASSUME NEW w, NEW v, NEW S, IsFiniteSet(S),
         \A x \in S : w[x] \in Nat /\ v[x] \in Nat /\ w[x] <= v[x]
  PROVE  SumFunctionOnSet(w, S) <= SumFunctionOnSet(v, S)
  <1> DEFINE P == {T \in SUBSET S : SumFunctionOnSet(w, T) <= SumFunctionOnSet(v, T)}
  <1>1. ASSUME NEW T \in SUBSET S, \A U \in SUBSET T : U # T => U \in P
        PROVE  T \in P
    <2>1. IsFiniteSet(T)
      BY FS_Subset
    <2>2. CASE T = {}
      BY <2>2, EmptySum
    <2>3. CASE T # {}
      <3> DEFINE R == T \ {First(T)}
      <3>1. First(T) \in S /\ SumFunctionOnSet(w, R) <= SumFunctionOnSet(v, R)
        BY <1>1, <2>1, <2>3, SmallerPart
      <3>2. SumFunctionOnSet(w, R) \in Nat /\ SumFunctionOnSet(v, R) \in Nat
        BY <2>1, <2>3, SmallerPart, SumNat
      <3>3. /\ SumFunctionOnSet(w, T) = w[First(T)] + SumFunctionOnSet(w, R)
            /\ SumFunctionOnSet(v, T) = v[First(T)] + SumFunctionOnSet(v, R)
        BY <2>1, <2>3, SumUnfolds
      <3> QED
        BY <3>1, <3>2, <3>3
    <2> QED
      BY <2>2, <2>3
  <1>2. S \in P
    <2> HIDE DEF P
    <2> QED
      BY <1>1, SubsetInduction
  <1> QED
    BY <1>2

\* Functions that agree on S have the same sum.
LEMMA SumSame ==
  ASSUME NEW w, NEW v, NEW S, IsFiniteSet(S), \A x \in S : w[x] \in Nat /\ v[x] = w[x]
  PROVE  SumFunctionOnSet(v, S) = SumFunctionOnSet(w, S)
  <1>1. SumFunctionOnSet(w, S) \in Nat /\ SumFunctionOnSet(v, S) \in Nat
    BY SumNat
  <1>2. SumFunctionOnSet(w, S) <= SumFunctionOnSet(v, S)
    BY SumGrows
  <1>3. SumFunctionOnSet(v, S) <= SumFunctionOnSet(w, S)
    BY SumGrows
  <1> QED
    BY <1>1, <1>2, <1>3

\* A sum follows the one term that changes.
LEMMA SumChanges ==
  ASSUME NEW w, NEW v, NEW S, IsFiniteSet(S), NEW y \in S,
         \A x \in S : w[x] \in Nat /\ v[x] \in Nat,
         \A x \in S \ {y} : v[x] = w[x]
  PROVE  /\ SumFunctionOnSet(v, S) = SumFunctionOnSet(w, S) - w[y] + v[y]
         /\ SumFunctionOnSet(w, S) >= w[y]
  <1> DEFINE R == S \ {y}
  <1>1. IsFiniteSet(R)
    BY FS_Subset
  <1>2. SumFunctionOnSet(w, S) = w[y] + SumFunctionOnSet(w, R)
    BY SumRemoves
  <1>3. SumFunctionOnSet(v, S) = v[y] + SumFunctionOnSet(v, R)
    BY SumRemoves
  <1>4. SumFunctionOnSet(v, R) = SumFunctionOnSet(w, R)
    BY <1>1, SumSame
  <1>5. SumFunctionOnSet(w, R) \in Nat
    BY <1>1, SumNat
  <1> QED
    BY <1>2, <1>3, <1>4, <1>5

-----------------------------------------------------------------------------
(***************************************************************************)
(* The daily budget.                                                       *)
(***************************************************************************)
USE BudgetAssumption

MeteredDims == {"serviceNowRequests", "outboundBytesSent", "rowsReturned"}
BookedDims == MeteredDims \cup {"uniqueWorkers"}

\* What a run really used of a dimension, on all days.
Lifetime(r, d) == SumFunction([dd \in Days |-> spent[r][dd][d]])

\* A run that has not started, or never will, has used nothing.
NothingBeforeStart ==
  \A r \in Runs : phase[r] \in {"new", "reserved", "denied"} =>
    used[r] = Zero /\ open[r] = 0 /\ \A dd \in Days : spent[r][dd] = Zero

NothingTomorrow == \A r \in Runs, dd \in Days : dd > day => spent[r][dd] = Zero

\* The meter never runs behind what was really used.
MeterLeads ==
  \A r \in Runs : /\ \A d \in MeteredDims : Lifetime(r, d) <= used[r][d] /\ Lifetime(r, d) <= PerRun[d]
                  /\ spent[r][0]["uniqueWorkers"] <= Reservation(r)["uniqueWorkers"]

\* Workers stay booked when a run is settled.
Held(r, d) == IF d = "uniqueWorkers" /\ Granted(r) THEN Reservation(r)[d] ELSE Weight(r, d)
HeldBy(d) == [r \in Runs |-> Held(r, d)]

Books ==
  day = 0 => \A d \in BookedDims :
    /\ count[0][d] = SumFunctionOnSet(HeldBy(d), Runs)
    /\ \A u \in Users : tally[0][u][d] = SumFunctionOnSet(HeldBy(d), {r \in Runs : UserOf[r] = u})

\* What a run may still add to the day's traffic, or has added: a report may be larger than
\* the reservation, as the meter counts what it refuses.
Owed(r, d) == IF Held(r, d) <= Reservation(r)[d] THEN Held(r, d) ELSE Reservation(r)[d]
OwedBy(d) == [r \in Runs |-> Owed(r, d)]

Funded == day = 0 => \A d \in Traffic : SumFunctionOnSet(OwedBy(d), Runs) <= Cap[d]

IInv == TypeOK /\ NothingBeforeStart /\ NothingTomorrow /\ MeterLeads /\ Books /\ Funded

-----------------------------------------------------------------------------

\* The days of an instance are finite in number, and the first is among them.
LEMMA DaysFinite == IsFiniteSet(Days) /\ 0 \in Days
  BY FS_Interval DEF Days

\* A reservation takes the per-run maximum of requests and bytes, and no rows.
LEMMA ReservationType ==
  ASSUME NEW r \in Runs
  PROVE  /\ Reservation(r) \in [Dims -> Nat]
         /\ \A d \in {"serviceNowRequests", "outboundBytesSent"} : Reservation(r)[d] = PerRun[d]
         /\ Reservation(r)["rowsReturned"] = 0
         /\ Reservation(r)["uniqueWorkers"] >= (IF Kind[r] = "run_code" THEN 1 ELSE 0)
  <1>1. Kind[r] \in {"run_code", "discovery"} /\ \A d \in Dims : PerRun[d] \in Nat /\ PerRun[d] > 0
    OBVIOUS
  <1> QED
    BY <1>1 DEF Reservation, Dims

\* Booking a change that leaves no counter below zero.
LEMMA BookIs ==
  ASSUME TypeOK, NEW r \in Runs, NEW delta \in [Dims -> Int], Book(r, delta)
  PROVE  /\ count' \in [Days -> [Dims -> Nat]]
         /\ tally' \in [Days -> [Users -> [Dims -> Nat]]]
         /\ \A d \in Dims : count[day][d] + delta[d] >= 0 => count'[day][d] = count[day][d] + delta[d]
         /\ \A d \in Dims : tally[day][UserOf[r]][d] + delta[d] >= 0
              => tally'[day][UserOf[r]][d] = tally[day][UserOf[r]][d] + delta[d]
         /\ \A u \in Users : u # UserOf[r] => tally'[day][u] = tally[day][u]
  <1> DEFINE Clamp(n) == IF n < 0 THEN 0 ELSE n
             u0 == UserOf[r]
             c == [d \in Dims |-> Clamp(count[day][d] + delta[d])]
             t == [d \in Dims |-> Clamp(tally[day][u0][d] + delta[d])]
  <1>1. day \in Days /\ u0 \in Users
    BY DEF TypeOK
  <1>2. count' = [count EXCEPT ![day] = c]
    BY <1>1 DEF Book, TypeOK
  <1>3. tally' = [tally EXCEPT ![day] = [tally[day] EXCEPT ![u0] = t]]
    BY <1>1 DEF Book, TypeOK
  <1>4. c \in [Dims -> Nat] /\ t \in [Dims -> Nat]
    BY <1>1 DEF TypeOK
  <1>5. \A d \in Dims : /\ count[day][d] + delta[d] >= 0 => c[d] = count[day][d] + delta[d]
                        /\ tally[day][u0][d] + delta[d] >= 0 => t[d] = tally[day][u0][d] + delta[d]
    <2> SUFFICES ASSUME NEW d \in Dims
                 PROVE  /\ count[day][d] + delta[d] >= 0 => c[d] = count[day][d] + delta[d]
                        /\ tally[day][u0][d] + delta[d] >= 0 => t[d] = tally[day][u0][d] + delta[d]
      OBVIOUS
    <2>1. count[day][d] \in Nat /\ tally[day][u0][d] \in Nat /\ delta[d] \in Int
      BY <1>1 DEF TypeOK
    <2> QED
      BY <2>1
  <1> HIDE DEF c, t, u0
  <1>6. count' \in [Days -> [Dims -> Nat]] /\ count'[day] = c
    BY <1>1, <1>2, <1>4 DEF TypeOK
  <1>7. [tally[day] EXCEPT ![u0] = t] \in [Users -> [Dims -> Nat]]
    BY <1>1, <1>4 DEF TypeOK
  <1>8. tally' \in [Days -> [Users -> [Dims -> Nat]]] /\ tally'[day] = [tally[day] EXCEPT ![u0] = t]
    BY <1>1, <1>3, <1>7 DEF TypeOK
  <1>9. tally'[day][u0] = t /\ \A u \in Users : u # u0 => tally'[day][u] = tally[day][u]
    BY <1>1, <1>8 DEF TypeOK
  <1> QED
    BY <1>5, <1>6, <1>8, <1>9 DEF u0

\* What a step spends is today's and its run's.
LEMMA SpendIs ==
  ASSUME TypeOK, NEW r \in Runs, NEW delta \in [Dims -> Nat], SpendToday(r, delta)
  PROVE  /\ spent' \in [Runs -> [Days -> [Dims -> Nat]]]
         /\ \A d \in Dims : spent'[r][day][d] = spent[r][day][d] + delta[d]
         /\ \A q \in Runs, dd \in Days : q # r \/ dd # day => spent'[q][dd] = spent[q][dd]
  <1> DEFINE s == [d \in Dims |-> spent[r][day][d] + delta[d]]
  <1>1. day \in Days
    BY DEF TypeOK
  <1>2. spent' = [spent EXCEPT ![r] = [spent[r] EXCEPT ![day] = s]]
    BY <1>1 DEF SpendToday, TypeOK
  <1>3. s \in [Dims -> Nat] /\ \A d \in Dims : s[d] = spent[r][day][d] + delta[d]
    BY <1>1 DEF TypeOK
  <1> HIDE DEF s
  <1>4. [spent[r] EXCEPT ![day] = s] \in [Days -> [Dims -> Nat]]
    BY <1>1, <1>3 DEF TypeOK
  <1> QED
    BY <1>1, <1>2, <1>3, <1>4 DEF TypeOK

\* A change of one counter.
LEMMA OnlyIs ==
  ASSUME NEW d \in Dims, NEW n \in Nat
  PROVE  Only(d, n) \in [Dims -> Nat] /\ \A e \in Dims : Only(d, n)[e] = IF e = d THEN n ELSE 0
  BY DEF Zero, Only

\* A Worker or a sandbox call spends nothing of what the meter limits.
LEMMA OnlyElsewhere ==
  ASSUME NEW d \in {"uniqueWorkers", "sandboxRpcCalls"}, NEW n \in Nat
  PROVE  Only(d, n) \in [Dims -> Nat] /\ \A e \in MeteredDims : Only(d, n)[e] = 0
  <1>1. d \in Dims /\ \A e \in MeteredDims : e \in Dims /\ e # d
    BY DEF Dims, MeteredDims
  <1> QED
    BY <1>1 DEF Zero, Only

\* What one request spends.
LEMMA RequestIs ==
  ASSUME NEW b \in 0..1
  PROVE  /\ OneRequest(b) \in [Dims -> Nat]
         /\ [OneRequest(b) EXCEPT !["sandboxRpcCalls"] = 1] \in [Dims -> Nat]
         /\ \A d \in MeteredDims :
              [OneRequest(b) EXCEPT !["sandboxRpcCalls"] = 1][d] = OneRequest(b)[d]
         /\ \A d \in MeteredDims : OneRequest(b)[d] = IF d = "serviceNowRequests" THEN 1
                                                      ELSE IF d = "outboundBytesSent" THEN b ELSE 0
  <1>1. "serviceNowRequests" \in Dims /\ "outboundBytesSent" \in Dims /\ "sandboxRpcCalls" \in Dims
        /\ MeteredDims \subseteq Dims /\ "sandboxRpcCalls" \notin MeteredDims
    BY DEF Dims, MeteredDims
  <1> QED
    BY <1>1 DEF Zero, OneRequest

\* The meter never goes back, and counts what it lets pass.
LEMMA MeterIs ==
  ASSUME NEW m \in [Dims -> Nat], NEW b \in 0..1
  PROVE  /\ Metered(m, b) \in [Dims -> Nat] /\ Dispatched(m) \in [Dims -> Nat]
         /\ \A d \in Dims : Metered(m, b)[d] >= m[d] /\ Dispatched(m)[d] >= m[d]
         /\ \A d \in MeteredDims : Dispatched(m)[d] = m[d]
         /\ MayRequest(m, b) => /\ m["serviceNowRequests"] < PerRun["serviceNowRequests"]
                                /\ m["outboundBytesSent"] + b <= PerRun["outboundBytesSent"]
                                /\ \A d \in MeteredDims : Metered(m, b)[d] = m[d] + OneRequest(b)[d]
  <1>1. "serviceNowRequests" \in Dims /\ "outboundBytesSent" \in Dims /\ "sandboxRpcCalls" \in Dims
        /\ MeteredDims \subseteq Dims /\ "sandboxRpcCalls" \notin MeteredDims
    BY DEF Dims, MeteredDims
  <1>2. PerRun["serviceNowRequests"] \in Nat /\ PerRun["outboundBytesSent"] \in Nat
    BY <1>1
  <1>3. /\ Dispatched(m) \in [Dims -> Nat] /\ \A d \in Dims : Dispatched(m)[d] >= m[d]
        /\ \A d \in MeteredDims : Dispatched(m)[d] = m[d]
    BY <1>1 DEF Dispatched
  <1>4. /\ Metered(m, b) \in [Dims -> Nat] /\ \A d \in Dims : Metered(m, b)[d] >= m[d]
        /\ FitsOutbound(m, b) => \A d \in MeteredDims : Metered(m, b)[d] = m[d] + OneRequest(b)[d]
    <2>1. \A d \in MeteredDims : OneRequest(b)[d] = IF d = "serviceNowRequests" THEN 1
                                                  ELSE IF d = "outboundBytesSent" THEN b ELSE 0
      BY RequestIs
    <2>2. CASE FitsOutbound(m, b)
      <3> DEFINE k == [m EXCEPT !["outboundBytesSent"] = m["outboundBytesSent"] + b]
      <3>1. k \in [Dims -> Nat] /\ \A d \in Dims : k[d] = IF d = "outboundBytesSent" THEN m[d] + b ELSE m[d]
        BY <1>1
      <3>2. Metered(m, b) = [k EXCEPT !["serviceNowRequests"] = k["serviceNowRequests"] + 1]
        BY <2>2, <1>1 DEF Metered
      <3> HIDE DEF k
      <3>3. Metered(m, b) \in [Dims -> Nat]
            /\ \A d \in Dims : Metered(m, b)[d] = IF d = "serviceNowRequests" THEN k[d] + 1 ELSE k[d]
        BY <1>1, <3>1, <3>2
      <3> QED
        BY <1>1, <2>1, <3>1, <3>3
    <2>3. CASE ~FitsOutbound(m, b)
      BY <2>3 DEF Metered
    <2> QED
      BY <2>2, <2>3
  <1> QED
    BY <1>2, <1>3, <1>4 DEF MayRequest, FitsOutbound

-----------------------------------------------------------------------------
(***************************************************************************)
(* One step.                                                               *)
(***************************************************************************)

\* Two dimensions of a run's own record, and the phases.
LEMMA StepTypes ==
  ASSUME TypeOK, NEW r \in Runs
  PROVE  /\ used[r] \in [Dims -> Nat] /\ open[r] \in Nat /\ day \in Days
         /\ Reservation(r) \in [Dims -> Int] /\ Refund(r) \in [Dims -> Int]
  <1>1. used[r] \in [Dims -> Nat] /\ open[r] \in Nat /\ day \in Days
    BY DEF TypeOK
  <1>2. Reservation(r) \in [Dims -> Nat]
    BY ReservationType
  <1>3. Refund(r) \in [Dims -> Int]
    <2>1. \A d \in Dims : used[r][d] \in Nat /\ Reservation(r)[d] \in Nat
      BY <1>1, <1>2
    <2> QED
      BY <2>1 DEF Refund
  <1> QED
    BY <1>1, <1>2, <1>3

\* The state stays well typed.
LEMMA TypesKept == ASSUME TypeOK, Next PROVE TypeOK'
  <1>1. ASSUME NEW r \in Runs, Reserve(r) PROVE TypeOK'
    <2>1. count' \in [Days -> [Dims -> Nat]] /\ tally' \in [Days -> [Users -> [Dims -> Nat]]]
      BY <1>1, StepTypes, BookIs DEF Reserve
    <2> QED
      BY <1>1, <2>1 DEF Reserve, TypeOK
  <1>2. ASSUME NEW r \in Runs, DenyRun(r) PROVE TypeOK'
    BY <1>2 DEF DenyRun, TypeOK
  <1>3. ASSUME NEW r \in Runs, StartRun(r) PROVE TypeOK'
    <2>1. Only("uniqueWorkers", IF Kind[r] = "run_code" THEN 1 ELSE 0) \in [Dims -> Nat]
      BY OnlyIs DEF Dims
    <2>2. spent' \in [Runs -> [Days -> [Dims -> Nat]]]
      BY <1>3, <2>1, SpendIs DEF StartRun
    <2> QED
      BY <1>3, <2>2 DEF StartRun, TypeOK
  <1>4. ASSUME NEW r \in Runs, TranspileFails(r) PROVE TypeOK'
    BY <1>4 DEF TranspileFails, TypeOK
  <1>5. ASSUME NEW r \in Runs, RunEnds(r) PROVE TypeOK'
    BY <1>5 DEF RunEnds, TypeOK
  <1>6. ASSUME NEW r \in Runs, Reconcile(r) PROVE TypeOK'
    <2>1. count' \in [Days -> [Dims -> Nat]] /\ tally' \in [Days -> [Users -> [Dims -> Nat]]]
      BY <1>6, StepTypes, BookIs DEF Reconcile
    <2> QED
      BY <1>6, <2>1 DEF Reconcile, TypeOK
  <1>7. ASSUME NEW r \in Runs, ReconcileIsLost(r) PROVE TypeOK'
    BY <1>7 DEF ReconcileIsLost, TypeOK
  <1>8. ASSUME NEW r \in Runs, Evict(r) PROVE TypeOK'
    BY <1>8 DEF Evict, TypeOK
  <1>9. ASSUME NEW r \in Runs, NEW b \in 0..1, HostCall(r, b) PROVE TypeOK'
    <2>1. Metered(Dispatched(used[r]), b) \in [Dims -> Nat]
      BY StepTypes, MeterIs
    <2>2. spent' \in [Runs -> [Days -> [Dims -> Nat]]]
      BY <1>9, RequestIs, SpendIs DEF HostCall
    <2>3. used' = [used EXCEPT ![r] = Metered(Dispatched(used[r]), b)]
      BY <1>9 DEF HostCall
    <2>4. used' \in [Runs -> [Dims -> Nat]]
      BY <2>1, <2>3 DEF TypeOK
    <2>5. open' \in [Runs -> Nat] /\ UNCHANGED <<day, count, tally, phase, report>>
      BY <1>9 DEF HostCall, TypeOK
    <2> QED
      BY <2>2, <2>4, <2>5 DEF TypeOK
  <1>10. ASSUME NEW r \in Runs, NEW b \in 0..1, RefusedHostCall(r, b) PROVE TypeOK'
    <2>1. Metered(Dispatched(used[r]), b) \in [Dims -> Nat] /\ Dispatched(used[r]) \in [Dims -> Nat]
      BY StepTypes, MeterIs
    <2>2. Only("sandboxRpcCalls", 1) \in [Dims -> Nat]
      BY OnlyIs DEF Dims
    <2>3. spent' \in [Runs -> [Days -> [Dims -> Nat]]]
      BY <1>10, <2>2, SpendIs DEF RefusedHostCall
    <2> QED
      BY <1>10, <2>1, <2>3 DEF RefusedHostCall, TypeOK
  <1>11. ASSUME NEW r \in Runs, NEW b \in 0..1, FurtherRequest(r, b) PROVE TypeOK'
    <2>1. Metered(used[r], b) \in [Dims -> Nat]
      BY StepTypes, MeterIs
    <2>2. spent' \in [Runs -> [Days -> [Dims -> Nat]]]
      BY <1>11, RequestIs, SpendIs DEF FurtherRequest
    <2> QED
      BY <1>11, <2>1, <2>2 DEF FurtherRequest, TypeOK
  <1>12. ASSUME NEW r \in Runs, NEW b \in 0..1, RefusedRequest(r, b) PROVE TypeOK'
    <2>1. Metered(used[r], b) \in [Dims -> Nat]
      BY StepTypes, MeterIs
    <2> QED
      BY <1>12, <2>1 DEF RefusedRequest, TypeOK
  <1>13. ASSUME NEW r \in Runs, NEW n \in 0..Page, CallReturns(r, n) PROVE TypeOK'
    <2> DEFINE n0 == IF used[r]["rowsReturned"] + n <= PerRun["rowsReturned"] THEN n ELSE 0
    <2>0. n0 \in Nat
      OBVIOUS
    <2>1. Only("rowsReturned", n0) \in [Dims -> Nat]
      BY <2>0, OnlyIs DEF Dims
    <2>2. spent' \in [Runs -> [Days -> [Dims -> Nat]]]
      BY <1>13, <2>1, SpendIs DEF CallReturns
    <2>3. [used[r] EXCEPT !["rowsReturned"] = used[r]["rowsReturned"] + n] \in [Dims -> Nat]
      BY DEF Dims, TypeOK
    <2>4. used' = [used EXCEPT ![r] = [used[r] EXCEPT !["rowsReturned"] = used[r]["rowsReturned"] + n]]
      BY <1>13 DEF CallReturns
    <2>5. used' \in [Runs -> [Dims -> Nat]]
      BY <2>3, <2>4 DEF TypeOK
    <2> QED
      BY <1>13, <2>2, <2>5 DEF CallReturns, TypeOK
  <1>14. CASE Midnight
    BY <1>14 DEF Midnight, Days, TypeOK
  <1> QED
    BY <1>1, <1>2, <1>3, <1>4, <1>5, <1>6, <1>7, <1>8, <1>9, <1>10, <1>11, <1>12, <1>13, <1>14
       DEF Next

\* A step spends today only; what it really uses the meter counts, within the limit.
Spending ==
  /\ \A q \in Runs, dd \in Days : dd # day => spent'[q][dd] = spent[q][dd]
  /\ \A q \in Runs, d \in MeteredDims :
       /\ spent'[q][day][d] >= spent[q][day][d]
       /\ used'[q][d] - used[q][d] >= spent'[q][day][d] - spent[q][day][d]
       /\ \/ spent'[q][day][d] = spent[q][day][d]
          \/ used'[q][d] <= PerRun[d]

\* Every step of every run satisfies Spending.
LEMMA UsesAreMetered == ASSUME TypeOK, Next PROVE Spending
  <1>0. /\ MeteredDims \subseteq Dims /\ "uniqueWorkers" \in Dims /\ "sandboxRpcCalls" \in Dims
        /\ "rowsReturned" \in MeteredDims /\ "serviceNowRequests" \in Dims /\ "outboundBytesSent" \in Dims
        /\ day \in Days
    BY DEF Dims, MeteredDims, TypeOK
  <1>1. \A q \in Runs, d \in MeteredDims :
          spent[q][day][d] \in Nat /\ used[q][d] \in Nat /\ PerRun[d] \in Nat
    BY <1>0 DEF TypeOK
  <1>2. ASSUME UNCHANGED spent,
               \A q \in Runs, d \in MeteredDims : used'[q][d] \in Nat /\ used'[q][d] >= used[q][d]
        PROVE  Spending
    BY <1>1, <1>2 DEF Spending
  <1>3. ASSUME NEW r \in Runs, NEW delta \in [Dims -> Nat], SpendToday(r, delta),
               \A q \in Runs \ {r} : used'[q] = used[q],
               \A d \in MeteredDims : /\ used'[r][d] \in Nat /\ used'[r][d] >= used[r][d] + delta[d]
                                      /\ delta[d] > 0 => used'[r][d] <= PerRun[d]
        PROVE  Spending
    <2>1. \A q \in Runs, dd \in Days : dd # day => spent'[q][dd] = spent[q][dd]
      BY <1>3, SpendIs
    <2>2. ASSUME NEW q \in Runs, NEW d \in MeteredDims, q # r
          PROVE  spent'[q][day][d] = spent[q][day][d] /\ used'[q][d] = used[q][d]
      BY <1>0, <1>3, <2>2, SpendIs
    <2>3. ASSUME NEW d \in MeteredDims
          PROVE  delta[d] \in Nat /\ spent'[r][day][d] = spent[r][day][d] + delta[d]
      BY <1>0, <1>3, SpendIs
    <2> QED
      BY <1>1, <1>3, <2>1, <2>2, <2>3 DEF Spending
  <1>4. ASSUME UNCHANGED <<spent, used>> PROVE Spending
    BY <1>1, <1>2, <1>4
  <1>5. ASSUME NEW r \in Runs, StartRun(r) PROVE Spending
    <2> DEFINE delta == Only("uniqueWorkers", IF Kind[r] = "run_code" THEN 1 ELSE 0)
    <2>1. delta \in [Dims -> Nat] /\ \A d \in MeteredDims : delta[d] = 0
      <3> DEFINE n == IF Kind[r] = "run_code" THEN 1 ELSE 0
      <3>1. n \in Nat
        OBVIOUS
      <3> HIDE DEF n
      <3>2. delta = Only("uniqueWorkers", n)
        BY DEF n
      <3> HIDE DEF delta
      <3> QED
        BY <3>1, <3>2, OnlyElsewhere
    <2> HIDE DEF delta
    <2>2. SpendToday(r, delta) /\ used' = used
      BY <1>5 DEF StartRun, delta
    <2> QED
      BY <1>1, <1>3, <2>1, <2>2
  <1>6. ASSUME NEW r \in Runs, NEW b \in 0..1, HostCall(r, b) PROVE Spending
    <2> DEFINE delta == [OneRequest(b) EXCEPT !["sandboxRpcCalls"] = 1]
               m == Dispatched(used[r])
    <2>1. delta \in [Dims -> Nat] /\ \A d \in MeteredDims : delta[d] = OneRequest(b)[d]
      BY RequestIs
    <2> HIDE DEF delta
    <2>2. SpendToday(r, delta) /\ used' = [used EXCEPT ![r] = Metered(m, b)] /\ MayRequest(m, b)
      BY <1>6 DEF HostCall, delta
    <2>3. m \in [Dims -> Nat] /\ \A d \in MeteredDims : m[d] = used[r][d]
      BY StepTypes, MeterIs
    <2> HIDE DEF m
    <2>4. \A d \in MeteredDims : /\ Metered(m, b)[d] = used[r][d] + delta[d]
                                 /\ delta[d] > 0 => used[r][d] + delta[d] <= PerRun[d]
      <3>1. ASSUME NEW d \in MeteredDims
            PROVE  OneRequest(b)[d] = IF d = "serviceNowRequests" THEN 1
                                      ELSE IF d = "outboundBytesSent" THEN b ELSE 0
        BY RequestIs
      <3> QED
        BY <1>0, <1>1, <2>1, <2>2, <2>3, <3>1, MeterIs DEF MeteredDims
    <2>5. \A q \in Runs \ {r} : used'[q] = used[q]
      BY <2>2 DEF TypeOK
    <2>6. used'[r] = Metered(m, b)
      BY <2>2 DEF TypeOK
    <2>7. \A d \in MeteredDims : delta[d] \in Nat
      BY <1>0, <2>1
    <2>8. \A d \in MeteredDims : /\ used'[r][d] \in Nat /\ used'[r][d] >= used[r][d] + delta[d]
                                 /\ delta[d] > 0 => used'[r][d] <= PerRun[d]
      BY <1>1, <2>4, <2>6, <2>7
    <2> QED
      BY <1>3, <2>1, <2>2, <2>5, <2>8
  <1>7. ASSUME NEW r \in Runs, NEW b \in 0..1, RefusedHostCall(r, b) PROVE Spending
    <2> DEFINE delta == Only("sandboxRpcCalls", 1)
               m == IF MayDispatch(used[r]) THEN Metered(Dispatched(used[r]), b) ELSE Dispatched(used[r])
    <2>1. delta \in [Dims -> Nat] /\ \A d \in MeteredDims : delta[d] = 0
      BY OnlyElsewhere
    <2> HIDE DEF delta
    <2>2. SpendToday(r, delta) /\ used' = [used EXCEPT ![r] = m]
      BY <1>7 DEF RefusedHostCall, delta
    <2>3. \A d \in MeteredDims : m[d] \in Nat /\ m[d] >= used[r][d]
      <3>1. Dispatched(used[r]) \in [Dims -> Nat] /\ \A d \in Dims : Dispatched(used[r])[d] >= used[r][d]
        BY StepTypes, MeterIs
      <3>2. /\ Metered(Dispatched(used[r]), b) \in [Dims -> Nat]
            /\ \A d \in Dims : Metered(Dispatched(used[r]), b)[d] >= Dispatched(used[r])[d]
        BY <3>1, MeterIs
      <3>3. ASSUME NEW d \in MeteredDims
            PROVE  /\ Dispatched(used[r])[d] \in Nat /\ Metered(Dispatched(used[r]), b)[d] \in Nat
                   /\ Dispatched(used[r])[d] >= used[r][d]
                   /\ Metered(Dispatched(used[r]), b)[d] >= Dispatched(used[r])[d]
        BY <1>0, <3>1, <3>2
      <3> QED
        BY <1>1, <3>3
    <2> HIDE DEF m
    <2>4. (\A q \in Runs \ {r} : used'[q] = used[q]) /\ used'[r] = m
      BY <2>2 DEF TypeOK
    <2> QED
      BY <1>1, <1>3, <2>1, <2>2, <2>3, <2>4
  <1>8. ASSUME NEW r \in Runs, NEW b \in 0..1, FurtherRequest(r, b) PROVE Spending
    <2> DEFINE delta == OneRequest(b)
    <2>1. delta \in [Dims -> Nat]
      BY RequestIs
    <2>2. SpendToday(r, delta) /\ used' = [used EXCEPT ![r] = Metered(used[r], b)] /\ MayRequest(used[r], b)
      BY <1>8 DEF FurtherRequest
    <2>3. \A d \in MeteredDims : /\ Metered(used[r], b)[d] = used[r][d] + delta[d]
                                 /\ delta[d] > 0 => used[r][d] + delta[d] <= PerRun[d]
      <3>1. ASSUME NEW d \in MeteredDims
            PROVE  OneRequest(b)[d] = IF d = "serviceNowRequests" THEN 1
                                      ELSE IF d = "outboundBytesSent" THEN b ELSE 0
        BY RequestIs
      <3> QED
        BY <1>0, <1>1, <2>2, <3>1, StepTypes, MeterIs DEF MeteredDims
    <2> HIDE DEF delta
    <2>4. (\A q \in Runs \ {r} : used'[q] = used[q]) /\ used'[r] = Metered(used[r], b)
      BY <2>2 DEF TypeOK
    <2>5. \A d \in MeteredDims : delta[d] \in Nat
      BY <1>0, <2>1
    <2>6. \A d \in MeteredDims : /\ used'[r][d] \in Nat /\ used'[r][d] >= used[r][d] + delta[d]
                                 /\ delta[d] > 0 => used'[r][d] <= PerRun[d]
      BY <1>1, <2>3, <2>4, <2>5
    <2> QED
      BY <1>3, <2>1, <2>2, <2>4, <2>6
  <1>9. ASSUME NEW r \in Runs, NEW b \in 0..1, RefusedRequest(r, b) PROVE Spending
    <2>1. Metered(used[r], b) \in [Dims -> Nat] /\ \A d \in Dims : Metered(used[r], b)[d] >= used[r][d]
      BY StepTypes, MeterIs
    <2>2. /\ UNCHANGED spent /\ used'[r] = Metered(used[r], b)
          /\ \A q \in Runs \ {r} : used'[q] = used[q]
      BY <1>9 DEF RefusedRequest, TypeOK
    <2> QED
      BY <1>0, <1>1, <1>2, <2>1, <2>2
  <1>10. ASSUME NEW r \in Runs, NEW n \in 0..Page, CallReturns(r, n) PROVE Spending
    <2> DEFINE n0 == IF used[r]["rowsReturned"] + n <= PerRun["rowsReturned"] THEN n ELSE 0
               delta == Only("rowsReturned", n0)
    <2>0. n0 \in Nat /\ n0 <= n /\ (n0 > 0 => used[r]["rowsReturned"] + n <= PerRun["rowsReturned"])
      BY <1>0, <1>1
    <2>1. delta \in [Dims -> Nat] /\ \A d \in MeteredDims : delta[d] = IF d = "rowsReturned" THEN n0 ELSE 0
      <3> HIDE DEF n0
      <3> QED
        BY <1>0, <2>0, OnlyIs DEF MeteredDims
    <2>2. SpendToday(r, delta)
      BY <1>10 DEF CallReturns
    <2> HIDE DEF delta, n0
    <2>3. used' = [used EXCEPT ![r] = [used[r] EXCEPT !["rowsReturned"] = used[r]["rowsReturned"] + n]]
      BY <1>10 DEF CallReturns
    <2>4. /\ \A q \in Runs \ {r} : used'[q] = used[q]
          /\ \A d \in MeteredDims : used'[r][d] = IF d = "rowsReturned" THEN used[r][d] + n ELSE used[r][d]
      BY <1>0, <2>3 DEF TypeOK
    <2>5. \A d \in MeteredDims : /\ used'[r][d] \in Nat /\ used'[r][d] >= used[r][d] + delta[d]
                                 /\ delta[d] > 0 => used'[r][d] <= PerRun[d]
      BY <1>1, <2>0, <2>1, <2>4
    <2> QED
      BY <1>3, <2>1, <2>2, <2>4, <2>5
  <1> QED
    BY <1>4, <1>5, <1>6, <1>7, <1>8, <1>9, <1>10
       DEF Next, Reserve, DenyRun, TranspileFails, RunEnds, Reconcile, ReconcileIsLost, Evict, Midnight

\* An action of one run leaves the records of the others alone.
Elsewhere(r) == \A q \in Runs \ {r} : /\ phase'[q] = phase[q] /\ used'[q] = used[q]
                                      /\ open'[q] = open[q] /\ report'[q] = report[q]
                                      /\ \A dd \in Days : spent'[q][dd] = spent[q][dd]

\* Every action of a run is such a step.
LEMMA OthersUntouched ==
  ASSUME TypeOK, NEW r \in Runs, NEW b \in 0..1, NEW n \in 0..Page,
         \/ Reserve(r) \/ DenyRun(r) \/ StartRun(r) \/ TranspileFails(r)
         \/ RunEnds(r) \/ Reconcile(r) \/ ReconcileIsLost(r) \/ Evict(r)
         \/ HostCall(r, b) \/ RefusedHostCall(r, b) \/ FurtherRequest(r, b) \/ RefusedRequest(r, b)
         \/ CallReturns(r, n)
  PROVE  Elsewhere(r)
  <1>1. ASSUME NEW delta, SpendToday(r, delta)
        PROVE  \A q \in Runs \ {r} : \A dd \in Days : spent'[q][dd] = spent[q][dd]
    <2>1. \A q \in Runs \ {r} : spent'[q] = spent[q]
      BY <1>1 DEF SpendToday, TypeOK
    <2> QED
      BY <2>1
  <1>2. CASE StartRun(r)
    BY <1>1, <1>2 DEF StartRun, Elsewhere, TypeOK
  <1>3. CASE HostCall(r, b)
    BY <1>1, <1>3 DEF HostCall, Elsewhere, TypeOK
  <1>4. CASE RefusedHostCall(r, b)
    BY <1>1, <1>4 DEF RefusedHostCall, Elsewhere, TypeOK
  <1>5. CASE FurtherRequest(r, b)
    BY <1>1, <1>5 DEF FurtherRequest, Elsewhere, TypeOK
  <1>6. CASE CallReturns(r, n)
    BY <1>1, <1>6 DEF CallReturns, Elsewhere, TypeOK
  <1>7. CASE Reserve(r) \/ Reconcile(r)
    BY <1>7 DEF Reserve, Reconcile, Elsewhere, TypeOK
  <1>8. CASE \/ DenyRun(r) \/ TranspileFails(r) \/ RunEnds(r) \/ ReconcileIsLost(r) \/ Evict(r)
             \/ RefusedRequest(r, b)
    BY <1>8 DEF DenyRun, TranspileFails, RunEnds, ReconcileIsLost, Evict, RefusedRequest, Elsewhere, TypeOK
  <1> QED
    BY <1>2, <1>3, <1>4, <1>5, <1>6, <1>7, <1>8

\* A run uses nothing before it starts.
LEMMA NothingBeforeStartKept ==
  ASSUME TypeOK, NothingBeforeStart, Next PROVE NothingBeforeStart'
  <1> DEFINE Fresh == {"new", "reserved", "denied"}
  <1>1. ASSUME NEW r \in Runs, Elsewhere(r),
               phase'[r] \in Fresh => phase[r] \in Fresh /\ UNCHANGED <<used, open, spent>>
        PROVE  NothingBeforeStart'
    <2> SUFFICES ASSUME NEW q \in Runs, phase'[q] \in Fresh
                 PROVE  used'[q] = Zero /\ open'[q] = 0 /\ \A dd \in Days : spent'[q][dd] = Zero
      BY DEF NothingBeforeStart, Zero
    <2>1. phase[q] \in Fresh /\ used'[q] = used[q] /\ open'[q] = open[q]
          /\ \A dd \in Days : spent'[q][dd] = spent[q][dd]
      BY <1>1 DEF Elsewhere
    <2> QED
      BY <2>1 DEF NothingBeforeStart
  <1>2. ASSUME NEW r \in Runs, Reserve(r) \/ DenyRun(r) PROVE NothingBeforeStart'
    <2>1. Elsewhere(r)
      BY <1>2, OthersUntouched
    <2> QED
      BY <1>1, <1>2, <2>1 DEF Reserve, DenyRun
  <1>3. ASSUME NEW r \in Runs,
               \/ StartRun(r) \/ TranspileFails(r)
               \/ RunEnds(r) \/ Reconcile(r) \/ ReconcileIsLost(r) \/ Evict(r)
        PROVE  NothingBeforeStart'
    <2>1. Elsewhere(r)
      BY <1>3, OthersUntouched
    <2>2. phase'[r] \notin Fresh
      BY <1>3 DEF StartRun, TranspileFails, RunEnds, Reconcile, ReconcileIsLost, Evict, TypeOK
    <2> QED
      BY <1>1, <2>1, <2>2
  <1>4. ASSUME NEW r \in Runs, NEW b \in 0..1, NEW n \in 0..Page,
               \/ HostCall(r, b) \/ RefusedHostCall(r, b) \/ FurtherRequest(r, b) \/ RefusedRequest(r, b)
               \/ CallReturns(r, n)
        PROVE  NothingBeforeStart'
    <2>1. Elsewhere(r)
      BY <1>4, OthersUntouched
    <2>2. phase[r] = "running" \/ open[r] > 0
      BY <1>4 DEF HostCall, RefusedHostCall, FurtherRequest, RefusedRequest, CallReturns
    <2>3. phase[r] \notin Fresh
      BY <2>2 DEF NothingBeforeStart
    <2>4. phase' = phase
      BY <1>4 DEF HostCall, RefusedHostCall, FurtherRequest, RefusedRequest, CallReturns
    <2> QED
      BY <1>1, <2>1, <2>3, <2>4
  <1>5. CASE Midnight
    BY <1>5 DEF Midnight, NothingBeforeStart, Zero
  <1>6. 0 \in 0..1 /\ 0 \in 0..Page
    OBVIOUS
  <1> QED
    BY <1>2, <1>3, <1>4, <1>5, <1>6 DEF Next

\* Nothing is spent on a day that has not come.
LEMMA NothingTomorrowKept ==
  ASSUME TypeOK, NothingTomorrow, Next PROVE NothingTomorrow'
  <1>1. day' >= day /\ day \in Int /\ day' \in Int
    <2>1. day' = day \/ Midnight
      BY DEF Next, Reserve, DenyRun, StartRun, TranspileFails, RunEnds, Reconcile, ReconcileIsLost,
             Evict, HostCall, RefusedHostCall, FurtherRequest, RefusedRequest, CallReturns
    <2>2. day \in Int
      BY DEF TypeOK, Days
    <2> QED
      BY <2>1, <2>2 DEF Midnight
  <1>2. Spending
    BY UsesAreMetered
  <1> SUFFICES ASSUME NEW q \in Runs, NEW dd \in Days, dd > day' PROVE spent'[q][dd] = Zero
    BY DEF NothingTomorrow, Zero
  <1>3. dd > day /\ dd # day
    BY <1>1 DEF Days
  <1> QED
    BY <1>2, <1>3 DEF NothingTomorrow, Spending

\* Only the start of a run starts a Worker.
LEMMA WorkersStart ==
  ASSUME TypeOK, Next, NEW q \in Runs
  PROVE  \/ spent'[q][0]["uniqueWorkers"] = spent[q][0]["uniqueWorkers"]
         \/ /\ phase[q] = "reserved"
            /\ spent'[q][0]["uniqueWorkers"] =
                 spent[q][0]["uniqueWorkers"] + IF Kind[q] = "run_code" THEN 1 ELSE 0
  <1>0. "uniqueWorkers" \in Dims /\ "rowsReturned" \in Dims /\ "sandboxRpcCalls" \in Dims
        /\ day \in Days /\ 0 \in Days
    BY DaysFinite DEF Dims, TypeOK
  <1>1. ASSUME NEW r \in Runs, NEW delta \in [Dims -> Nat], SpendToday(r, delta), delta["uniqueWorkers"] = 0
        PROVE  spent'[q][0]["uniqueWorkers"] = spent[q][0]["uniqueWorkers"]
    <2>1. CASE q = r /\ day = 0
      <3>1. spent'[r][day]["uniqueWorkers"] = spent[r][day]["uniqueWorkers"] + 0
        BY <1>0, <1>1, SpendIs
      <3>2. spent[r][day]["uniqueWorkers"] \in Nat
        BY <1>0 DEF TypeOK
      <3> QED
        BY <2>1, <3>1, <3>2
    <2>2. CASE ~(q = r /\ day = 0)
      BY <1>0, <1>1, <2>2, SpendIs
    <2> QED
      BY <2>1, <2>2
  <1>2. ASSUME NEW d \in Dims \ {"uniqueWorkers"}, NEW n \in Nat, NEW r \in Runs, SpendToday(r, Only(d, n))
        PROVE  spent'[q][0]["uniqueWorkers"] = spent[q][0]["uniqueWorkers"]
    <2>1. Only(d, n) \in [Dims -> Nat] /\ Only(d, n)["uniqueWorkers"] = 0
      BY <1>0 DEF Only, Zero
    <2> QED
      BY <1>1, <1>2, <2>1
  <1>3. ASSUME NEW r \in Runs, StartRun(r)
        PROVE  \/ spent'[q][0]["uniqueWorkers"] = spent[q][0]["uniqueWorkers"]
               \/ /\ phase[q] = "reserved"
                  /\ spent'[q][0]["uniqueWorkers"] =
                       spent[q][0]["uniqueWorkers"] + IF Kind[q] = "run_code" THEN 1 ELSE 0
    <2> DEFINE n == IF Kind[r] = "run_code" THEN 1 ELSE 0
               delta == Only("uniqueWorkers", n)
    <2>1. n \in Nat
      OBVIOUS
    <2>2. SpendToday(r, delta) /\ phase[r] = "reserved"
      BY <1>3 DEF StartRun
    <2> HIDE DEF n
    <2>3. delta \in [Dims -> Nat] /\ delta["uniqueWorkers"] = n
      BY <1>0, <2>1 DEF Only, Zero
    <2> HIDE DEF delta
    <2>4. CASE q = r /\ day = 0
      <3>1. spent'[r][day]["uniqueWorkers"] = spent[r][day]["uniqueWorkers"] + n
        BY <1>0, <2>2, <2>3, SpendIs
      <3> QED
        BY <2>2, <2>4, <3>1 DEF n
    <2>5. CASE ~(q = r /\ day = 0)
      BY <1>0, <2>2, <2>3, <2>5, SpendIs
    <2> QED
      BY <2>4, <2>5
  <1>4. ASSUME NEW r \in Runs, NEW b \in 0..1, HostCall(r, b) \/ FurtherRequest(r, b)
        PROVE  spent'[q][0]["uniqueWorkers"] = spent[q][0]["uniqueWorkers"]
    <2>1. /\ OneRequest(b)["uniqueWorkers"] = 0
          /\ [OneRequest(b) EXCEPT !["sandboxRpcCalls"] = 1]["uniqueWorkers"] = 0
      BY <1>0 DEF OneRequest, Zero
    <2> QED
      BY <1>1, <1>4, <2>1, RequestIs DEF HostCall, FurtherRequest
  <1>5. ASSUME NEW r \in Runs, NEW b \in 0..1, RefusedHostCall(r, b)
        PROVE  spent'[q][0]["uniqueWorkers"] = spent[q][0]["uniqueWorkers"]
    BY <1>0, <1>2, <1>5 DEF RefusedHostCall
  <1>6. ASSUME NEW r \in Runs, NEW n \in 0..Page, CallReturns(r, n)
        PROVE  spent'[q][0]["uniqueWorkers"] = spent[q][0]["uniqueWorkers"]
    <2> DEFINE n0 == IF used[r]["rowsReturned"] + n <= PerRun["rowsReturned"] THEN n ELSE 0
    <2>1. n0 \in Nat /\ SpendToday(r, Only("rowsReturned", n0))
      BY <1>6 DEF CallReturns
    <2> HIDE DEF n0
    <2> QED
      BY <1>0, <1>2, <2>1
  <1>7. ASSUME UNCHANGED spent PROVE spent'[q][0]["uniqueWorkers"] = spent[q][0]["uniqueWorkers"]
    BY <1>7
  <1> QED
    BY <1>3, <1>4, <1>5, <1>6, <1>7
       DEF Next, Reserve, DenyRun, TranspileFails, RunEnds, Reconcile, ReconcileIsLost, Evict,
           RefusedRequest, Midnight

\* What a run used in all is a number, and no less than on the first day.
LEMMA LifetimeType ==
  ASSUME TypeOK, NEW r \in Runs, NEW d \in Dims
  PROVE  Lifetime(r, d) \in Nat /\ spent[r][0][d] <= Lifetime(r, d)
  <1> DEFINE w == [dd \in Days |-> spent[r][dd][d]]
  <1>1. w \in [Days -> Nat] /\ Lifetime(r, d) = SumFunctionOnSet(w, Days)
    BY DEF TypeOK, Lifetime, SumFunction
  <1>2. w[0] = spent[r][0][d]
    BY DaysFinite
  <1> HIDE DEF w
  <1>3. SumFunctionOnSet(w, Days) \in Nat /\ SumFunctionOnSet(w, Days \ {0}) \in Nat
    BY <1>1, DaysFinite, FS_Subset, SumNat
  <1>4. SumFunctionOnSet(w, Days) = w[0] + SumFunctionOnSet(w, Days \ {0})
    BY <1>1, DaysFinite, SumRemoves
  <1>5. w[0] \in Nat
    BY <1>1, DaysFinite
  <1> QED
    BY <1>1, <1>2, <1>3, <1>4, <1>5

\* The meter stays ahead of what was used.
LEMMA MeterLeadsKept ==
  ASSUME TypeOK, NothingBeforeStart, MeterLeads, Next PROVE MeterLeads'
  <1>0. TypeOK' /\ Spending /\ day \in Days /\ MeteredDims \subseteq Dims /\ "uniqueWorkers" \in Dims
    BY TypesKept, UsesAreMetered DEF TypeOK, MeteredDims, Dims
  <1>1. ASSUME NEW q \in Runs, NEW d \in MeteredDims
        PROVE  Lifetime(q, d)' <= used'[q][d] /\ Lifetime(q, d)' <= PerRun[d]
    <2> DEFINE w == [dd \in Days |-> spent[q][dd][d]]
               v == [dd \in Days |-> spent'[q][dd][d]]
    <2>0. d \in Dims
      BY <1>0
    <2>1. Lifetime(q, d) = SumFunctionOnSet(w, Days) /\ Lifetime(q, d)' = SumFunctionOnSet(v, Days)
      BY DEF Lifetime, SumFunction
    <2>2. /\ \A dd \in Days : w[dd] \in Nat /\ v[dd] \in Nat
          /\ \A dd \in Days \ {day} : v[dd] = w[dd]
          /\ w[day] = spent[q][day][d] /\ v[day] = spent'[q][day][d]
      BY <1>0, <2>0 DEF TypeOK, Spending
    <2> HIDE DEF w, v
    <2>3. Lifetime(q, d)' = Lifetime(q, d) - spent[q][day][d] + spent'[q][day][d]
      BY <1>0, <2>1, <2>2, DaysFinite, SumChanges
    <2>4. Lifetime(q, d) \in Nat /\ used[q][d] \in Nat /\ used'[q][d] \in Nat /\ PerRun[d] \in Nat
          /\ spent[q][day][d] \in Nat /\ spent'[q][day][d] \in Nat
      BY <1>0, <2>0, LifetimeType DEF TypeOK
    <2>5. Lifetime(q, d) <= used[q][d] /\ Lifetime(q, d) <= PerRun[d]
      BY DEF MeterLeads
    <2>6. /\ spent'[q][day][d] >= spent[q][day][d]
          /\ used'[q][d] - used[q][d] >= spent'[q][day][d] - spent[q][day][d]
          /\ \/ spent'[q][day][d] = spent[q][day][d]
             \/ used'[q][d] <= PerRun[d]
      BY <1>0 DEF Spending
    <2> QED
      BY <2>3, <2>4, <2>5, <2>6
  <1>2. ASSUME NEW q \in Runs
        PROVE  spent'[q][0]["uniqueWorkers"] <= Reservation(q)["uniqueWorkers"]
    <2>1. CASE spent'[q][0]["uniqueWorkers"] = spent[q][0]["uniqueWorkers"]
      BY <2>1 DEF MeterLeads
    <2>2. CASE phase[q] = "reserved" /\ spent'[q][0]["uniqueWorkers"] =
                 spent[q][0]["uniqueWorkers"] + IF Kind[q] = "run_code" THEN 1 ELSE 0
      <3>1. spent[q][0]["uniqueWorkers"] = 0
        BY <1>0, <2>2, DaysFinite DEF NothingBeforeStart, Zero
      <3> QED
        BY <2>2, <3>1, ReservationType
    <2> QED
      BY <2>1, <2>2, WorkersStart
  <1>3. \A q \in Runs : Reservation(q)' = Reservation(q)
    BY DEF Reservation
  <1> QED
    BY <1>1, <1>2, <1>3 DEF MeterLeads

\* What a run holds and owes are numbers.
LEMMA HeldType ==
  ASSUME TypeOK, NEW d \in BookedDims
  PROVE  /\ \A r \in Runs : Held(r, d) \in Nat /\ HeldBy(d)[r] = Held(r, d)
         /\ \A r \in Runs : Owed(r, d) \in Nat /\ OwedBy(d)[r] = Owed(r, d) /\ Owed(r, d) <= Held(r, d)
                            /\ Owed(r, d) <= Reservation(r)[d]
  <1>1. d \in Dims
    BY DEF BookedDims, MeteredDims, Dims
  <1>2. \A r \in Runs : Reservation(r)[d] \in Nat /\ report[r][d] \in Nat
    BY <1>1, ReservationType DEF TypeOK
  <1>3. \A r \in Runs : Held(r, d) \in Nat
    BY <1>2 DEF Held, Weight
  <1> QED
    BY <1>2, <1>3 DEF HeldBy, OwedBy, Owed

\* The same of the next state.
LEMMA HeldTypeNext ==
  ASSUME TypeOK', NEW d \in BookedDims
  PROVE  /\ \A r \in Runs : Held(r, d)' \in Nat /\ HeldBy(d)'[r] = Held(r, d)'
         /\ \A r \in Runs : Owed(r, d)' \in Nat /\ OwedBy(d)'[r] = Owed(r, d)'
  <1>1. d \in Dims
    BY DEF BookedDims, MeteredDims, Dims
  <1>2. \A r \in Runs : Reservation(r)' = Reservation(r)
    BY DEF Reservation
  <1>3. \A r \in Runs : Reservation(r)[d] \in Nat /\ report'[r][d] \in Nat
    BY <1>1, ReservationType DEF TypeOK
  <1>4. \A r \in Runs : Held(r, d)' \in Nat
    BY <1>2, <1>3 DEF Held, Weight
  <1> QED
    BY <1>2, <1>3, <1>4 DEF HeldBy, OwedBy, Owed

\* A step books the change of its run's weight.
BooksItsWeight(r, delta) ==
  /\ Book(r, delta) /\ delta \in [Dims -> Int]
  /\ \A d \in BookedDims : delta[d] = Held(r, d)' - Held(r, d)
  /\ \A q \in Runs \ {r}, d \in BookedDims : Held(q, d)' = Held(q, d)

\* Every step within the first day books the change of a weight, or books and changes none.
LEMMA WeightsMove ==
  ASSUME TypeOK, Next, day' = 0
  PROVE  /\ day = 0
         /\ \/ /\ UNCHANGED <<count, tally>>
               /\ \A q \in Runs, d \in BookedDims : Held(q, d)' = Held(q, d)
            \/ \E r \in Runs : Reserve(r) /\ BooksItsWeight(r, Reservation(r))
            \/ \E r \in Runs : Reconcile(r) /\ BooksItsWeight(r, Refund(r))
  <1>0. BookedDims \subseteq Dims /\ \A q \in Runs : Reservation(q)' = Reservation(q)
    BY DEF BookedDims, MeteredDims, Dims, Reservation
  <1>1. ASSUME NEW q \in Runs, phase'[q] = phase[q], report'[q] = report[q], NEW d \in BookedDims
        PROVE  Held(q, d)' = Held(q, d)
    BY <1>0, <1>1 DEF Held, Weight, Granted
  <1>2. ASSUME NEW r \in Runs, Elsewhere(r)
        PROVE  \A q \in Runs \ {r}, d \in BookedDims : Held(q, d)' = Held(q, d)
    BY <1>1, <1>2 DEF Elsewhere
  <1>3. ASSUME NEW r \in Runs, Elsewhere(r), \A d \in BookedDims : Held(r, d)' = Held(r, d)
        PROVE  \A q \in Runs, d \in BookedDims : Held(q, d)' = Held(q, d)
    BY <1>2, <1>3
  <1>4. ASSUME NEW r \in Runs, Reserve(r) PROVE BooksItsWeight(r, Reservation(r))
    <2>1. Elsewhere(r)
      BY <1>4, OthersUntouched
    <2>2. phase[r] = "new" /\ phase'[r] \in {"reserved", "leaked"}
      BY <1>4 DEF Reserve, TypeOK
    <2>3. ASSUME NEW d \in BookedDims
          PROVE  Held(r, d) = 0 /\ Held(r, d)' = Reservation(r)[d] /\ Reservation(r)[d] \in Nat
      <3>1. Reservation(r)[d] \in Nat
        BY <1>0, ReservationType
      <3> QED
        BY <1>0, <2>2, <3>1 DEF Held, Weight, Granted
    <2>4. \A d \in BookedDims : Reservation(r)[d] = Held(r, d)' - Held(r, d)
      BY <2>3
    <2> QED
      BY <1>2, <1>4, <2>1, <2>4, StepTypes DEF Reserve, BooksItsWeight
  <1>5. ASSUME NEW r \in Runs, Reconcile(r) PROVE BooksItsWeight(r, Refund(r))
    <2>1. Elsewhere(r)
      BY <1>5, OthersUntouched
    <2>2. phase[r] = "ended" /\ phase'[r] = "settled" /\ report'[r] = used[r]
      BY <1>5 DEF Reconcile, TypeOK
    <2>3. ASSUME NEW d \in BookedDims
          PROVE  Refund(r)[d] = Held(r, d)' - Held(r, d)
      <3>0. d \in Dims /\ Reservation(r)[d] \in Nat /\ used[r][d] \in Nat
        BY <1>0, ReservationType, StepTypes
      <3>1. Held(r, d) = Reservation(r)[d]
        BY <2>2 DEF Held, Weight, Granted
      <3>2. CASE d = "uniqueWorkers"
        <4>1. Held(r, d)' = Reservation(r)[d] /\ Refund(r)[d] = 0
          BY <1>0, <2>2, <3>0, <3>2 DEF Held, Granted, Refund
        <4> QED
          BY <3>0, <3>1, <4>1
      <3>3. CASE d # "uniqueWorkers"
        <4>1. d # "sandboxRpcCalls"
          BY DEF BookedDims, MeteredDims
        <4>2. Held(r, d)' = used[r][d] /\ Refund(r)[d] = used[r][d] - Reservation(r)[d]
          BY <2>2, <3>0, <3>3, <4>1 DEF Held, Weight, Granted, Refund
        <4> QED
          BY <3>0, <3>1, <4>2
      <3> QED
        BY <3>2, <3>3
    <2> QED
      BY <1>2, <1>5, <2>1, <2>3, StepTypes DEF Reconcile, BooksItsWeight
  <1>6. ASSUME NEW r \in Runs,
               DenyRun(r) \/ StartRun(r) \/ TranspileFails(r) \/ RunEnds(r) \/ ReconcileIsLost(r) \/ Evict(r)
        PROVE  /\ UNCHANGED <<count, tally, day>>
               /\ \A q \in Runs, d \in BookedDims : Held(q, d)' = Held(q, d)
    <2>1. Elsewhere(r)
      BY <1>6, OthersUntouched
    <2>2. UNCHANGED <<count, tally, day, report>>
      BY <1>6 DEF DenyRun, StartRun, TranspileFails, RunEnds, ReconcileIsLost, Evict
    <2>3. \/ phase[r] = "new" /\ phase'[r] = "denied"
          \/ /\ phase[r] \in {"reserved", "running", "ended"}
             /\ phase'[r] \in {"running", "ended", "leaked"}
      BY <1>6 DEF DenyRun, StartRun, TranspileFails, RunEnds, ReconcileIsLost, Evict, TypeOK
    <2>4. ASSUME NEW d \in BookedDims PROVE Held(r, d)' = Held(r, d)
      BY <1>0, <2>2, <2>3 DEF Held, Weight, Granted
    <2> QED
      BY <1>3, <2>1, <2>2, <2>4
  <1>7. ASSUME UNCHANGED <<phase, report>>
        PROVE  \A q \in Runs, d \in BookedDims : Held(q, d)' = Held(q, d)
    BY <1>1, <1>7
  <1>8. ASSUME NEW r \in Runs, NEW b \in 0..1, NEW n \in 0..Page,
               \/ HostCall(r, b) \/ RefusedHostCall(r, b) \/ FurtherRequest(r, b) \/ RefusedRequest(r, b)
               \/ CallReturns(r, n)
        PROVE  /\ UNCHANGED <<count, tally, day>>
               /\ \A q \in Runs, d \in BookedDims : Held(q, d)' = Held(q, d)
    BY <1>7, <1>8 DEF HostCall, RefusedHostCall, FurtherRequest, RefusedRequest, CallReturns
  <1>9. CASE Midnight
    <2>1. day \in Nat
      BY DEF TypeOK, Days
    <2> QED
      BY <1>9, <2>1 DEF Midnight
  <1>10. 0 \in 0..1 /\ 0 \in 0..Page
    OBVIOUS
  <1>11. ASSUME NEW r \in Runs, Reserve(r) \/ Reconcile(r) PROVE day' = day
    BY <1>11 DEF Reserve, Reconcile
  <1> QED
    BY <1>4, <1>5, <1>6, <1>8, <1>9, <1>10, <1>11 DEF Next

\* A booking of the change keeps a counter equal to the sum of its weights.
LEMMA BooksFollow ==
  ASSUME TypeOK, TypeOK', day = 0, NEW r \in Runs, NEW delta, BooksItsWeight(r, delta), NEW d \in BookedDims,
         NEW S \in SUBSET Runs, NEW n \in Nat, n = SumFunctionOnSet(HeldBy(d), S)
  PROVE  /\ r \in S => n + delta[d] >= 0 /\ n + delta[d] = SumFunctionOnSet(HeldBy(d)', S)
         /\ r \notin S => n = SumFunctionOnSet(HeldBy(d)', S)
  <1> DEFINE w == HeldBy(d)
             v == HeldBy(d)'
  <1>1. \A q \in Runs : w[q] \in Nat /\ w[q] = Held(q, d)
    BY HeldType
  <1>2. \A q \in Runs : v[q] \in Nat /\ v[q] = Held(q, d)'
    BY HeldTypeNext
  <1>3. IsFiniteSet(S)
    BY FS_Subset
  <1>4. /\ delta[d] = v[r] - w[r]
        /\ \A q \in S \ {r} : v[q] = w[q]
    BY <1>1, <1>2 DEF BooksItsWeight
  <1> HIDE DEF w, v
  <1>5. CASE r \in S
    <2>1. /\ SumFunctionOnSet(v, S) = SumFunctionOnSet(w, S) - w[r] + v[r]
          /\ SumFunctionOnSet(w, S) >= w[r]
      BY <1>1, <1>2, <1>3, <1>4, <1>5, SumChanges
    <2> QED
      BY <1>1, <1>2, <1>4, <1>5, <2>1 DEF w, v
  <1>6. CASE r \notin S
    <2>1. SumFunctionOnSet(v, S) = SumFunctionOnSet(w, S)
      BY <1>1, <1>2, <1>3, <1>4, <1>6, SumSame
    <2> QED
      BY <1>6, <2>1 DEF w, v
  <1> QED
    BY <1>5, <1>6

\* The books stay balanced: a booked change is the change of a sum at one run.
LEMMA BooksKept ==
  ASSUME TypeOK, Books, Next PROVE Books'
  <1> SUFFICES ASSUME day' = 0, NEW d \in BookedDims
               PROVE  /\ count'[0][d] = SumFunctionOnSet(HeldBy(d)', Runs)
                      /\ \A u \in Users :
                           tally'[0][u][d] = SumFunctionOnSet(HeldBy(d)', {r \in Runs : UserOf[r] = u})
    BY DEF Books
  <1>0. TypeOK' /\ day = 0 /\ d \in Dims /\ 0 \in Days
    BY TypesKept, WeightsMove, DaysFinite DEF BookedDims, MeteredDims, Dims
  <1> DEFINE Of(u) == {r \in Runs : UserOf[r] = u}
  <1>1. /\ count[0][d] = SumFunctionOnSet(HeldBy(d), Runs) /\ count[0][d] \in Nat
        /\ \A u \in Users : /\ tally[0][u][d] = SumFunctionOnSet(HeldBy(d), Of(u))
                            /\ tally[0][u][d] \in Nat
    BY <1>0 DEF Books, TypeOK
  <1>2. CASE /\ UNCHANGED <<count, tally>>
             /\ \A q \in Runs, e \in BookedDims : Held(q, e)' = Held(q, e)
    <2>1. HeldBy(d)' = HeldBy(d)
      BY <1>2 DEF HeldBy
    <2> QED
      BY <1>1, <1>2, <2>1
  <1>3. ASSUME NEW r \in Runs, NEW delta \in [Dims -> Int], BooksItsWeight(r, delta)
        PROVE  /\ count'[0][d] = SumFunctionOnSet(HeldBy(d)', Runs)
               /\ \A u \in Users : tally'[0][u][d] = SumFunctionOnSet(HeldBy(d)', Of(u))
    <2>1. Book(r, delta)
      BY <1>3 DEF BooksItsWeight
    <2>2. /\ count[0][d] + delta[d] >= 0 => count'[0][d] = count[0][d] + delta[d]
          /\ tally[0][UserOf[r]][d] + delta[d] >= 0
               => tally'[0][UserOf[r]][d] = tally[0][UserOf[r]][d] + delta[d]
          /\ \A u \in Users : u # UserOf[r] => tally'[0][u] = tally[0][u]
      <3>1. /\ count[day][d] + delta[d] >= 0 => count'[day][d] = count[day][d] + delta[d]
            /\ tally[day][UserOf[r]][d] + delta[d] >= 0
                 => tally'[day][UserOf[r]][d] = tally[day][UserOf[r]][d] + delta[d]
        BY <1>0, <2>1, BookIs
      <3>2. \A u \in Users : u # UserOf[r] => tally'[day][u] = tally[day][u]
        BY <1>0, <2>1, BookIs
      <3> QED
        BY <1>0, <3>1, <3>2
    <2>3. count[0][d] + delta[d] >= 0 /\ count[0][d] + delta[d] = SumFunctionOnSet(HeldBy(d)', Runs)
      BY <1>0, <1>1, <1>3, BooksFollow
    <2>4. ASSUME NEW u \in Users
          PROVE  tally'[0][u][d] = SumFunctionOnSet(HeldBy(d)', Of(u))
      <3>0. Of(u) \in SUBSET Runs
        OBVIOUS
      <3>1. CASE u = UserOf[r]
        <4>1. r \in Of(u)
          BY <3>1
        <4> HIDE DEF Of
        <4>2. tally[0][u][d] + delta[d] >= 0
              /\ tally[0][u][d] + delta[d] = SumFunctionOnSet(HeldBy(d)', Of(u))
          BY <1>0, <1>1, <1>3, <3>0, <4>1, BooksFollow
        <4> QED
          BY <2>2, <3>1, <4>2
      <3>2. CASE u # UserOf[r]
        <4>1. r \notin Of(u)
          BY <3>2
        <4> HIDE DEF Of
        <4>2. tally[0][u][d] = SumFunctionOnSet(HeldBy(d)', Of(u))
          BY <1>0, <1>1, <1>3, <3>0, <4>1, BooksFollow
        <4> QED
          BY <2>2, <3>2, <4>2
      <3> QED
        BY <3>1, <3>2
    <2> QED
      BY <2>2, <2>3, <2>4
  <1> HIDE DEF Of
  <1>4. /\ count'[0][d] = SumFunctionOnSet(HeldBy(d)', Runs)
        /\ \A u \in Users : tally'[0][u][d] = SumFunctionOnSet(HeldBy(d)', Of(u))
    <2> DEFINE Balanced == /\ count'[0][d] = SumFunctionOnSet(HeldBy(d)', Runs)
                           /\ \A u \in Users : tally'[0][u][d] = SumFunctionOnSet(HeldBy(d)', Of(u))
               Still == /\ UNCHANGED <<count, tally>>
                        /\ \A q \in Runs, e \in BookedDims : Held(q, e)' = Held(q, e)
    <2>1. Still => Balanced
      BY <1>2 DEF Of
    <2>2. \A r \in Runs : BooksItsWeight(r, Reservation(r)) => Balanced
      BY <1>3, StepTypes
    <2>3. \A r \in Runs : BooksItsWeight(r, Refund(r)) => Balanced
      BY <1>3, StepTypes
    <2>4. \/ Still
          \/ \E r \in Runs : BooksItsWeight(r, Reservation(r))
          \/ \E r \in Runs : BooksItsWeight(r, Refund(r))
      BY WeightsMove
    <2> HIDE DEF Balanced, Still
    <2>5. Balanced
      BY <2>1, <2>2, <2>3, <2>4
    <2> QED
      BY <2>5 DEF Balanced
  <1> QED
    BY <1>4 DEF Of

\* A reserve that is not denied leaves what is owed within the cap.
LEMMA FundedKept ==
  ASSUME TypeOK, Books, Funded, Next PROVE Funded'
  <1> SUFFICES ASSUME day' = 0, NEW d \in Traffic
               PROVE  SumFunctionOnSet(OwedBy(d)', Runs) <= Cap[d]
    BY DEF Funded
  <1>0. /\ TypeOK' /\ day = 0 /\ d \in Dims /\ d \in BookedDims /\ 0 \in Days /\ Cap[d] \in Nat
        /\ \A q \in Runs : Reservation(q)' = Reservation(q)
        /\ \A q \in Runs : Reservation(q)[d] \in Nat
    <2>1. d \in Dims /\ d \in BookedDims
      BY DEF Traffic, BookedDims, MeteredDims, Dims
    <2> QED
      BY <2>1, TypesKept, WeightsMove, DaysFinite, ReservationType DEF Reservation
  <1> DEFINE w == OwedBy(d)
             v == OwedBy(d)'
  <1>1. \A q \in Runs : /\ w[q] \in Nat /\ w[q] = Owed(q, d)
                        /\ v[q] \in Nat /\ v[q] = Owed(q, d)'
    BY <1>0, HeldType, HeldTypeNext
  <1>2. SumFunctionOnSet(w, Runs) <= Cap[d] /\ SumFunctionOnSet(w, Runs) \in Nat
        /\ SumFunctionOnSet(v, Runs) \in Nat
    <2>1. SumFunctionOnSet(w, Runs) <= Cap[d]
      BY <1>0 DEF Funded
    <2> HIDE DEF w, v
    <2> QED
      BY <1>1, <2>1, SumNat
  <1>3. ASSUME NEW q \in Runs, Held(q, d)' = Held(q, d) PROVE Owed(q, d)' = Owed(q, d)
    BY <1>0, <1>3 DEF Owed
  <1>4. ASSUME \A q \in Runs : Owed(q, d)' <= Owed(q, d) PROVE SumFunctionOnSet(v, Runs) <= Cap[d]
    <2>1. \A q \in Runs : v[q] <= w[q]
      BY <1>1, <1>4
    <2> HIDE DEF w, v
    <2>2. SumFunctionOnSet(v, Runs) <= SumFunctionOnSet(w, Runs)
      BY <1>1, <2>1, SumGrows
    <2> QED
      BY <1>0, <1>2, <2>2
  <1>5. ASSUME \A q \in Runs, e \in BookedDims : Held(q, e)' = Held(q, e)
        PROVE  SumFunctionOnSet(v, Runs) <= Cap[d]
    BY <1>0, <1>1, <1>3, <1>4, <1>5
  <1>6. ASSUME NEW r \in Runs, Reconcile(r), BooksItsWeight(r, Refund(r))
        PROVE  SumFunctionOnSet(v, Runs) <= Cap[d]
    <2>1. phase[r] = "ended"
      BY <1>6 DEF Reconcile
    <2>2. Held(r, d) = Reservation(r)[d]
      BY <2>1 DEF Held, Weight, Granted
    <2>3. Owed(r, d) = Reservation(r)[d]
      BY <1>0, <2>2 DEF Owed
    <2>4. Owed(r, d)' <= Reservation(r)[d]
      BY <1>0, HeldTypeNext DEF Owed
    <2>5. \A q \in Runs \ {r} : Owed(q, d)' = Owed(q, d)
      BY <1>0, <1>3, <1>6 DEF BooksItsWeight
    <2> QED
      BY <1>1, <1>4, <2>3, <2>4, <2>5
  <1>7. ASSUME NEW r \in Runs, Reserve(r), BooksItsWeight(r, Reservation(r))
        PROVE  SumFunctionOnSet(v, Runs) <= Cap[d]
    <2>1. phase[r] = "new" /\ ~Denies(r)
      BY <1>7 DEF Reserve
    <2>2. Held(r, d) = 0
      BY <2>1 DEF Held, Weight, Granted
    <2>3. Owed(r, d) = 0 /\ Held(r, d)' = Reservation(r)[d]
      <3>1. Reservation(r)[d] = Held(r, d)' - Held(r, d) /\ Held(r, d)' \in Nat
        BY <1>0, <1>7, HeldTypeNext DEF BooksItsWeight
      <3> QED
        BY <1>0, <2>2, <3>1 DEF Owed
    <2>4. Owed(r, d)' = Reservation(r)[d]
      BY <1>0, <2>3 DEF Owed
    <2>5. \A q \in Runs \ {r} : v[q] = w[q]
      BY <1>0, <1>1, <1>3, <1>7 DEF BooksItsWeight
    <2>6. v[r] = Reservation(r)[d] /\ w[r] = 0
      BY <1>1, <2>3, <2>4
    <2>7. SumFunctionOnSet(v, Runs) = SumFunctionOnSet(w, Runs) + Reservation(r)[d]
      <3> HIDE DEF w, v
      <3>1. SumFunctionOnSet(v, Runs) = SumFunctionOnSet(w, Runs) - w[r] + v[r]
        BY <1>1, <2>5, SumChanges
      <3> QED
        BY <1>2, <2>6, <3>1, <1>0
    <2>8. SumFunctionOnSet(w, Runs) <= count[0][d] /\ count[0][d] \in Nat
      <3>1. count[0][d] = SumFunctionOnSet(HeldBy(d), Runs)
        BY <1>0 DEF Books
      <3>2. \A q \in Runs : /\ w[q] \in Nat /\ HeldBy(d)[q] \in Nat /\ w[q] <= HeldBy(d)[q]
        BY <1>0, HeldType
      <3> HIDE DEF w
      <3>3. SumFunctionOnSet(w, Runs) <= SumFunctionOnSet(HeldBy(d), Runs)
        BY <3>2, SumGrows
      <3> QED
        BY <1>0, <3>1, <3>3 DEF TypeOK
    <2>9. Reservation(r)[d] > 0 => count[0][d] + Reservation(r)[d] <= Cap[d]
      BY <1>0, <2>1, <2>8 DEF Denies
    <2> HIDE DEF w, v
    <2> QED
      BY <1>0, <1>2, <2>7, <2>8, <2>9
  <1> HIDE DEF w
  <1>8. SumFunctionOnSet(v, Runs) <= Cap[d]
    <2> HIDE DEF v
    <2>1. \/ \A q \in Runs, e \in BookedDims : Held(q, e)' = Held(q, e)
          \/ \E r \in Runs : Reserve(r) /\ BooksItsWeight(r, Reservation(r))
          \/ \E r \in Runs : Reconcile(r) /\ BooksItsWeight(r, Refund(r))
      BY WeightsMove
    <2>2. CASE \E r \in Runs : Reserve(r) /\ BooksItsWeight(r, Reservation(r))
      BY <1>7, <2>2
    <2>3. CASE \E r \in Runs : Reconcile(r) /\ BooksItsWeight(r, Refund(r))
      BY <1>6, <2>3
    <2>4. CASE \A q \in Runs, e \in BookedDims : Held(q, e)' = Held(q, e)
      BY <1>5, <2>4
    <2> QED
      BY <2>1, <2>2, <2>3, <2>4
  <1> QED
    BY <1>8

-----------------------------------------------------------------------------
(***************************************************************************)
(* The theorems.                                                           *)
(***************************************************************************)

\* The inductive invariant holds when the day begins.
LEMMA InitSound == Init => IInv
  <1> SUFFICES ASSUME Init PROVE IInv
    OBVIOUS
  <1>0. Zero \in [Dims -> Nat] /\ 0 \in Days /\ IsFiniteSet(Days) /\ BookedDims \subseteq Dims
        /\ MeteredDims \subseteq Dims /\ Traffic \subseteq BookedDims
    BY DaysFinite DEF Zero, BookedDims, MeteredDims, Dims, Traffic
  <1>1. TypeOK
    BY <1>0 DEF Init, TypeOK
  <1>2. NothingBeforeStart /\ NothingTomorrow
    BY DEF Init, NothingBeforeStart, NothingTomorrow
  <1>3. MeterLeads
    <2>1. ASSUME NEW r \in Runs, NEW d \in MeteredDims
          PROVE  Lifetime(r, d) = 0 /\ used[r][d] = 0 /\ PerRun[d] \in Nat
      <3> DEFINE w == [dd \in Days |-> spent[r][dd][d]]
      <3>1. \A dd \in Days : w[dd] = 0
        BY <1>0 DEF Init, Zero
      <3>2. Lifetime(r, d) = SumFunctionOnSet(w, Days)
        BY DEF Lifetime, SumFunction
      <3> HIDE DEF w
      <3>3. Lifetime(r, d) = 0
        BY <1>0, <3>1, <3>2, SumZero
      <3> QED
        BY <1>0, <3>3 DEF Init, Zero
    <2>2. ASSUME NEW r \in Runs PROVE spent[r][0]["uniqueWorkers"] = 0
      BY <1>0 DEF Init, Zero, Dims
    <2>3. ASSUME NEW r \in Runs PROVE Reservation(r)["uniqueWorkers"] \in Nat
      BY ReservationType DEF Dims
    <2> QED
      BY <2>1, <2>2, <2>3 DEF MeterLeads
  <1>4. ASSUME NEW d \in BookedDims, NEW S \in SUBSET Runs
        PROVE  SumFunctionOnSet(HeldBy(d), S) = 0 /\ SumFunctionOnSet(OwedBy(d), S) = 0
    <2>1. \A r \in Runs : Held(r, d) = 0
      BY DEF Init, Held, Weight, Granted
    <2>2. \A r \in Runs : HeldBy(d)[r] = 0 /\ OwedBy(d)[r] = 0
      <3>1. \A r \in Runs : Reservation(r)[d] \in Nat
        BY <1>0, ReservationType
      <3> QED
        BY <2>1, <3>1 DEF HeldBy, OwedBy, Owed
    <2>3. IsFiniteSet(S)
      BY FS_Subset
    <2> QED
      BY <2>2, <2>3, SumZero
  <1>5. Books
    <2>1. ASSUME NEW d \in BookedDims, NEW u \in Users PROVE tally[0][u][d] = 0
      BY <1>0 DEF Init, Zero
    <2>2. ASSUME NEW d \in BookedDims PROVE count[0][d] = 0
      BY <1>0 DEF Init, Zero
    <2> QED
      BY <1>4, <2>1, <2>2 DEF Books
  <1>6. Funded
    <2>1. \A d \in Traffic : Cap[d] \in Nat
      BY <1>0
    <2> QED
      BY <1>0, <1>4, <2>1 DEF Funded
  <1> QED
    BY <1>1, <1>2, <1>3, <1>5, <1>6 DEF IInv

\* It is about the variables alone.
LEMMA StutterSound == ASSUME IInv, UNCHANGED vars PROVE IInv'
  <1>1. \A r \in Runs, d \in BookedDims : Held(r, d)' = Held(r, d) /\ Owed(r, d)' = Owed(r, d)
    BY DEF vars, Held, Owed, Weight, Granted, Reservation
  <1>2. \A d \in BookedDims : HeldBy(d)' = HeldBy(d) /\ OwedBy(d)' = OwedBy(d)
    BY <1>1 DEF HeldBy, OwedBy
  <1>3. Traffic \subseteq BookedDims
    BY DEF Traffic, BookedDims, MeteredDims
  <1>4. Books' /\ Funded'
    BY <1>2, <1>3 DEF IInv, vars, Books, Funded
  <1>5. TypeOK' /\ NothingBeforeStart' /\ NothingTomorrow'
    BY DEF IInv, vars, TypeOK, NothingBeforeStart, NothingTomorrow, Zero
  <1>6. \A r \in Runs, d \in MeteredDims : Lifetime(r, d)' = Lifetime(r, d)
    BY DEF vars, Lifetime
  <1>7. \A r \in Runs : Reservation(r)' = Reservation(r)
    BY DEF Reservation
  <1>8. MeterLeads'
    BY <1>6, <1>7 DEF IInv, vars, MeterLeads
  <1> QED
    BY <1>4, <1>5, <1>8 DEF IInv

\* The types, and what the theorems below rest on, hold in every state of any finite set of
\* runs, however they race, fail, die or run over midnight.
THEOREM BudgetInvariant == Spec => []IInv
  <1>1. IInv /\ [Next]_vars => IInv'
    BY TypesKept, NothingBeforeStartKept, NothingTomorrowKept, MeterLeadsKept, BooksKept,
       FundedKept, StutterSound DEF IInv
  <1> QED
    BY <1>1, InitSound, PTL DEF Spec

\* S14: within a day each counter of the object, global or of a user, is what its runs weigh:
\* reserve and reconcile leave nothing behind, refund nothing twice and nobody else's.
THEOREM BooksStayBalanced == Spec => []BooksBalance
  <1>1. IInv => BooksBalance
    <2> SUFFICES ASSUME IInv, day = 0, NEW d \in {"serviceNowRequests", "outboundBytesSent", "rowsReturned"}
                 PROVE  /\ count[0][d] = SumFunction([r \in Runs |-> Weight(r, d)])
                        /\ \A u \in Users : tally[0][u][d] =
                             SumFunctionOnSet([r \in Runs |-> Weight(r, d)], {r \in Runs : UserOf[r] = u})
      BY DEF BooksBalance
    <2>1. d \in BookedDims
      BY DEF BookedDims, MeteredDims
    <2>2. [r \in Runs |-> Weight(r, d)] = HeldBy(d)
      BY DEF HeldBy, Held
    <2>3. SumFunction(HeldBy(d)) = SumFunctionOnSet(HeldBy(d), Runs)
      BY DEF SumFunction, HeldBy
    <2> QED
      BY <2>1, <2>2, <2>3 DEF IInv, Books
  <1> QED
    BY <1>1, BudgetInvariant, PTL

\* RunBudget: whatever host calls race, outlive their run or run over midnight, a run sends no
\* more requests and bytes and is shown no more rows than its limits.
THEOREM RunsStayWithinLimits == Spec => []RunWithinLimits
  <1>1. IInv => RunWithinLimits
    BY DEF IInv, MeterLeads, RunWithinLimits, Lifetime, MeteredDims
  <1> QED
    BY <1>1, BudgetInvariant, PTL

\* As long as every run stays within its day and its report, what a day really saw is within
\* what is owed for it.
LEMMA DayIsFunded ==
  ASSUME IInv, Orderly, NEW d \in Traffic
  PROVE  /\ Total(0, d) <= SumFunctionOnSet(OwedBy(d), Runs) /\ Total(0, d) \in Nat
         /\ SumFunctionOnSet(OwedBy(d), Runs) <= count[0][d]
         /\ SumFunctionOnSet(OwedBy(d), Runs) \in Nat
  <1> DEFINE w == [r \in Runs |-> spent[r][0][d]]
             o == OwedBy(d)
             h == HeldBy(d)
  <1>0. d \in Dims /\ d \in BookedDims /\ 0 \in Days /\ TypeOK
    BY DaysFinite DEF Traffic, BookedDims, MeteredDims, Dims, IInv
  <1>1. \A r \in Runs : /\ o[r] \in Nat /\ o[r] = Owed(r, d) /\ h[r] \in Nat /\ o[r] <= h[r]
    BY <1>0, HeldType
  <1>2. ASSUME NEW r \in Runs PROVE w[r] \in Nat /\ w[r] <= Owed(r, d)
    <2>0. spent[r][0][d] \in Nat /\ Reservation(r)[d] \in Nat /\ w[r] = spent[r][0][d]
      BY <1>0, ReservationType DEF TypeOK
    <2>1. CASE ~Granted(r)
      <3>1. phase[r] \in {"new", "reserved", "denied"}
        BY <1>0, <2>1 DEF Granted, TypeOK
      <3>2. spent[r][0] = Zero
        BY <1>0, <3>1 DEF IInv, NothingBeforeStart
      <3>3. Held(r, d) = 0
        BY <2>1 DEF Held, Weight
      <3> QED
        BY <1>0, <2>0, <3>2, <3>3 DEF Owed, Zero
    <2>2. CASE Granted(r) /\ d = "uniqueWorkers"
      <3>1. Held(r, d) = Reservation(r)[d]
        BY <2>2 DEF Held
      <3>2. spent[r][0][d] <= Reservation(r)[d]
        BY <2>2 DEF IInv, MeterLeads
      <3> QED
        BY <2>0, <3>1, <3>2 DEF Owed
    <2>3. CASE Granted(r) /\ d # "uniqueWorkers"
      <3>0. d \in MeteredDims /\ Reservation(r)[d] = PerRun[d]
        BY <2>3, ReservationType DEF Traffic, MeteredDims
      <3>1. Lifetime(r, d) <= used[r][d] /\ Lifetime(r, d) <= PerRun[d]
            /\ spent[r][0][d] <= Lifetime(r, d) /\ Lifetime(r, d) \in Nat
        BY <1>0, <3>0, LifetimeType DEF IInv, MeterLeads
      <3>2. used[r][d] \in Nat /\ PerRun[d] \in Nat
        BY <1>0 DEF TypeOK
      <3>3. Held(r, d) = IF phase[r] = "settled" THEN report[r][d] ELSE Reservation(r)[d]
        BY <2>3 DEF Held, Weight
      <3>4. phase[r] = "settled" => report[r] = used[r]
        BY DEF Orderly
      <3> QED
        BY <2>0, <3>0, <3>1, <3>2, <3>3, <3>4 DEF Owed
    <2> QED
      BY <2>1, <2>2, <2>3
  <1>3. Total(0, d) = SumFunctionOnSet(w, Runs)
    BY DEF Total, SumFunction
  <1>4. count[0][d] = SumFunctionOnSet(h, Runs)
    BY <1>0 DEF IInv, Books, Orderly
  <1> HIDE DEF w, o, h
  <1>5. SumFunctionOnSet(w, Runs) <= SumFunctionOnSet(o, Runs)
    BY <1>1, <1>2, SumGrows
  <1>6. SumFunctionOnSet(o, Runs) <= SumFunctionOnSet(h, Runs)
    BY <1>1, SumGrows
  <1>7. SumFunctionOnSet(w, Runs) \in Nat /\ SumFunctionOnSet(o, Runs) \in Nat
    BY <1>1, <1>2, SumNat
  <1> QED
    BY <1>3, <1>4, <1>5, <1>6, <1>7 DEF o

\* A lost answer, a swallowed reconcile and an evicted isolate leave the day's counters at or
\* above what was really sent.
THEOREM FailuresStayClosed == Spec => []FailsClosed
  <1>1. IInv => FailsClosed
    <2> SUFFICES ASSUME IInv, Orderly, NEW d \in Traffic PROVE count[0][d] >= Total(0, d)
      BY DEF FailsClosed
    <2>1. count[0][d] \in Nat
      BY DaysFinite DEF IInv, TypeOK, Traffic, Dims
    <2> QED
      BY <2>1, DayIsFunded
  <1> QED
    BY <1>1, BudgetInvariant, PTL

\* S14: what leaves the Worker on a day fits the day's cap, as long as no run meets midnight
\* and none goes on after its report.
THEOREM OrderlyTrafficFits == Spec => []OrderlyTrafficWithinCap
  <1>1. IInv => OrderlyTrafficWithinCap
    <2> SUFFICES ASSUME IInv, Orderly, NEW dd \in Days, NEW d \in Traffic PROVE Total(dd, d) <= Cap[d]
      BY DEF OrderlyTrafficWithinCap, TrafficWithinCap
    <2>1. Cap[d] \in Nat /\ d \in Dims
      BY DEF Traffic, Dims
    <2>2. CASE dd = 0
      <3>1. SumFunctionOnSet(OwedBy(d), Runs) <= Cap[d]
        BY DEF IInv, Funded, Orderly
      <3> QED
        BY <2>1, <2>2, <3>1, DayIsFunded
    <2>3. CASE dd # 0
      <3> DEFINE w == [r \in Runs |-> spent[r][dd][d]]
      <3>1. dd > day
        BY <2>3 DEF Orderly, Days
      <3>2. \A r \in Runs : w[r] = 0
        BY <2>1, <3>1 DEF IInv, NothingTomorrow, Zero
      <3>3. Total(dd, d) = SumFunctionOnSet(w, Runs)
        BY DEF Total, SumFunction
      <3> HIDE DEF w
      <3>4. Total(dd, d) = 0
        BY <3>2, <3>3, SumZero
      <3> QED
        BY <2>1, <3>4
    <2> QED
      BY <2>2, <2>3
  <1> QED
    BY <1>1, BudgetInvariant, PTL

-----------------------------------------------------------------------------
(***************************************************************************)
(* The mutation ledger.                                                    *)
(***************************************************************************)
HIDE BudgetAssumption
USE RetentionAssumption

-----------------------------------------------------------------------------
(***************************************************************************)
(* What a read does to a record.                                           *)
(***************************************************************************)

\* A read returns a record of the right type.
LEMMA LiveType == ASSUME NEW r \in RecordType PROVE Live(r) \in RecordType
  <1>1. NoRecord \in RecordType
    <2>1. NoTtl \in 0..NoTtl
      BY DEF NoTtl
    <2>2. NoResult \in ResultType
      BY DEF NoResult, ResultType
    <2> QED
      BY <2>1, <2>2 DEF NoRecord, RecordType
  <1>2. Migrated(r) \in RecordType
    <2>1. (IF IsRenewed(r) THEN Retention ELSE r.ttl) \in 0..NoTtl
      BY DEF RecordType, NoTtl
    <2>2. (IF r.status = "completed" THEN ReplaySafe(r.result) ELSE NoResult) \in ResultType
      BY DEF RecordType, ResultType, ReplaySafe, NoResult
    <2> QED
      BY <2>1, <2>2 DEF Migrated, RecordType
  <1> QED
    BY <1>1, <1>2 DEF Live

\* A read never drops a started or indeterminate record, nor changes its status or hash.
LEMMA LiveKeepsUnresolved ==
  ASSUME NEW r \in RecordType, r.status \in Unresolved
  PROVE  Live(r).status = r.status /\ Live(r).hash = r.hash
  BY DEF RecordType, Live, Migrated, Unresolved, Status, IsMissing, IsExpired, IsRenewed,
         IsRewrapped, NoTtl

\* Every method stores a record of the right type.
LEMMA MethodTypes ==
  ASSUME NEW r \in RecordType
  PROVE  /\ \A h \in Hashes : AfterBegin(r, h) \in RecordType
         /\ \A v \in ResultType : AfterComplete(r, v) \in RecordType
         /\ AfterFail(r) \in RecordType
         /\ AfterMarkIndeterminate(r) \in RecordType
         /\ Aged(r) \in RecordType
  <1>1. Live(r) \in RecordType
    BY LiveType
  <1>2. \A h \in Hashes \cup {NoHash}, s \in Status, v \in ResultType : Stamped(s, h, v) \in RecordType
    BY DEF Stamped, RecordType, NoTtl
  <1>3. NoResult \in ResultType /\ \A v \in ResultType : ReplaySafe(v) \in ResultType
    BY DEF NoResult, ResultType, ReplaySafe
  <1>4. \A h \in Hashes : AfterBegin(r, h) \in RecordType
    BY <1>1, <1>2, <1>3 DEF AfterBegin, Status, Unresolved
  <1>5. Live(r).hash \in Hashes \cup {NoHash}
    BY <1>1 DEF RecordType
  <1>6. \A s \in Status, v \in ResultType : Settled(r, s, v) \in RecordType
    BY <1>1, <1>2, <1>5 DEF Settled
  <1>7. Aged(r) \in RecordType
    BY DEF Aged, RecordType, NoTtl
  <1> QED
    BY <1>3, <1>4, <1>6, <1>7 DEF AfterComplete, AfterFail, AfterMarkIndeterminate, Status, Unresolved

\* The records of older releases are well typed.
LEMMA LegacyType == LegacyRecords \subseteq RecordType
  <1> SUFFICES ASSUME NEW r \in LegacyRecords PROVE r \in RecordType
    OBVIOUS
  <1>1. NoTtl \in 0..NoTtl /\ NoResult \in ResultType
    BY DEF NoTtl, NoResult, ResultType
  <1>2. CASE r \in [status : (Status \ {"completed"}) \cup {"malformed"}, hash : Hashes,
                    ttl : {NoTtl}, result : {NoResult}]
    BY <1>1, <1>2 DEF RecordType
  <1>3. CASE r \in [status : {"completed"}, hash : Hashes, ttl : {NoTtl},
                    result : [wrapped : {FALSE}, of : Results]]
    <2>1. [wrapped : {FALSE}, of : Results] \subseteq ResultType
      BY DEF ResultType
    <2>2. r.result \in ResultType
      BY <1>3, <2>1
    <2> QED
      BY <1>1, <1>3, <2>2 DEF RecordType, Status
  <1> QED
    BY <1>2, <1>3 DEF LegacyRecords

-----------------------------------------------------------------------------
(***************************************************************************)
(* The object.                                                             *)
(***************************************************************************)

\* The record and the alarm stay well typed under every order of calls.
THEOREM LedgerTypeCorrect == LedgerSpec => []LedgerTypeOK
  <1>1. LedgerInit => LedgerTypeOK
    <2>1. NoRecord \in RecordType
      <3>1. NoTtl \in 0..NoTtl /\ NoResult \in ResultType
        BY DEF NoTtl, NoResult, ResultType
      <3> QED
        BY <3>1 DEF NoRecord, RecordType
    <2> QED
      BY <2>1, LegacyType DEF LedgerInit, LedgerTypeOK, NoAlarm
  <1>2. LedgerTypeOK /\ [LedgerNext]_ledgerVars => LedgerTypeOK'
    <2> SUFFICES ASSUME LedgerTypeOK, [LedgerNext]_ledgerVars PROVE LedgerTypeOK'
      OBVIOUS
    <2> USE DEF LedgerTypeOK
    <2>1. Live(rec) \in RecordType
      BY LiveType
    <2>2. rec.ttl \in 0..NoTtl /\ Live(rec).ttl \in 0..NoTtl
      BY <2>1 DEF RecordType
    <2>3. ASSUME NEW r \in RecordType, Store(r) PROVE LedgerTypeOK'
      <3>1. r.ttl \in 0..NoTtl
        BY DEF RecordType
      <3> QED
        BY <2>2, <2>3, <3>1 DEF Store, ReadAlarm, NoAlarm, NoTtl
    <2>4. ASSUME NEW h \in Hashes, Begin(h) PROVE LedgerTypeOK'
      BY <2>3, <2>4, MethodTypes DEF Begin
    <2>5. ASSUME NEW v \in Results, Complete(v) PROVE LedgerTypeOK'
      <3>1. [wrapped |-> FALSE, of |-> v] \in ResultType
        BY DEF ResultType
      <3> QED
        BY <2>3, <2>5, <3>1, MethodTypes DEF Complete
    <2>6. CASE Fail
      BY <2>3, <2>6, MethodTypes DEF Fail
    <2>7. CASE MarkIndeterminate
      BY <2>3, <2>7, MethodTypes DEF MarkIndeterminate
    <2>8. CASE ReadStatus
      BY <2>1, <2>3, <2>8 DEF ReadStatus
    <2>9. CASE Alarm
      BY <2>1, <2>2, <2>9 DEF Alarm, NoAlarm, NoTtl
    <2>10. CASE Tick
      BY <2>10, MethodTypes DEF Tick, NoAlarm
    <2>11. CASE UNCHANGED ledgerVars
      BY <2>11 DEF ledgerVars
    <2> QED
      BY <2>4, <2>5, <2>6, <2>7, <2>8, <2>9, <2>10, <2>11 DEF LedgerNext
  <1> QED
    BY <1>1, <1>2, PTL DEF LedgerSpec

\* No call, tick or alarm moves an indeterminate record: what the object does to
\* it in one step.
LEMMA IndeterminateStep ==
  ASSUME LedgerTypeOK, LedgerNext, rec.status = "indeterminate"
  PROVE  rec'.status = "indeterminate" /\ rec'.hash = rec.hash
  <1>1. Live(rec).status = "indeterminate" /\ Live(rec).hash = rec.hash
    BY LiveKeepsUnresolved DEF LedgerTypeOK, Unresolved
  <1>2. ASSUME NEW h \in Hashes PROVE AfterBegin(rec, h) = Live(rec)
    BY <1>1 DEF AfterBegin, BeginReply
  <1>3. ASSUME NEW s, NEW v PROVE Settled(rec, s, v) = Live(rec)
    BY <1>1 DEF Settled
  <1>4. ASSUME NEW h \in Hashes, Begin(h) PROVE rec' = Live(rec)
    BY <1>2, <1>4 DEF Begin, Store
  <1>5. ASSUME NEW v \in Results, Complete(v) PROVE rec' = Live(rec)
    BY <1>3, <1>5 DEF Complete, Store, AfterComplete
  <1>6. CASE Fail
    BY <1>1, <1>3, <1>6 DEF Fail, Store, AfterFail
  <1>7. CASE MarkIndeterminate
    BY <1>1, <1>3, <1>7 DEF MarkIndeterminate, Store, AfterMarkIndeterminate
  <1>8. CASE ReadStatus
    BY <1>1, <1>8 DEF ReadStatus, Store
  <1>9. CASE Alarm
    BY <1>1, <1>9 DEF Alarm
  <1>10. CASE Tick
    BY <1>10 DEF Tick, Aged, LedgerTypeOK, RecordType
  <1> QED
    BY <1>1, <1>4, <1>5, <1>6, <1>7, <1>8, <1>9, <1>10 DEF LedgerNext

\* S17 at the ledger: once an outcome is recorded as unknown, the key is blocked
\* under the same hash for ever.
THEOREM UnknownKept == LedgerSpec => UnknownOutcomeIsKept
  <1>1. LedgerTypeOK /\ [LedgerNext]_ledgerVars
          => [rec.status = "indeterminate" =>
                rec'.status = "indeterminate" /\ rec'.hash = rec.hash]_ledgerVars
    BY IndeterminateStep
  <1> QED
    BY <1>1, LedgerTypeCorrect, PTL DEF LedgerSpec, UnknownOutcomeIsKept

\* No call, tick or alarm changes a completed record before its retention ends,
\* nor lengthens the retention: what the object does to it in one step.
LEMMA CompletedStep ==
  ASSUME LedgerTypeOK, LedgerNext, rec.status = "completed", rec.ttl \in 1..Retention
  PROVE  /\ rec'.status = "completed" /\ rec'.hash = rec.hash
         /\ rec'.result.of = rec.result.of
         /\ rec'.ttl <= rec.ttl
  <1> DEFINE Kept(r) == /\ r.status = "completed" /\ r.hash = rec.hash
                        /\ r.result.of = rec.result.of
                        /\ r.ttl <= rec.ttl
  <1>0. rec \in RecordType /\ rec.ttl \in Nat /\ rec.ttl # 0 /\ rec.ttl # NoTtl
    BY DEF LedgerTypeOK, RecordType, NoTtl
  <1>1. Kept(Live(rec))
    <2>1. ~IsMissing(rec) /\ ~IsExpired(rec) /\ ~IsRenewed(rec) /\ IsRewrapped(rec)
      BY <1>0 DEF IsMissing, IsExpired, IsRenewed, IsRewrapped, Status
    <2>2. Live(rec) = Migrated(rec)
      BY <2>1 DEF Live
    <2>3. rec.result \in ResultType
      BY <1>0 DEF RecordType
    <2>4. ReplaySafe(rec.result).of = rec.result.of
      BY <2>3 DEF ReplaySafe, ResultType
    <2>5. Migrated(rec).ttl = rec.ttl /\ Migrated(rec).result = ReplaySafe(rec.result)
          /\ Migrated(rec).status = rec.status /\ Migrated(rec).hash = rec.hash
      BY <1>0, <2>1 DEF Migrated, RecordType
    <2> QED
      BY <1>0, <2>2, <2>4, <2>5
  <1>2. ASSUME NEW h \in Hashes PROVE AfterBegin(rec, h) = Live(rec)
    BY <1>1 DEF AfterBegin, BeginReply
  <1>3. ASSUME NEW s, NEW v PROVE Settled(rec, s, v) = Live(rec)
    BY <1>1 DEF Settled
  <1>4. ASSUME NEW h \in Hashes, Begin(h) PROVE rec' = Live(rec)
    BY <1>2, <1>4 DEF Begin, Store
  <1>5. ASSUME NEW v \in Results, Complete(v) PROVE rec' = Live(rec)
    BY <1>3, <1>5 DEF Complete, Store, AfterComplete
  <1>6. CASE Fail
    BY <1>1, <1>3, <1>6 DEF Fail, Store, AfterFail
  <1>7. CASE MarkIndeterminate
    BY <1>1, <1>3, <1>7 DEF MarkIndeterminate, Store, AfterMarkIndeterminate
  <1>8. CASE ReadStatus
    BY <1>1, <1>8 DEF ReadStatus, Store
  <1>9. CASE Alarm
    BY <1>1, <1>9 DEF Alarm
  <1>10. CASE Tick
    <2>1. rec' = [rec EXCEPT !.ttl = rec.ttl - 1]
      BY <1>10 DEF Tick, Aged
    <2> QED
      BY <1>0, <2>1 DEF RecordType
  <1> QED
    BY <1>1, <1>4, <1>5, <1>6, <1>7, <1>8, <1>9, <1>10 DEF LedgerNext

\* The result stored for a retry is the one the effect returned, under the hash
\* it ran with, until the retention that began with it ends.
THEOREM StoredResultStands == LedgerSpec => StoredResultIsFinal
  <1>1. LedgerTypeOK /\ [LedgerNext]_ledgerVars
          => [rec.status = "completed" /\ rec.ttl \in 1..Retention =>
                /\ rec'.status = "completed" /\ rec'.hash = rec.hash
                /\ rec'.result.of = rec.result.of
                /\ rec'.ttl <= rec.ttl]_ledgerVars
    BY CompletedStep
  <1> QED
    BY <1>1, LedgerTypeCorrect, PTL DEF LedgerSpec, StoredResultIsFinal

=============================================================================
