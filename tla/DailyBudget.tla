---------------------------- MODULE DailyBudget ----------------------------
(***************************************************************************)
(* The daily budget: BudgetDO (do/budget.ts), one object per UTC day, the  *)
(* reserve and reconcile calls around a run (tools/handlers.ts,            *)
(* tools/run_code.ts), and the meter of a run (sn/run-budget.ts).          *)
(*                                                                         *)
(* bytesReturned goes wherever rowsReturned goes and is left out.          *)
(***************************************************************************)
EXTENDS Integers, FiniteSets, Functions

CONSTANTS Runs,       \* run_code and discovery calls
          Kind,       \* Kind[r]: "run_code" or "discovery"
          Users,
          UserOf,     \* the user that makes a call
          Cap,        \* BUDGETS.daily, per dimension
          PerRun,     \* BUDGETS.perRun and the actor's row ceiling, per dimension
          Page,       \* most rows one call returns
          LastDay,    \* bound on the days that pass
          MaxRefused  \* bound on what a run counts beyond a limit

Dims == {"uniqueWorkers", "sandboxRpcCalls", "serviceNowRequests", "outboundBytesSent", "rowsReturned"}

ASSUME BudgetAssumption ==
  /\ IsFiniteSet(Runs)
  /\ Kind \in [Runs -> {"run_code", "discovery"}]
  /\ UserOf \in [Runs -> Users]
  /\ Cap \in [Dims -> Nat] /\ PerRun \in [Dims -> Nat \ {0}]
  /\ Page \in Nat /\ LastDay \in Nat /\ MaxRefused \in Nat

VARIABLES day,      \* today
          count,    \* the counters of each day's object
          tally,    \* its counters per user
          phase,    \* where each run is
          used,     \* the meter of each run
          open,     \* host calls of each run that have not returned
          report,   \* history: the meter of each run when it was reconciled
          spent     \* history: what each run really used, per day

vars == <<day, count, tally, phase, used, open, report, spent>>

Days == 0..LastDay
Zero == [d \in Dims |-> 0]

TypeOK ==
  /\ day \in Days
  /\ count \in [Days -> [Dims -> Nat]]
  /\ tally \in [Days -> [Users -> [Dims -> Nat]]]
  /\ phase \in [Runs -> {"new", "reserved", "running", "ended", "denied", "settled", "leaked"}]
  /\ used \in [Runs -> [Dims -> Nat]] /\ report \in [Runs -> [Dims -> Nat]]
  /\ open \in [Runs -> Nat]
  /\ spent \in [Runs -> [Days -> [Dims -> Nat]]]

Init ==
  /\ day = 0
  /\ count = [dd \in Days |-> Zero]
  /\ tally = [dd \in Days |-> [u \in Users |-> Zero]]
  /\ phase = [r \in Runs |-> "new"]
  /\ used = [r \in Runs |-> Zero] /\ report = [r \in Runs |-> Zero]
  /\ open = [r \in Runs |-> 0]
  /\ spent = [r \in Runs |-> [dd \in Days |-> Zero]]

-----------------------------------------------------------------------------
(***************************************************************************)
(* BudgetDO.  Its methods run one at a time; utcDateKey() of the moment of *)
(* the call names the object, for a reserve and for its reconcile alike.   *)
(***************************************************************************)

\* Rows are not reserved, and a discovery call starts no Worker and makes no sandbox call.
Reservation(r) ==
  [d \in Dims |->
    IF d = "rowsReturned" \/ (Kind[r] = "discovery" /\ d \in {"uniqueWorkers", "sandboxRpcCalls"})
    THEN 0 ELSE PerRun[d]]

AdmissionDims == {"rowsReturned", "outboundBytesSent", "sandboxRpcCalls"}

\* Mutant: reserve looks at what is counted so far, not at what it would become.
MutDenies(r) == \E d \in Dims : count[day][d] >= Cap[d]

Denies(r) ==
  \/ \E d \in AdmissionDims : count[day][d] >= Cap[d]
  \/ \E d \in Dims : Reservation(r)[d] > 0 /\ count[day][d] + Reservation(r)[d] > Cap[d]

\* Add delta to today's counters, global and of the user, none below zero.
Book(r, delta) ==
  LET Clamp(n) == IF n < 0 THEN 0 ELSE n IN
  /\ count' = [count EXCEPT ![day] = [d \in Dims |-> Clamp(@[d] + delta[d])]]
  /\ tally' = [tally EXCEPT ![day][UserOf[r]] = [d \in Dims |-> Clamp(@[d] + delta[d])]]

\* Mutant: the whole reservation is refunded, spent or not.
MutRefund(r) ==
  [d \in Dims |-> IF d = "uniqueWorkers" \/ (Kind[r] = "discovery" /\ d = "sandboxRpcCalls")
                  THEN 0 ELSE IF d = "rowsReturned" THEN used[r][d] ELSE 0 - Reservation(r)[d]]

\* What the reconcile reports of a run: the unused part of its reservation, negated.
Refund(r) ==
  [d \in Dims |->
    IF d = "uniqueWorkers" \/ (Kind[r] = "discovery" /\ d = "sandboxRpcCalls")
    THEN 0 ELSE used[r][d] - Reservation(r)[d]]

\* The reservation is granted; when the answer is lost the call fails and nobody refunds.
Reserve(r) ==
  /\ phase[r] = "new" /\ ~Denies(r)
  /\ Book(r, Reservation(r))
  /\ \E p \in {"reserved", "leaked"} : phase' = [phase EXCEPT ![r] = p]
  /\ UNCHANGED <<day, used, open, spent, report>>

DenyRun(r) ==
  /\ phase[r] = "new" /\ Denies(r)
  /\ phase' = [phase EXCEPT ![r] = "denied"]
  /\ UNCHANGED <<day, count, tally, used, open, spent, report>>

-----------------------------------------------------------------------------
(***************************************************************************)
(* The run.                                                                *)
(***************************************************************************)
SpendToday(r, delta) == spent' = [spent EXCEPT ![r][day] = [d \in Dims |-> @[d] + delta[d]]]

Only(d, n) == [Zero EXCEPT ![d] = n]
OneRequest(b) == [Zero EXCEPT !["serviceNowRequests"] = 1, !["outboundBytesSent"] = b]

StartRun(r) ==
  /\ phase[r] = "reserved"
  /\ phase' = [phase EXCEPT ![r] = "running"]
  /\ SpendToday(r, Only("uniqueWorkers", IF Kind[r] = "run_code" THEN 1 ELSE 0))
  /\ UNCHANGED <<day, count, tally, used, open, report>>

\* The snippet does not transpile: straight to the finally block, nothing used.
TranspileFails(r) ==
  /\ phase[r] = "reserved" /\ Kind[r] = "run_code"
  /\ phase' = [phase EXCEPT ![r] = "ended"]
  /\ UNCHANGED <<day, count, tally, used, open, spent, report>>

\* countOutboundBytes, which refuses before it counts, then countServiceNowRequest,
\* which counts before it refuses.
FitsOutbound(m, b) == m["outboundBytesSent"] + b <= PerRun["outboundBytesSent"]

Metered(m, b) == IF FitsOutbound(m, b)
                 THEN [m EXCEPT !["outboundBytesSent"] = @ + b, !["serviceNowRequests"] = @ + 1]
                 ELSE m

\* Mutant: the request limit is off by one.
MutMayRequest(m, b) == /\ FitsOutbound(m, b)
                       /\ m["serviceNowRequests"] <= PerRun["serviceNowRequests"]

MayRequest(m, b) == /\ FitsOutbound(m, b)
                    /\ m["serviceNowRequests"] < PerRun["serviceNowRequests"]

\* countRpcCall counts before it refuses too.
MayDispatch(m) == m["sandboxRpcCalls"] < PerRun["sandboxRpcCalls"]
Dispatched(m) == [m EXCEPT !["sandboxRpcCalls"] = @ + 1]

\* A host call that gets as far as its first request.
HostCall(r, b) ==
  /\ phase[r] = "running"
  /\ MayDispatch(used[r]) /\ MayRequest(Dispatched(used[r]), b)
  /\ used' = [used EXCEPT ![r] = Metered(Dispatched(@), b)]
  /\ open' = [open EXCEPT ![r] = @ + 1]
  /\ SpendToday(r, [OneRequest(b) EXCEPT !["sandboxRpcCalls"] = 1])
  /\ UNCHANGED <<day, count, tally, phase, report>>

\* A host call that the meter refuses.  The snippet may catch the error and call again.
RefusedHostCall(r, b) ==
  /\ phase[r] = "running"
  /\ \A d \in {"sandboxRpcCalls", "serviceNowRequests"} : used[r][d] < PerRun[d] + MaxRefused
  /\ ~(MayDispatch(used[r]) /\ MayRequest(Dispatched(used[r]), b))
  /\ used' = [used EXCEPT ![r] = IF MayDispatch(@) THEN Metered(Dispatched(@), b) ELSE Dispatched(@)]
  /\ SpendToday(r, Only("sandboxRpcCalls", 1))
  /\ UNCHANGED <<day, count, tally, phase, open, report>>

\* An open call sends another request: a token refresh, a page, the effect after its snapshot.
FurtherRequest(r, b) ==
  /\ open[r] > 0 /\ MayRequest(used[r], b)
  /\ used' = [used EXCEPT ![r] = Metered(@, b)]
  /\ SpendToday(r, OneRequest(b))
  /\ UNCHANGED <<day, count, tally, phase, open, report>>

\* The meter refuses it: the call throws.
RefusedRequest(r, b) ==
  /\ open[r] > 0 /\ ~MayRequest(used[r], b)
  /\ used[r]["serviceNowRequests"] < PerRun["serviceNowRequests"] + MaxRefused
  /\ used' = [used EXCEPT ![r] = Metered(@, b)]
  /\ open' = [open EXCEPT ![r] = @ - 1]
  /\ UNCHANGED <<day, count, tally, phase, spent, report>>

\* The call returns.  countRows counts every row, and delivers none above the ceiling.
CallReturns(r, n) ==
  /\ open[r] > 0
  /\ open' = [open EXCEPT ![r] = @ - 1]
  /\ used' = [used EXCEPT ![r]["rowsReturned"] = @ + n]
  /\ SpendToday(r, Only("rowsReturned",
                   IF used[r]["rowsReturned"] + n <= PerRun["rowsReturned"] THEN n ELSE 0))
  /\ UNCHANGED <<day, count, tally, phase, report>>

\* The snippet returns, throws or times out.  Calls it did not await go on.
RunEnds(r) ==
  /\ phase[r] = "running"
  /\ phase' = [phase EXCEPT ![r] = "ended"]
  /\ UNCHANGED <<day, count, tally, used, open, spent, report>>

\* The finally block: reconcile once, a failure swallowed.
Reconcile(r) ==
  /\ phase[r] = "ended"
  /\ Book(r, Refund(r))
  /\ report' = [report EXCEPT ![r] = used[r]]
  /\ phase' = [phase EXCEPT ![r] = "settled"]
  /\ UNCHANGED <<day, used, open, spent>>

ReconcileIsLost(r) ==
  /\ phase[r] = "ended"
  /\ phase' = [phase EXCEPT ![r] = "leaked"]
  /\ UNCHANGED <<day, count, tally, used, open, spent, report>>

\* The isolate is evicted, and its host calls with it.
Evict(r) ==
  /\ phase[r] \in {"reserved", "running", "ended"}
  /\ phase' = [phase EXCEPT ![r] = "leaked"]
  /\ open' = [open EXCEPT ![r] = 0]
  /\ UNCHANGED <<day, count, tally, used, spent, report>>

Midnight ==
  /\ day < LastDay
  /\ day' = day + 1
  /\ UNCHANGED <<count, tally, phase, used, open, spent, report>>

Next == \/ \E r \in Runs :
             \/ Reserve(r) \/ DenyRun(r) \/ StartRun(r) \/ TranspileFails(r)
             \/ RunEnds(r) \/ Reconcile(r) \/ ReconcileIsLost(r) \/ Evict(r)
             \/ \E b \in 0..1 : \/ HostCall(r, b) \/ RefusedHostCall(r, b)
                             \/ FurtherRequest(r, b) \/ RefusedRequest(r, b)
             \/ \E n \in 0..Page : CallReturns(r, n)
        \/ Midnight

Spec == Init /\ [][Next]_vars

-----------------------------------------------------------------------------
(***************************************************************************)
(* Properties.                                                             *)
(***************************************************************************)
Total(dd, d) == SumFunction([r \in Runs |-> spent[r][dd][d]])

Traffic == {"uniqueWorkers", "serviceNowRequests", "outboundBytesSent"}

Granted(r) == phase[r] \in {"reserved", "running", "ended", "settled", "leaked"}

\* What a run weighs in the books: its reservation, and once settled what it reported.
Weight(r, d) == IF ~Granted(r) THEN 0 ELSE IF phase[r] = "settled" THEN report[r][d] ELSE Reservation(r)[d]

\* No run went on after its report, and none met midnight.
Orderly == day = 0 /\ \A r \in Runs : phase[r] = "settled" => report[r] = used[r]

\* The books balance within a day: each counter, global or of a user, is the sum of the
\* reservations still held and of what the settled runs reported.  No refusal leaves a
\* trace, no refund is made twice or skipped, none goes to another run or user.
BooksBalance ==
  day = 0 => \A d \in {"serviceNowRequests", "outboundBytesSent", "rowsReturned"} :
    LET weights == [r \in Runs |-> Weight(r, d)]
    IN  /\ count[0][d] = SumFunction(weights)
        /\ \A u \in Users :
              tally[0][u][d] = SumFunctionOnSet(weights, {r \in Runs : UserOf[r] = u})

\* The daily cap holds for what really leaves the Worker: the Workers started, requests
\* sent and bytes sent on a day never exceed their caps, however runs race, fail or die
\* (do/budget.ts:63-65).
TrafficWithinCap == \A dd \in Days, d \in Traffic : Total(dd, d) <= Cap[d]

\* It does as long as no run meets midnight and no call outlives its run's report.
OrderlyTrafficWithinCap == Orderly => TrafficWithinCap

\* Failure is on the safe side: a lost reconcile or an evicted run leaves the counters at
\* or above what was really spent, never below.
FailsClosed == Orderly => \A d \in Traffic : count[0][d] >= Total(0, d)

\* Calls that race within one run, outlive it or run over midnight stay within its limits,
\* and so do the rows they deliver.
RunWithinLimits ==
  \A r \in Runs, d \in {"serviceNowRequests", "outboundBytesSent", "rowsReturned"} :
    SumFunction([dd \in Days |-> spent[r][dd][d]]) <= PerRun[d]

\* The reservation of per-run maximums keeps concurrent runs within the daily cap of
\* sandbox calls (tools/handlers.ts:307-311).
CountWithinCap == count[0]["sandboxRpcCalls"] <= Cap["sandboxRpcCalls"]

\* The daily row cap is overshot by one per-run ceiling at most (do/budget.ts:88-90, 152-154).
OvershootIsOneCeiling ==
  \A dd \in Days : Total(dd, "rowsReturned") <= Cap["rowsReturned"] + PerRun["rowsReturned"]
=============================================================================
