------------------------------ MODULE Admission ------------------------------
(***************************************************************************)
(* Admission of authenticated /mcp requests of one user: the leases of     *)
(* McpAdmissionDO (do/mcp-admission.ts) and the Worker side that holds,    *)
(* renews and releases them around a response body (index.ts).             *)
(*                                                                         *)
(* Time is in ticks and relative.  A call carries its caller's Date.now(), *)
(* which may lag the clock by up to MaxLag; a lease stores the ticks until *)
(* even the most lagging caller sees it expired.                           *)
(***************************************************************************)
EXTENDS Naturals, FiniteSets, Functions

CONSTANTS Slots,        \* request slots of the user's Workers
          LeaseIds,     \* random lease ids
          MaxRequests,  \* MAX_REQUESTS_PER_WINDOW
          MaxInFlight,  \* MAX_IN_FLIGHT
          RateWindow,   \* WINDOW_MS
          StaleLease,   \* STALE_LEASE_MS
          RenewEvery,   \* ADMISSION_LEASE_RENEWAL_MS
          MaxLag        \* bound on how far a caller's clock lags

ASSUME AdmissionAssumption ==
  /\ {MaxRequests, MaxInFlight, RateWindow, StaleLease, RenewEvery} \subseteq Nat \ {0}
  /\ MaxLag \in Nat
  /\ 2 * RenewEvery < StaleLease

VARIABLES window,   \* the object's rate window: ticks since it began, requests counted
          leases,   \* the object's lease map
          calls,    \* renew and release calls on their way to the object
          phase,    \* what each slot is doing
          held,     \* the lease it holds, or NoLease
          timer,    \* ticks until its next renewal
          failed,   \* history: renewals in a row that did not put its lease back
          late      \* history: ticks since then that it did not spend waiting to renew

admissionVars == <<window, leases, calls, phase, held, timer, failed, late>>

NoLease == "no lease"

ASSUME LeaseIdsAssumption == NoLease \notin LeaseIds

Serving == {"handling", "streaming", "renewed", "refused"}
Call(c, id) == [call |-> c, id |-> id]

\* The time a lease has beyond two renewals.
Slack == StaleLease - 2 * RenewEvery

TypeOK ==
  /\ window \in [age : 0..(RateWindow + MaxLag), count : 0..MaxRequests]
  /\ DOMAIN leases \subseteq LeaseIds
  /\ \A id \in DOMAIN leases : leases[id] \in 0..(StaleLease + MaxLag)
  /\ calls \subseteq [call : {"renew", "release"}, id : LeaseIds]
  /\ phase \in [Slots -> Serving \cup {"idle"}]
  /\ held \in [Slots -> LeaseIds \cup {NoLease}]
  /\ timer \in [Slots -> 0..RenewEvery]
  /\ failed \in [Slots -> 0..2]
  /\ late \in [Slots -> 0..Slack]

\* No window yet reads as one that is over.
AdmissionInit ==
  /\ window = [age |-> RateWindow + MaxLag, count |-> 0]
  /\ leases = [id \in {} |-> 0]
  /\ calls = {}
  /\ phase = [s \in Slots |-> "idle"]
  /\ held = [s \in Slots |-> NoLease]
  /\ timer = [s \in Slots |-> 0]
  /\ failed = [s \in Slots |-> 0]
  /\ late = [s \in Slots |-> 0]

-----------------------------------------------------------------------------
(***************************************************************************)
(* McpAdmissionDO.  Its methods run one at a time (enqueue); lag is how    *)
(* far the now argument of the call is behind.                             *)
(***************************************************************************)
Capped(n, max) == IF n > max THEN max ELSE n

LiveTo(lag, left) == left > MaxLag - lag

FullLease(lag) == StaleLease + MaxLag - lag

\* Mutant: stale leases are not pruned.
MutPruneLeases(lag) == leases

PruneLeases(lag) == Restrict(leases, {id \in DOMAIN leases : LiveTo(lag, leases[id])})

WindowOver(lag) == window.age >= RateWindow + lag

CurrentWindow(lag) == IF WindowOver(lag) THEN [age |-> lag, count |-> 0] ELSE window

Counted(lag) == [CurrentWindow(lag) EXCEPT !.count = @ + 1]

RateLimited(lag) == CurrentWindow(lag).count >= MaxRequests

\* Mutant: one lease too many.
MutAdmissible(lag) == /\ ~RateLimited(lag)
                      /\ Cardinality(DOMAIN PruneLeases(lag)) <= MaxInFlight

Admissible(lag) == /\ ~RateLimited(lag)
                   /\ Cardinality(DOMAIN PruneLeases(lag)) < MaxInFlight

\* crypto.randomUUID: an id nobody has used or still refers to.
FreshIds == {id \in LeaseIds : /\ id \notin DOMAIN leases
                               /\ \A s \in Slots : held[s] # id
                               /\ \A c \in calls : c.id # id}

\* Mutant: renew puts back a lease that is gone.
MutRenewLease(id, lag) ==
  leases' = [i \in DOMAIN PruneLeases(lag) \cup {id} |-> IF i = id THEN FullLease(lag) ELSE leases[i]]

\* Mutant: renew answers true but does not extend the lease.
MutRenewInPlace(id, lag) == leases' = PruneLeases(lag)

RenewLease(id, lag) ==
  leases' = [i \in DOMAIN PruneLeases(lag) |-> IF i = id THEN FullLease(lag) ELSE leases[i]]

ReleaseLease(id) == leases' = Restrict(leases, DOMAIN leases \ {id})

-----------------------------------------------------------------------------
(***************************************************************************)
(* A request: admitMcpRequest, the MCP handler, the response body.         *)
(***************************************************************************)

\* admit grants a lease; if its answer is lost the request is refused with 503
\* and the lease stays behind.
Admit(s, lag) ==
  /\ phase[s] = "idle" /\ Admissible(lag)
  /\ window' = Counted(lag)
  /\ \E id \in FreshIds :
       /\ leases' = [i \in DOMAIN PruneLeases(lag) \cup {id} |->
                       IF i = id THEN FullLease(lag) ELSE leases[i]]
       /\ \/ /\ phase' = [phase EXCEPT ![s] = "handling"]
             /\ held' = [held EXCEPT ![s] = id]
             /\ late' = [late EXCEPT ![s] = Capped(lag, Slack)]
          \/ UNCHANGED <<phase, held, late>>
  /\ UNCHANGED <<calls, timer, failed>>

\* Too many in flight: the request counts against the rate all the same.
RefuseConcurrency(s, lag) ==
  /\ phase[s] = "idle" /\ ~RateLimited(lag) /\ ~Admissible(lag)
  /\ window' = Counted(lag)
  /\ leases' = PruneLeases(lag)
  /\ UNCHANGED <<calls, phase, held, timer, failed, late>>

\* The handler returns a body: the renewal loop starts, however long the handler took.
HandlerResponds(s) ==
  /\ phase[s] = "handling"
  /\ phase' = [phase EXCEPT ![s] = "streaming"]
  /\ timer' = [timer EXCEPT ![s] = RenewEvery]
  /\ UNCHANGED <<window, leases, calls, held, failed, late>>

\* The slot's renewal loop is over and its lease no longer held.
LetGo(s) ==
  /\ phase' = [phase EXCEPT ![s] = "idle"]
  /\ held' = [held EXCEPT ![s] = NoLease]
  /\ timer' = [timer EXCEPT ![s] = 0]
  /\ failed' = [failed EXCEPT ![s] = 0]
  /\ late' = [late EXCEPT ![s] = 0]

\* The handler throws or returns no body, the body ends, fails or is cancelled, or the loop
\* hears false and aborts it: releaseOnce sends one release call, its failure swallowed.
Finish(s) ==
  /\ phase[s] \in Serving
  /\ calls' = calls \cup {Call("release", held[s])}
  /\ LetGo(s)
  /\ UNCHANGED <<window, leases>>

\* renewMcpAdmissionUntilReleased: the delay is over, the call leaves.
SendRenew(s) ==
  /\ phase[s] = "streaming" /\ timer[s] = 0
  /\ Call("renew", held[s]) \notin calls
  /\ calls' = calls \cup {Call("renew", held[s])}
  /\ UNCHANGED <<window, leases, phase, held, timer, failed, late>>

\* The object carries it out.  Its answer, true or false, is on its way to the loop that
\* asked, if it still runs.
Renew(id, lag) ==
  /\ Call("renew", id) \in calls
  /\ calls' = calls \ {Call("renew", id)}
  /\ RenewLease(id, lag)
  /\ LET renewed == id \in DOMAIN PruneLeases(lag)
         Asked(s) == held[s] = id /\ phase[s] = "streaming"
     IN  /\ phase' = [s \in Slots |-> IF ~Asked(s) THEN phase[s]
                                      ELSE IF renewed THEN "renewed" ELSE "refused"]
         /\ failed' = [s \in Slots |-> IF Asked(s) /\ renewed THEN 0 ELSE failed[s]]
         /\ late' = [s \in Slots |-> IF Asked(s) /\ renewed THEN Capped(lag, Slack) ELSE late[s]]
  /\ UNCHANGED <<window, held, timer>>

\* The loop hears true, and waits again ...
HearRenewed(s) ==
  /\ phase[s] = "renewed"
  /\ phase' = [phase EXCEPT ![s] = "streaming"]
  /\ timer' = [timer EXCEPT ![s] = RenewEvery]
  /\ UNCHANGED <<window, leases, calls, held, failed, late>>

\* ... or an error in the place of the answer.  (Finish is what it does on hearing false.)
AnswerIsLost(s) ==
  /\ phase[s] \in {"renewed", "refused"}
  /\ phase' = [phase EXCEPT ![s] = "streaming"]
  /\ timer' = [timer EXCEPT ![s] = RenewEvery]
  /\ failed' = [failed EXCEPT ![s] = IF phase[s] = "refused" THEN Capped(@ + 1, 2) ELSE @]
  /\ UNCHANGED <<window, leases, calls, held, late>>

\* The call never reaches the object, and the loop hears an error.
RenewIsLost(id) ==
  /\ Call("renew", id) \in calls
  /\ calls' = calls \ {Call("renew", id)}
  /\ LET Asked(s) == held[s] = id /\ phase[s] = "streaming"
     IN  /\ timer' = [s \in Slots |-> IF Asked(s) THEN RenewEvery ELSE timer[s]]
         /\ failed' = [s \in Slots |-> IF Asked(s) THEN Capped(failed[s] + 1, 2) ELSE failed[s]]
  /\ UNCHANGED <<window, leases, phase, held, late>>

Release(id) ==
  /\ Call("release", id) \in calls
  /\ calls' = calls \ {Call("release", id)}
  /\ ReleaseLease(id)
  /\ UNCHANGED <<window, phase, held, timer, failed, late>>

ReleaseIsLost(id) ==
  /\ Call("release", id) \in calls
  /\ calls' = calls \ {Call("release", id)}
  /\ UNCHANGED <<window, leases, phase, held, timer, failed, late>>

\* The isolate is evicted with the lease held.
Evict(s) ==
  /\ phase[s] # "idle"
  /\ LetGo(s)
  /\ UNCHANGED <<window, leases, calls>>

\* A tick that finds the handler at work, or a renewal due and its answer not heard, is one
\* by which the next renewal comes later.
AdmissionTick ==
  /\ window' = [window EXCEPT !.age = Capped(@ + 1, RateWindow + MaxLag)]
  /\ leases' = [id \in DOMAIN leases |-> IF leases[id] > 0 THEN leases[id] - 1 ELSE 0]
  /\ timer' = [s \in Slots |-> IF timer[s] > 0 THEN timer[s] - 1 ELSE 0]
  /\ late' = [s \in Slots |-> IF phase[s] \in Serving /\ timer[s] = 0 THEN Capped(late[s] + 1, Slack) ELSE late[s]]
  /\ UNCHANGED <<calls, phase, held, failed>>

AdmissionNext ==
  \/ \E s \in Slots, lag \in 0..MaxLag : Admit(s, lag) \/ RefuseConcurrency(s, lag)
  \/ \E s \in Slots : \/ HandlerResponds(s) \/ Finish(s) \/ Evict(s)
                      \/ SendRenew(s) \/ HearRenewed(s) \/ AnswerIsLost(s)
  \/ \E id \in LeaseIds, lag \in 0..MaxLag : Renew(id, lag)
  \/ \E id \in LeaseIds : RenewIsLost(id) \/ Release(id) \/ ReleaseIsLost(id)
  \/ AdmissionTick

AdmissionSpec == AdmissionInit /\ [][AdmissionNext]_admissionVars

\* Time passes.  Workers, clients, the handler and the delivery of calls owe nothing.
AdmissionFairSpec == AdmissionSpec /\ WF_admissionVars(AdmissionTick)

-----------------------------------------------------------------------------
(***************************************************************************)
(* Properties.                                                             *)
(***************************************************************************)

\* At most MaxInFlight leases are live at any time, whatever leases were leaked,
\* released late or renewed late, and however the callers' clocks lag.
LeasesBounded == Cardinality({id \in DOMAIN leases : LiveTo(0, leases[id])}) <= MaxInFlight

\* A released or pruned lease never comes back: an id enters the map only when
\* no slot and no call in flight refers to it.
NoLeaseIsResurrected ==
  [][\A id \in LeaseIds : id \notin DOMAIN leases /\ id \in DOMAIN leases' => id \in FreshIds]_admissionVars

\* A renewal that fails does not by itself cost a client its stream.  A renewal is refused,
\* and the stream aborted, only if two in a row did not put the lease back, or if since it was
\* put back the Worker has spent, beside its waits for the next renewal, all the time a lease
\* has beyond two renewals (15 s): in the handler, on calls and answers under way, on
\* a clock that lags (index.ts:225-237).
LossHasACause == \A s \in Slots : phase[s] = "refused" => failed[s] = 2 \/ late[s] = Slack

\* Leases left behind by evicted Workers and lost releases do not lock the user
\* out: once nothing is being served, the object forgets them.
LeakedLeasesLapse ==
  (\A s \in Slots : phase[s] = "idle")
    ~> (\E s \in Slots : phase[s] # "idle") \/ PruneLeases(0) = [id \in {} |-> 0]
=============================================================================
