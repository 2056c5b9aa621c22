-------------------------------- MODULE RunCode --------------------------------
(***************************************************************************)
(* run_code requests of one user that retry one snippet under one key,     *)
(* while releases change the policy: tools/run_code.ts around the boundary *)
(* of sn/rpc.ts with the policy of authz/.  A mutation is one claim of the *)
(* ledger and one settled effect, as MutationGuard shows; of the budgets,  *)
(* DailyBudget's, only the count of calls is kept, the rest may refuse.    *)
(***************************************************************************)
EXTENDS Integers, FiniteSetsExt, Sequences

CONSTANTS
    Runs, Tables, Fields,
    Prefixes,   \* Prefixes[f]: f and the references it is dot-walked from
    Snippets,   \* the host calls a snippet may make, in program order
    InOrder,    \* whether it makes them in that order each time
    Rollouts,   \* sequences of environments of the Worker, each replaced by the next
    Requests,   \* inputs of run_code
    PolicyName, \* auth.props.actorPolicyName
    ScopeMode,  \* auth.scopeMaxMode
    RpcLimit,   \* BUDGETS.perRun.rpcCallLimit
    None

Modes == 0..2 \* modeRisk of read_only, write, admin_script
ReadOps == {"tableQuery", "tableGet", "aggregate"}
HostConditions == {"budget_exceeded", "reauth_required"}

\* A host call: what it is, on which table, the fields it asks for or writes and
\* those its query names.
FieldSets == {None} \cup SUBSET Fields
HostCalls == [op : ReadOps, table : Tables, fields : FieldSets, where : FieldSets]
             \cup [op : {"tableUpdate"}, table : Tables, fields : SUBSET Fields, where : {None}]
             \cup [op : {"runServerScript"}, table : {None}, fields : {None}, where : {None}]

\* Policies as they are written in the environment: a ceiling may be any number.
Policies == [tables : SUBSET Tables, masked : [Tables -> SUBSET Fields], maxMode : Int]
Environments == UNION {{s[n] : n \in DOMAIN s} : s \in Rollouts}

ASSUME RunCodeAssumption ==
    /\ \A f \in Fields : f \in Prefixes[f] /\ Prefixes[f] \subseteq Fields
    /\ Snippets \subseteq Seq(HostCalls) /\ InOrder \in BOOLEAN
    /\ Rollouts \subseteq Seq(Environments) /\ <<>> \notin Rollouts
    /\ \A env \in Environments :
           PolicyName \in DOMAIN env.policies => env.policies[PolicyName] \in Policies \cup {None}
    /\ \A q \in Requests : q.mode \in Modes \cup {None}
    /\ ScopeMode \in Modes /\ RpcLimit \in Nat
    /\ None \notin Fields \cup HostConditions \cup {"ok"}

VARIABLES
    snippet,  \* the calls of this snippet
    releases, \* the environments still to run, the running one first
    run,      \* one request: its phase, environment, policy, counters, answer
    call,     \* call[r][i]: the snippet's i-th call in run r
    ledger,   \* the record of the user, the instance and the key at each ordinal
    effects   \* history: <<r, i>> for each mutation that reached ServiceNow

vars == <<snippet, releases, run, call, ledger, effects>>

-----------------------------------------------------------------------------
(* The environment.                                                        *)

DenyAll == [tables |-> {}, masked |-> [t \in Tables |-> {}], maxMode |-> 0]

\* A ceiling that is not set, or not a mode, is read_only.
LoadActorPolicy(p) == IF p = None THEN DenyAll ELSE [p EXCEPT !.maxMode = IF @ \in Modes THEN @ ELSE 0]

\* A name the release does not know denies everything.
PolicyOf(env) ==
    IF PolicyName \in DOMAIN env.policies THEN LoadActorPolicy(env.policies[PolicyName]) ELSE DenyAll

ParseMaxMode(m) == IF m = None THEN 2 ELSE IF m \in Modes THEN m ELSE 0

Ceiling(env) == Min({ScopeMode, ParseMaxMode(env.tenant), ParseMaxMode(env.instance)})

\* assertAdminScriptApproved; a token or membership the environment accepts
Approved(r) ==
    LET env == run[r].env IN
    /\ env.allowlisted
    /\ run[r].request.token \in env.tokens \/ env.member

\* isFieldMasked: the field or what it is dot-walked from
FieldMasked(p, t, f) == Prefixes[f] \cap p.masked[t] # {}
FieldsAllowed(p, t, fs) == fs # None => \A f \in fs : ~ FieldMasked(p, t, f)

\* maskRow over the columns of a row, or over the fields asked for
Masked(p, t, fs) ==
    {f \in IF fs = None THEN {g \in Fields : Prefixes[g] = {g}} ELSE fs : ~ FieldMasked(p, t, f)}

-----------------------------------------------------------------------------
NewCall == [pc |-> "new", ordinal |-> 0, out |-> None, shown |-> None]
Ended(c, code, shown) == [c EXCEPT !.pc = "ended", !.ordinal = 0, !.out = code, !.shown = shown]

NewRun == [phase |-> "new", env |-> None, policy |-> DenyAll, request |-> None,
           rpc |-> 0, ordinal |-> 0, signals |-> {}, answer |-> None]

Init ==
    /\ snippet \in Snippets
    /\ releases \in Rollouts
    /\ run = [r \in Runs |-> NewRun]
    /\ call = [r \in Runs |-> [i \in DOMAIN snippet |-> NewCall]]
    /\ ledger = [n \in DOMAIN snippet |-> None]
    /\ effects = {}

\* requested ?? DEFAULT_MODE, which the ceiling did not refuse
ModeOf(r) == IF run[r].request.mode = None THEN 0 ELSE run[r].request.mode
ModeAsked(q) == IF q.mode = None THEN 0 ELSE q.mode

\* Mutant: the policy is not part of the hash.
MutRequestHash(r, i) ==
    [call |-> snippet[i], mode |-> ModeOf(r), policy |-> None, reason |-> run[r].request.reason]

\* What tableUpdateRequestHash and runServerScriptRequestHash are computed of.
RequestHash(r, i) ==
    [call |-> snippet[i], mode |-> ModeOf(r), policy |-> run[r].policy, reason |-> run[r].request.reason]

\* A record of the ledger is not the absence of one.
Hashes == [call : HostCalls, mode : Modes, policy : {PolicyOf(env) : env \in Environments},
           reason : {q.reason : q \in Requests}]
Records == [status : {"started", "completed", "indeterminate"}, hash : Hashes,
            result : {None} \cup SUBSET Fields]

ASSUME RecordAssumption == None \notin Records

-----------------------------------------------------------------------------
(* The request: size, mode, reason, the shape of key and token, then the   *)
(* preflight, the reservation and the transpiler.  Nothing they await      *)
(* changes what the run was given, so they are one step.                   *)

Submit(r, q) ==
    LET env == Head(releases) IN
    /\ run[r].phase = "new"
    /\ ModeAsked(q) <= Ceiling(env)
    /\ ModeAsked(q) = 2 => q.reason # None
    /\ run' = [run EXCEPT ![r] =
           [@ EXCEPT !.phase = "running", !.env = env, !.policy = PolicyOf(env), !.request = q]]
    /\ UNCHANGED <<snippet, releases, call, ledger, effects>>

\* One of them refuses; the daily budget and the tokens may refuse any request.
Refuse(r) ==
    /\ run[r].phase = "new"
    /\ run' = [run EXCEPT ![r].phase = "refused"]
    /\ UNCHANGED <<snippet, releases, call, ledger, effects>>

\* Mutant: a snippet that returns cleanly is a success.
MutFinish(r, throws) ==
    LET code == IF ~ throws THEN "ok"
                ELSE IF "budget_exceeded" \in run[r].signals THEN "budget_exceeded"
                ELSE IF "reauth_required" \in run[r].signals THEN "reauth_required"
                ELSE "run_error"
    IN  /\ run[r].phase = "running"
        /\ run' = [run EXCEPT ![r] = [@ EXCEPT !.phase = "answered", !.answer = code]]
        /\ UNCHANGED <<snippet, releases, call, ledger, effects>>

\* The snippet returns, throws or times out; calls it did not await go on.
\* The host's own signals come before what the snippet says of itself.
Finish(r, throws) ==
    LET code == IF "budget_exceeded" \in run[r].signals THEN "budget_exceeded"
                ELSE IF "reauth_required" \in run[r].signals THEN "reauth_required"
                ELSE IF throws THEN "run_error" ELSE "ok"
    IN  /\ run[r].phase = "running"
        /\ run' = [run EXCEPT ![r] = [@ EXCEPT !.phase = "answered", !.answer = code]]
        /\ UNCHANGED <<snippet, releases, call, ledger, effects>>

-----------------------------------------------------------------------------
(* A host call, up to its first await.                                     *)

\* assertActorPolicy
PolicyAllows(r, t) == t \in run[r].policy.tables /\ ModeOf(r) <= run[r].policy.maxMode

\* The checks before countRpcCall; every mode may read.
GateAllows(r, c) ==
    \/ /\ c.op \in ReadOps
       /\ PolicyAllows(r, c.table) /\ FieldsAllowed(run[r].policy, c.table, c.fields)
    \/ /\ c.op = "tableUpdate"
       /\ PolicyAllows(r, c.table) /\ ModeOf(r) >= 1
       /\ FieldsAllowed(run[r].policy, c.table, c.fields)
    \/ /\ c.op = "runServerScript"
       /\ ModeOf(r) <= run[r].policy.maxMode /\ ModeOf(r) = 2

\* assertQueryFieldsAllowed, after it
QueryAllowed(r, c) == FieldsAllowed(run[r].policy, c.table, c.where)

Makes(r, i) ==
    /\ run[r].phase = "running" /\ call[r][i].pc = "new"
    /\ InOrder => \A j \in 1..(i - 1) : call[r][j].pc # "new"

\* The call throws code, or returns what it shows; coded() notes a host condition
\* in the signals.  One that comes after the answer is too late to matter.
End(r, i, code, shown) ==
    LET met == {code} \cap HostConditions
        noted == IF run[r].phase = "answered" /\ met # {} THEN "failed" ELSE code
    IN  /\ call' = [call EXCEPT ![r][i] = Ended(@, noted, shown)]
        /\ run' = [run EXCEPT ![r].signals = IF run[r].phase = "answered" THEN @ ELSE @ \cup met]

Denied(r, i) ==
    /\ Makes(r, i) /\ ~ GateAllows(r, snippet[i])
    /\ End(r, i, "failed", None)
    /\ UNCHANGED <<snippet, releases, ledger, effects>>

\* countRpcCall counts before it refuses.
OutOfCalls(r, i) ==
    /\ Makes(r, i) /\ GateAllows(r, snippet[i]) /\ run[r].rpc = RpcLimit
    /\ End(r, i, "budget_exceeded", None)
    /\ UNCHANGED <<snippet, releases, ledger, effects>>

\* Counted, a read goes out, unless its query names a masked field or its size
\* or number is over the limit.
Read(r, i) ==
    LET c == snippet[i] IN
    /\ c.op \in ReadOps
    /\ Makes(r, i) /\ GateAllows(r, c) /\ run[r].rpc < RpcLimit
    /\ \/ /\ QueryAllowed(r, c)
          /\ call' = [call EXCEPT ![r][i].pc = "reading"]
          /\ run' = [run EXCEPT ![r].rpc = @ + 1]
       \/ \E code \in IF QueryAllowed(r, c) THEN {"budget_exceeded"} ELSE {"failed"} :
              /\ call' = [call EXCEPT ![r][i] = Ended(@, code, None)]
              /\ run' = [run EXCEPT ![r] =
                     [@ EXCEPT !.rpc = run[r].rpc + 1, !.signals = run[r].signals \cup ({code} \cap HostConditions)]]
    /\ UNCHANGED <<snippet, releases, ledger, effects>>

\* Rows, masked, or an error of the token, of ServiceNow or of the meter.  An
\* aggregate shows the fields it groups by.
ReadReturns(r, i) ==
    LET c == snippet[i]
        shown == IF c.op = "aggregate" /\ c.fields = None THEN {}
                 ELSE IF c.op = "aggregate" THEN c.fields
                 ELSE Masked(run[r].policy, c.table, c.fields)
    IN  /\ call[r][i].pc = "reading"
        /\ \/ End(r, i, "ok", shown)
           \/ \E code \in HostConditions \cup {"failed"} : End(r, i, code, None)
        /\ UNCHANGED <<snippet, releases, ledger, effects>>

\* Each mutation takes its ordinal before its first await.
Mutate(r, i) ==
    LET c == snippet[i] IN
    /\ c.op \notin ReadOps
    /\ Makes(r, i) /\ GateAllows(r, c) /\ run[r].rpc < RpcLimit
    /\ call' = [call EXCEPT ![r][i] = [@ EXCEPT !.pc = "hashing", !.ordinal = run[r].ordinal + 1]]
    /\ run' = [run EXCEPT ![r] = [@ EXCEPT !.rpc = run[r].rpc + 1, !.ordinal = run[r].ordinal + 1]]
    /\ UNCHANGED <<snippet, releases, ledger, effects>>

-----------------------------------------------------------------------------
(* guardMutation                                                           *)

\* A script's allowlist and second approval are looked at once it is claimed.
ApprovalHolds(r, i) == snippet[i].op = "runServerScript" => Approved(r)

NotGuarded(r, i) ==
    /\ call[r][i].pc = "hashing"
    /\ run[r].env.frozen \/ ~ run[r].request.key
    /\ End(r, i, "failed", None)
    /\ UNCHANGED <<snippet, releases, ledger, effects>>

Guarded(r, i) ==
    /\ call[r][i].pc = "hashing"
    /\ ~ run[r].env.frozen /\ run[r].request.key

Claim(r, i) ==
    LET n == call[r][i].ordinal IN
    /\ Guarded(r, i) /\ ledger[n] = None
    /\ ledger' = [ledger EXCEPT ![n] =
           [status |-> "started", hash |-> RequestHash(r, i), result |-> None]]
    /\ call' = [call EXCEPT ![r][i].pc = "claimed"]
    /\ UNCHANGED <<snippet, releases, run, effects>>

\* Mutant: what the record was claimed for is not compared.
MutReplay(r, i) ==
    LET record == ledger[call[r][i].ordinal] IN
    /\ Guarded(r, i) /\ record # None
    /\ record.status = "completed"
    /\ End(r, i, "ok", record.result)
    /\ UNCHANGED <<snippet, releases, ledger, effects>>

\* A completed record of the same request is replayed, a script's only while it
\* is approved; the meter may refuse its bytes.
Replay(r, i) ==
    LET record == ledger[call[r][i].ordinal] IN
    /\ Guarded(r, i) /\ record # None
    /\ record.status = "completed" /\ record.hash = RequestHash(r, i)
    /\ IF ApprovalHolds(r, i)
       THEN \/ End(r, i, "ok", record.result)
            \/ End(r, i, "budget_exceeded", None)
       ELSE End(r, i, "failed", None)
    /\ UNCHANGED <<snippet, releases, ledger, effects>>

Conflict(r, i) ==
    LET record == ledger[call[r][i].ordinal] IN
    /\ Guarded(r, i) /\ record # None
    /\ record.status # "completed" \/ record.hash # RequestHash(r, i)
    /\ End(r, i, "failed", None)
    /\ UNCHANGED <<snippet, releases, ledger, effects>>

\* That, the row filter, the principal, the snapshot or the intent row refuses or
\* fails, and the record goes.  If fail() throws, it stays, and its error takes
\* the place of the refusal.
NotCleared(r, i) ==
    /\ call[r][i].pc = "claimed"
    /\ \/ /\ ledger' = [ledger EXCEPT ![call[r][i].ordinal] = None]
          /\ \E code \in {"failed"} \cup (IF ApprovalHolds(r, i) THEN HostConditions ELSE {}) :
                 End(r, i, code, None)
       \/ /\ End(r, i, "failed", None)
          /\ UNCHANGED ledger
    /\ UNCHANGED <<snippet, releases, effects>>

Sends(r, i) == call[r][i].pc = "claimed" /\ ApprovalHolds(r, i)

\* What the caller may see of an effect is stored.
ResultOf(r, i) ==
    IF snippet[i].op = "tableUpdate" THEN Masked(run[r].policy, snippet[i].table, None) ELSE {}

\* complete() may fail; the meter may refuse the bytes of the answer.
Applied(r, i) ==
    LET n == call[r][i].ordinal IN
    /\ Sends(r, i)
    /\ effects' = effects \cup {<<r, i>>}
    /\ \/ ledger' = [ledger EXCEPT ![n] = [@ EXCEPT !.status = "completed", !.result = ResultOf(r, i)]]
       \/ UNCHANGED ledger
    /\ \/ End(r, i, "ok", ResultOf(r, i))
       \/ End(r, i, "budget_exceeded", None)
    /\ UNCHANGED <<snippet, releases>>

\* A definite rejection, or the meter before the send: fail(), which may fail.
Rejected(r, i) ==
    /\ Sends(r, i)
    /\ \E code \in HostConditions \cup {"failed"} : End(r, i, code, None)
    /\ \/ ledger' = [ledger EXCEPT ![call[r][i].ordinal] = None]
       \/ UNCHANGED ledger
    /\ UNCHANGED <<snippet, releases, effects>>

\* Mutant: a timeout frees the record.
MutUnknown(r, i) ==
    /\ Sends(r, i)
    /\ ledger' = [ledger EXCEPT ![call[r][i].ordinal] = None]
    /\ \E done \in SUBSET {<<r, i>>} : effects' = effects \cup done
    /\ \E code \in {"budget_exceeded", "failed"} : End(r, i, code, None)
    /\ UNCHANGED <<snippet, releases>>

\* A lost answer, a 5xx or a 429.
Unknown(r, i) ==
    /\ Sends(r, i)
    /\ ledger' = [ledger EXCEPT ![call[r][i].ordinal].status = "indeterminate"]
    /\ \E done \in SUBSET {<<r, i>>} : effects' = effects \cup done
    /\ \E code \in {"budget_exceeded", "failed"} : End(r, i, code, None)
    /\ UNCHANGED <<snippet, releases>>

-----------------------------------------------------------------------------
Pending(r) == {i \in DOMAIN snippet : call[r][i].pc \notin {"new", "ended"}}

\* The isolate is evicted; what was under way may have reached ServiceNow.
Die(r) ==
    /\ run[r].phase \in {"running", "answered"} /\ Pending(r) # {}
    /\ run' = [run EXCEPT ![r].phase = IF @ = "running" THEN "dead" ELSE @]
    /\ call' = [call EXCEPT ![r] = [i \in DOMAIN snippet |->
           IF i \in Pending(r) THEN Ended(@[i], "failed", None) ELSE @[i]]]
    /\ \E done \in SUBSET {<<r, i>> : i \in {j \in Pending(r) : Sends(r, j)}} :
           effects' = effects \cup done
    /\ UNCHANGED <<snippet, releases, ledger>>

Deploy ==
    /\ Len(releases) > 1
    /\ releases' = Tail(releases)
    /\ UNCHANGED <<snippet, run, call, ledger, effects>>

Next ==
    \/ Deploy
    \/ \E r \in Runs :
           \/ Refuse(r) \/ Die(r)
           \/ \E q \in Requests : Submit(r, q)
           \/ \E throws \in BOOLEAN : Finish(r, throws)
           \/ \E i \in DOMAIN snippet :
                  \/ Denied(r, i) \/ OutOfCalls(r, i) \/ Read(r, i) \/ ReadReturns(r, i) \/ Mutate(r, i)
                  \/ NotGuarded(r, i) \/ Claim(r, i) \/ Replay(r, i) \/ Conflict(r, i)
                  \/ NotCleared(r, i) \/ Applied(r, i) \/ Rejected(r, i) \/ Unknown(r, i)

Spec == Init /\ [][Next]_vars

-----------------------------------------------------------------------------
(* Properties.                                                             *)

\* The comment at the hash: a retry under another policy "will ... be BLOCKED,
\* never double-applied": no call of the snippet is carried out by two runs.
KeyAppliesOnce == \A x, y \in effects : x[2] = y[2] => x = y

SameTerms(r, s) ==
    /\ ModeOf(r) = ModeOf(s) /\ run[r].policy = run[s].policy
    /\ run[r].request.reason = run[s].request.reason

\* A snippet that makes its calls in the same order each time, retried with the
\* same mode under the same policy, has no call carried out twice, whatever runs
\* came between, however its runs overlap, fail, are cut short or die. This is of the time
\* the ledger retains a record: none expires here.
SameTermsApplyOnce ==
    \A x, y \in effects :
        x[2] = y[2] /\ ModeOf(x[1]) = ModeOf(y[1]) /\ run[x[1]].policy = run[y[1]].policy => x = y

\* A mutation that succeeded was carried out, as this call, with this mode and
\* reason and under this policy: an ordinal that names another call in another
\* run never lends it that call's result.
SuccessIsThisCalls ==
    \A r \in Runs : \A i \in DOMAIN snippet :
        snippet[i].op \notin ReadOps /\ call[r][i].out = "ok" =>
            \E x \in effects : snippet[x[2]] = snippet[i] /\ SameTerms(x[1], r)

\* What a request's own environment lets it do, said of the environment and not
\* of the checks: none of the ceilings, among them a policy's invalid one, is
\* exceeded, and a script has its reason, allowlist and second approval.
WithinCeilings(r) ==
    LET env == run[r].env
        mode == ModeOf(r)
        Bounds(m) == m = None \/ (m \in Modes /\ mode <= m) \/ mode = 0
    IN  mode <= ScopeMode /\ Bounds(env.tenant) /\ Bounds(env.instance)
        /\ PolicyName \in DOMAIN env.policies
        /\ LET p == env.policies[PolicyName]
           IN  p # None /\ (mode = 0 \/ (p.maxMode \in Modes /\ mode <= p.maxMode))

Allowed(r, i) ==
    LET c == snippet[i]
        p == run[r].env.policies[PolicyName]
        Hidden(f) == \E g \in Prefixes[f] : g \in p.masked[c.table]
    IN  /\ WithinCeilings(r)
        /\ c.op # "runServerScript" =>
               /\ c.table \in p.tables
               /\ \A fs \in {c.fields, c.where} \ {None} : \A f \in fs : ~ Hidden(f)
               /\ call[r][i].shown # None => \A f \in call[r][i].shown : ~ Hidden(f)
        /\ c.op = "tableUpdate" => ModeOf(r) >= 1
        /\ c.op = "runServerScript" =>
               /\ ModeOf(r) = 2 /\ run[r].request.reason # None /\ run[r].env.allowlisted
               /\ run[r].request.token \in run[r].env.tokens \/ run[r].env.member
        /\ c.op \notin ReadOps => run[r].request.key /\ ~ run[r].env.frozen

\* Whatever a run carried out or was shown, the replay of an earlier run's result
\* included, its own environment allows, though releases change between retries.
OnlyWhatIsAllowed ==
    \A r \in Runs : \A i \in DOMAIN snippet :
        <<r, i>> \in effects \/ call[r][i].shown # None => Allowed(r, i)

\* A host condition that a call met before the answer is in the answer, whatever
\* the snippet caught or claimed, and no answer names one that was not met.
HostConditionsAreAttested ==
    \A r \in Runs :
        LET met == {call[r][i].out : i \in DOMAIN snippet} \cap HostConditions
        IN  run[r].phase = "answered" =>
                IF met = {} THEN run[r].answer \in {"ok", "run_error"} ELSE run[r].answer \in met
=============================================================================
