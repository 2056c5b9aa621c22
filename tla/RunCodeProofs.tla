---------------------------- MODULE RunCodeProofs ----------------------------
(***************************************************************************)
(* For any runs, snippets, policies and releases: a run does and is shown  *)
(* what its own environment allows, a success is of its own call, the      *)
(* answer tells the host conditions that were met, and a snippet that      *)
(* makes its calls in program order has none carried out twice on the same *)
(* terms.                                                                  *)
(*                                                                         *)
(* IInv says what a run, a call, a record and an effect know of each       *)
(* other; OrderInv adds, for calls in program order, that an ordinal is a  *)
(* function of the snippet and the terms, and that an effect uses its      *)
(* ordinal up.                                                             *)
(***************************************************************************)
EXTENDS RunCode, FiniteSets, FiniteSetTheorems, TLAPS

\* How a call ends, and what the records of calls and runs hold.
Codes == HostConditions \cup {"ok", "failed"}
CallStates == [pc : {"new", "reading", "hashing", "claimed", "ended"}, ordinal : Nat,
               out : Codes \cup {None}, shown : {None} \cup SUBSET Fields]
RunStates == [phase : {"new", "refused", "running", "answered", "dead"},
              env : {None} \cup Environments, policy : {DenyAll} \cup {PolicyOf(env) : env \in Environments},
              request : {None} \cup Requests, rpc : Nat, ordinal : Nat,
              signals : SUBSET HostConditions, answer : {None, "ok", "run_error"} \cup HostConditions]

\* What a variable holds.
TypeOK ==
    /\ snippet \in Seq(HostCalls)
    /\ releases \in Seq(Environments) \ {<<>>}
    /\ run \in [Runs -> RunStates]
    /\ call \in [Runs -> [DOMAIN snippet -> CallStates]]
    /\ ledger \in [DOMAIN snippet -> {None} \cup Records]
    /\ effects \subseteq Runs \X DOMAIN snippet

\* The calls a run has made, and the host conditions they met.
Made(r) == {i \in DOMAIN snippet : call[r][i].pc # "new"}

Met(r) == {call[r][i].out : i \in DOMAIN snippet} \cap HostConditions

\* A run, its terms, its counter, its signals and its answer.
RunFits(r) ==
    /\ run[r].phase \in {"new", "refused"} =>
           Made(r) = {} /\ run[r].ordinal = 0 /\ run[r].rpc = 0 /\ run[r].signals = {}
    /\ run[r].phase \notin {"new", "refused"} =>
           /\ run[r].env \in Environments /\ run[r].request \in Requests
           /\ run[r].policy = PolicyOf(run[r].env)
           /\ ModeOf(r) <= Ceiling(run[r].env)
           /\ ModeOf(r) = 2 => run[r].request.reason # None
    /\ run[r].ordinal <= Cardinality(Made(r))
    /\ run[r].phase = "running" => run[r].signals = Met(r)
    /\ run[r].phase = "answered" =>
           IF Met(r) = {} THEN run[r].answer \in {"ok", "run_error"} ELSE run[r].answer \in Met(r)

\* The checks a call passed before its effect was carried out, or a record replayed.
Cleared(r, i) ==
    /\ snippet[i].op \notin ReadOps
    /\ GateAllows(r, snippet[i])
    /\ run[r].request.key /\ ~ run[r].env.frozen

\* An effect was carried out on the terms of this call.
Done(r, i) == \E x \in effects : RequestHash(x[1], x[2]) = RequestHash(r, i)

\* What was shown, no policy of this call hides.
Showable(r, i) ==
    snippet[i].op # "runServerScript" =>
        \A f \in call[r][i].shown : ~ FieldMasked(run[r].policy, snippet[i].table, f)

\* What a call passed by the point it has reached, what it claimed, and what its success
\* and what it was shown rest on.
CallFits(r, i) ==
    LET c == call[r][i] IN
    /\ c.pc # "ended" => c.out = None /\ c.shown = None
    /\ c.pc = "reading" => snippet[i].op \in ReadOps /\ GateAllows(r, snippet[i]) /\ QueryAllowed(r, snippet[i])
    /\ c.pc \in {"hashing", "claimed"} =>
           snippet[i].op \notin ReadOps /\ GateAllows(r, snippet[i]) /\ c.ordinal \in DOMAIN snippet
    /\ c.pc = "claimed" =>
           /\ Cleared(r, i)
           /\ ledger[c.ordinal] # None /\ ledger[c.ordinal].status = "started"
           /\ ledger[c.ordinal].hash = RequestHash(r, i)
    /\ c.out = "ok" /\ snippet[i].op \notin ReadOps => Done(r, i)
    /\ c.shown # None =>
           /\ \/ snippet[i].op \in ReadOps /\ GateAllows(r, snippet[i]) /\ QueryAllowed(r, snippet[i])
              \/ Cleared(r, i) /\ ApprovalHolds(r, i)
           /\ Showable(r, i)

\* No two calls hold the same record.
ClaimsApart ==
    \A r, s \in Runs : \A i, j \in DOMAIN snippet :
        call[r][i].pc = "claimed" /\ call[s][j].pc = "claimed" /\ call[r][i].ordinal = call[s][j].ordinal
            => r = s /\ i = j

\* A completed record holds the result of an effect on its own terms.
RecordFits(n) ==
    ledger[n] # None /\ ledger[n].status = "completed" =>
        \E x \in effects : RequestHash(x[1], x[2]) = ledger[n].hash /\ ledger[n].result = ResultOf(x[1], x[2])

\* What was carried out had passed every check.
EffectFits(x) ==
    /\ call[x[1]][x[2]].pc = "ended"
    /\ Cleared(x[1], x[2]) /\ ApprovalHolds(x[1], x[2])

IInv ==
    /\ TypeOK
    /\ \A r \in Runs : RunFits(r)
    /\ \A r \in Runs : \A i \in DOMAIN snippet : CallFits(r, i)
    /\ ClaimsApart
    /\ \A n \in DOMAIN snippet : RecordFits(n)
    /\ \A x \in effects : EffectFits(x)

-----------------------------------------------------------------------------
\* The least of three ceilings is one of them and is below each.
LEMMA MinOfThree ==
    ASSUME NEW a \in Int, NEW b \in Int, NEW c \in Int
    PROVE  /\ Min({a, b, c}) \in {a, b, c}
           /\ Min({a, b, c}) <= a /\ Min({a, b, c}) <= b /\ Min({a, b, c}) <= c
<1>1. \E m \in {a, b, c} : \A y \in {a, b, c} : m <= y
    OBVIOUS
<1>2. QED BY <1>1 DEF Min

\* A policy that was loaded has a valid ceiling, and the ceiling of an environment is below
\* each of those it is computed of.
LEMMA PolicyFacts ==
    ASSUME NEW env \in Environments
    PROVE  /\ PolicyOf(env) \in Policies
           /\ PolicyOf(env).maxMode \in Modes
           /\ Ceiling(env) \in Modes
           /\ Ceiling(env) <= ScopeMode
           /\ Ceiling(env) <= ParseMaxMode(env.tenant)
           /\ Ceiling(env) <= ParseMaxMode(env.instance)
<1>1. DenyAll \in Policies /\ DenyAll.maxMode \in Modes
    BY DEF DenyAll, Policies, Modes
<1>2. ASSUME NEW p \in Policies
      PROVE  LET l == [p EXCEPT !.maxMode = IF @ \in Modes THEN @ ELSE 0]
             IN  l \in Policies /\ l.maxMode \in Modes
    BY DEF Policies, Modes
<1>3. PolicyOf(env) \in Policies /\ PolicyOf(env).maxMode \in Modes
    BY <1>1, <1>2, RunCodeAssumption DEF PolicyOf, LoadActorPolicy
<1>4. \A m : ParseMaxMode(m) \in Modes
    BY DEF ParseMaxMode, Modes
<1>5. ScopeMode \in Modes
    BY RunCodeAssumption
<1>6. \A m \in Modes : m \in Int
    BY DEF Modes
<1>7. QED
    <2> DEFINE tenant == ParseMaxMode(env.tenant)
               instance == ParseMaxMode(env.instance)
    <2>1. tenant \in Modes /\ instance \in Modes
        BY <1>4
    <2>2. Ceiling(env) = Min({ScopeMode, tenant, instance})
        BY DEF Ceiling
    <2> HIDE DEF tenant, instance
    <2> DEFINE least == Min({ScopeMode, tenant, instance})
    <2>4. ScopeMode \in Int /\ tenant \in Int /\ instance \in Int
        BY <1>5, <1>6, <2>1
    <2>5. /\ least \in {ScopeMode, tenant, instance}
          /\ least <= ScopeMode /\ least <= tenant /\ least <= instance
        BY <2>4, MinOfThree
    <2> HIDE DEF least
    <2>3. /\ Ceiling(env) \in {ScopeMode, tenant, instance}
          /\ Ceiling(env) <= ScopeMode /\ Ceiling(env) <= tenant /\ Ceiling(env) <= instance
        BY <2>2, <2>5 DEF least
    <2>6. QED BY <1>3, <1>5, <2>1, <2>3 DEF tenant, instance

-----------------------------------------------------------------------------
(* What a step of one call leaves alone.                                   *)

\* Call i of run r comes to be as c says, its run as q says.
CallStep(r, i, c, q) ==
    /\ call[r][i].pc # "ended"
    /\ call[r][i].pc = "new" => run[r].phase = "running"
    /\ call' = [call EXCEPT ![r][i] = c]
    /\ c \in CallStates /\ c.pc # "new"
    /\ run' = [run EXCEPT ![r] = q]
    /\ q \in RunStates
    /\ q.env = run[r].env /\ q.policy = run[r].policy /\ q.request = run[r].request
    /\ q.phase = run[r].phase /\ q.answer = run[r].answer
    /\ \/ q.ordinal = run[r].ordinal
       \/ call[r][i].pc = "new" /\ q.ordinal = run[r].ordinal + 1
    /\ run[r].phase = "running" => q.signals = run[r].signals \cup ({c.out} \cap HostConditions)
    /\ run[r].phase = "answered" => c.out \notin HostConditions
    /\ UNCHANGED <<snippet, releases>>

\* Such a step changes that call and that run, and no run's terms.
LEMMA StepFrame ==
    ASSUME TypeOK, NEW r \in Runs, NEW i \in DOMAIN snippet, NEW c, NEW q, CallStep(r, i, c, q)
    PROVE  /\ snippet' = snippet /\ releases' = releases
           /\ call' \in [Runs -> [DOMAIN snippet -> CallStates]]
           /\ run' \in [Runs -> RunStates]
           /\ call'[r][i] = c
           /\ \A s \in Runs : \A j \in DOMAIN snippet : s # r \/ j # i => call'[s][j] = call[s][j]
           /\ run'[r] = q
           /\ \A s \in Runs : s # r => run'[s] = run[s]
           /\ \A s \in Runs : /\ run'[s].env = run[s].env
                              /\ run'[s].policy = run[s].policy
                              /\ run'[s].request = run[s].request
                              /\ run'[s].phase = run[s].phase
                              /\ run'[s].answer = run[s].answer
<1>1. /\ call' = [call EXCEPT ![r][i] = c] /\ c \in CallStates
      /\ run' = [run EXCEPT ![r] = q] /\ q \in RunStates
      /\ snippet' = snippet /\ releases' = releases
    BY DEF CallStep
<1>2. call \in [Runs -> [DOMAIN snippet -> CallStates]] /\ run \in [Runs -> RunStates]
    BY DEF TypeOK
<1>3. /\ call' \in [Runs -> [DOMAIN snippet -> CallStates]]
      /\ call'[r][i] = c
      /\ \A s \in Runs : \A j \in DOMAIN snippet : s # r \/ j # i => call'[s][j] = call[s][j]
    BY <1>1, <1>2
<1>4. /\ run' \in [Runs -> RunStates] /\ run'[r] = q
      /\ \A s \in Runs : s # r => run'[s] = run[s]
    BY <1>1, <1>2
<1>5. /\ q.env = run[r].env /\ q.policy = run[r].policy /\ q.request = run[r].request
      /\ q.phase = run[r].phase /\ q.answer = run[r].answer
    BY DEF CallStep
<1>6. QED BY <1>1, <1>3, <1>4, <1>5

\* A run with the same terms passes the same checks, with the same hashes.
LEMMA SameTermsSameChecks ==
    ASSUME NEW s \in Runs, NEW j \in DOMAIN snippet, snippet' = snippet,
           run'[s].env = run[s].env, run'[s].policy = run[s].policy, run'[s].request = run[s].request
    PROVE  /\ RequestHash(s, j)' = RequestHash(s, j)
           /\ GateAllows(s, snippet[j])' <=> GateAllows(s, snippet[j])
           /\ QueryAllowed(s, snippet[j])' <=> QueryAllowed(s, snippet[j])
           /\ Cleared(s, j)' <=> Cleared(s, j)
           /\ ApprovalHolds(s, j)' <=> ApprovalHolds(s, j)
           /\ ResultOf(s, j)' = ResultOf(s, j)
<1>3. RequestHash(s, j)' = RequestHash(s, j)
    BY DEF RequestHash, ModeOf
<1>4. GateAllows(s, snippet[j])' <=> GateAllows(s, snippet[j])
    BY DEF GateAllows, PolicyAllows, ModeOf
<1>5. QueryAllowed(s, snippet[j])' <=> QueryAllowed(s, snippet[j])
    BY DEF QueryAllowed
<1>6. Cleared(s, j)' <=> Cleared(s, j)
    BY <1>4 DEF Cleared
<1>7. ApprovalHolds(s, j)' <=> ApprovalHolds(s, j)
    BY DEF ApprovalHolds, Approved
<1>8. ResultOf(s, j)' = ResultOf(s, j)
    BY DEF ResultOf
<1>9. QED BY <1>3, <1>4, <1>5, <1>6, <1>7, <1>8

\* Another call of a step fits as it did.
LEMMA OthersFit ==
    ASSUME IInv, NEW r \in Runs, NEW i \in DOMAIN snippet, NEW c, NEW q, CallStep(r, i, c, q),
           effects \subseteq effects',
           \A n \in DOMAIN snippet :
               \/ ledger'[n] = ledger[n] \/ ledger[n] = None
               \/ call[r][i].pc = "claimed" /\ call[r][i].ordinal = n,
           NEW s \in Runs, NEW j \in DOMAIN snippet, s # r \/ j # i
    PROVE  CallFits(s, j)'
<1>1. TypeOK /\ CallFits(s, j) /\ ClaimsApart
    BY DEF IInv
<1>2. /\ snippet' = snippet
      /\ call'[s][j] = call[s][j]
      /\ \A t \in Runs : /\ run'[t].env = run[t].env
                         /\ run'[t].policy = run[t].policy
                         /\ run'[t].request = run[t].request
    BY <1>1, StepFrame
<1>3. /\ RequestHash(s, j)' = RequestHash(s, j)
      /\ GateAllows(s, snippet[j])' <=> GateAllows(s, snippet[j])
      /\ QueryAllowed(s, snippet[j])' <=> QueryAllowed(s, snippet[j])
      /\ Cleared(s, j)' <=> Cleared(s, j)
      /\ ApprovalHolds(s, j)' <=> ApprovalHolds(s, j)
    BY <1>2, SameTermsSameChecks
<1>4. Showable(s, j) => Showable(s, j)'
    BY <1>2 DEF Showable, FieldMasked
<1>5. Done(s, j) => Done(s, j)'
    <2>1. HAVE Done(s, j)
    <2>2. PICK x \in effects : RequestHash(x[1], x[2]) = RequestHash(s, j)
        BY <2>1 DEF Done
    <2>3. x \in effects' /\ x[1] \in Runs /\ x[2] \in DOMAIN snippet
        BY <1>1 DEF TypeOK
    <2>4. RequestHash(x[1], x[2])' = RequestHash(x[1], x[2])
        BY <1>2, <2>3 DEF RequestHash, ModeOf
    <2>5. QED BY <1>3, <2>2, <2>3, <2>4 DEF Done
<1>6. ASSUME call[s][j].pc = "claimed"
      PROVE  ledger'[call[s][j].ordinal] = ledger[call[s][j].ordinal]
    BY <1>1, <1>6 DEF CallFits, ClaimsApart
<1>7. QED
    BY <1>1, <1>2, <1>3, <1>4, <1>5, <1>6 DEF CallFits

\* An effect that was there fits as it did.
LEMMA OldEffectsFit ==
    ASSUME IInv, NEW r \in Runs, NEW i \in DOMAIN snippet, NEW c, NEW q, CallStep(r, i, c, q),
           NEW x \in effects
    PROVE  EffectFits(x)'
<1>1. TypeOK /\ EffectFits(x)
    BY DEF IInv
<1>2. x[1] \in Runs /\ x[2] \in DOMAIN snippet
    BY <1>1 DEF TypeOK
<1>3. call[r][i].pc # "ended" /\ call[x[1]][x[2]].pc = "ended"
    BY <1>1 DEF CallStep, EffectFits
<1>4. /\ snippet' = snippet
      /\ call'[x[1]][x[2]] = call[x[1]][x[2]]
      /\ run'[x[1]].env = run[x[1]].env
      /\ run'[x[1]].policy = run[x[1]].policy
      /\ run'[x[1]].request = run[x[1]].request
    BY <1>1, <1>2, <1>3, StepFrame
<1>5. /\ Cleared(x[1], x[2])' <=> Cleared(x[1], x[2])
      /\ ApprovalHolds(x[1], x[2])' <=> ApprovalHolds(x[1], x[2])
    BY <1>2, <1>4, SameTermsSameChecks
<1>6. QED BY <1>1, <1>3, <1>4, <1>5 DEF EffectFits

\* A record that was not written fits as it did.
LEMMA OldRecordsFit ==
    ASSUME IInv, NEW r \in Runs, NEW i \in DOMAIN snippet, NEW c, NEW q, CallStep(r, i, c, q),
           effects \subseteq effects',
           NEW n \in DOMAIN snippet, ledger'[n] = ledger[n]
    PROVE  RecordFits(n)'
<1>1. TypeOK /\ RecordFits(n)
    BY DEF IInv
<1>2. SUFFICES ASSUME ledger[n] # None, ledger[n].status = "completed"
               PROVE  (\E x \in effects : /\ RequestHash(x[1], x[2]) = ledger[n].hash
                                          /\ ledger[n].result = ResultOf(x[1], x[2]))'
    <2>1. (ledger[n])' = ledger[n]
        OBVIOUS
    <2>2. QED BY <2>1 DEF RecordFits
<1>3. PICK x \in effects : RequestHash(x[1], x[2]) = ledger[n].hash /\ ledger[n].result = ResultOf(x[1], x[2])
    BY <1>1, <1>2 DEF RecordFits
<1>4. x[1] \in Runs /\ x[2] \in DOMAIN snippet
    BY <1>1 DEF TypeOK
<1>5. RequestHash(x[1], x[2])' = RequestHash(x[1], x[2]) /\ ResultOf(x[1], x[2])' = ResultOf(x[1], x[2])
    BY <1>1, <1>4, StepFrame, SameTermsSameChecks
<1>6. QED BY <1>3, <1>5

\* Claims stay apart: a record is claimed when there is none.
LEMMA OthersApart ==
    ASSUME IInv, NEW r \in Runs, NEW i \in DOMAIN snippet, NEW c, NEW q, CallStep(r, i, c, q),
           \/ c.pc # "claimed"
           \/ /\ call[r][i].pc = "hashing" /\ c.ordinal = call[r][i].ordinal
              /\ ledger[c.ordinal] = None
    PROVE  ClaimsApart'
<1>1. TypeOK /\ ClaimsApart
    BY DEF IInv
<1>2. /\ snippet' = snippet /\ call'[r][i] = c
      /\ \A s \in Runs : \A j \in DOMAIN snippet : s # r \/ j # i => call'[s][j] = call[s][j]
    BY <1>1, StepFrame
<1>3. \A s \in Runs : \A j \in DOMAIN snippet : call[s][j].pc = "claimed" => ledger[call[s][j].ordinal] # None
    BY DEF IInv, CallFits
<1>4. SUFFICES ASSUME NEW s \in Runs, NEW t \in Runs, NEW j \in DOMAIN snippet, NEW k \in DOMAIN snippet,
                      call'[s][j].pc = "claimed", call'[t][k].pc = "claimed",
                      call'[s][j].ordinal = call'[t][k].ordinal
               PROVE  s = t /\ j = k
    BY <1>2 DEF ClaimsApart
<1>5. CASE s = r /\ j = i /\ t = r /\ k = i
    BY <1>5
<1>6. CASE s = r /\ j = i /\ ~ (t = r /\ k = i)
    BY <1>2, <1>3, <1>4, <1>6
<1>7. CASE ~ (s = r /\ j = i) /\ t = r /\ k = i
    BY <1>2, <1>3, <1>4, <1>7
<1>8. CASE ~ (s = r /\ j = i) /\ ~ (t = r /\ k = i)
    BY <1>1, <1>2, <1>4, <1>8 DEF ClaimsApart
<1>9. QED BY <1>5, <1>6, <1>7, <1>8

\* The calls of a snippet are numbered from 1.
LEMMA SnippetDomain ==
    ASSUME TypeOK
    PROVE  Len(snippet) \in Nat /\ DOMAIN snippet = 1..Len(snippet)
BY DEF TypeOK

\* A run has made finitely many calls.
LEMMA MadeIsFinite ==
    ASSUME TypeOK, NEW r \in Runs
    PROVE  IsFiniteSet(Made(r)) /\ Cardinality(Made(r)) \in Nat
<1>1. IsFiniteSet(DOMAIN snippet)
    BY SnippetDomain, FS_Interval
<1>2. Made(r) \subseteq DOMAIN snippet
    BY DEF Made
<1>3. QED BY <1>1, <1>2, FS_Subset, FS_CardinalityType

\* The runs of a step fit.
LEMMA RunsFit ==
    ASSUME IInv, NEW r \in Runs, NEW i \in DOMAIN snippet, NEW c, NEW q, CallStep(r, i, c, q)
    PROVE  \A s \in Runs : RunFits(s)'
<1>1. TypeOK /\ \A s \in Runs : RunFits(s)
    BY DEF IInv
<1>2. /\ snippet' = snippet /\ call'[r][i] = c
      /\ \A s \in Runs : \A j \in DOMAIN snippet : s # r \/ j # i => call'[s][j] = call[s][j]
      /\ run'[r] = q
      /\ \A s \in Runs : s # r => run'[s] = run[s]
      /\ \A s \in Runs : /\ run'[s].env = run[s].env
                         /\ run'[s].policy = run[s].policy
                         /\ run'[s].request = run[s].request
                         /\ run'[s].phase = run[s].phase
                         /\ run'[s].answer = run[s].answer
    BY <1>1, StepFrame
<1>3. ASSUME NEW s \in Runs, s # r
      PROVE  RunFits(s)'
    <2>1. Made(s)' = Made(s) /\ Met(s)' = Met(s)
        BY <1>2, <1>3 DEF Made, Met
    <2>2. run'[s] = run[s] /\ RunFits(s) /\ ModeOf(s)' = ModeOf(s)
        BY <1>1, <1>2, <1>3 DEF ModeOf
    <2>3. QED BY <2>1, <2>2 DEF RunFits
<1>4. RunFits(r)'
    <2>1. call[r][i].pc # "ended" /\ c.pc # "new" /\ (call[r][i].pc = "new" => run[r].phase = "running")
        BY DEF CallStep
    <2>2. call[r][i].out = None
        BY <2>1 DEF IInv, CallFits
    <2>3. run[r].phase \notin {"new", "refused"}
        BY <1>1, <2>1 DEF RunFits, Made
    <2>4. Made(r)' = Made(r) \cup {i}
        BY <1>2, <2>1 DEF Made
    <2>5. Met(r)' = Met(r) \cup ({c.out} \cap HostConditions)
        <3>1. None \notin HostConditions
            BY RunCodeAssumption
        <3>2. call[r][i].out \notin HostConditions
            BY <2>2, <3>1
        <3>3. \A o \in HostConditions : o \in Met(r)' <=> o \in Met(r) \/ o = c.out
            BY <1>2, <3>2 DEF Met
        <3>4. Met(r)' \subseteq HostConditions /\ Met(r) \subseteq HostConditions
            BY DEF Met
        <3>5. QED BY <3>3, <3>4
    <2>6. q.ordinal <= Cardinality(Made(r)')
        <3>1. IsFiniteSet(Made(r)) /\ Cardinality(Made(r)) \in Nat
            BY <1>1, MadeIsFinite
        <3>2. Cardinality(Made(r) \cup {i}) = IF i \in Made(r) THEN Cardinality(Made(r)) ELSE Cardinality(Made(r)) + 1
            BY <3>1, FS_AddElement
        <3>3. run[r].ordinal \in Nat /\ run[r].ordinal <= Cardinality(Made(r))
            BY <1>1 DEF TypeOK, RunStates, RunFits
        <3>4. \/ q.ordinal = run[r].ordinal
              \/ i \notin Made(r) /\ q.ordinal = run[r].ordinal + 1
            BY DEF CallStep, Made
        <3>5. QED BY <2>4, <3>1, <3>2, <3>3, <3>4
    <2>7. /\ run[r].phase = "running" => q.signals = Met(r)'
          /\ run[r].phase = "answered" => Met(r)' = Met(r)
        BY <1>1, <2>5 DEF CallStep, RunFits
    <2>8. ModeOf(r)' = ModeOf(r)
        BY <1>2 DEF ModeOf
    <2>9. RunFits(r)
        BY <1>1
    <2>10. QED BY <1>2, <2>3, <2>6, <2>7, <2>8, <2>9 DEF RunFits
<1>5. QED BY <1>3, <1>4

\* A step of one call keeps the invariant, when that call, its effect and the record
\* it wrote fit.
LEMMA StepKeeps ==
    ASSUME IInv, NEW r \in Runs, NEW i \in DOMAIN snippet, NEW c, NEW q, CallStep(r, i, c, q),
           effects \subseteq effects', effects' \subseteq effects \cup {<<r, i>>},
           <<r, i>> \in effects' \ effects => EffectFits(<<r, i>>)',
           ledger' \in [DOMAIN snippet -> {None} \cup Records],
           \A n \in DOMAIN snippet :
               \/ ledger'[n] = ledger[n] \/ ledger[n] = None
               \/ call[r][i].pc = "claimed" /\ call[r][i].ordinal = n,
           \A n \in DOMAIN snippet : ledger'[n] = ledger[n] \/ RecordFits(n)',
           \/ c.pc # "claimed"
           \/ /\ call[r][i].pc = "hashing" /\ c.ordinal = call[r][i].ordinal
              /\ ledger[c.ordinal] = None,
           CallFits(r, i)'
    PROVE  IInv'
<1>1. TypeOK
    BY DEF IInv
<1>2. /\ snippet' = snippet /\ releases' = releases
      /\ call' \in [Runs -> [DOMAIN snippet -> CallStates]]
      /\ run' \in [Runs -> RunStates]
    BY <1>1, StepFrame
<1>3. TypeOK'
    BY <1>1, <1>2 DEF TypeOK
<1>4. (\A s \in Runs : RunFits(s))'
    BY RunsFit
<1>5. (\A s \in Runs : \A j \in DOMAIN snippet : CallFits(s, j))'
    <2>1. ASSUME NEW s \in Runs, NEW j \in DOMAIN snippet
          PROVE  CallFits(s, j)'
        <3>1. CASE s # r \/ j # i
            BY <3>1, OthersFit
        <3>2. CASE s = r /\ j = i
            BY <3>2
        <3>3. QED BY <3>1, <3>2
    <2>2. QED BY <1>2, <2>1
<1>6. ClaimsApart'
    BY OthersApart
<1>7. (\A n \in DOMAIN snippet : RecordFits(n))'
    <2>1. ASSUME NEW n \in DOMAIN snippet
          PROVE  RecordFits(n)'
        BY OldRecordsFit
    <2>2. QED BY <1>2, <2>1
<1>8. (\A x \in effects : EffectFits(x))'
    <2>1. ASSUME NEW x \in effects'
          PROVE  EffectFits(x)'
        <3>1. CASE x \in effects
            BY <3>1, OldEffectsFit
        <3>2. CASE x = <<r, i>> /\ x \notin effects
            BY <3>2
        <3>3. QED BY <3>1, <3>2
    <2>2. QED BY <2>1
<1>9. QED BY <1>3, <1>4, <1>5, <1>6, <1>7, <1>8 DEF IInv

-----------------------------------------------------------------------------
(* The steps that end a call.                                              *)

\* A call under way belongs to a run that was let in.
LEMMA UnderWay ==
    ASSUME IInv, NEW r \in Runs, NEW i \in DOMAIN snippet,
           call[r][i].pc # "new" \/ run[r].phase = "running"
    PROVE  /\ run[r].phase \notin {"new", "refused"}
           /\ run[r].env \in Environments /\ run[r].request \in Requests
           /\ run[r].policy = PolicyOf(run[r].env)
           /\ ModeOf(r) \in Modes
           /\ RequestHash(r, i) \in Hashes
<1>1. TypeOK /\ RunFits(r)
    BY DEF IInv
<1>2. /\ run[r].phase \notin {"new", "refused"}
      /\ run[r].env \in Environments /\ run[r].request \in Requests
      /\ run[r].policy = PolicyOf(run[r].env)
    BY <1>1 DEF RunFits, Made
<1>3. ModeOf(r) \in Modes
    BY <1>2, RunCodeAssumption DEF ModeOf, Modes
<1>4. snippet[i] \in HostCalls
    BY <1>1 DEF TypeOK
<1>5. RequestHash(r, i) \in Hashes
    <2>1. run[r].policy \in {PolicyOf(env) : env \in Environments}
        BY <1>2
    <2>2. run[r].request.reason \in {q.reason : q \in Requests}
        BY <1>2
    <2>3. QED BY <1>3, <1>4, <2>1, <2>2 DEF RequestHash, Hashes
<1>6. QED BY <1>2, <1>3, <1>5

\* The end of a call is such a step.
LEMMA EndIsStep ==
    ASSUME IInv, NEW r \in Runs, NEW i \in DOMAIN snippet,
           NEW code \in Codes, NEW shown \in {None} \cup SUBSET Fields,
           call[r][i].pc # "ended", call[r][i].pc = "new" => run[r].phase = "running",
           End(r, i, code, shown), UNCHANGED <<snippet, releases>>
    PROVE  \E c, q : /\ CallStep(r, i, c, q)
                     /\ c.pc = "ended" /\ c.shown = shown /\ c.out \in {code, "failed"}
                     /\ q.rpc = run[r].rpc /\ q.ordinal = run[r].ordinal
<1> DEFINE met == {code} \cap HostConditions
           noted == IF run[r].phase = "answered" /\ met # {} THEN "failed" ELSE code
           c == Ended(call[r][i], noted, shown)
           signals == IF run[r].phase = "answered" THEN run[r].signals ELSE run[r].signals \cup met
           q == [run[r] EXCEPT !.signals = signals]
<1>1. run \in [Runs -> RunStates] /\ call \in [Runs -> [DOMAIN snippet -> CallStates]]
    BY DEF IInv, TypeOK
<1>2. call' = [call EXCEPT ![r][i] = c]
    BY DEF End
<1>3. run' = [run EXCEPT ![r] = q]
    BY <1>1 DEF End
<1>4. noted \in Codes /\ noted \in {code, "failed"} /\ "failed" \notin HostConditions
    BY DEF Codes, HostConditions
<1>5. /\ c \in CallStates /\ c.pc = "ended" /\ c.shown = shown /\ c.out = noted
    <2> HIDE DEF noted
    <2>1. call[r][i] \in CallStates
        BY <1>1
    <2>2. QED BY <1>4, <2>1 DEF Ended, CallStates
<1>6. signals \subseteq HostConditions
    BY <1>1 DEF RunStates
<1>7. run[r] \in RunStates
    BY <1>1
<1>8. /\ q \in RunStates
      /\ q.env = run[r].env /\ q.policy = run[r].policy /\ q.request = run[r].request
      /\ q.phase = run[r].phase /\ q.answer = run[r].answer
      /\ q.rpc = run[r].rpc /\ q.ordinal = run[r].ordinal
      /\ q.signals = signals
    <2> HIDE DEF signals
    <2>1. QED BY <1>6, <1>7 DEF RunStates
<1>9. run[r].phase = "running" => signals = run[r].signals \cup ({noted} \cap HostConditions)
    OBVIOUS
<1>10. run[r].phase = "answered" => noted \notin HostConditions
    BY <1>4
<1> HIDE DEF met, noted, c, signals, q
<1>11. CallStep(r, i, c, q)
    BY <1>2, <1>3, <1>5, <1>8, <1>9, <1>10 DEF CallStep
<1>12. QED BY <1>4, <1>5, <1>8, <1>11

\* What a call carried out stays carried out.
LEMMA DoneStays ==
    ASSUME IInv, NEW r \in Runs, NEW i \in DOMAIN snippet, NEW c, NEW q, CallStep(r, i, c, q),
           effects \subseteq effects', Done(r, i) \/ <<r, i>> \in effects'
    PROVE  Done(r, i)'
<1>1. TypeOK
    BY DEF IInv
<1>2. \A s \in Runs : \A j \in DOMAIN snippet : RequestHash(s, j)' = RequestHash(s, j)
    BY <1>1, StepFrame, SameTermsSameChecks
<1>3. CASE <<r, i>> \in effects'
    BY <1>3 DEF Done
<1>4. CASE Done(r, i)
    <2>1. PICK x \in effects : RequestHash(x[1], x[2]) = RequestHash(r, i)
        BY <1>4 DEF Done
    <2>2. x \in effects' /\ x[1] \in Runs /\ x[2] \in DOMAIN snippet
        BY <1>1 DEF TypeOK
    <2>3. RequestHash(x[1], x[2])' = RequestHash(r, i)'
        BY <1>2, <2>1, <2>2
    <2>4. QED BY <2>2, <2>3 DEF Done
<1>5. QED BY <1>3, <1>4

\* The end of a call keeps the invariant, when its effect, its record, its success and
\* what it shows fit.
LEMMA EndKeeps ==
    ASSUME IInv, NEW r \in Runs, NEW i \in DOMAIN snippet,
           NEW code \in Codes, NEW shown \in {None} \cup SUBSET Fields,
           call[r][i].pc # "ended", call[r][i].pc = "new" => run[r].phase = "running",
           End(r, i, code, shown), UNCHANGED <<snippet, releases>>,
           effects \subseteq effects', effects' \subseteq effects \cup {<<r, i>>},
           <<r, i>> \in effects' \ effects => Cleared(r, i) /\ ApprovalHolds(r, i),
           ledger' \in [DOMAIN snippet -> {None} \cup Records],
           \A n \in DOMAIN snippet :
               \/ ledger'[n] = ledger[n]
               \/ /\ call[r][i].pc = "claimed" /\ call[r][i].ordinal = n
                  /\ \/ ledger'[n] = None \/ ledger'[n].status # "completed"
                     \/ /\ <<r, i>> \in effects'
                        /\ ledger'[n].hash = RequestHash(r, i)
                        /\ ledger'[n].result = ResultOf(r, i),
           code = "ok" /\ snippet[i].op \notin ReadOps => Done(r, i) \/ <<r, i>> \in effects',
           shown # None =>
               /\ \/ snippet[i].op \in ReadOps /\ GateAllows(r, snippet[i]) /\ QueryAllowed(r, snippet[i])
                  \/ Cleared(r, i) /\ ApprovalHolds(r, i)
               /\ snippet[i].op # "runServerScript" =>
                      \A f \in shown : ~ FieldMasked(run[r].policy, snippet[i].table, f)
    PROVE  IInv'
<1>1. PICK c, q : /\ CallStep(r, i, c, q)
                  /\ c.pc = "ended" /\ c.shown = shown /\ c.out \in {code, "failed"}
    BY EndIsStep
<1>2. TypeOK
    BY DEF IInv
<1>3. /\ snippet' = snippet /\ call'[r][i] = c
      /\ run'[r].env = run[r].env
      /\ run'[r].policy = run[r].policy
      /\ run'[r].request = run[r].request
    BY <1>1, <1>2, StepFrame
<1>4. /\ RequestHash(r, i)' = RequestHash(r, i)
      /\ GateAllows(r, snippet[i])' <=> GateAllows(r, snippet[i])
      /\ QueryAllowed(r, snippet[i])' <=> QueryAllowed(r, snippet[i])
      /\ Cleared(r, i)' <=> Cleared(r, i)
      /\ ApprovalHolds(r, i)' <=> ApprovalHolds(r, i)
      /\ ResultOf(r, i)' = ResultOf(r, i)
    BY <1>3, SameTermsSameChecks
<1>5. CallFits(r, i)'
    <2>1. code = "ok" /\ snippet[i].op \notin ReadOps => Done(r, i)'
        BY <1>1, DoneStays
    <2>2. shown # None => Showable(r, i)'
        BY <1>1, <1>3 DEF Showable, FieldMasked
    <2>3. QED BY <1>1, <1>3, <1>4, <2>1, <2>2 DEF CallFits
<1>6. <<r, i>> \in effects' \ effects => EffectFits(<<r, i>>)'
    <2>1. <<r, i>>[1] = r /\ <<r, i>>[2] = i
        OBVIOUS
    <2>2. <<r, i>> \in effects' \ effects => Cleared(r, i)' /\ ApprovalHolds(r, i)'
        BY <1>4
    <2>3. QED BY <1>1, <1>3, <2>1, <2>2 DEF EffectFits
<1>7. ASSUME NEW n \in DOMAIN snippet, ledger'[n] # ledger[n]
      PROVE  RecordFits(n)'
    <2>1. \/ ledger'[n] = None \/ ledger'[n].status # "completed"
          \/ /\ <<r, i>> \in effects'
             /\ ledger'[n].hash = RequestHash(r, i)' /\ ledger'[n].result = ResultOf(r, i)'
        BY <1>4, <1>7
    <2>2. QED BY <2>1 DEF RecordFits
<1>8. QED BY <1>1, <1>5, <1>6, <1>7, StepKeeps

-----------------------------------------------------------------------------
(* Each action.                                                            *)

\* What the actions that refuse a call have in common.
LEMMA RefusalKeeps ==
    ASSUME IInv, NEW r \in Runs, NEW i \in DOMAIN snippet, NEW code \in HostConditions \cup {"failed"},
           call[r][i].pc # "ended", call[r][i].pc = "new" => run[r].phase = "running",
           End(r, i, code, None), UNCHANGED <<snippet, releases, effects>>,
           \/ UNCHANGED ledger
           \/ /\ call[r][i].pc = "claimed"
              /\ ledger' = [ledger EXCEPT ![call[r][i].ordinal] = None]
    PROVE  IInv'
<1>1. code \in Codes /\ code # "ok" /\ None \in {None} \cup SUBSET Fields
    BY DEF Codes, HostConditions
<1>2. ledger \in [DOMAIN snippet -> {None} \cup Records]
    BY DEF IInv, TypeOK
<1>3. /\ ledger' \in [DOMAIN snippet -> {None} \cup Records]
      /\ \A n \in DOMAIN snippet :
             \/ ledger'[n] = ledger[n]
             \/ /\ call[r][i].pc = "claimed" /\ call[r][i].ordinal = n
                /\ ledger'[n] = None
    BY <1>2
<1>4. QED BY <1>1, <1>3, EndKeeps

\* A run makes calls while it is running.
LEMMA MakesRuns ==
    ASSUME NEW r \in Runs, NEW i \in DOMAIN snippet, Makes(r, i)
    PROVE  call[r][i].pc = "new" /\ call[r][i].pc # "ended" /\ run[r].phase = "running"
BY DEF Makes

\* A call that the gate denies.
LEMMA DeniedKeeps ==
    ASSUME IInv, NEW r \in Runs, NEW i \in DOMAIN snippet, Denied(r, i)
    PROVE  IInv'
BY MakesRuns, RefusalKeeps DEF Denied

\* A call beyond the limit of calls.
LEMMA OutOfCallsKeeps ==
    ASSUME IInv, NEW r \in Runs, NEW i \in DOMAIN snippet, OutOfCalls(r, i)
    PROVE  IInv'
BY MakesRuns, RefusalKeeps DEF OutOfCalls, HostConditions

\* A mutation that is frozen or has no key.
LEMMA NotGuardedKeeps ==
    ASSUME IInv, NEW r \in Runs, NEW i \in DOMAIN snippet, NotGuarded(r, i)
    PROVE  IInv'
BY RefusalKeeps DEF NotGuarded

\* A mutation whose ordinal is taken.
LEMMA ConflictKeeps ==
    ASSUME IInv, NEW r \in Runs, NEW i \in DOMAIN snippet, Conflict(r, i)
    PROVE  IInv'
BY RefusalKeeps DEF Conflict, Guarded

\* A claimed mutation that a later check refuses.
LEMMA NotClearedKeeps ==
    ASSUME IInv, NEW r \in Runs, NEW i \in DOMAIN snippet, NotCleared(r, i)
    PROVE  IInv'
<1>1. call[r][i].pc = "claimed" /\ UNCHANGED <<snippet, releases, effects>>
    BY DEF NotCleared
<1>2. PICK code \in HostConditions \cup {"failed"} :
          /\ End(r, i, code, None)
          /\ UNCHANGED ledger \/ ledger' = [ledger EXCEPT ![call[r][i].ordinal] = None]
    BY DEF NotCleared
<1>3. QED BY <1>1, <1>2, RefusalKeeps

\* A mutation that ServiceNow rejects.
LEMMA RejectedKeeps ==
    ASSUME IInv, NEW r \in Runs, NEW i \in DOMAIN snippet, Rejected(r, i)
    PROVE  IInv'
<1>1. call[r][i].pc = "claimed" /\ UNCHANGED <<snippet, releases, effects>>
    BY DEF Rejected, Sends
<1>2. PICK code \in HostConditions \cup {"failed"} : End(r, i, code, None)
    BY DEF Rejected
<1>3. UNCHANGED ledger \/ ledger' = [ledger EXCEPT ![call[r][i].ordinal] = None]
    BY DEF Rejected
<1>4. QED BY <1>1, <1>2, <1>3, RefusalKeeps

\* A read that goes out, or that its query or its size stops.
LEMMA ReadKeeps ==
    ASSUME IInv, NEW r \in Runs, NEW i \in DOMAIN snippet, Read(r, i)
    PROVE  IInv'
<1>1. /\ snippet[i].op \in ReadOps /\ GateAllows(r, snippet[i])
      /\ UNCHANGED <<snippet, releases, ledger, effects>>
      /\ call[r][i].pc = "new" /\ run[r].phase = "running"
    BY DEF Read, Makes
<1>2. /\ run \in [Runs -> RunStates] /\ call \in [Runs -> [DOMAIN snippet -> CallStates]]
      /\ ledger \in [DOMAIN snippet -> {None} \cup Records]
      /\ CallFits(r, i) /\ TypeOK
    BY DEF IInv, TypeOK
<1>3. run[r] \in RunStates /\ call[r][i] \in CallStates
    BY <1>2
<1>4. call[r][i].out = None /\ call[r][i].shown = None /\ None \notin HostConditions /\ None # "ok"
    BY <1>1, <1>2, RunCodeAssumption DEF CallFits
<1>5. CASE /\ QueryAllowed(r, snippet[i])
           /\ call' = [call EXCEPT ![r][i].pc = "reading"]
           /\ run' = [run EXCEPT ![r].rpc = @ + 1]
    <2> DEFINE c == [call[r][i] EXCEPT !.pc = "reading"]
               q == [run[r] EXCEPT !.rpc = @ + 1]
    <2>1. /\ c \in CallStates /\ c.pc = "reading" /\ c.out = None /\ c.shown = None
        BY <1>3, <1>4 DEF CallStates
    <2>2. /\ q \in RunStates
          /\ q.env = run[r].env /\ q.policy = run[r].policy /\ q.request = run[r].request
          /\ q.phase = run[r].phase /\ q.answer = run[r].answer
          /\ q.ordinal = run[r].ordinal /\ q.signals = run[r].signals
        BY <1>3 DEF RunStates
    <2>3. call' = [call EXCEPT ![r][i] = c] /\ run' = [run EXCEPT ![r] = q]
        BY <1>5
    <2> HIDE DEF c, q
    <2>4. CallStep(r, i, c, q)
        BY <1>1, <1>4, <2>1, <2>2, <2>3 DEF CallStep
    <2>5. /\ snippet' = snippet /\ call'[r][i] = c
          /\ run'[r].env = run[r].env
          /\ run'[r].policy = run[r].policy
          /\ run'[r].request = run[r].request
        BY <1>2, <2>4, StepFrame
    <2>6. /\ GateAllows(r, snippet[i])'
          /\ QueryAllowed(r, snippet[i])'
        BY <1>1, <1>5, <2>5, SameTermsSameChecks
    <2>7. CallFits(r, i)'
        BY <1>1, <1>4, <2>1, <2>5, <2>6 DEF CallFits
    <2>8. QED BY <1>1, <1>2, <2>1, <2>4, <2>7, StepKeeps
<1>6. CASE \E code \in IF QueryAllowed(r, snippet[i]) THEN {"budget_exceeded"} ELSE {"failed"} :
               /\ call' = [call EXCEPT ![r][i] = Ended(@, code, None)]
               /\ run' = [run EXCEPT ![r] =
                      [@ EXCEPT !.rpc = run[r].rpc + 1, !.signals = run[r].signals \cup ({code} \cap HostConditions)]]
    <2>1. PICK code \in {"budget_exceeded", "failed"} :
              /\ call' = [call EXCEPT ![r][i] = Ended(@, code, None)]
              /\ run' = [run EXCEPT ![r] =
                     [@ EXCEPT !.rpc = run[r].rpc + 1, !.signals = run[r].signals \cup ({code} \cap HostConditions)]]
        BY <1>6
    <2> DEFINE c == Ended(call[r][i], code, None)
               met == {code} \cap HostConditions
               signals == run[r].signals \cup met
               rpc == run[r].rpc + 1
               q == [run[r] EXCEPT !.rpc = rpc, !.signals = signals]
    <2>2. /\ c \in CallStates /\ c.pc = "ended" /\ c.out = code /\ c.shown = None
        BY <1>3 DEF CallStates, Ended, Codes, HostConditions
    <2>3. signals \subseteq HostConditions /\ rpc \in Nat
        BY <1>3 DEF RunStates
    <2>4. call' = [call EXCEPT ![r][i] = c] /\ run' = [run EXCEPT ![r] = q]
        BY <1>2, <2>1
    <2>5. /\ q \in RunStates
          /\ q.env = run[r].env /\ q.policy = run[r].policy /\ q.request = run[r].request
          /\ q.phase = run[r].phase /\ q.answer = run[r].answer
          /\ q.ordinal = run[r].ordinal /\ q.signals = signals
        <3> HIDE DEF signals, rpc, met
        <3>1. QED BY <1>3, <2>3 DEF RunStates
    <2>6. q.signals = run[r].signals \cup ({c.out} \cap HostConditions)
        BY <2>2, <2>5
    <2> HIDE DEF c, q, met, signals, rpc
    <2>7. CallStep(r, i, c, q)
        BY <1>1, <1>4, <2>2, <2>4, <2>5, <2>6 DEF CallStep
    <2>8. snippet' = snippet /\ call'[r][i] = c
        BY <1>2, <2>7, StepFrame
    <2>9. CallFits(r, i)'
        BY <1>1, <2>2, <2>8 DEF CallFits
    <2>10. QED BY <1>1, <1>2, <2>2, <2>7, <2>9, StepKeeps
<1>7. QED BY <1>5, <1>6 DEF Read

\* A read shows columns that the policy does not hide.
LEMMA ReadReturnsKeeps ==
    ASSUME IInv, NEW r \in Runs, NEW i \in DOMAIN snippet, ReadReturns(r, i)
    PROVE  IInv'
<1> DEFINE c == snippet[i]
           shown == IF c.op = "aggregate" /\ c.fields = None THEN {}
                    ELSE IF c.op = "aggregate" THEN c.fields
                    ELSE Masked(run[r].policy, c.table, c.fields)
<1>1. call[r][i].pc = "reading" /\ UNCHANGED <<snippet, releases, ledger, effects>>
    BY DEF ReadReturns
<1>2. TypeOK /\ CallFits(r, i)
    BY DEF IInv
<1>3. c \in HostCalls /\ ledger \in [DOMAIN snippet -> {None} \cup Records]
    BY <1>2 DEF TypeOK
<1>4. c.op \in ReadOps /\ GateAllows(r, c) /\ QueryAllowed(r, c)
    BY <1>1, <1>2 DEF CallFits
<1>5. c.fields \in {None} \cup SUBSET Fields
    BY <1>3, <1>4 DEF HostCalls, ReadOps, FieldSets
<1>6. FieldsAllowed(run[r].policy, c.table, c.fields)
    BY <1>4 DEF GateAllows, ReadOps
<1>7. shown \in {None} \cup SUBSET Fields
    BY <1>5 DEF Masked
<1>8. \A f \in shown : ~ FieldMasked(run[r].policy, c.table, f)
    BY <1>5, <1>6 DEF Masked, FieldsAllowed
<1>9. CASE End(r, i, "ok", shown)
    <2> HIDE DEF shown
    <2>1. QED BY <1>1, <1>3, <1>4, <1>7, <1>8, <1>9, EndKeeps DEF Codes
<1>10. CASE \E code \in HostConditions \cup {"failed"} : End(r, i, code, None)
    BY <1>1, <1>10, RefusalKeeps
<1>11. QED BY <1>9, <1>10 DEF ReadReturns

\* A mutation takes the next ordinal, which the snippet has room for.
LEMMA MutateKeeps ==
    ASSUME IInv, NEW r \in Runs, NEW i \in DOMAIN snippet, Mutate(r, i)
    PROVE  IInv'
<1> DEFINE n == run[r].ordinal + 1
           m == run[r].rpc + 1
           c == [call[r][i] EXCEPT !.pc = "hashing", !.ordinal = n]
           q == [run[r] EXCEPT !.rpc = m, !.ordinal = n]
<1>1. /\ snippet[i].op \notin ReadOps /\ GateAllows(r, snippet[i])
      /\ UNCHANGED <<snippet, releases, ledger, effects>>
      /\ call[r][i].pc = "new" /\ run[r].phase = "running"
      /\ call' = [call EXCEPT ![r][i] = [@ EXCEPT !.pc = "hashing", !.ordinal = run[r].ordinal + 1]]
      /\ run' = [run EXCEPT ![r] = [@ EXCEPT !.rpc = run[r].rpc + 1, !.ordinal = run[r].ordinal + 1]]
    BY DEF Mutate, Makes
<1>2. /\ run \in [Runs -> RunStates] /\ call \in [Runs -> [DOMAIN snippet -> CallStates]]
      /\ ledger \in [DOMAIN snippet -> {None} \cup Records]
      /\ CallFits(r, i) /\ TypeOK /\ RunFits(r)
    BY DEF IInv, TypeOK
<1>3. run[r] \in RunStates /\ call[r][i] \in CallStates
    BY <1>2
<1>4. call[r][i].out = None /\ call[r][i].shown = None /\ None \notin HostConditions /\ None # "ok"
    BY <1>1, <1>2, RunCodeAssumption DEF CallFits
<1>5. n \in DOMAIN snippet
    <2>1. IsFiniteSet(Made(r)) /\ Cardinality(Made(r)) \in Nat
        BY <1>2, MadeIsFinite
    <2>2. Made(r) \cup {i} \subseteq 1..Len(snippet) /\ i \notin Made(r)
        BY <1>1, <1>2, SnippetDomain DEF Made
    <2>3. Cardinality(Made(r) \cup {i}) = Cardinality(Made(r)) + 1
        BY <2>1, <2>2, FS_AddElement
    <2>4. Len(snippet) \in Nat /\ IsFiniteSet(1..Len(snippet)) /\ Cardinality(1..Len(snippet)) = Len(snippet)
        <3>1. Len(snippet) \in Nat /\ 1 \in Int /\ Len(snippet) \in Int
            BY <1>2, SnippetDomain
        <3>2. /\ IsFiniteSet(1..Len(snippet))
              /\ Cardinality(1..Len(snippet)) = IF 1 > Len(snippet) THEN 0 ELSE Len(snippet) - 1 + 1
            BY <3>1, FS_Interval
        <3>3. QED BY <3>1, <3>2
    <2>5. Cardinality(Made(r)) + 1 <= Len(snippet)
        BY <2>2, <2>3, <2>4, FS_Subset
    <2>6. run[r].ordinal \in Nat /\ run[r].ordinal <= Cardinality(Made(r))
        BY <1>2, <1>3 DEF RunFits, RunStates
    <2>7. QED BY <1>2, <2>1, <2>5, <2>6, SnippetDomain
<1>6. n \in Nat /\ m \in Nat
    BY <1>3 DEF RunStates
<1>7. call' = [call EXCEPT ![r][i] = c] /\ run' = [run EXCEPT ![r] = q]
    BY <1>1, <1>2
<1>8. n = run[r].ordinal + 1
    OBVIOUS
<1> HIDE DEF n, m
<1>9. /\ c \in CallStates /\ c.pc = "hashing" /\ c.ordinal = n /\ c.out = None /\ c.shown = None
    BY <1>3, <1>4, <1>6 DEF CallStates
<1>10. /\ q \in RunStates
       /\ q.env = run[r].env /\ q.policy = run[r].policy /\ q.request = run[r].request
       /\ q.phase = run[r].phase /\ q.answer = run[r].answer
       /\ q.ordinal = n /\ q.signals = run[r].signals
    BY <1>3, <1>6 DEF RunStates
<1> HIDE DEF c, q
<1>16. q.signals = run[r].signals \cup ({c.out} \cap HostConditions) /\ c.out \notin HostConditions
    BY <1>4, <1>9, <1>10
<1>11. CallStep(r, i, c, q)
    BY <1>1, <1>7, <1>8, <1>9, <1>10, <1>16 DEF CallStep
<1>12. /\ snippet' = snippet /\ call'[r][i] = c
       /\ run'[r].env = run[r].env
       /\ run'[r].policy = run[r].policy
       /\ run'[r].request = run[r].request
    BY <1>2, <1>11, StepFrame
<1>13. GateAllows(r, snippet[i])'
    BY <1>1, <1>12, SameTermsSameChecks
<1>14. CallFits(r, i)'
    BY <1>1, <1>4, <1>5, <1>9, <1>12, <1>13 DEF CallFits
<1>15. QED BY <1>1, <1>2, <1>9, <1>11, <1>14, StepKeeps

\* A claim writes the terms of the call into a record that was not there.
LEMMA ClaimKeeps ==
    ASSUME IInv, NEW r \in Runs, NEW i \in DOMAIN snippet, Claim(r, i)
    PROVE  IInv'
<1> DEFINE n == call[r][i].ordinal
           record == [status |-> "started", hash |-> RequestHash(r, i), result |-> None]
           c == [call[r][i] EXCEPT !.pc = "claimed"]
           q == run[r]
<1>1. /\ call[r][i].pc = "hashing" /\ ~ run[r].env.frozen /\ run[r].request.key
      /\ ledger[n] = None
      /\ UNCHANGED <<snippet, releases, run, effects>>
      /\ ledger' = [ledger EXCEPT ![n] = record]
      /\ call' = [call EXCEPT ![r][i].pc = "claimed"]
    BY DEF Claim, Guarded
<1>2. /\ run \in [Runs -> RunStates] /\ call \in [Runs -> [DOMAIN snippet -> CallStates]]
      /\ ledger \in [DOMAIN snippet -> {None} \cup Records]
      /\ CallFits(r, i) /\ TypeOK
    BY DEF IInv, TypeOK
<1>3. run[r] \in RunStates /\ call[r][i] \in CallStates
    BY <1>2
<1>4. call[r][i].out = None /\ call[r][i].shown = None /\ None \notin HostConditions /\ None # "ok"
    BY <1>1, <1>2, RunCodeAssumption DEF CallFits
<1>5. snippet[i].op \notin ReadOps /\ GateAllows(r, snippet[i]) /\ n \in DOMAIN snippet
    BY <1>1, <1>2 DEF CallFits
<1>6. record \in Records /\ record # None /\ record.status = "started" /\ record.hash = RequestHash(r, i)
    <2>1. RequestHash(r, i) \in Hashes
        BY <1>1, UnderWay
    <2>2. QED BY <2>1, RecordAssumption DEF Records
<1>7. call' = [call EXCEPT ![r][i] = c] /\ run' = [run EXCEPT ![r] = q]
    BY <1>1, <1>2
<1>8. /\ c \in CallStates /\ c.pc = "claimed" /\ c.ordinal = n /\ c.out = None /\ c.shown = None
    BY <1>3, <1>4 DEF CallStates
<1> HIDE DEF c, record
<1>9. run[r].signals = run[r].signals \cup ({c.out} \cap HostConditions)
    BY <1>4, <1>8
<1>10. CallStep(r, i, c, q)
    BY <1>1, <1>3, <1>4, <1>7, <1>8, <1>9 DEF CallStep
<1>11. /\ snippet' = snippet /\ call'[r][i] = c
       /\ run'[r].env = run[r].env
       /\ run'[r].policy = run[r].policy
       /\ run'[r].request = run[r].request
    BY <1>2, <1>10, StepFrame
<1>12. /\ RequestHash(r, i)' = RequestHash(r, i)
       /\ GateAllows(r, snippet[i])' <=> GateAllows(r, snippet[i])
       /\ Cleared(r, i)' <=> Cleared(r, i)
    BY <1>11, SameTermsSameChecks
<1>13. /\ ledger'[n] = record
       /\ ledger' \in [DOMAIN snippet -> {None} \cup Records]
       /\ \A k \in DOMAIN snippet : k # n => ledger'[k] = ledger[k]
    BY <1>1, <1>2, <1>5, <1>6
<1>14. CallFits(r, i)'
    <2>1. Cleared(r, i)
        BY <1>1, <1>5 DEF Cleared
    <2> HIDE DEF n
    <2>2. QED BY <1>4, <1>5, <1>6, <1>8, <1>11, <1>12, <1>13, <2>1 DEF CallFits
<1>15. \A k \in DOMAIN snippet : ledger'[k] = ledger[k] \/ RecordFits(k)'
    <2>1. ASSUME NEW k \in DOMAIN snippet, k = n
          PROVE  RecordFits(k)'
        <3>1. ledger'[k] = record
            BY <1>13, <2>1
        <3>2. QED BY <1>6, <3>1 DEF RecordFits
    <2>2. QED BY <1>13, <2>1
<1>16. QED BY <1>1, <1>8, <1>10, <1>13, <1>14, <1>15, StepKeeps

\* Of equal hashes, equal results.
LEMMA SameHashSameResult ==
    ASSUME NEW r, NEW i, NEW s, NEW j, RequestHash(r, i) = RequestHash(s, j)
    PROVE  ResultOf(r, i) = ResultOf(s, j) /\ snippet[i] = snippet[j] /\ SameTerms(r, s)
<1>1. /\ snippet[i] = snippet[j] /\ ModeOf(r) = ModeOf(s)
      /\ run[r].policy = run[s].policy /\ run[r].request.reason = run[s].request.reason
    BY DEF RequestHash
<1>2. QED BY <1>1 DEF ResultOf, SameTerms

\* A result names columns that the policy does not hide.
LEMMA ResultsShow ==
    ASSUME NEW r, NEW i
    PROVE  /\ ResultOf(r, i) \in {None} \cup SUBSET Fields
           /\ snippet[i].op # "runServerScript" =>
                  \A f \in ResultOf(r, i) : ~ FieldMasked(run[r].policy, snippet[i].table, f)
BY DEF ResultOf, Masked

\* A replay returns the result of an effect on the same terms.
LEMMA ReplayKeeps ==
    ASSUME IInv, NEW r \in Runs, NEW i \in DOMAIN snippet, Replay(r, i)
    PROVE  IInv'
<1> DEFINE n == call[r][i].ordinal
<1>1. /\ call[r][i].pc = "hashing" /\ ~ run[r].env.frozen /\ run[r].request.key
      /\ ledger[n] # None /\ ledger[n].status = "completed" /\ ledger[n].hash = RequestHash(r, i)
      /\ UNCHANGED <<snippet, releases, ledger, effects>>
    BY DEF Replay, Guarded
<1>2. CallFits(r, i) /\ TypeOK /\ ledger \in [DOMAIN snippet -> {None} \cup Records]
    BY DEF IInv, TypeOK
<1>3. snippet[i].op \notin ReadOps /\ GateAllows(r, snippet[i]) /\ n \in DOMAIN snippet
    BY <1>1, <1>2 DEF CallFits
<1>4. Cleared(r, i)
    BY <1>1, <1>3 DEF Cleared
<1>5. PICK x \in effects : RequestHash(x[1], x[2]) = ledger[n].hash /\ ledger[n].result = ResultOf(x[1], x[2])
    <2>1. RecordFits(n)
        BY <1>3 DEF IInv
    <2> HIDE DEF n
    <2>2. QED BY <1>1, <2>1 DEF RecordFits
<1>6. Done(r, i) /\ ledger[n].result = ResultOf(r, i)
    <2>1. RequestHash(x[1], x[2]) = RequestHash(r, i)
        BY <1>1, <1>5
    <2>2. ResultOf(x[1], x[2]) = ResultOf(r, i)
        BY <2>1, SameHashSameResult
    <2>3. QED BY <1>5, <2>1, <2>2 DEF Done
<1>7. CASE ApprovalHolds(r, i) /\ End(r, i, "ok", ledger[n].result)
    <2>1. /\ End(r, i, "ok", ResultOf(r, i)) /\ "ok" \in Codes
          /\ ResultOf(r, i) \in {None} \cup SUBSET Fields
          /\ snippet[i].op # "runServerScript" =>
                 \A f \in ResultOf(r, i) : ~ FieldMasked(run[r].policy, snippet[i].table, f)
        BY <1>6, <1>7, ResultsShow DEF Codes
    <2>2. QED BY <1>1, <1>2, <1>4, <1>6, <1>7, <2>1, EndKeeps
<1>8. CASE End(r, i, "budget_exceeded", None)
    BY <1>1, <1>8, RefusalKeeps DEF HostConditions
<1>9. CASE End(r, i, "failed", None)
    BY <1>1, <1>9, RefusalKeeps
<1>10. QED BY <1>7, <1>8, <1>9 DEF Replay

\* A mutation that is carried out, whether or not its record is completed.
LEMMA AppliedKeeps ==
    ASSUME IInv, NEW r \in Runs, NEW i \in DOMAIN snippet, Applied(r, i)
    PROVE  IInv'
<1> DEFINE n == call[r][i].ordinal
<1>1. /\ call[r][i].pc = "claimed" /\ ApprovalHolds(r, i)
      /\ effects' = effects \cup {<<r, i>>}
      /\ UNCHANGED <<snippet, releases>>
    BY DEF Applied, Sends
<1>2. CallFits(r, i) /\ TypeOK /\ ledger \in [DOMAIN snippet -> {None} \cup Records]
    BY DEF IInv, TypeOK
<1>3. /\ Cleared(r, i) /\ n \in DOMAIN snippet
      /\ ledger[n] # None /\ ledger[n].hash = RequestHash(r, i)
    BY <1>1, <1>2 DEF CallFits
<1>4. /\ ResultOf(r, i) \in {None} \cup SUBSET Fields
      /\ snippet[i].op # "runServerScript" =>
             \A f \in ResultOf(r, i) : ~ FieldMasked(run[r].policy, snippet[i].table, f)
    BY ResultsShow
<1>5. /\ ledger' \in [DOMAIN snippet -> {None} \cup Records]
      /\ \A k \in DOMAIN snippet :
             \/ ledger'[k] = ledger[k]
             \/ /\ call[r][i].pc = "claimed" /\ call[r][i].ordinal = k
                /\ ledger'[k].hash = RequestHash(r, i) /\ ledger'[k].result = ResultOf(r, i)
    <2>1. CASE UNCHANGED ledger
        BY <1>2, <2>1
    <2>2. CASE ledger' = [ledger EXCEPT ![n] = [@ EXCEPT !.status = "completed", !.result = ResultOf(r, i)]]
        <3> DEFINE result == ResultOf(r, i)
                   record == [ledger[n] EXCEPT !.status = "completed", !.result = result]
        <3>1. ledger[n] \in Records
            BY <1>2, <1>3
        <3>2. ledger' = [ledger EXCEPT ![n] = record]
            BY <2>2
        <3>3. result \in {None} \cup SUBSET Fields
            BY <1>4
        <3> HIDE DEF result
        <3>4. record \in Records /\ record.hash = RequestHash(r, i) /\ record.result = result
            BY <1>3, <3>1, <3>3 DEF Records
        <3>6. \A k \in DOMAIN snippet : ledger'[k] = IF k = n THEN record ELSE ledger[k]
            BY <1>2, <3>2
        <3>7. ledger' \in [DOMAIN snippet -> {None} \cup Records]
            <4> HIDE DEF record, n
            <4>1. QED BY <1>2, <3>2, <3>4
        <3> HIDE DEF record
        <3>5. QED BY <1>1, <3>4, <3>6, <3>7 DEF result
    <2>3. QED BY <2>1, <2>2 DEF Applied
<1>6. <<r, i>> \in effects' /\ effects \subseteq effects' /\ effects' \subseteq effects \cup {<<r, i>>}
    BY <1>1
<1>7. \A k \in DOMAIN snippet :
          \/ ledger'[k] = ledger[k]
          \/ /\ call[r][i].pc = "claimed" /\ call[r][i].ordinal = k
             /\ \/ ledger'[k] = None \/ ledger'[k].status # "completed"
                \/ /\ <<r, i>> \in effects'
                   /\ ledger'[k].hash = RequestHash(r, i)
                   /\ ledger'[k].result = ResultOf(r, i)
    BY <1>5, <1>6
<1>8. PICK code \in {"ok", "budget_exceeded"}, shown \in {None, ResultOf(r, i)} : End(r, i, code, shown)
    BY DEF Applied
<1>9. code \in Codes /\ shown \in {None} \cup SUBSET Fields
    BY <1>4 DEF Codes, HostConditions
<1>10. shown # None =>
           /\ \/ snippet[i].op \in ReadOps /\ GateAllows(r, snippet[i]) /\ QueryAllowed(r, snippet[i])
              \/ Cleared(r, i) /\ ApprovalHolds(r, i)
           /\ snippet[i].op # "runServerScript" =>
                  \A f \in shown : ~ FieldMasked(run[r].policy, snippet[i].table, f)
    BY <1>1, <1>3, <1>4
<1>11. call[r][i].pc # "ended" /\ call[r][i].pc # "new"
    BY <1>1
<1> HIDE DEF n
<1>12. QED BY <1>1, <1>3, <1>5, <1>6, <1>7, <1>8, <1>9, <1>10, <1>11, EndKeeps

\* A mutation whose outcome is unknown.
LEMMA UnknownKeeps ==
    ASSUME IInv, NEW r \in Runs, NEW i \in DOMAIN snippet, Unknown(r, i)
    PROVE  IInv'
<1> DEFINE n == call[r][i].ordinal
           record == [ledger[n] EXCEPT !.status = "indeterminate"]
<1>1. /\ call[r][i].pc = "claimed" /\ ApprovalHolds(r, i)
      /\ ledger' = [ledger EXCEPT ![n].status = "indeterminate"]
      /\ UNCHANGED <<snippet, releases>>
    BY DEF Unknown, Sends
<1>2. effects \subseteq effects' /\ effects' \subseteq effects \cup {<<r, i>>}
    BY DEF Unknown
<1>3. PICK code \in {"budget_exceeded", "failed"} : End(r, i, code, None)
    BY DEF Unknown
<1>4. CallFits(r, i) /\ TypeOK /\ ledger \in [DOMAIN snippet -> {None} \cup Records]
    BY DEF IInv, TypeOK
<1>5. /\ Cleared(r, i) /\ n \in DOMAIN snippet /\ ledger[n] # None
    BY <1>1, <1>4 DEF CallFits
<1>6. ledger[n] \in Records
    BY <1>4, <1>5
<1>7. ledger' = [ledger EXCEPT ![n] = record]
    BY <1>1, <1>4
<1>8. record \in Records /\ record.status = "indeterminate"
    BY <1>6 DEF Records
<1>9. /\ ledger' \in [DOMAIN snippet -> {None} \cup Records]
      /\ \A k \in DOMAIN snippet :
             ledger'[k] = ledger[k] \/ (n = k /\ ledger'[k].status # "completed")
    <2> HIDE DEF record, n
    <2>1. QED BY <1>4, <1>5, <1>7, <1>8
<1>10. code \in Codes /\ code # "ok" /\ None \in {None} \cup SUBSET Fields
    BY DEF Codes, HostConditions
<1>11. QED BY <1>1, <1>2, <1>3, <1>5, <1>9, <1>10, EndKeeps

\* A step of the runs alone, which gives no run that has made a call other terms.
LEMMA RunsStepKeeps ==
    ASSUME IInv, UNCHANGED <<snippet, call, ledger, effects>>,
           releases' \in Seq(Environments) \ {<<>>}, run' \in [Runs -> RunStates],
           \A s \in Runs :
               \/ Made(s) = {}
               \/ /\ run'[s].env = run[s].env
                  /\ run'[s].policy = run[s].policy
                  /\ run'[s].request = run[s].request,
           \A s \in Runs : RunFits(s)'
    PROVE  IInv'
<1>1. TypeOK /\ TypeOK'
    BY DEF IInv, TypeOK
<1>2. \A s \in Runs : \A j \in DOMAIN snippet :
          \/ call[s][j].pc = "new"
          \/ /\ run'[s].env = run[s].env
             /\ run'[s].policy = run[s].policy
             /\ run'[s].request = run[s].request
    BY DEF Made
<1>3. ASSUME NEW s \in Runs, NEW j \in DOMAIN snippet, call[s][j].pc # "new"
      PROVE  /\ RequestHash(s, j)' = RequestHash(s, j)
             /\ GateAllows(s, snippet[j])' <=> GateAllows(s, snippet[j])
             /\ QueryAllowed(s, snippet[j])' <=> QueryAllowed(s, snippet[j])
             /\ Cleared(s, j)' <=> Cleared(s, j)
             /\ ApprovalHolds(s, j)' <=> ApprovalHolds(s, j)
             /\ ResultOf(s, j)' = ResultOf(s, j)
             /\ run'[s].policy = run[s].policy
    BY <1>2, <1>3, SameTermsSameChecks
<1>4. ASSUME NEW x \in effects
      PROVE  x[1] \in Runs /\ x[2] \in DOMAIN snippet /\ call[x[1]][x[2]].pc = "ended" /\ EffectFits(x)
    BY <1>1 DEF IInv, TypeOK, EffectFits
<1>5. (\A s \in Runs : \A j \in DOMAIN snippet : CallFits(s, j))'
    <2>1. ASSUME NEW s \in Runs, NEW j \in DOMAIN snippet
          PROVE  CallFits(s, j)'
        <3>1. CallFits(s, j)
            BY DEF IInv
        <3>2. CASE call[s][j].pc = "new"
            <4>1. None # "ok"
                BY RunCodeAssumption
            <4>2. QED BY <3>1, <3>2, <4>1 DEF CallFits
        <3>3. CASE call[s][j].pc # "new"
            <4>1. Showable(s, j) => Showable(s, j)'
                BY <1>3, <3>3 DEF Showable, FieldMasked
            <4>2. Done(s, j) => Done(s, j)'
                <5>1. HAVE Done(s, j)
                <5>2. PICK x \in effects : RequestHash(x[1], x[2]) = RequestHash(s, j)
                    BY <5>1 DEF Done
                <5>3. RequestHash(x[1], x[2])' = RequestHash(s, j)'
                    BY <1>3, <1>4, <3>3, <5>2
                <5>4. QED BY <5>3 DEF Done
            <4>3. QED BY <1>3, <3>1, <3>3, <4>1, <4>2 DEF CallFits
        <3>4. QED BY <3>2, <3>3
    <2>2. QED BY <2>1
<1>6. ClaimsApart'
    BY DEF IInv, ClaimsApart
<1>7. (\A n \in DOMAIN snippet : RecordFits(n))'
    <2>1. ASSUME NEW n \in DOMAIN snippet, ledger[n] # None, ledger[n].status = "completed"
          PROVE  \E x \in effects : RequestHash(x[1], x[2])' = ledger[n].hash /\ ledger[n].result = ResultOf(x[1], x[2])'
        <3>1. PICK x \in effects : RequestHash(x[1], x[2]) = ledger[n].hash /\ ledger[n].result = ResultOf(x[1], x[2])
            BY <2>1 DEF IInv, RecordFits
        <3>2. RequestHash(x[1], x[2])' = RequestHash(x[1], x[2]) /\ ResultOf(x[1], x[2])' = ResultOf(x[1], x[2])
            BY <1>3, <1>4
        <3>3. QED BY <3>1, <3>2
    <2>2. QED BY <2>1 DEF RecordFits
<1>8. (\A x \in effects : EffectFits(x))'
    <2>1. ASSUME NEW x \in effects
          PROVE  EffectFits(x)'
        BY <1>3, <1>4 DEF EffectFits
    <2>2. QED BY <2>1
<1>9. (\A s \in Runs : RunFits(s))'
    OBVIOUS
<1>10. QED BY <1>1, <1>5, <1>6, <1>7, <1>8, <1>9 DEF IInv

\* A run of which the step says nothing fits as it did.
LEMMA IdleRunFits ==
    ASSUME IInv, UNCHANGED <<snippet, call>>, NEW s \in Runs, run'[s] = run[s]
    PROVE  RunFits(s)'
<1>1. RunFits(s)
    BY DEF IInv
<1>2. Made(s)' = Made(s) /\ Met(s)' = Met(s) /\ ModeOf(s)' = ModeOf(s)
    BY DEF Made, Met, ModeOf
<1>3. QED BY <1>1, <1>2 DEF RunFits

\* A request that is let in runs in the environment of the moment.
LEMMA SubmitKeeps ==
    ASSUME IInv, NEW r \in Runs, NEW w \in Requests, Submit(r, w)
    PROVE  IInv'
<1> DEFINE env == Head(releases)
           policy == PolicyOf(env)
           q == [run[r] EXCEPT !.phase = "running", !.env = env, !.policy = policy, !.request = w]
<1>1. /\ run[r].phase = "new"
      /\ ModeAsked(w) <= Ceiling(env) /\ (ModeAsked(w) = 2 => w.reason # None)
      /\ run' = [run EXCEPT ![r] = q]
      /\ UNCHANGED <<snippet, releases, call, ledger, effects>>
    BY DEF Submit
<1>2. /\ run \in [Runs -> RunStates] /\ releases \in Seq(Environments) \ {<<>>}
      /\ TypeOK /\ RunFits(r)
    BY DEF IInv, TypeOK
<1>3. Made(r) = {} /\ run[r].ordinal = 0 /\ run[r].signals = {}
    BY <1>1, <1>2 DEF RunFits
<1>4. env \in Environments
    BY <1>2
<1>5. policy \in {PolicyOf(e) : e \in Environments}
    BY <1>4
<1>6. run[r] \in RunStates
    BY <1>2
<1>7. policy = PolicyOf(env)
    OBVIOUS
<1> HIDE DEF env, policy
<1>8. /\ q \in RunStates
      /\ q.phase = "running" /\ q.env = env /\ q.policy = policy /\ q.request = w
      /\ q.ordinal = run[r].ordinal /\ q.signals = run[r].signals
    BY <1>4, <1>5, <1>6 DEF RunStates
<1> HIDE DEF q
<1>9. run' \in [Runs -> RunStates] /\ run'[r] = q /\ \A s \in Runs : s # r => run'[s] = run[s]
    BY <1>1, <1>2, <1>8
<1>10. RunFits(r)'
    <2>1. Made(r)' = {} /\ Cardinality({}) = 0
        BY <1>1, <1>3, FS_EmptySet DEF Made
    <2>2. Met(r)' = {}
        <3>1. \A i \in DOMAIN snippet : call[r][i].out = None
            BY <1>3 DEF Made, IInv, CallFits
        <3>2. None \notin HostConditions
            BY RunCodeAssumption
        <3>3. QED BY <1>1, <3>1, <3>2 DEF Met
    <2>3. ModeOf(r)' = ModeAsked(w)
        BY <1>8, <1>9 DEF ModeOf, ModeAsked
    <2>4. QED BY <1>1, <1>3, <1>4, <1>7, <1>8, <1>9, <2>1, <2>2, <2>3 DEF RunFits
<1>11. \A s \in Runs : RunFits(s)'
    <2>1. ASSUME NEW s \in Runs, s # r
          PROVE  RunFits(s)'
        BY <1>1, <1>9, <2>1, IdleRunFits
    <2>2. QED BY <1>10, <2>1
<1>12. QED BY <1>1, <1>2, <1>3, <1>9, <1>11, RunsStepKeeps

\* A request that is refused.
LEMMA RefuseKeeps ==
    ASSUME IInv, NEW r \in Runs, Refuse(r)
    PROVE  IInv'
<1> DEFINE q == [run[r] EXCEPT !.phase = "refused"]
<1>1. /\ run[r].phase = "new" /\ run' = [run EXCEPT ![r].phase = "refused"]
      /\ UNCHANGED <<snippet, releases, call, ledger, effects>>
    BY DEF Refuse
<1>2. /\ run \in [Runs -> RunStates] /\ releases \in Seq(Environments) \ {<<>>} /\ RunFits(r)
    BY DEF IInv, TypeOK
<1>3. run[r] \in RunStates /\ run' = [run EXCEPT ![r] = q]
    BY <1>1, <1>2
<1>4. /\ q \in RunStates
      /\ q.phase = "refused" /\ q.env = run[r].env /\ q.policy = run[r].policy /\ q.request = run[r].request
      /\ q.rpc = run[r].rpc /\ q.ordinal = run[r].ordinal /\ q.signals = run[r].signals
    BY <1>3 DEF RunStates
<1> HIDE DEF q
<1>5. run' \in [Runs -> RunStates] /\ run'[r] = q /\ \A s \in Runs : s # r => run'[s] = run[s]
    BY <1>2, <1>3, <1>4
<1>6. Made(r)' = Made(r) /\ Met(r)' = Met(r)
    BY <1>1 DEF Made, Met
<1>7. RunFits(r)'
    BY <1>1, <1>2, <1>4, <1>5, <1>6 DEF RunFits
<1>8. \A s \in Runs : RunFits(s)'
    <2>1. ASSUME NEW s \in Runs, s # r
          PROVE  RunFits(s)'
        BY <1>1, <1>5, <2>1, IdleRunFits
    <2>2. QED BY <1>7, <2>1
<1>9. QED BY <1>1, <1>2, <1>4, <1>5, <1>8, RunsStepKeeps

\* The answer names a host condition that was met, if one was.
LEMMA FinishKeeps ==
    ASSUME IInv, NEW r \in Runs, NEW throws \in BOOLEAN, Finish(r, throws)
    PROVE  IInv'
<1> DEFINE code == IF "budget_exceeded" \in run[r].signals THEN "budget_exceeded"
                   ELSE IF "reauth_required" \in run[r].signals THEN "reauth_required"
                   ELSE IF throws THEN "run_error" ELSE "ok"
           q == [run[r] EXCEPT !.phase = "answered", !.answer = code]
<1>1. /\ run[r].phase = "running"
      /\ run' = [run EXCEPT ![r] = [@ EXCEPT !.phase = "answered", !.answer = code]]
      /\ UNCHANGED <<snippet, releases, call, ledger, effects>>
    BY DEF Finish
<1>2. /\ run \in [Runs -> RunStates] /\ releases \in Seq(Environments) \ {<<>>} /\ RunFits(r)
    BY DEF IInv, TypeOK
<1>3. run[r] \in RunStates /\ run' = [run EXCEPT ![r] = q]
    BY <1>1, <1>2
<1>4. /\ code \in {"ok", "run_error"} \cup HostConditions
      /\ IF Met(r) = {} THEN code \in {"ok", "run_error"} ELSE code \in Met(r)
    <2>1. run[r].signals = Met(r) /\ Met(r) \subseteq {"budget_exceeded", "reauth_required"}
        BY <1>1, <1>2 DEF RunFits, Met, HostConditions
    <2>2. QED BY <2>1 DEF HostConditions
<1> HIDE DEF code
<1>5. /\ q \in RunStates
      /\ q.phase = "answered" /\ q.answer = code
      /\ q.env = run[r].env /\ q.policy = run[r].policy /\ q.request = run[r].request
      /\ q.ordinal = run[r].ordinal
    BY <1>3, <1>4 DEF RunStates
<1> HIDE DEF q
<1>6. run' \in [Runs -> RunStates] /\ run'[r] = q /\ \A s \in Runs : s # r => run'[s] = run[s]
    BY <1>2, <1>3, <1>5
<1>7. Made(r)' = Made(r) /\ Met(r)' = Met(r) /\ ModeOf(r)' = ModeOf(r)
    BY <1>1, <1>5, <1>6 DEF Made, Met, ModeOf
<1>8. RunFits(r)'
    BY <1>1, <1>2, <1>4, <1>5, <1>6, <1>7 DEF RunFits
<1>9. \A s \in Runs : RunFits(s)'
    <2>1. ASSUME NEW s \in Runs, s # r
          PROVE  RunFits(s)'
        BY <1>1, <1>6, <2>1, IdleRunFits
    <2>2. QED BY <1>8, <2>1
<1>10. QED BY <1>1, <1>2, <1>5, <1>6, <1>9, RunsStepKeeps

\* A release changes no run.
LEMMA DeployKeeps ==
    ASSUME IInv, Deploy
    PROVE  IInv'
<1>1. /\ Len(releases) > 1 /\ releases' = Tail(releases)
      /\ UNCHANGED <<snippet, run, call, ledger, effects>>
    BY DEF Deploy
<1>2. run \in [Runs -> RunStates] /\ releases \in Seq(Environments)
    BY DEF IInv, TypeOK
<1>3. releases' \in Seq(Environments) \ {<<>>}
    <2>1. Tail(releases) \in Seq(Environments) /\ Len(Tail(releases)) = Len(releases) - 1
        BY <1>1, <1>2
    <2>2. Len(<<>>) = 0 /\ Len(releases) \in Nat
        BY <1>2
    <2>3. Len(Tail(releases)) # 0
        <3>1. \A n \in Nat : n > 1 => n - 1 # 0
            OBVIOUS
        <3>2. Len(releases) - 1 # 0
            BY <1>1, <2>2, <3>1
        <3>3. QED BY <2>1, <3>2
    <2>4. QED BY <1>1, <2>1, <2>2, <2>3
<1>4. \A s \in Runs : RunFits(s)'
    BY <1>1, IdleRunFits
<1>5. QED BY <1>1, <1>2, <1>3, <1>4, RunsStepKeeps

\* An eviction ends the calls under way; those that were claimed may have been carried out.
LEMMA DieKeeps ==
    ASSUME IInv, NEW r \in Runs, Die(r)
    PROVE  IInv'
<1> DEFINE calls == [i \in DOMAIN snippet |->
                        IF i \in Pending(r) THEN Ended(call[r][i], "failed", None) ELSE call[r][i]]
           phase == IF run[r].phase = "running" THEN "dead" ELSE run[r].phase
           q == [run[r] EXCEPT !.phase = phase]
<1>1. /\ run[r].phase \in {"running", "answered"}
      /\ run' = [run EXCEPT ![r].phase = IF @ = "running" THEN "dead" ELSE @]
      /\ call' = [call EXCEPT ![r] = calls]
      /\ UNCHANGED <<snippet, releases, ledger>>
    BY DEF Die
<1>2. PICK done \in SUBSET {<<r, i>> : i \in {j \in Pending(r) : Sends(r, j)}} :
          effects' = effects \cup done
    BY DEF Die
<1>3. /\ TypeOK /\ run \in [Runs -> RunStates] /\ call \in [Runs -> [DOMAIN snippet -> CallStates]]
      /\ run[r] \in RunStates /\ RunFits(r)
      /\ effects \subseteq Runs \X DOMAIN snippet
    BY DEF IInv, TypeOK
<1>4. run' = [run EXCEPT ![r] = q]
    BY <1>1, <1>3
<1>5. phase \in {"dead", "answered"} /\ (phase = "answered" => run[r].phase = "answered")
    BY <1>1
<1> HIDE DEF phase
<1>6. /\ q \in RunStates
      /\ q.phase = phase /\ q.answer = run[r].answer
      /\ q.env = run[r].env /\ q.policy = run[r].policy /\ q.request = run[r].request
      /\ q.ordinal = run[r].ordinal
    BY <1>3, <1>5 DEF RunStates
<1> HIDE DEF q
<1>7. /\ run' \in [Runs -> RunStates] /\ run'[r] = q
      /\ \A s \in Runs : s # r => run'[s] = run[s]
      /\ \A s \in Runs : /\ run'[s].env = run[s].env
                         /\ run'[s].policy = run[s].policy
                         /\ run'[s].request = run[s].request
    BY <1>3, <1>4, <1>6
<1>8. \A i \in DOMAIN snippet :
          IF i \in Pending(r)
          THEN /\ calls[i] \in CallStates
               /\ calls[i].pc = "ended" /\ calls[i].out = "failed" /\ calls[i].shown = None
          ELSE calls[i] = call[r][i]
    <2>1. ASSUME NEW c \in CallStates
          PROVE  LET e == Ended(c, "failed", None)
                 IN  e \in CallStates /\ e.pc = "ended" /\ e.out = "failed" /\ e.shown = None
        BY DEF Ended, CallStates, Codes
    <2>2. QED BY <1>3, <2>1
<1>9. calls \in [DOMAIN snippet -> CallStates]
    BY <1>3, <1>8
<1> HIDE DEF calls
<1>10. /\ call' \in [Runs -> [DOMAIN snippet -> CallStates]]
       /\ \A s \in Runs : \A j \in DOMAIN snippet :
              IF s = r /\ j \in Pending(r)
              THEN call'[s][j].pc = "ended" /\ call'[s][j].out = "failed" /\ call'[s][j].shown = None
              ELSE call'[s][j] = call[s][j]
    BY <1>1, <1>3, <1>8, <1>9
<1>11. \A j \in DOMAIN snippet :
           /\ j \in Pending(r) <=> call[r][j].pc \notin {"new", "ended"}
           /\ j \in Pending(r) => call[r][j].out = None /\ call[r][j].shown = None
    BY DEF Pending, IInv, CallFits
<1>12. effects \subseteq effects'
       /\ \A x \in effects' : \/ x \in effects
                              \/ \E j \in Pending(r) : x = <<r, j>> /\ Sends(r, j)
    BY <1>2
<1>13. effects' \subseteq Runs \X DOMAIN snippet
    BY <1>2, <1>3 DEF Pending
<1>14. TypeOK'
    BY <1>1, <1>3, <1>7, <1>10, <1>13 DEF TypeOK
<1>15. ASSUME NEW s \in Runs, NEW j \in DOMAIN snippet
       PROVE  /\ RequestHash(s, j)' = RequestHash(s, j)
              /\ GateAllows(s, snippet[j])' <=> GateAllows(s, snippet[j])
              /\ QueryAllowed(s, snippet[j])' <=> QueryAllowed(s, snippet[j])
              /\ Cleared(s, j)' <=> Cleared(s, j)
              /\ ApprovalHolds(s, j)' <=> ApprovalHolds(s, j)
              /\ ResultOf(s, j)' = ResultOf(s, j)
    BY <1>1, <1>7, SameTermsSameChecks
<1>16. (\A s \in Runs : RunFits(s))'
    <2>1. ASSUME NEW s \in Runs, s # r
          PROVE  RunFits(s)'
        <3>1. Made(s)' = Made(s) /\ Met(s)' = Met(s) /\ ModeOf(s)' = ModeOf(s)
            BY <1>1, <1>7, <1>10, <2>1 DEF Made, Met, ModeOf
        <3>2. RunFits(s)
            BY DEF IInv
        <3>3. QED BY <1>7, <2>1, <3>1, <3>2 DEF RunFits
    <2>2. RunFits(r)'
        <3>1. Made(r)' = Made(r)
            BY <1>1, <1>10, <1>11 DEF Made
        <3>2. Met(r)' = Met(r)
            <4>1. None \notin HostConditions /\ "failed" \notin HostConditions
                BY RunCodeAssumption DEF HostConditions
            <4>2. \A j \in DOMAIN snippet : \/ call'[r][j].out = call[r][j].out
                                            \/ /\ call'[r][j].out \notin HostConditions
                                               /\ call[r][j].out \notin HostConditions
                BY <1>10, <1>11, <4>1
            <4>3. QED BY <1>1, <4>2 DEF Met
        <3>3. ModeOf(r)' = ModeOf(r)
            BY <1>7 DEF ModeOf
        <3>4. QED BY <1>1, <1>3, <1>5, <1>6, <1>7, <3>1, <3>2, <3>3 DEF RunFits
    <2>3. QED BY <2>1, <2>2
<1>17. (\A s \in Runs : \A j \in DOMAIN snippet : CallFits(s, j))'
    <2>1. ASSUME NEW s \in Runs, NEW j \in DOMAIN snippet
          PROVE  CallFits(s, j)'
        <3>1. CASE s = r /\ j \in Pending(r)
            BY <1>1, <1>10, <3>1 DEF CallFits
        <3>2. CASE ~ (s = r /\ j \in Pending(r))
            <4>1. call'[s][j] = call[s][j] /\ CallFits(s, j)
                BY <1>10, <3>2 DEF IInv
            <4>2. Showable(s, j) => Showable(s, j)'
                BY <1>1, <1>7, <4>1 DEF Showable, FieldMasked
            <4>3. Done(s, j) => Done(s, j)'
                <5>1. HAVE Done(s, j)
                <5>2. PICK x \in effects : RequestHash(x[1], x[2]) = RequestHash(s, j)
                    BY <5>1 DEF Done
                <5>3. RequestHash(x[1], x[2])' = RequestHash(s, j)' /\ x \in effects'
                    BY <1>3, <1>12, <1>15, <5>2
                <5>4. QED BY <5>3 DEF Done
            <4>4. QED BY <1>1, <1>15, <4>1, <4>2, <4>3 DEF CallFits
        <3>3. QED BY <3>1, <3>2
    <2>2. QED BY <1>1, <2>1
<1>18. ClaimsApart'
    <2>1. \A s \in Runs : \A j \in DOMAIN snippet :
              call'[s][j].pc = "claimed" => call'[s][j] = call[s][j]
        BY <1>10
    <2>2. ClaimsApart
        BY DEF IInv
    <2>3. QED BY <1>1, <2>1, <2>2 DEF ClaimsApart
<1>19. (\A n \in DOMAIN snippet : RecordFits(n))'
    <2>1. ASSUME NEW n \in DOMAIN snippet, ledger[n] # None, ledger[n].status = "completed"
          PROVE  \E x \in effects' : RequestHash(x[1], x[2])' = ledger[n].hash /\ ledger[n].result = ResultOf(x[1], x[2])'
        <3>1. PICK x \in effects : RequestHash(x[1], x[2]) = ledger[n].hash /\ ledger[n].result = ResultOf(x[1], x[2])
            BY <2>1 DEF IInv, RecordFits
        <3>2. RequestHash(x[1], x[2])' = RequestHash(x[1], x[2]) /\ ResultOf(x[1], x[2])' = ResultOf(x[1], x[2])
            BY <1>3, <1>15
        <3>3. QED BY <1>12, <3>1, <3>2
    <2>2. QED BY <1>1, <2>1 DEF RecordFits
<1>20. (\A x \in effects : EffectFits(x))'
    <2>1. ASSUME NEW x \in effects'
          PROVE  EffectFits(x)'
        <3>1. CASE x \in effects
            <4>1. EffectFits(x) /\ x[1] \in Runs /\ x[2] \in DOMAIN snippet
                BY <1>3, <3>1 DEF IInv
            <4>2. call'[x[1]][x[2]].pc = "ended"
                BY <1>10, <4>1 DEF EffectFits
            <4>3. Cleared(x[1], x[2])' /\ ApprovalHolds(x[1], x[2])'
                BY <1>15, <4>1 DEF EffectFits
            <4>4. QED BY <4>2, <4>3 DEF EffectFits
        <3>2. CASE x \notin effects
            <4>1. PICK j \in Pending(r) : x = <<r, j>> /\ Sends(r, j)
                BY <1>12, <3>2
            <4>2. j \in DOMAIN snippet /\ x[1] = r /\ x[2] = j
                BY <4>1 DEF Pending
            <4>3. Cleared(r, j) /\ ApprovalHolds(r, j)
                BY <4>1, <4>2 DEF Sends, IInv, CallFits
            <4>4. call'[r][j].pc = "ended"
                BY <1>10, <4>1, <4>2
            <4>5. Cleared(r, j)' /\ ApprovalHolds(r, j)'
                BY <1>15, <4>2, <4>3
            <4>6. EffectFits(<<r, j>>)'
                BY <4>4, <4>5 DEF EffectFits
            <4>7. QED BY <4>1, <4>6
        <3>3. QED BY <3>1, <3>2
    <2>2. QED BY <2>1
<1>21. QED BY <1>14, <1>16, <1>17, <1>18, <1>19, <1>20 DEF IInv

-----------------------------------------------------------------------------
(* The invariant, and what follows from it.                                *)

\* The invariant holds at the start.
LEMMA InitFits ==
    ASSUME Init
    PROVE  IInv
<1>1. /\ snippet \in Snippets /\ releases \in Rollouts
      /\ run = [r \in Runs |-> NewRun]
      /\ call = [r \in Runs |-> [i \in DOMAIN snippet |-> NewCall]]
      /\ ledger = [n \in DOMAIN snippet |-> None]
      /\ effects = {}
    BY DEF Init
<1>2. snippet \in Seq(HostCalls) /\ releases \in Seq(Environments) \ {<<>>}
    BY <1>1, RunCodeAssumption
<1>3. /\ NewCall \in CallStates /\ NewCall.pc = "new" /\ NewCall.out = None /\ NewCall.shown = None
    BY DEF NewCall, CallStates
<1>4. /\ NewRun \in RunStates
      /\ NewRun.phase = "new" /\ NewRun.rpc = 0 /\ NewRun.ordinal = 0 /\ NewRun.signals = {}
    BY DEF NewRun, RunStates
<1>5. TypeOK
    BY <1>1, <1>2, <1>3, <1>4 DEF TypeOK
<1>6. None # "ok"
    BY RunCodeAssumption
<1>7. ASSUME NEW r \in Runs
      PROVE  RunFits(r)
    <2>1. Made(r) = {} /\ Cardinality({}) = 0
        BY <1>1, <1>3, FS_EmptySet DEF Made
    <2>2. QED BY <1>1, <1>4, <2>1 DEF RunFits
<1>8. ASSUME NEW r \in Runs, NEW i \in DOMAIN snippet
      PROVE  CallFits(r, i)
    BY <1>1, <1>3, <1>6 DEF CallFits
<1>9. ClaimsApart
    BY <1>1, <1>3 DEF ClaimsApart
<1>10. \A n \in DOMAIN snippet : RecordFits(n)
    BY <1>1 DEF RecordFits
<1>11. QED BY <1>1, <1>5, <1>7, <1>8, <1>9, <1>10 DEF IInv

\* A step that changes nothing keeps it.
LEMMA StutterFits ==
    ASSUME IInv, UNCHANGED vars
    PROVE  IInv'
<1>1. /\ UNCHANGED <<snippet, call, ledger, effects>> /\ run' = run
      /\ releases' = releases
    BY DEF vars
<1>2. run \in [Runs -> RunStates] /\ releases \in Seq(Environments) \ {<<>>}
    BY DEF IInv, TypeOK
<1>3. \A s \in Runs : RunFits(s)'
    BY <1>1, IdleRunFits
<1>4. QED BY <1>1, <1>2, <1>3, RunsStepKeeps

\* Every step keeps it.
LEMMA NextKeeps ==
    ASSUME IInv, [Next]_vars
    PROVE  IInv'
<1>1. CASE Deploy
    BY <1>1, DeployKeeps
<1>2. CASE \E r \in Runs : Refuse(r) \/ Die(r)
    BY <1>2, RefuseKeeps, DieKeeps
<1>3. CASE \E r \in Runs : \E q \in Requests : Submit(r, q)
    BY <1>3, SubmitKeeps
<1>4. CASE \E r \in Runs : \E throws \in BOOLEAN : Finish(r, throws)
    BY <1>4, FinishKeeps
<1>5. CASE \E r \in Runs : \E i \in DOMAIN snippet :
               \/ Denied(r, i) \/ OutOfCalls(r, i) \/ Read(r, i) \/ ReadReturns(r, i) \/ Mutate(r, i)
               \/ NotGuarded(r, i) \/ Claim(r, i) \/ Replay(r, i) \/ Conflict(r, i)
               \/ NotCleared(r, i) \/ Applied(r, i) \/ Rejected(r, i) \/ Unknown(r, i)
    BY <1>5, DeniedKeeps, OutOfCallsKeeps, ReadKeeps, ReadReturnsKeeps, MutateKeeps, NotGuardedKeeps,
       ClaimKeeps, ReplayKeeps, ConflictKeeps, NotClearedKeeps, AppliedKeeps, RejectedKeeps, UnknownKeeps
<1>6. CASE UNCHANGED vars
    BY <1>6, StutterFits
<1>7. QED BY <1>1, <1>2, <1>3, <1>4, <1>5, <1>6 DEF Next

\* The invariant holds in every reachable state.
THEOREM RunCodeInvariant == Spec => []IInv
<1>1. Init => IInv
    BY InitFits
<1>2. IInv /\ [Next]_vars => IInv'
    BY NextKeeps
<1>3. QED BY <1>1, <1>2, PTL DEF Spec

\* A call that passed its checks stays within all that the environment of its request
\* allows, though the checks compare its mode with a ceiling and with a policy that were
\* read from that environment and made valid.
LEMMA ChecksBound ==
    ASSUME IInv, NEW r \in Runs, NEW i \in DOMAIN snippet,
           run[r].phase \notin {"new", "refused"}, GateAllows(r, snippet[i])
    PROVE  /\ WithinCeilings(r)
           /\ run[r].policy.tables = run[r].env.policies[PolicyName].tables
              \/ snippet[i].op = "runServerScript"
           /\ run[r].policy.masked = run[r].env.policies[PolicyName].masked
              \/ snippet[i].op = "runServerScript"
<1> DEFINE env == run[r].env
           mode == ModeOf(r)
           p == env.policies[PolicyName]
<1>1. /\ env \in Environments /\ run[r].policy = PolicyOf(env) /\ run[r].request \in Requests
      /\ mode <= Ceiling(env)
    BY DEF IInv, RunFits
<1>2. mode \in Modes
    BY <1>1, RunCodeAssumption DEF ModeOf, Modes
<1>3. snippet[i] \in HostCalls
    BY DEF IInv, TypeOK
<1>4. mode <= run[r].policy.maxMode
      /\ (snippet[i].op = "runServerScript" => mode = 2)
      /\ (snippet[i].op # "runServerScript" => snippet[i].table \in run[r].policy.tables)
    BY <1>3 DEF GateAllows, PolicyAllows, ReadOps
<1>5. PolicyName \in DOMAIN env.policies /\ p # None
    <2>1. DenyAll.tables = {} /\ DenyAll.maxMode = 0
        BY DEF DenyAll
    <2>2. run[r].policy # DenyAll
        BY <1>4, <2>1
    <2>3. QED BY <1>1, <2>2 DEF PolicyOf, LoadActorPolicy
<1>6. p \in Policies
    BY <1>1, <1>5, RunCodeAssumption
<1>7. /\ run[r].policy.tables = p.tables /\ run[r].policy.masked = p.masked
      /\ run[r].policy.maxMode = IF p.maxMode \in Modes THEN p.maxMode ELSE 0
    <2>1. run[r].policy = [p EXCEPT !.maxMode = IF @ \in Modes THEN @ ELSE 0]
        BY <1>1, <1>5 DEF PolicyOf, LoadActorPolicy
    <2> HIDE DEF p
    <2>2. QED BY <1>6, <2>1 DEF Policies
<1>8. mode <= ScopeMode /\ mode <= ParseMaxMode(env.tenant) /\ mode <= ParseMaxMode(env.instance)
    <2>1. /\ Ceiling(env) \in Modes /\ Ceiling(env) <= ScopeMode
          /\ Ceiling(env) <= ParseMaxMode(env.tenant) /\ Ceiling(env) <= ParseMaxMode(env.instance)
        BY <1>1, PolicyFacts
    <2>2. ScopeMode \in Modes /\ ParseMaxMode(env.tenant) \in Modes /\ ParseMaxMode(env.instance) \in Modes
        BY RunCodeAssumption DEF ParseMaxMode, Modes
    <2>3. \A m \in Modes : m \in Int
        BY DEF Modes
    <2> HIDE DEF mode, env
    <2>4. QED BY <1>1, <1>2, <2>1, <2>2, <2>3
<1>9. \A m : mode <= ParseMaxMode(m) => m = None \/ (m \in Modes /\ mode <= m) \/ mode = 0
    BY <1>2 DEF ParseMaxMode, Modes
<1>10. mode = 0 \/ (p.maxMode \in Modes /\ mode <= p.maxMode)
    BY <1>2, <1>4, <1>7 DEF Modes
<1>11. WithinCeilings(r)
    BY <1>5, <1>8, <1>9, <1>10 DEF WithinCeilings
<1>12. QED BY <1>7, <1>11

\* Whatever a run carried out or was shown, its own environment allows.
THEOREM AllowedTheorem == Spec => []OnlyWhatIsAllowed
<1>1. ASSUME IInv, NEW r \in Runs, NEW i \in DOMAIN snippet,
             <<r, i>> \in effects \/ call[r][i].shown # None
      PROVE  Allowed(r, i)
    <2> DEFINE c == snippet[i]
               p == run[r].env.policies[PolicyName]
               shown == call[r][i].shown
    <2>1. CallFits(r, i) /\ (<<r, i>> \in effects => EffectFits(<<r, i>>))
        BY <1>1 DEF IInv
    <2>2. call[r][i].pc # "new"
        <3>1. CASE <<r, i>> \in effects
            BY <2>1, <3>1 DEF EffectFits
        <3>2. CASE call[r][i].shown # None
            BY <2>1, <3>2 DEF CallFits
        <3>3. QED BY <1>1, <3>1, <3>2
    <2>3. /\ run[r].phase \notin {"new", "refused"} /\ run[r].env \in Environments
          /\ ModeOf(r) \in Modes
        BY <1>1, <2>2, UnderWay
    <2>4. \/ /\ c.op \in ReadOps /\ GateAllows(r, c) /\ QueryAllowed(r, c)
             /\ <<r, i>> \notin effects
          \/ Cleared(r, i) /\ ApprovalHolds(r, i)
        <3>1. CASE <<r, i>> \in effects
            BY <2>1, <3>1 DEF EffectFits
        <3>2. CASE <<r, i>> \notin effects
            BY <1>1, <2>1, <3>2 DEF CallFits
        <3>3. QED BY <3>1, <3>2
    <2>5. GateAllows(r, c)
        BY <2>4 DEF Cleared
    <2>6. /\ WithinCeilings(r)
          /\ c.op # "runServerScript" => /\ run[r].policy.tables = p.tables
                                         /\ run[r].policy.masked = p.masked
        BY <1>1, <2>3, <2>5, ChecksBound
    <2>7. c \in HostCalls
        BY <1>1 DEF IInv, TypeOK
    <2>8. ASSUME c.op # "runServerScript"
          PROVE  /\ c.table \in p.tables
                 /\ \A fs \in {c.fields, c.where} \ {None} :
                        \A f \in fs : ~ \E g \in Prefixes[f] : g \in p.masked[c.table]
                 /\ shown # None => \A f \in shown : ~ \E g \in Prefixes[f] : g \in p.masked[c.table]
        <3>1. c.table \in run[r].policy.tables /\ FieldsAllowed(run[r].policy, c.table, c.fields)
            BY <2>5, <2>8 DEF GateAllows, PolicyAllows
        <3>2. c.where = None \/ FieldsAllowed(run[r].policy, c.table, c.where)
            BY <2>4, <2>7, <2>8 DEF HostCalls, QueryAllowed, Cleared
        <3>3. shown # None => \A f \in shown : ~ FieldMasked(run[r].policy, c.table, f)
            BY <2>1, <2>8 DEF CallFits, Showable
        <3>4. \A f : ~ FieldMasked(run[r].policy, c.table, f) => ~ \E g \in Prefixes[f] : g \in p.masked[c.table]
            BY <2>6, <2>8 DEF FieldMasked
        <3>5. \A f \in c.fields : c.fields # None => ~ FieldMasked(run[r].policy, c.table, f)
            BY <3>1 DEF FieldsAllowed
        <3>6. \A f \in c.where : c.where # None => ~ FieldMasked(run[r].policy, c.table, f)
            BY <3>2 DEF FieldsAllowed
        <3> HIDE DEF c, p, shown
        <3>7. QED BY <2>6, <2>8, <3>1, <3>3, <3>4, <3>5, <3>6
    <2>9. ModeOf(r) \in Int /\ (c.op = "tableUpdate" => ModeOf(r) >= 1)
        BY <2>3, <2>5 DEF GateAllows, ReadOps, Modes
    <2>10. c.op = "runServerScript" =>
               /\ ModeOf(r) = 2 /\ run[r].request.reason # None /\ run[r].env.allowlisted
               /\ run[r].request.token \in run[r].env.tokens \/ run[r].env.member
        <3>1. c.op = "runServerScript" => ModeOf(r) = 2 /\ ApprovalHolds(r, i)
            BY <2>4, <2>5 DEF GateAllows, ReadOps
        <3>2. ModeOf(r) = 2 => run[r].request.reason # None
            BY <1>1, <2>3 DEF IInv, RunFits
        <3>3. QED BY <3>1, <3>2 DEF ApprovalHolds, Approved
    <2>11. c.op \notin ReadOps => run[r].request.key /\ ~ run[r].env.frozen
        BY <2>4 DEF Cleared
    <2> HIDE DEF c, p, shown
    <2>12. QED BY <2>6, <2>8, <2>9, <2>10, <2>11 DEF Allowed, c, p, shown
<1>2. IInv => OnlyWhatIsAllowed
    BY <1>1 DEF OnlyWhatIsAllowed
<1>3. QED BY <1>2, RunCodeInvariant, PTL

\* A mutation that succeeded was carried out as this call, on the terms of this run.
THEOREM SuccessTheorem == Spec => []SuccessIsThisCalls
<1>1. IInv => SuccessIsThisCalls
    <2>1. ASSUME IInv, NEW r \in Runs, NEW i \in DOMAIN snippet,
                 snippet[i].op \notin ReadOps, call[r][i].out = "ok"
          PROVE  \E x \in effects : snippet[x[2]] = snippet[i] /\ SameTerms(x[1], r)
        <3>1. Done(r, i)
            BY <2>1 DEF IInv, CallFits
        <3>2. PICK x \in effects : RequestHash(x[1], x[2]) = RequestHash(r, i)
            BY <3>1 DEF Done
        <3>3. QED BY <3>2, SameHashSameResult
    <2>2. QED BY <2>1 DEF SuccessIsThisCalls
<1>2. QED BY <1>1, RunCodeInvariant, PTL

\* The answer tells of the host conditions that the run met, and of no other.
THEOREM HostConditionsTheorem == Spec => []HostConditionsAreAttested
<1>1. IInv => HostConditionsAreAttested
    BY DEF IInv, RunFits, Met, HostConditionsAreAttested
<1>2. QED BY <1>1, RunCodeInvariant, PTL

-----------------------------------------------------------------------------
(* Calls in program order.  The ordinal of a mutation is then a function of *)
(* the snippet and of the terms of its run, and an effect uses its ordinal  *)
(* up: its record is never freed, and no later call can claim it.           *)

\* The calls up to the n-th that pass the checks before they are counted.
Gated(r, n) == {k \in 1..n : GateAllows(r, snippet[k])}

\* The mutations among them that the limit leaves room for: those that take an ordinal.
Mutates(r, i) ==
    /\ snippet[i].op \notin ReadOps /\ GateAllows(r, snippet[i])
    /\ Cardinality(Gated(r, i - 1)) < RpcLimit
Mutations(r, n) == {i \in 1..n : Mutates(r, i)}

OrdinalOf(r, i) == Cardinality(Mutations(r, i))

\* The calls a run has made are the first n, and its counters count them.
InProgramOrder(r) ==
    \E n \in 0..Len(snippet) :
        /\ Made(r) = 1..n
        /\ run[r].ordinal = Cardinality(Mutations(r, n))
        /\ run[r].rpc = IF Cardinality(Gated(r, n)) < RpcLimit THEN Cardinality(Gated(r, n)) ELSE RpcLimit

OrdinalFits(r, i) ==
    call[r][i].pc \in {"hashing", "claimed"} => call[r][i].ordinal = OrdinalOf(r, i)

\* The ordinal of an effect is spent.
Spent(x) ==
    /\ OrdinalOf(x[1], x[2]) \in DOMAIN snippet
    /\ ledger[OrdinalOf(x[1], x[2])] # None
    /\ \A r \in Runs : \A i \in DOMAIN snippet :
           call[r][i].pc = "claimed" => call[r][i].ordinal # OrdinalOf(x[1], x[2])
    /\ \A y \in effects : OrdinalOf(y[1], y[2]) = OrdinalOf(x[1], x[2]) => x = y

OrderInv ==
    /\ \A r \in Runs : InProgramOrder(r)
    /\ \A r \in Runs : \A i \in DOMAIN snippet : OrdinalFits(r, i)
    /\ \A x \in effects : Spent(x)

\* The counts are of finite sets.
LEMMA CountsAreFinite ==
    ASSUME NEW r, NEW n \in Int
    PROVE  /\ IsFiniteSet(Gated(r, n)) /\ Cardinality(Gated(r, n)) \in Nat
           /\ IsFiniteSet(Mutations(r, n)) /\ Cardinality(Mutations(r, n)) \in Nat
<1>1. IsFiniteSet(1..n)
    BY FS_Interval
<1>2. Gated(r, n) \subseteq 1..n /\ Mutations(r, n) \subseteq 1..n
    BY DEF Gated, Mutations
<1>3. QED BY <1>1, <1>2, FS_Subset, FS_CardinalityType

\* What the next call adds to the counts.
LEMMA CountsGrow ==
    ASSUME NEW r, NEW i \in Nat \ {0}
    PROVE  /\ Cardinality(Gated(r, i)) =
                  IF GateAllows(r, snippet[i]) THEN Cardinality(Gated(r, i - 1)) + 1
                  ELSE Cardinality(Gated(r, i - 1))
           /\ Cardinality(Mutations(r, i)) =
                  IF Mutates(r, i) THEN Cardinality(Mutations(r, i - 1)) + 1
                  ELSE Cardinality(Mutations(r, i - 1))
<1>1. 1..i = (1..(i - 1)) \cup {i} /\ i \notin 1..(i - 1) /\ i - 1 \in Int
    OBVIOUS
<1>2. Gated(r, i) = IF GateAllows(r, snippet[i]) THEN Gated(r, i - 1) \cup {i} ELSE Gated(r, i - 1)
    BY <1>1 DEF Gated
<1>3. Mutations(r, i) = IF Mutates(r, i) THEN Mutations(r, i - 1) \cup {i} ELSE Mutations(r, i - 1)
    BY <1>1 DEF Mutations
<1>4. i \notin Gated(r, i - 1) /\ i \notin Mutations(r, i - 1)
    BY <1>1 DEF Gated, Mutations
<1>5. IsFiniteSet(Gated(r, i - 1)) /\ IsFiniteSet(Mutations(r, i - 1))
    BY <1>1, CountsAreFinite
<1>6. /\ Cardinality(Gated(r, i - 1) \cup {i}) = Cardinality(Gated(r, i - 1)) + 1
      /\ Cardinality(Mutations(r, i - 1) \cup {i}) = Cardinality(Mutations(r, i - 1)) + 1
    BY <1>4, <1>5, FS_AddElement
<1>7. QED BY <1>2, <1>3, <1>6

\* A run with the same terms counts the same.
LEMMA SameTermsSameCounts ==
    ASSUME NEW s \in Runs, TypeOK, snippet' = snippet,
           run'[s].env = run[s].env, run'[s].policy = run[s].policy, run'[s].request = run[s].request,
           NEW n \in 0..Len(snippet)
    PROVE  Gated(s, n)' = Gated(s, n) /\ Mutations(s, n)' = Mutations(s, n)
<1>1. DOMAIN snippet = 1..Len(snippet) /\ Len(snippet) \in Nat
    BY SnippetDomain
<1>2. \A j \in 1..n : j \in DOMAIN snippet
    BY <1>1
<1>3. \A j \in DOMAIN snippet : GateAllows(s, snippet[j])' <=> GateAllows(s, snippet[j])
    BY SameTermsSameChecks
<1>4. Gated(s, n)' = Gated(s, n)
    BY <1>2, <1>3 DEF Gated
<1>5. \A j \in DOMAIN snippet : Gated(s, j - 1)' = Gated(s, j - 1)
    <2>1. TAKE j \in DOMAIN snippet
    <2>2. \A k \in 1..(j - 1) : k \in DOMAIN snippet
        BY <1>1
    <2>3. QED BY <1>3, <2>2 DEF Gated
<1>6. \A j \in DOMAIN snippet : Mutates(s, j)' <=> Mutates(s, j)
    BY <1>3, <1>5 DEF Mutates
<1>7. QED BY <1>2, <1>4, <1>6 DEF Mutations

\* Call i of run r is counted in this step.
Counted(r, i) ==
    call[r][i].pc = "new" /\ GateAllows(r, snippet[i]) /\ run[r].rpc < RpcLimit

\* What the steps of a call have in common, as far as ordinals go.
OrderedStep(r, i) ==
    /\ snippet' = snippet
    /\ \A s \in Runs : \A j \in DOMAIN snippet : s # r \/ j # i => call'[s][j] = call[s][j]
    /\ \A s \in Runs : s # r => run'[s] = run[s]
    /\ run'[r].env = run[r].env /\ run'[r].policy = run[r].policy /\ run'[r].request = run[r].request
    /\ call[r][i].pc # "ended" /\ call'[r][i].pc # "new"
    /\ call[r][i].pc = "new" => Makes(r, i)
    /\ run'[r].rpc = IF Counted(r, i) THEN run[r].rpc + 1 ELSE run[r].rpc
    /\ run'[r].ordinal = IF Counted(r, i) /\ snippet[i].op \notin ReadOps
                         THEN run[r].ordinal + 1 ELSE run[r].ordinal
    /\ call'[r][i].pc \in {"hashing", "claimed"} =>
           \/ /\ Counted(r, i) /\ snippet[i].op \notin ReadOps
              /\ call'[r][i].ordinal = run'[r].ordinal
           \/ call[r][i].pc = "hashing" /\ call'[r][i].ordinal = call[r][i].ordinal
    /\ call'[r][i].pc = "claimed" => call[r][i].pc = "hashing" /\ ledger[call[r][i].ordinal] = None
    /\ \A n \in DOMAIN snippet :
           \/ ledger'[n] = ledger[n] \/ ledger[n] = None
           \/ call[r][i].pc = "claimed" /\ call[r][i].ordinal = n
    /\ effects \subseteq effects' /\ effects' \subseteq effects \cup {<<r, i>>}
    /\ effects' # effects =>
           /\ call[r][i].pc = "claimed" /\ call'[r][i].pc = "ended"
           /\ ledger'[call[r][i].ordinal] # None

\* Such a step keeps the order: the next call takes the ordinal that its place in the
\* snippet gives it, and an effect spends the ordinal its call had claimed.
LEMMA OrderedStepKeeps ==
    ASSUME InOrder, IInv, OrderInv, IInv',
           NEW r \in Runs, NEW i \in DOMAIN snippet, OrderedStep(r, i)
    PROVE  OrderInv'
<1>1. TypeOK /\ DOMAIN snippet = 1..Len(snippet) /\ Len(snippet) \in Nat
    BY SnippetDomain DEF IInv
<1>2. /\ snippet' = snippet
      /\ \A s \in Runs : \A j \in DOMAIN snippet : s # r \/ j # i => call'[s][j] = call[s][j]
      /\ \A s \in Runs : s # r => run'[s] = run[s]
      /\ \A s \in Runs : /\ run'[s].env = run[s].env
                         /\ run'[s].policy = run[s].policy
                         /\ run'[s].request = run[s].request
    BY DEF OrderedStep
<1>3. \A s \in Runs : \A n \in 0..Len(snippet) :
          Gated(s, n)' = Gated(s, n) /\ Mutations(s, n)' = Mutations(s, n)
    BY <1>1, <1>2, SameTermsSameCounts
<1>4. \A s \in Runs : \A j \in DOMAIN snippet : OrdinalOf(s, j)' = OrdinalOf(s, j)
    BY <1>1, <1>3 DEF OrdinalOf
<1>5. run[r].rpc \in Nat /\ run[r].ordinal \in Nat /\ RpcLimit \in Nat
    BY <1>1, RunCodeAssumption DEF TypeOK, RunStates
<1>6. /\ call[r][i].pc = "new" => i \in 1..Len(snippet) /\ Made(r) = 1..(i - 1) /\ Made(r)' = 1..i
      /\ call[r][i].pc # "new" => Made(r)' = Made(r)
    <2>1. PICK n \in 0..Len(snippet) : Made(r) = 1..n
        BY DEF OrderInv, InProgramOrder
    <2>2. Made(r)' = Made(r) \cup {i}
        BY <1>2 DEF Made, OrderedStep
    <2>3. CASE call[r][i].pc = "new"
        <3>1. \A j \in 1..(i - 1) : call[r][j].pc # "new"
            BY <2>3 DEF OrderedStep, Makes
        <3>2. \A j \in 1..(i - 1) : j \in Made(r)
            BY <1>1, <3>1 DEF Made
        <3>3. i \notin Made(r)
            BY <2>3 DEF Made
        <3>4. n = i - 1
            BY <1>1, <2>1, <3>2, <3>3
        <3>5. QED BY <1>1, <2>1, <2>2, <2>3, <3>4
    <2>4. CASE call[r][i].pc # "new"
        BY <2>2, <2>4 DEF Made
    <2>5. QED BY <2>3, <2>4
<1>7. ASSUME call[r][i].pc = "new"
      PROVE  /\ run[r].ordinal = Cardinality(Mutations(r, i - 1))
             /\ run[r].rpc = IF Cardinality(Gated(r, i - 1)) < RpcLimit
                             THEN Cardinality(Gated(r, i - 1)) ELSE RpcLimit
             /\ Counted(r, i) /\ snippet[i].op \notin ReadOps <=> Mutates(r, i)
             /\ run'[r].ordinal = Cardinality(Mutations(r, i))
             /\ run'[r].rpc = IF Cardinality(Gated(r, i)) < RpcLimit
                              THEN Cardinality(Gated(r, i)) ELSE RpcLimit
    <2>1. PICK n \in 0..Len(snippet) :
              /\ Made(r) = 1..n
              /\ run[r].ordinal = Cardinality(Mutations(r, n))
              /\ run[r].rpc = IF Cardinality(Gated(r, n)) < RpcLimit THEN Cardinality(Gated(r, n)) ELSE RpcLimit
        BY DEF OrderInv, InProgramOrder
    <2>2. n = i - 1
        BY <1>6, <1>7, <2>1
    <2>3. Cardinality(Gated(r, i - 1)) \in Nat /\ Cardinality(Mutations(r, i - 1)) \in Nat
        BY <1>6, <1>7, CountsAreFinite
    <2>4. run[r].rpc < RpcLimit <=> Cardinality(Gated(r, i - 1)) < RpcLimit
        BY <1>5, <2>1, <2>2, <2>3
    <2>5. Counted(r, i) /\ snippet[i].op \notin ReadOps <=> Mutates(r, i)
        BY <1>7, <2>4 DEF Counted, Mutates
    <2>6. Counted(r, i) <=> GateAllows(r, snippet[i]) /\ run[r].rpc < RpcLimit
        BY <1>7 DEF Counted
    <2>7. /\ Cardinality(Gated(r, i)) =
                  IF GateAllows(r, snippet[i]) THEN Cardinality(Gated(r, i - 1)) + 1
                  ELSE Cardinality(Gated(r, i - 1))
          /\ Cardinality(Mutations(r, i)) =
                  IF Mutates(r, i) THEN Cardinality(Mutations(r, i - 1)) + 1
                  ELSE Cardinality(Mutations(r, i - 1))
        BY <1>6, <1>7, CountsGrow
    <2>8. /\ run'[r].rpc = IF Counted(r, i) THEN run[r].rpc + 1 ELSE run[r].rpc
          /\ run'[r].ordinal = IF Counted(r, i) /\ snippet[i].op \notin ReadOps
                               THEN run[r].ordinal + 1 ELSE run[r].ordinal
        BY DEF OrderedStep
    <2>9. run'[r].ordinal = Cardinality(Mutations(r, i))
        BY <2>1, <2>2, <2>5, <2>7, <2>8
    <2>10. run'[r].rpc = IF Cardinality(Gated(r, i)) < RpcLimit THEN Cardinality(Gated(r, i)) ELSE RpcLimit
        BY <1>5, <2>1, <2>2, <2>3, <2>4, <2>6, <2>7, <2>8
    <2>11. QED BY <2>1, <2>2, <2>5, <2>9, <2>10
<1>8. (\A s \in Runs : InProgramOrder(s))'
    <2>1. ASSUME NEW s \in Runs
          PROVE  InProgramOrder(s)'
        <3>1. PICK n \in 0..Len(snippet) :
                  /\ Made(s) = 1..n
                  /\ run[s].ordinal = Cardinality(Mutations(s, n))
                  /\ run[s].rpc = IF Cardinality(Gated(s, n)) < RpcLimit THEN Cardinality(Gated(s, n)) ELSE RpcLimit
            BY DEF OrderInv, InProgramOrder
        <3>2. CASE s # r
            <4>1. Made(s)' = Made(s) /\ run'[s] = run[s]
                BY <1>2, <3>2 DEF Made
            <4>2. QED BY <1>2, <1>3, <3>1, <4>1 DEF InProgramOrder
        <3>3. CASE s = r /\ call[r][i].pc # "new"
            <4>1. ~ Counted(r, i)
                BY <3>3 DEF Counted
            <4>2. run'[r].rpc = run[r].rpc /\ run'[r].ordinal = run[r].ordinal
                BY <4>1 DEF OrderedStep
            <4>3. QED BY <1>2, <1>3, <1>6, <3>1, <3>3, <4>2 DEF InProgramOrder
        <3>4. CASE s = r /\ call[r][i].pc = "new"
            <4>1. i \in 0..Len(snippet)
                BY <1>1
            <4>2. Gated(r, i)' = Gated(r, i) /\ Mutations(r, i)' = Mutations(r, i)
                BY <1>3, <4>1
            <4>3. QED BY <1>2, <1>6, <1>7, <3>4, <4>1, <4>2 DEF InProgramOrder
        <3>5. QED BY <3>2, <3>3, <3>4
    <2>2. QED BY <2>1
<1>9. (\A s \in Runs : \A j \in DOMAIN snippet : OrdinalFits(s, j))'
    <2>1. ASSUME NEW s \in Runs, NEW j \in DOMAIN snippet
          PROVE  OrdinalFits(s, j)'
        <3>1. OrdinalFits(s, j)
            BY DEF OrderInv
        <3>2. CASE s # r \/ j # i
            BY <1>2, <1>4, <3>1, <3>2 DEF OrdinalFits
        <3>3. CASE s = r /\ j = i
            <4>1. CASE call'[r][i].pc \in {"hashing", "claimed"} /\ call[r][i].pc = "hashing"
                BY <1>4, <3>1, <3>3, <4>1 DEF OrdinalFits, OrderedStep, Counted
            <4>2. CASE call'[r][i].pc \in {"hashing", "claimed"} /\ call[r][i].pc # "hashing"
                <5>1. Counted(r, i) /\ call'[r][i].ordinal = run'[r].ordinal
                    BY <4>2 DEF OrderedStep
                <5>2. call[r][i].pc = "new"
                    BY <5>1 DEF Counted
                <5>3. call'[r][i].ordinal = OrdinalOf(r, i)
                    BY <1>7, <5>1, <5>2 DEF OrdinalOf
                <5>4. QED BY <1>4, <3>3, <5>3 DEF OrdinalFits
            <4>3. QED BY <3>3, <4>1, <4>2 DEF OrdinalFits
        <3>4. QED BY <3>2, <3>3
    <2>2. QED BY <1>2, <2>1
<1>10. (\A x \in effects : Spent(x))'
    <2>1. effects \subseteq Runs \X DOMAIN snippet
        BY <1>1 DEF TypeOK
    <2>2. \A x \in effects' : \/ x \in effects
                              \/ /\ x = <<r, i>> /\ x \notin effects
                                 /\ call[r][i].pc = "claimed" /\ call'[r][i].pc = "ended"
                                 /\ ledger'[call[r][i].ordinal] # None
        BY DEF OrderedStep
    <2>3. ASSUME call[r][i].pc = "claimed"
          PROVE  /\ call[r][i].ordinal = OrdinalOf(r, i)
                 /\ call[r][i].ordinal \in DOMAIN snippet
        BY <2>3 DEF OrderInv, OrdinalFits, IInv, CallFits
    <2>4. ASSUME NEW x \in effects'
          PROVE  Spent(x)'
        <3> DEFINE n == OrdinalOf(x[1], x[2])
        <3>1. x[1] \in Runs /\ x[2] \in DOMAIN snippet /\ OrdinalOf(x[1], x[2])' = n
            BY <1>4, <2>1, <2>2
        <3>2. n \in DOMAIN snippet
            BY <2>2, <2>3 DEF OrderInv, Spent
        <3>3. ledger'[n] # None
            <4>1. CASE x \in effects
                <5>1. ledger[n] # None /\ ~ (call[r][i].pc = "claimed" /\ call[r][i].ordinal = n)
                    BY <4>1 DEF OrderInv, Spent
                <5>2. QED BY <3>2, <5>1 DEF OrderedStep
            <4>2. CASE x \notin effects
                BY <2>2, <2>3, <4>2
            <4>3. QED BY <4>1, <4>2
        <3>4. ASSUME NEW s \in Runs, NEW j \in DOMAIN snippet, call'[s][j].pc = "claimed"
              PROVE  call'[s][j].ordinal # n
            <4>1. CASE x \in effects /\ (s # r \/ j # i)
                BY <1>2, <3>4, <4>1 DEF OrderInv, Spent
            <4>2. CASE x \in effects /\ s = r /\ j = i
                <5>1. ledger[call[r][i].ordinal] = None /\ call'[r][i].ordinal = call[r][i].ordinal
                    BY <3>4, <4>2 DEF OrderedStep, Counted
                <5>2. ledger[n] # None
                    BY <4>2 DEF OrderInv, Spent
                <5>3. QED BY <4>2, <5>1, <5>2
            <4>3. CASE x \notin effects
                <5>1. /\ x = <<r, i>> /\ call[r][i].pc = "claimed" /\ call'[r][i].pc = "ended"
                      /\ n = call[r][i].ordinal
                    BY <2>2, <2>3, <4>3
                <5>2. s # r \/ j # i
                    BY <3>4, <5>1
                <5>3. call[s][j].pc = "claimed" /\ call[s][j].ordinal = call'[s][j].ordinal
                    BY <1>2, <3>4, <5>2
                <5>4. QED BY <5>1, <5>2, <5>3 DEF IInv, ClaimsApart
            <4>4. QED BY <4>1, <4>2, <4>3
        <3>5. ASSUME NEW y \in effects', OrdinalOf(y[1], y[2])' = n
              PROVE  x = y
            <4>1. OrdinalOf(y[1], y[2]) = n
                BY <1>4, <2>1, <2>2, <3>5
            <4>2. CASE x \in effects /\ y \in effects
                BY <4>1, <4>2 DEF OrderInv, Spent
            <4>3. CASE x \in effects /\ y \notin effects
                <5>1. call[r][i].pc = "claimed" /\ call[r][i].ordinal = n
                    BY <2>2, <2>3, <4>1, <4>3
                <5>2. QED BY <4>3, <5>1 DEF OrderInv, Spent
            <4>4. CASE x \notin effects /\ y \in effects
                <5>1. call[r][i].pc = "claimed" /\ call[r][i].ordinal = OrdinalOf(y[1], y[2])
                    BY <2>2, <2>3, <4>1, <4>4
                <5>2. QED BY <4>4, <5>1 DEF OrderInv, Spent
            <4>5. CASE x \notin effects /\ y \notin effects
                BY <2>2, <4>5
            <4>6. QED BY <4>2, <4>3, <4>4, <4>5
        <3> HIDE DEF n
        <3>6. QED BY <1>2, <3>1, <3>2, <3>3, <3>4, <3>5 DEF Spent
    <2>5. QED BY <2>4
<1>11. QED BY <1>8, <1>9, <1>10 DEF OrderInv

\* The end of a call counts nothing.
LEMMA EndKeepsOrder ==
    ASSUME InOrder, IInv, OrderInv, IInv', NEW r \in Runs, NEW i \in DOMAIN snippet,
           NEW code \in Codes, NEW shown \in {None} \cup SUBSET Fields,
           call[r][i].pc # "ended", call[r][i].pc = "new" => Makes(r, i) /\ ~ Counted(r, i),
           End(r, i, code, shown), UNCHANGED <<snippet, releases>>,
           \A n \in DOMAIN snippet :
               ledger'[n] = ledger[n] \/ (call[r][i].pc = "claimed" /\ call[r][i].ordinal = n),
           effects \subseteq effects', effects' \subseteq effects \cup {<<r, i>>},
           effects' # effects => call[r][i].pc = "claimed" /\ ledger'[call[r][i].ordinal] # None
    PROVE  OrderInv'
<1>1. call[r][i].pc = "new" => run[r].phase = "running"
    BY DEF Makes
<1>2. PICK c, q : /\ CallStep(r, i, c, q) /\ c.pc = "ended"
                  /\ q.rpc = run[r].rpc /\ q.ordinal = run[r].ordinal
    BY <1>1, EndIsStep
<1>3. /\ snippet' = snippet /\ call'[r][i] = c
      /\ \A s \in Runs : \A j \in DOMAIN snippet : s # r \/ j # i => call'[s][j] = call[s][j]
      /\ run'[r] = q
      /\ \A s \in Runs : s # r => run'[s] = run[s]
      /\ run'[r].env = run[r].env /\ run'[r].policy = run[r].policy /\ run'[r].request = run[r].request
    BY <1>2, StepFrame DEF IInv
<1>4. ~ Counted(r, i)
    BY DEF Counted
<1>5. OrderedStep(r, i)
    BY <1>2, <1>3, <1>4 DEF OrderedStep
<1>6. QED BY <1>5, OrderedStepKeeps

\* A refusal frees at most the ordinal of its own call, which was not carried out.
LEMMA RefusalKeepsOrder ==
    ASSUME InOrder, IInv, OrderInv, IInv', NEW r \in Runs, NEW i \in DOMAIN snippet,
           NEW code \in HostConditions \cup {"failed"},
           call[r][i].pc # "ended", call[r][i].pc = "new" => Makes(r, i) /\ ~ Counted(r, i),
           End(r, i, code, None), UNCHANGED <<snippet, releases, effects>>,
           \/ UNCHANGED ledger
           \/ /\ call[r][i].pc = "claimed"
              /\ ledger' = [ledger EXCEPT ![call[r][i].ordinal] = None]
    PROVE  OrderInv'
<1>1. code \in Codes /\ None \in {None} \cup SUBSET Fields
    BY DEF Codes, HostConditions
<1>2. ledger \in [DOMAIN snippet -> {None} \cup Records]
    BY DEF IInv, TypeOK
<1>3. \A n \in DOMAIN snippet :
          ledger'[n] = ledger[n] \/ (call[r][i].pc = "claimed" /\ call[r][i].ordinal = n)
    BY <1>2
<1>4. QED BY <1>1, <1>3, EndKeepsOrder

\* A read is counted and takes no ordinal.
LEMMA ReadKeepsOrder ==
    ASSUME InOrder, IInv, OrderInv, IInv', NEW r \in Runs, NEW i \in DOMAIN snippet, Read(r, i)
    PROVE  OrderInv'
<1> DEFINE reading == [call[r][i] EXCEPT !.pc = "reading"]
           counted == [run[r] EXCEPT !.rpc = @ + 1]
<1>1. /\ snippet[i].op \in ReadOps /\ Makes(r, i) /\ GateAllows(r, snippet[i])
      /\ run[r].rpc < RpcLimit
      /\ UNCHANGED <<snippet, releases, ledger, effects>>
    BY DEF Read
<1>2. /\ run \in [Runs -> RunStates] /\ call \in [Runs -> [DOMAIN snippet -> CallStates]]
      /\ run[r] \in RunStates /\ call[r][i] \in CallStates
    BY DEF IInv, TypeOK
<1>3. call[r][i].pc = "new" /\ Counted(r, i)
    BY <1>1 DEF Makes, Counted
<1>4. \E c, q : /\ call' = [call EXCEPT ![r][i] = c] /\ c.pc \in {"reading", "ended"}
                /\ run' = [run EXCEPT ![r] = q]
                /\ q.env = run[r].env /\ q.policy = run[r].policy /\ q.request = run[r].request
                /\ q.rpc = run[r].rpc + 1 /\ q.ordinal = run[r].ordinal
    <2>1. CASE /\ call' = [call EXCEPT ![r][i].pc = "reading"]
               /\ run' = [run EXCEPT ![r].rpc = @ + 1]
        <3>1. reading.pc = "reading"
            BY <1>2 DEF CallStates
        <3>2. /\ counted.env = run[r].env /\ counted.policy = run[r].policy
              /\ counted.request = run[r].request
              /\ counted.rpc = run[r].rpc + 1 /\ counted.ordinal = run[r].ordinal
            BY <1>2 DEF RunStates
        <3>3. call' = [call EXCEPT ![r][i] = reading] /\ run' = [run EXCEPT ![r] = counted]
            BY <2>1
        <3> HIDE DEF reading, counted
        <3>4. QED BY <3>1, <3>2, <3>3
    <2>2. CASE \E code \in IF QueryAllowed(r, snippet[i]) THEN {"budget_exceeded"} ELSE {"failed"} :
                   /\ call' = [call EXCEPT ![r][i] = Ended(@, code, None)]
                   /\ run' = [run EXCEPT ![r] =
                          [@ EXCEPT !.rpc = run[r].rpc + 1,
                                    !.signals = run[r].signals \cup ({code} \cap HostConditions)]]
        <3>1. PICK code \in {"budget_exceeded", "failed"} :
                  /\ call' = [call EXCEPT ![r][i] = Ended(@, code, None)]
                  /\ run' = [run EXCEPT ![r] =
                         [@ EXCEPT !.rpc = run[r].rpc + 1,
                                   !.signals = run[r].signals \cup ({code} \cap HostConditions)]]
            BY <2>2
        <3> DEFINE c == Ended(call[r][i], code, None)
                   signals == run[r].signals \cup ({code} \cap HostConditions)
                   rpc == run[r].rpc + 1
                   q == [run[r] EXCEPT !.rpc = rpc, !.signals = signals]
        <3>2. call' = [call EXCEPT ![r][i] = c] /\ run' = [run EXCEPT ![r] = q]
            BY <1>2, <3>1
        <3>3. c.pc = "ended"
            BY <1>2 DEF Ended, CallStates
        <3>5. rpc = run[r].rpc + 1
            OBVIOUS
        <3> HIDE DEF c, signals, rpc
        <3>4. /\ q.env = run[r].env /\ q.policy = run[r].policy /\ q.request = run[r].request
              /\ q.rpc = rpc /\ q.ordinal = run[r].ordinal
            BY <1>2 DEF RunStates
        <3> HIDE DEF q
        <3>6. QED BY <3>2, <3>3, <3>4, <3>5
    <2>3. QED BY <2>1, <2>2 DEF Read
<1>5. PICK c, q : /\ call' = [call EXCEPT ![r][i] = c] /\ c.pc \in {"reading", "ended"}
                  /\ run' = [run EXCEPT ![r] = q]
                  /\ q.env = run[r].env /\ q.policy = run[r].policy /\ q.request = run[r].request
                  /\ q.rpc = run[r].rpc + 1 /\ q.ordinal = run[r].ordinal
    BY <1>4
<1>6. /\ call'[r][i] = c
      /\ \A s \in Runs : \A j \in DOMAIN snippet : s # r \/ j # i => call'[s][j] = call[s][j]
      /\ run'[r] = q
      /\ \A s \in Runs : s # r => run'[s] = run[s]
    BY <1>2, <1>5
<1>7. OrderedStep(r, i)
    BY <1>1, <1>3, <1>5, <1>6 DEF OrderedStep
<1>8. QED BY <1>7, OrderedStepKeeps

\* A mutation is counted and takes the next ordinal.
LEMMA MutateKeepsOrder ==
    ASSUME InOrder, IInv, OrderInv, IInv', NEW r \in Runs, NEW i \in DOMAIN snippet, Mutate(r, i)
    PROVE  OrderInv'
<1> DEFINE n == run[r].ordinal + 1
           m == run[r].rpc + 1
           c == [call[r][i] EXCEPT !.pc = "hashing", !.ordinal = n]
           q == [run[r] EXCEPT !.rpc = m, !.ordinal = n]
<1>1. /\ snippet[i].op \notin ReadOps /\ Makes(r, i) /\ GateAllows(r, snippet[i])
      /\ run[r].rpc < RpcLimit
      /\ UNCHANGED <<snippet, releases, ledger, effects>>
      /\ call' = [call EXCEPT ![r][i] = [@ EXCEPT !.pc = "hashing", !.ordinal = run[r].ordinal + 1]]
      /\ run' = [run EXCEPT ![r] = [@ EXCEPT !.rpc = run[r].rpc + 1, !.ordinal = run[r].ordinal + 1]]
    BY DEF Mutate
<1>2. /\ run \in [Runs -> RunStates] /\ call \in [Runs -> [DOMAIN snippet -> CallStates]]
      /\ run[r] \in RunStates /\ call[r][i] \in CallStates
    BY DEF IInv, TypeOK
<1>3. call[r][i].pc = "new" /\ Counted(r, i)
    BY <1>1 DEF Makes, Counted
<1>4. call' = [call EXCEPT ![r][i] = c] /\ run' = [run EXCEPT ![r] = q]
    BY <1>1, <1>2
<1>5. n = run[r].ordinal + 1 /\ m = run[r].rpc + 1
    OBVIOUS
<1> HIDE DEF n, m
<1>6. c.pc = "hashing" /\ c.ordinal = n
    BY <1>2 DEF CallStates
<1>7. /\ q.env = run[r].env /\ q.policy = run[r].policy /\ q.request = run[r].request
      /\ q.rpc = m /\ q.ordinal = n
    BY <1>2 DEF RunStates
<1> HIDE DEF c, q
<1>8. /\ call'[r][i] = c
      /\ \A s \in Runs : \A j \in DOMAIN snippet : s # r \/ j # i => call'[s][j] = call[s][j]
      /\ run'[r] = q
      /\ \A s \in Runs : s # r => run'[s] = run[s]
    BY <1>2, <1>4
<1>9. OrderedStep(r, i)
    BY <1>1, <1>3, <1>5, <1>6, <1>7, <1>8 DEF OrderedStep
<1>10. QED BY <1>9, OrderedStepKeeps

\* A claim takes an ordinal that no effect has spent.
LEMMA ClaimKeepsOrder ==
    ASSUME InOrder, IInv, OrderInv, IInv', NEW r \in Runs, NEW i \in DOMAIN snippet, Claim(r, i)
    PROVE  OrderInv'
<1> DEFINE c == [call[r][i] EXCEPT !.pc = "claimed"]
<1>1. /\ call[r][i].pc = "hashing" /\ ledger[call[r][i].ordinal] = None
      /\ UNCHANGED <<snippet, releases, run, effects>>
      /\ call' = [call EXCEPT ![r][i].pc = "claimed"]
    BY DEF Claim, Guarded
<1>2. /\ call \in [Runs -> [DOMAIN snippet -> CallStates]] /\ call[r][i] \in CallStates
      /\ ledger \in [DOMAIN snippet -> {None} \cup Records]
    BY DEF IInv, TypeOK
<1>3. call' = [call EXCEPT ![r][i] = c] /\ c.pc = "claimed" /\ c.ordinal = call[r][i].ordinal
    BY <1>1, <1>2 DEF CallStates
<1> HIDE DEF c
<1>4. /\ call'[r][i] = c
      /\ \A s \in Runs : \A j \in DOMAIN snippet : s # r \/ j # i => call'[s][j] = call[s][j]
    BY <1>2, <1>3
<1>5. \A n \in DOMAIN snippet : ledger'[n] = ledger[n] \/ ledger[n] = None
    <2> DEFINE record == [status |-> "started", hash |-> RequestHash(r, i), result |-> None]
               k == call[r][i].ordinal
    <2>1. ledger' = [ledger EXCEPT ![k] = record] /\ ledger[k] = None
        BY DEF Claim
    <2> HIDE DEF record, k
    <2>2. QED BY <1>2, <2>1
<1>6. ~ Counted(r, i)
    BY <1>1 DEF Counted
<1>7. OrderedStep(r, i)
    BY <1>1, <1>3, <1>4, <1>5, <1>6 DEF OrderedStep
<1>8. QED BY <1>7, OrderedStepKeeps

\* The steps that end a call that is not carried out.
LEMMA EndingsKeepOrder ==
    ASSUME InOrder, IInv, OrderInv, IInv', NEW r \in Runs, NEW i \in DOMAIN snippet,
           \/ Denied(r, i) \/ OutOfCalls(r, i) \/ ReadReturns(r, i)
           \/ NotGuarded(r, i) \/ Replay(r, i) \/ Conflict(r, i)
           \/ NotCleared(r, i) \/ Rejected(r, i)
    PROVE  OrderInv'
<1>1. /\ run[r].rpc \in Nat /\ RpcLimit \in Nat /\ snippet[i] \in HostCalls
      /\ ledger \in [DOMAIN snippet -> {None} \cup Records]
      /\ CallFits(r, i)
    BY RunCodeAssumption DEF IInv, TypeOK, RunStates
<1>2. CASE Denied(r, i)
    BY <1>2, RefusalKeepsOrder DEF Denied, Makes, Counted
<1>3. CASE OutOfCalls(r, i)
    <2>1. Makes(r, i) /\ call[r][i].pc = "new" /\ ~ Counted(r, i)
        BY <1>1, <1>3 DEF OutOfCalls, Makes, Counted
    <2>2. "budget_exceeded" \in HostConditions
        BY DEF HostConditions
    <2>3. End(r, i, "budget_exceeded", None) /\ UNCHANGED <<snippet, releases, ledger, effects>>
        BY <1>3 DEF OutOfCalls
    <2>4. QED BY <2>1, <2>2, <2>3, RefusalKeepsOrder
<1>4. CASE ReadReturns(r, i)
    <2> DEFINE c == snippet[i]
               shown == IF c.op = "aggregate" /\ c.fields = None THEN {}
                        ELSE IF c.op = "aggregate" THEN c.fields
                        ELSE Masked(run[r].policy, c.table, c.fields)
    <2>1. call[r][i].pc = "reading" /\ UNCHANGED <<snippet, releases, ledger, effects>>
        BY <1>4 DEF ReadReturns
    <2>2. c.op \in ReadOps
        BY <1>1, <2>1 DEF CallFits
    <2>3. c.fields \in {None} \cup SUBSET Fields
        BY <1>1, <2>2 DEF HostCalls, ReadOps, FieldSets
    <2>4. shown \in {None} \cup SUBSET Fields
        BY <2>3 DEF Masked
    <2>5. CASE End(r, i, "ok", shown)
        <3> HIDE DEF shown
        <3>1. QED BY <2>1, <2>4, <2>5, EndKeepsOrder DEF Codes
    <2>6. CASE \E code \in HostConditions \cup {"failed"} : End(r, i, code, None)
        BY <2>1, <2>6, RefusalKeepsOrder
    <2>7. QED BY <1>4, <2>5, <2>6 DEF ReadReturns
<1>5. CASE NotGuarded(r, i)
    BY <1>5, RefusalKeepsOrder DEF NotGuarded
<1>6. CASE Replay(r, i)
    <2> DEFINE result == ledger[call[r][i].ordinal].result
    <2>1. /\ call[r][i].pc = "hashing" /\ ledger[call[r][i].ordinal] # None
          /\ UNCHANGED <<snippet, releases, ledger, effects>>
        BY <1>6 DEF Replay, Guarded
    <2>2. call[r][i].ordinal \in DOMAIN snippet
        BY <1>1, <2>1 DEF CallFits
    <2>3. result \in {None} \cup SUBSET Fields
        BY <1>1, <2>1, <2>2 DEF Records
    <2>4. \/ End(r, i, "ok", result) \/ End(r, i, "budget_exceeded", None) \/ End(r, i, "failed", None)
        BY <1>6 DEF Replay
    <2> HIDE DEF result
    <2>5. CASE End(r, i, "ok", result)
        BY <2>1, <2>3, <2>5, EndKeepsOrder DEF Codes
    <2>6. CASE End(r, i, "budget_exceeded", None)
        BY <2>1, <2>6, RefusalKeepsOrder DEF HostConditions
    <2>7. CASE End(r, i, "failed", None)
        BY <2>1, <2>7, RefusalKeepsOrder
    <2>8. QED BY <2>4, <2>5, <2>6, <2>7
<1>7. CASE Conflict(r, i)
    BY <1>7, RefusalKeepsOrder DEF Conflict, Guarded
<1>8. CASE NotCleared(r, i)
    <2>1. call[r][i].pc = "claimed" /\ UNCHANGED <<snippet, releases, effects>>
        BY <1>8 DEF NotCleared
    <2>2. PICK code \in HostConditions \cup {"failed"} :
              /\ End(r, i, code, None)
              /\ UNCHANGED ledger \/ ledger' = [ledger EXCEPT ![call[r][i].ordinal] = None]
        BY <1>8 DEF NotCleared
    <2>3. QED BY <2>1, <2>2, RefusalKeepsOrder
<1>9. CASE Rejected(r, i)
    <2>1. call[r][i].pc = "claimed" /\ UNCHANGED <<snippet, releases, effects>>
        BY <1>9 DEF Rejected, Sends
    <2>2. PICK code \in HostConditions \cup {"failed"} : End(r, i, code, None)
        BY <1>9 DEF Rejected
    <2>3. UNCHANGED ledger \/ ledger' = [ledger EXCEPT ![call[r][i].ordinal] = None]
        BY <1>9 DEF Rejected
    <2>4. QED BY <2>1, <2>2, <2>3, RefusalKeepsOrder
<1>10. QED BY <1>2, <1>3, <1>4, <1>5, <1>6, <1>7, <1>8, <1>9

\* A call that is carried out leaves its record in place.
LEMMA EffectsKeepOrder ==
    ASSUME InOrder, IInv, OrderInv, IInv', NEW r \in Runs, NEW i \in DOMAIN snippet,
           Applied(r, i) \/ Unknown(r, i)
    PROVE  OrderInv'
<1> DEFINE n == call[r][i].ordinal
           result == ResultOf(r, i)
           completed == [ledger[n] EXCEPT !.status = "completed", !.result = result]
           unknown == [ledger[n] EXCEPT !.status = "indeterminate"]
<1>1. /\ call[r][i].pc = "claimed" /\ UNCHANGED <<snippet, releases>>
      /\ effects \subseteq effects' /\ effects' \subseteq effects \cup {<<r, i>>}
    BY DEF Applied, Unknown, Sends
<1>2. /\ ledger \in [DOMAIN snippet -> {None} \cup Records]
      /\ n \in DOMAIN snippet /\ ledger[n] # None
    BY <1>1 DEF IInv, TypeOK, CallFits
<1>3. ledger[n] \in Records /\ result \in {None} \cup SUBSET Fields
    BY <1>2, ResultsShow
<1>4. \/ UNCHANGED ledger
      \/ ledger' = [ledger EXCEPT ![n] = completed]
      \/ ledger' = [ledger EXCEPT ![n] = unknown]
    BY <1>2 DEF Applied, Unknown
<1>5. PICK code \in Codes, shown \in {None, result} : End(r, i, code, shown)
    <2>1. "ok" \in Codes /\ "failed" \in Codes /\ "budget_exceeded" \in Codes
        BY DEF Codes, HostConditions
    <2>2. QED BY <2>1 DEF Applied, Unknown
<1> HIDE DEF result
<1>6. completed \in Records /\ unknown \in Records
    BY <1>3 DEF Records
<1> HIDE DEF completed, unknown
<1>7. completed # None /\ unknown # None
    BY <1>6, RecordAssumption
<1>8. \A k \in DOMAIN snippet : ledger'[k] = ledger[k] \/ (call[r][i].pc = "claimed" /\ call[r][i].ordinal = k)
    BY <1>1, <1>2, <1>4
<1>9. ledger'[n] # None
    <2> HIDE DEF n
    <2>1. QED BY <1>2, <1>4, <1>7
<1>10. shown \in {None} \cup SUBSET Fields
    BY <1>3, <1>5
<1>11. QED BY <1>1, <1>5, <1>8, <1>9, <1>10, EndKeepsOrder

\* A step of the runs alone keeps the order.
LEMMA RunsStepKeepsOrder ==
    ASSUME IInv, OrderInv, UNCHANGED <<snippet, call, ledger, effects>>,
           \A s \in Runs :
               /\ run'[s].rpc = run[s].rpc /\ run'[s].ordinal = run[s].ordinal
               /\ \/ Made(s) = {}
                  \/ /\ run'[s].env = run[s].env
                     /\ run'[s].policy = run[s].policy
                     /\ run'[s].request = run[s].request
    PROVE  OrderInv'
<1>1. TypeOK /\ DOMAIN snippet = 1..Len(snippet) /\ Len(snippet) \in Nat /\ RpcLimit \in Nat
    BY SnippetDomain, RunCodeAssumption DEF IInv
<1>2. \A s \in Runs : Made(s) # {} =>
          \A n \in 0..Len(snippet) : Gated(s, n)' = Gated(s, n) /\ Mutations(s, n)' = Mutations(s, n)
    BY <1>1, SameTermsSameCounts
<1>3. \A s \in Runs : Made(s) # {} => \A j \in DOMAIN snippet : OrdinalOf(s, j)' = OrdinalOf(s, j)
    BY <1>1, <1>2 DEF OrdinalOf
<1>4. (\A s \in Runs : InProgramOrder(s))'
    <2>1. ASSUME NEW s \in Runs
          PROVE  InProgramOrder(s)'
        <3>1. PICK n \in 0..Len(snippet) :
                  /\ Made(s) = 1..n
                  /\ run[s].ordinal = Cardinality(Mutations(s, n))
                  /\ run[s].rpc = IF Cardinality(Gated(s, n)) < RpcLimit THEN Cardinality(Gated(s, n)) ELSE RpcLimit
            BY DEF OrderInv, InProgramOrder
        <3>2. Made(s)' = Made(s)
            BY DEF Made
        <3>3. Gated(s, n)' = Gated(s, n) /\ Mutations(s, n)' = Mutations(s, n)
            <4>1. CASE Made(s) = {}
                <5>1. 1..n = {}
                    BY <3>1, <4>1
                <5>2. QED BY <5>1 DEF Gated, Mutations
            <4>2. CASE Made(s) # {}
                BY <1>2, <4>2
            <4>3. QED BY <4>1, <4>2
        <3>4. QED BY <3>1, <3>2, <3>3 DEF InProgramOrder
    <2>2. QED BY <2>1
<1>5. (\A s \in Runs : \A j \in DOMAIN snippet : OrdinalFits(s, j))'
    <2>1. ASSUME NEW s \in Runs, NEW j \in DOMAIN snippet
          PROVE  OrdinalFits(s, j)'
        <3>1. call[s][j].pc \in {"hashing", "claimed"} => Made(s) # {}
            BY DEF Made
        <3>2. OrdinalFits(s, j)
            BY DEF OrderInv
        <3>3. QED BY <1>3, <3>1, <3>2 DEF OrdinalFits
    <2>2. QED BY <2>1
<1>6. (\A x \in effects : Spent(x))'
    <2>1. \A x \in effects : OrdinalOf(x[1], x[2])' = OrdinalOf(x[1], x[2])
        <3>1. TAKE x \in effects
        <3>2. x[1] \in Runs /\ x[2] \in DOMAIN snippet /\ call[x[1]][x[2]].pc = "ended"
            BY <1>1 DEF TypeOK, IInv, EffectFits
        <3>3. Made(x[1]) # {}
            BY <3>2 DEF Made
        <3>4. QED BY <1>3, <3>2, <3>3
    <2>2. ASSUME NEW x \in effects
          PROVE  Spent(x)'
        <3>1. Spent(x)
            BY DEF OrderInv
        <3>2. QED BY <2>1, <3>1 DEF Spent
    <2>3. QED BY <2>2
<1>7. QED BY <1>4, <1>5, <1>6 DEF OrderInv

\* A release, a refusal, a submission, an answer and a stutter are such steps.
LEMMA RunsKeepOrder ==
    ASSUME IInv, OrderInv,
           \/ Deploy \/ UNCHANGED vars
           \/ \E r \in Runs :
                  \/ Refuse(r)
                  \/ \E w \in Requests : Submit(r, w)
                  \/ \E throws \in BOOLEAN : Finish(r, throws)
    PROVE  OrderInv'
<1>1. run \in [Runs -> RunStates] /\ \A r \in Runs : RunFits(r)
    BY DEF IInv, TypeOK
<1>2. UNCHANGED <<snippet, call, ledger, effects>>
    BY DEF Deploy, vars, Refuse, Submit, Finish
<1>3. CASE UNCHANGED run
    BY <1>2, <1>3, RunsStepKeepsOrder
<1>4. CASE \E r \in Runs : \E q :
               /\ run' = [run EXCEPT ![r] = q]
               /\ q.rpc = run[r].rpc /\ q.ordinal = run[r].ordinal
               /\ \/ Made(r) = {}
                  \/ q.env = run[r].env /\ q.policy = run[r].policy /\ q.request = run[r].request
    BY <1>1, <1>2, <1>4, RunsStepKeepsOrder
<1>5. ASSUME NEW r \in Runs, Refuse(r)
      PROVE  \E q : /\ run' = [run EXCEPT ![r] = q]
                    /\ q.rpc = run[r].rpc /\ q.ordinal = run[r].ordinal
                    /\ \/ Made(r) = {}
                       \/ q.env = run[r].env /\ q.policy = run[r].policy /\ q.request = run[r].request
    <2> DEFINE q == [run[r] EXCEPT !.phase = "refused"]
    <2>1. run' = [run EXCEPT ![r] = q]
        BY <1>1, <1>5 DEF Refuse
    <2>2. q.rpc = run[r].rpc /\ q.ordinal = run[r].ordinal /\ Made(r) = {}
        BY <1>1, <1>5 DEF RunStates, Refuse, RunFits
    <2> HIDE DEF q
    <2>3. QED BY <2>1, <2>2
<1>6. ASSUME NEW r \in Runs, NEW w \in Requests, Submit(r, w)
      PROVE  \E q : /\ run' = [run EXCEPT ![r] = q]
                    /\ q.rpc = run[r].rpc /\ q.ordinal = run[r].ordinal
                    /\ \/ Made(r) = {}
                       \/ q.env = run[r].env /\ q.policy = run[r].policy /\ q.request = run[r].request
    <2> DEFINE env == Head(releases)
               policy == PolicyOf(env)
               q == [run[r] EXCEPT !.phase = "running", !.env = env, !.policy = policy, !.request = w]
    <2>1. run' = [run EXCEPT ![r] = q]
        BY <1>6 DEF Submit
    <2>2. Made(r) = {}
        BY <1>1, <1>6 DEF Submit, RunFits
    <2> HIDE DEF env, policy
    <2>3. q.rpc = run[r].rpc /\ q.ordinal = run[r].ordinal
        BY <1>1 DEF RunStates
    <2> HIDE DEF q
    <2>4. QED BY <2>1, <2>2, <2>3
<1>7. ASSUME NEW r \in Runs, NEW throws \in BOOLEAN, Finish(r, throws)
      PROVE  \E q : /\ run' = [run EXCEPT ![r] = q]
                    /\ q.rpc = run[r].rpc /\ q.ordinal = run[r].ordinal
                    /\ \/ Made(r) = {}
                       \/ q.env = run[r].env /\ q.policy = run[r].policy /\ q.request = run[r].request
    <2> DEFINE code == IF "budget_exceeded" \in run[r].signals THEN "budget_exceeded"
                       ELSE IF "reauth_required" \in run[r].signals THEN "reauth_required"
                       ELSE IF throws THEN "run_error" ELSE "ok"
               q == [run[r] EXCEPT !.phase = "answered", !.answer = code]
    <2>1. run' = [run EXCEPT ![r] = q]
        BY <1>1, <1>7 DEF Finish
    <2> HIDE DEF code
    <2>2. /\ q.rpc = run[r].rpc /\ q.ordinal = run[r].ordinal
          /\ q.env = run[r].env /\ q.policy = run[r].policy /\ q.request = run[r].request
        BY <1>1 DEF RunStates
    <2> HIDE DEF q
    <2>3. QED BY <2>1, <2>2
<1>8. CASE Deploy \/ UNCHANGED vars
    BY <1>3, <1>8 DEF Deploy, vars
<1>9. QED BY <1>4, <1>5, <1>6, <1>7, <1>8

\* Of the calls an eviction ends, each that was claimed leaves its record in place.
LEMMA DieKeepsOrder ==
    ASSUME IInv, OrderInv, IInv', NEW r \in Runs, Die(r)
    PROVE  OrderInv'
<1> DEFINE calls == [i \in DOMAIN snippet |->
                        IF i \in Pending(r) THEN Ended(call[r][i], "failed", None) ELSE call[r][i]]
           phase == IF run[r].phase = "running" THEN "dead" ELSE run[r].phase
           q == [run[r] EXCEPT !.phase = phase]
<1>1. /\ run' = [run EXCEPT ![r].phase = IF @ = "running" THEN "dead" ELSE @]
      /\ call' = [call EXCEPT ![r] = calls]
      /\ UNCHANGED <<snippet, releases, ledger>>
    BY DEF Die
<1>2. PICK done \in SUBSET {<<r, i>> : i \in {j \in Pending(r) : Sends(r, j)}} :
          effects' = effects \cup done
    BY DEF Die
<1>3. /\ TypeOK /\ run \in [Runs -> RunStates] /\ call \in [Runs -> [DOMAIN snippet -> CallStates]]
      /\ run[r] \in RunStates
      /\ effects \subseteq Runs \X DOMAIN snippet
      /\ DOMAIN snippet = 1..Len(snippet) /\ Len(snippet) \in Nat
    BY SnippetDomain DEF IInv, TypeOK
<1>4. run' = [run EXCEPT ![r] = q]
    BY <1>1, <1>3
<1> HIDE DEF phase
<1>5. /\ q.env = run[r].env /\ q.policy = run[r].policy /\ q.request = run[r].request
      /\ q.rpc = run[r].rpc /\ q.ordinal = run[r].ordinal
    BY <1>3 DEF RunStates
<1> HIDE DEF q
<1>6. \A s \in Runs : /\ run'[s].env = run[s].env
                      /\ run'[s].policy = run[s].policy
                      /\ run'[s].request = run[s].request
                      /\ run'[s].rpc = run[s].rpc /\ run'[s].ordinal = run[s].ordinal
    BY <1>3, <1>4, <1>5
<1>7. \A i \in DOMAIN snippet :
          IF i \in Pending(r) THEN calls[i].pc = "ended" ELSE calls[i] = call[r][i]
    <2>1. ASSUME NEW c \in CallStates
          PROVE  Ended(c, "failed", None).pc = "ended"
        BY DEF Ended, CallStates
    <2>2. QED BY <1>3, <2>1
<1> HIDE DEF calls
<1>8. \A s \in Runs : \A j \in DOMAIN snippet :
          IF s = r /\ j \in Pending(r) THEN call'[s][j].pc = "ended" ELSE call'[s][j] = call[s][j]
    BY <1>1, <1>3, <1>7
<1>9. \A s \in Runs : \A n \in 0..Len(snippet) :
          Gated(s, n)' = Gated(s, n) /\ Mutations(s, n)' = Mutations(s, n)
    BY <1>1, <1>3, <1>6, SameTermsSameCounts
<1>10. \A s \in Runs : \A j \in DOMAIN snippet : OrdinalOf(s, j)' = OrdinalOf(s, j)
    BY <1>3, <1>9 DEF OrdinalOf
<1>11. \A s \in Runs : Made(s)' = Made(s)
    BY <1>1, <1>8 DEF Made, Pending
<1>12. (\A s \in Runs : InProgramOrder(s))'
    <2>1. ASSUME NEW s \in Runs
          PROVE  InProgramOrder(s)'
        <3>1. InProgramOrder(s)
            BY DEF OrderInv
        <3>2. QED BY <1>1, <1>6, <1>9, <1>11, <3>1 DEF InProgramOrder
    <2>2. QED BY <2>1
<1>13. (\A s \in Runs : \A j \in DOMAIN snippet : OrdinalFits(s, j))'
    <2>1. ASSUME NEW s \in Runs, NEW j \in DOMAIN snippet
          PROVE  OrdinalFits(s, j)'
        <3>1. OrdinalFits(s, j)
            BY DEF OrderInv
        <3>2. QED BY <1>8, <1>10, <3>1 DEF OrdinalFits
    <2>2. QED BY <1>1, <2>1
<1>14. \A s \in Runs : \A j \in DOMAIN snippet :
           call'[s][j].pc = "claimed" =>
               call'[s][j] = call[s][j] /\ ~ (s = r /\ j \in Pending(r))
    BY <1>8
<1>15. \A x \in effects' :
           \/ x \in effects
           \/ /\ x[1] = r /\ x[2] \in Pending(r) /\ x = <<x[1], x[2]>>
              /\ call[r][x[2]].pc = "claimed" /\ x[2] \in DOMAIN snippet
    BY <1>2 DEF Sends, Pending
<1>16. ASSUME NEW j \in DOMAIN snippet, call[r][j].pc = "claimed"
       PROVE  /\ call[r][j].ordinal = OrdinalOf(r, j)
              /\ OrdinalOf(r, j) \in DOMAIN snippet
              /\ ledger[OrdinalOf(r, j)] # None
    <2>1. call[r][j].ordinal = OrdinalOf(r, j)
        BY <1>16 DEF OrderInv, OrdinalFits
    <2>2. QED BY <1>16, <2>1 DEF IInv, CallFits
<1>17. (\A x \in effects : Spent(x))'
    <2>1. ASSUME NEW x \in effects'
          PROVE  Spent(x)'
        <3> DEFINE n == OrdinalOf(x[1], x[2])
        <3>1. x[1] \in Runs /\ x[2] \in DOMAIN snippet /\ OrdinalOf(x[1], x[2])' = n
            BY <1>3, <1>10, <1>15
        <3>2. n \in DOMAIN snippet /\ ledger[n] # None
            BY <1>15, <1>16 DEF OrderInv, Spent
        <3>3. ASSUME NEW s \in Runs, NEW j \in DOMAIN snippet, call'[s][j].pc = "claimed"
              PROVE  call'[s][j].ordinal # n
            <4>1. call[s][j].pc = "claimed" /\ call'[s][j].ordinal = call[s][j].ordinal
                  /\ ~ (s = r /\ j \in Pending(r))
                BY <1>14, <3>3
            <4>2. CASE x \in effects
                BY <4>1, <4>2 DEF OrderInv, Spent
            <4>3. CASE x \notin effects
                <5>1. x[1] = r /\ x[2] \in Pending(r) /\ call[r][x[2]].pc = "claimed" /\ call[r][x[2]].ordinal = n
                    BY <1>15, <1>16, <4>3
                <5>2. s # r \/ j # x[2]
                    BY <4>1, <5>1
                <5>3. QED BY <3>1, <4>1, <5>1, <5>2 DEF IInv, ClaimsApart
            <4>4. QED BY <4>2, <4>3
        <3>4. ASSUME NEW y \in effects', OrdinalOf(y[1], y[2])' = n
              PROVE  x = y
            <4>1. y[1] \in Runs /\ y[2] \in DOMAIN snippet /\ OrdinalOf(y[1], y[2]) = n
                BY <1>3, <1>10, <1>15, <3>4
            <4>2. CASE x \in effects /\ y \in effects
                BY <4>1, <4>2 DEF OrderInv, Spent
            <4>3. CASE x \in effects /\ y \notin effects
                <5>1. call[r][y[2]].pc = "claimed" /\ call[r][y[2]].ordinal = n
                    BY <1>15, <1>16, <4>1, <4>3
                <5>2. r \in Runs /\ y[2] \in DOMAIN snippet
                    BY <4>1
                <5>3. QED BY <4>3, <5>1, <5>2 DEF OrderInv, Spent
            <4>4. CASE x \notin effects /\ y \in effects
                <5>1. /\ call[r][x[2]].pc = "claimed"
                      /\ call[r][x[2]].ordinal = OrdinalOf(y[1], y[2])
                    BY <1>15, <1>16, <4>1, <4>4
                <5>2. r \in Runs /\ x[2] \in DOMAIN snippet
                    BY <3>1
                <5>3. QED BY <4>4, <5>1, <5>2 DEF OrderInv, Spent
            <4>5. CASE x \notin effects /\ y \notin effects
                <5>1. /\ call[r][x[2]].pc = "claimed" /\ call[r][x[2]].ordinal = n
                      /\ call[r][y[2]].pc = "claimed" /\ call[r][y[2]].ordinal = n
                      /\ x = <<r, x[2]>> /\ y = <<r, y[2]>>
                    BY <1>15, <1>16, <4>1, <4>5
                <5>2. x[2] = y[2]
                    BY <3>1, <4>1, <5>1 DEF IInv, ClaimsApart
                <5>3. QED BY <5>1, <5>2
            <4>6. QED BY <4>2, <4>3, <4>4, <4>5
        <3> HIDE DEF n
        <3>5. QED BY <1>1, <3>1, <3>2, <3>3, <3>4 DEF Spent
    <2>2. QED BY <2>1
<1>18. QED BY <1>12, <1>13, <1>17 DEF OrderInv

\* The order holds at the start.
LEMMA InitOrdered ==
    ASSUME Init
    PROVE  OrderInv
<1>1. /\ run = [r \in Runs |-> NewRun] /\ NewRun.rpc = 0 /\ NewRun.ordinal = 0
      /\ call = [r \in Runs |-> [i \in DOMAIN snippet |-> NewCall]] /\ NewCall.pc = "new"
      /\ effects = {}
    BY DEF Init, NewRun, NewCall
<1>2. snippet \in Seq(HostCalls) /\ 0 \in 0..Len(snippet) /\ RpcLimit \in Nat
    BY RunCodeAssumption DEF Init
<1>3. ASSUME NEW r \in Runs
      PROVE  InProgramOrder(r)
    <2>1. Made(r) = 1..0
        BY <1>1 DEF Made
    <2>2. Gated(r, 0) = {} /\ Mutations(r, 0) = {}
        BY DEF Gated, Mutations
    <2>3. Cardinality(Gated(r, 0)) = 0 /\ Cardinality(Mutations(r, 0)) = 0
        BY <2>2, FS_EmptySet
    <2>4. QED BY <1>1, <1>2, <2>1, <2>3 DEF InProgramOrder
<1>4. QED BY <1>1, <1>3 DEF OrderInv, OrdinalFits

\* Every step keeps it.
LEMMA NextKeepsOrder ==
    ASSUME InOrder, IInv, OrderInv, IInv', [Next]_vars
    PROVE  OrderInv'
<1>1. CASE \/ Deploy \/ UNCHANGED vars
           \/ \E r \in Runs :
                  \/ Refuse(r)
                  \/ \E w \in Requests : Submit(r, w)
                  \/ \E throws \in BOOLEAN : Finish(r, throws)
    BY <1>1, RunsKeepOrder
<1>2. CASE \E r \in Runs : Die(r)
    BY <1>2, DieKeepsOrder
<1>3. CASE \E r \in Runs : \E i \in DOMAIN snippet : Read(r, i) \/ Mutate(r, i) \/ Claim(r, i)
    BY <1>3, ReadKeepsOrder, MutateKeepsOrder, ClaimKeepsOrder
<1>4. CASE \E r \in Runs : \E i \in DOMAIN snippet :
               \/ Denied(r, i) \/ OutOfCalls(r, i) \/ ReadReturns(r, i)
               \/ NotGuarded(r, i) \/ Replay(r, i) \/ Conflict(r, i)
               \/ NotCleared(r, i) \/ Rejected(r, i)
    BY <1>4, EndingsKeepOrder
<1>5. CASE \E r \in Runs : \E i \in DOMAIN snippet : Applied(r, i) \/ Unknown(r, i)
    BY <1>5, EffectsKeepOrder
<1>6. QED BY <1>1, <1>2, <1>3, <1>4, <1>5 DEF Next

\* A snippet that makes its calls in program order, retried in the same mode under the
\* same policy, has no call carried out twice while the ledger retains its records
\* (sn/rpc.ts:389, sn/mutation-guard.ts:278).
THEOREM SameTermsTheorem == ASSUME InOrder PROVE Spec => []SameTermsApplyOnce
<1>1. Init => OrderInv
    BY InitOrdered
<1>2. IInv /\ IInv' /\ OrderInv /\ [Next]_vars => OrderInv'
    BY NextKeepsOrder
<1>3. OrderInv => SameTermsApplyOnce
    <2>1. ASSUME NEW r, NEW s, ModeOf(r) = ModeOf(s), run[r].policy = run[s].policy
          PROVE  \A i : OrdinalOf(r, i) = OrdinalOf(s, i)
        <3>1. \A i : GateAllows(r, snippet[i]) <=> GateAllows(s, snippet[i])
            BY <2>1 DEF GateAllows, PolicyAllows
        <3>2. \A i : Gated(r, i - 1) = Gated(s, i - 1)
            BY <3>1 DEF Gated
        <3>3. \A i : Mutates(r, i) <=> Mutates(s, i)
            BY <3>1, <3>2 DEF Mutates
        <3>4. QED BY <3>3 DEF OrdinalOf, Mutations
    <2>2. ASSUME OrderInv, NEW x \in effects, NEW y \in effects, x[2] = y[2],
                 ModeOf(x[1]) = ModeOf(y[1]), run[x[1]].policy = run[y[1]].policy
          PROVE  x = y
        <3>1. OrdinalOf(y[1], y[2]) = OrdinalOf(x[1], x[2])
            BY <2>1, <2>2
        <3>2. QED BY <2>2, <3>1 DEF OrderInv, Spent
    <2>3. QED BY <2>2 DEF SameTermsApplyOnce
<1>4. QED BY <1>1, <1>2, <1>3, RunCodeInvariant, PTL DEF Spec
=============================================================================
