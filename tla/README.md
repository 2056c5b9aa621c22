# Verification of the ServiceNow Code Mode MCP server

TLA+ models, model checking runs and machine-checked proofs of the server's
own logic: what it stores, in which order it acts, and what happens when calls
race, get lost, come late or die half way. All paths below without a prefix are
under `packages/mcp-server/src/` of the repository.

1. [The system](#1-the-system): inventory of parts, state and hazards
2. [Plan](#2-plan): modules, order, what is done and what is left
3. [Modules](#3-modules): how state and actions correspond to the code
4. [Runs](#4-runs): what each checks, its bounds, and why they are enough
5. [Divergences](#5-where-code-and-comments-disagree)
6. [Fairness](#6-fairness)
7. [Proofs](#7-proofs)
8. [Only model-checked, and not modelled](#8-what-is-only-model-checked-and-what-is-not-modelled)

Run `tlc -config X.cfg M` for a run of the table in section 4 and `tlapm M.tla`
for a proof module of section 7.

## 1. The system

A Cloudflare Worker serves MCP tools to authenticated users. Its main tool,
`run_code`, runs a TypeScript snippet in a fresh sandbox Worker; the snippet
calls back into the host over RPC, and the host calls ServiceNow for it, as a
shared integration user or as the user's own linked account. State lives in
Durable Objects (one single-threaded object per name, with input gates and an
alarm), in KV stores, in the memory of an isolate, and in tables on the
ServiceNow instance.

| Part | State it keeps | Operations | Talks to |
|---|---|---|---|
| Mutation ledger (`do/mutation-ledger.ts`) | one record per user, instance, key and ordinal; an alarm | begin, complete, fail, markIndeterminate, alarm | guard (RPC calls) |
| Mutation guard (`sn/mutation-guard.ts`, effects in `sn/rpc.ts`) | a call's progress; audit rows; snapshots | guardMutation for tableUpdate, runServerScript | ledger, AUDIT_KV, snapshot KV, ServiceNow |
| Executor application (`sn-executor-app/`) | nonce, claim and audit tables on the instance | the REST endpoint, the verifier, the purge job | Worker (signed POST), instance |
| Admission (`do/mcp-admission.ts`, `index.ts`) | window counter and lease map per user; a lease held by each response | admit, renew, release; renewal loop | Worker, client stream |
| Budgets (`do/budget.ts`, `sn/run-budget.ts`) | counters of one UTC day, global and per user; counters of a run | reserve, reconcile, increment; count* | run_code, discovery, callback |
| Tokens (`auth/servicenow-oauth.ts`, `auth/token-store.ts`, `do/token-store.ts`, `auth/crypto.ts`) | one sealed bundle per user and instance; key ring in the environment | bearer reuse, refresh, ROPC mint, principal resolution | ServiceNow OAuth, requests |
| Link flow (`auth/servicenow-callback-handler.ts`, `auth/servicenow-ticket.ts`, `do/auth-correlation.ts`) | ticket nonce, OAuth state record, alarm | authorize, callback, cleanup | browser, ServiceNow, token slot |
| Operator sign-in (`auth/servicenow-auth-handler.ts`, `auth/oidc.ts`) | OIDC state and consent records, consent entries in KV, a cookie; grants and tokens of the OAuth provider | authorize, callback, consent, token exchange | browser, identity provider, OAuth provider |
| Consent rate (`do/consent-rate.ts`) | windows per source address, in memory | allow | authorize handlers |
| Policy (`authz/`) | none (environment documents) | effective mode, table and field grants, approvals | RPC, run_code, discovery |
| Posture (`authz/production-posture-core.ts`, called in `index.ts`) | a verdict per isolate | collectPostureViolations, assertProductionPostureOnce | entry of `/mcp` and of sign-in |
| Schema cache (`cache/schema.ts`), discovery (`sn/discovery.ts`, `tools/handlers.ts`) | KV entries, in-flight misses of an isolate | describe_table, list_tables | token slot, budgets, ServiceNow |
| run_code (`tools/run_code.ts`), RPC (`sn/rpc.ts`) | host signals, run budget, ordinal counter | one run | all of the above |
| Sandbox, serialisation, redaction, origin guard, tool registration | none | text in, text out | |

What makes each part correct, and what is hard about it:

- **Guard and ledger.** A mutation under one idempotency key is carried out at
  most once, a success that is reported was carried out, an unknown outcome
  blocks the key. Hard: the isolate may be evicted at any `await`; ledger calls
  and effect requests may be lost or arrive after the caller gave up; replies
  are ambiguous; records expire and are renewed.
- **Executor.** A signed request runs its script once, however often and late
  it arrives; a rejection ran nothing; audit rows tell the truth. Hard:
  parallel transactions, a stalled one next to the purge job, quota kills.
- **Admission.** Never more than the permitted leases, none leaks for ever, no
  stream is cut for a renewal that fails at once. Hard: lost, slow and late
  renewals, dead isolates, clocks of the callers.
- **Budgets.** The day's cap bounds what is really sent; the books balance or
  err on the safe side. Hard: concurrent runs, midnight, lost reconciliations,
  host calls that outlive a run.
- **Tokens.** A request signs as the account whose bearer it uses; roles are
  recent; nobody signs in again for nothing. Hard: interleaved reads and
  unconditional writes of one slot, role reads that fail, key rotation, a change of mode.
- **Link flow.** One flow per ticket, one callback per state, and an account
  linked to its own user. Hard: double visits, expiry at the boundary, alarms.
- **Consent rate.** Every write counts, and a source is denied only for its own
  writes. Hard: eviction, restarts, window boundaries.
- **Operator sign-in.** A flow gives one grant, to its signer, in its browser; a
  token has no authority the groups did not give lately. Hard: repeated and
  crossed callbacks and posts, three stores consumed one after the other,
  groups that change meanwhile, the order of the groups.
- **run_code and policy.** What a run carries out or shows is what its own
  environment allows; a retry under one key repeats nothing on the same terms; a
  success is that call's; the answer attests what the host met. Hard: ordinals
  that shift between retries, replays across releases, calls that race or
  outlive the answer.
- **Schema cache, discovery.** Nobody is shown what the own policy hides or what
  another account sees; a list that misses tables says so; a shared miss goes
  when its leader does. Hard: an identity resolved before the read, or from a role
  read that failed, entries that outlive releases and policies, failures that many
  callers share, pages cut at a cap in each chunk before rows are hidden.
- **Posture.** A production release that serves a request at all has the gates
  production promises. Hard: the posture and the request path parse the same
  texts with code of their own; grants outlive the release that issued them.

`PROJECT.json` lists every part with its status, and each hazard at its line
with the properties that cover it.

## 2. Plan

Order: what may damage data first, then what may run twice, then limits, then
identity, then the rest.

| # | Module | Abstract view or composition | Status |
|---|---|---|---|
| 1 | `LedgerRecord`, `MutationLedger` | operators shared by 1 and 2 | checked; 3 theorems |
| 2 | `EffectErrors`, `MutationGuard` (ledger + guard + audit + snapshots + ServiceNow) | refines `EffectOnce` | checked; 7 theorems, the refinement among them |
| 3 | `Executor` | | checked; 3 theorems |
| 4 | `Admission` (object + Worker) | | checked; 4 theorems |
| 5 | `DailyBudget` (day objects + runs) | | checked; 5 theorems |
| 6 | `ServiceNowToken` (slot + requests + links) | | checked; 4 theorems |
| 7 | `OneTimeRecord`, `LinkFlow` | 7 and 9 share the record | checked; 3 theorems |
| 8 | `ConsentRate` | an instance of it in 9 | checked and proved with 9 |
| 9 | `SignIn` over `OneTimeRecord` | composes with `ConsentRate` | checked; 5 theorems |
| 10 | `RunCode`: request, policy, host calls, signals, retries over releases | takes a mutation as 2 shows it | checked; 5 theorems |
| 11 | `Posture`: the settings of a release, read twice | operators of 12 | checked with 12 |
| 12 | `Discovery`: gate, grant, policy, schema cache, reads | composes with `Posture` | checked; 6 theorems |

Every safety property that a run checks is now a theorem. Left to prove: that the
guard's scripts satisfy the properties of section 7 when no script throws a
reserved text, and that `MutationGuard`'s ledger steps are `MutationLedger`'s, as
a refinement.

## 3. Modules

Every module abstracts data to what its properties tell apart (a hash, a
bundle or a message is a model value or a small record) and keeps control: one
step per stretch of code between two awaits, with the code's guards, early
returns and error paths. Time is a count of ticks. `MC*` modules only give
constants their values and a symmetry.

### LedgerRecord, MutationLedger

`rec` is the stored record with its age as a remaining lifetime `ttl`, `alarm`
the time to the object's alarm. `Live(rec)` is `normalizeLedgerRecord`
(`do/mutation-ledger.ts:42-85`): expired unresolved records are renewed, expired
settled ones dropped, legacy ones given an expiry and a wrapped result. `Begin`,
`Complete`, `Fail`, `MarkIndeterminate` and `Alarm` are the methods, each with
the alarm it sets. Initial states include the records an older release may have
left. Whether a result is in the replay wrapper is the bit `wrapped`.

### EffectErrors, MutationGuard, EffectOnce

`EffectErrors` is the table from what comes back of an effect request to the
typed error (`mapHttpError`, the fetch client, `isPostSendUnknown`).
`MutationGuard` has any number of attempts (calls of `guardMutation` under one
key and ordinal). `pc` is the await an attempt is at, `wire` what became of its
request at ServiceNow, `reply` what came back, `audit`, `snap` its rows,
`answer` what the caller was told, `late` the ledger calls a caller gave up on
and which may still arrive. `lapsed` holds attempts whose stored result has
expired: the key may rightly be used again. `Die` is an evicted isolate.
`EffectOnce` is the promise: a register that at most one effect holds at a time,
and answers only from it.

### Executor

`pc`, `of` are a transaction's progress and request; `age` the time since a
request was signed (negative when the signer's clock is ahead), `nonces`,
`claims` the rows with their age, `runs` the transactions that ran a request's
script. The two toggles of wrapper and core are one; key material is a member of
`Keys`. `Kill` is the transaction quota.

### Admission

The object is `window` and `leases`; a slot is one response with its renewal
loop. `lag` is the difference of the callers' clocks, which the object receives
as an argument: a renewal that carries an older time renews for less. `Renew` is
the object's part of a renewal; its answer is heard (`HearRenewed`) or not
(`AnswerIsLost`). Two histories serve `LossHasACause`: `failed`, the renewals in a row
that did not put the lease back, and `late`, the ticks since it was put back that the
Worker did not spend waiting for its next renewal: before the body began to stream, on
calls and answers under way, and by its clock. `Slack` is what a lease has beyond two
renewals, 75 s - 2 * 30 s, one tick.

### DailyBudget

`count[day]`, `tally[day][user]` are the day object's counters, `used[run]` the
meter of a run, `open[run]` its host calls that have not returned. Two histories
serve the properties: `spent` is what a run really used on each day, `report`
the meter its reconciliation read. `bytesReturned` is treated as `rowsReturned`
is, and left out. `Midnight` moves the date under a run, as `utcDateKey()` does.
Host calls that a snippet did not await go on after `RunEnds` and `Reconcile`.
`Orderly` names the histories in which no run met midnight and none used more
after its report: the cap and the failing-closed property are claimed of those
only, `RunWithinLimits` of all.

### ServiceNowToken

The `slot` of one user: a bundle with its owner, lifetime, principal and the key
it is sealed under. `deploy` is the environment a deployment runs with (mode,
current and previous key); a request keeps the one it started with. `Request`
steps follow `preflightAuth`, `getServiceNowBearer`, `resolveStoredSnPrincipal`
and the signing; `Callback` steps follow the link. In the runs refresh tokens do not rotate
(the code carries the old one forward, B9). An address of the identity provider
belongs to one ServiceNow account. `DropPreviousKek` follows the procedure of
`docs/RECOVERY.md`, so that a key dropped too early is not among the causes
`ReauthHasACause` is checked against. A role read (`ReadRoles`) gives the roles of that time, or,
where it is redirected, refused or not JSON, none (`None`), and the principal counts
as fresh either way (`auth/servicenow-oauth.ts:234-239`). `unread` is the history of
when a read last came back without them. With `OneChange`, as in the runs, what changes around the
requests changes in one way per instance (`OnlyChange`): the roles, whether they can be
read, the key ring, or, once, the mode. The proofs need no such bound.

### OneTimeRecord, LinkFlow

`OneTimeRecord` is the consume-once record with its alarm that the correlation
object keeps under each of its keys. `LinkFlow` has tickets, visits of
`/servicenow/authorize` and callbacks; `nonce[t]` and `state[v]` are the objects,
`linked` the account in a user's slot. Which account a browser signs in with at
ServiceNow is free: only the binding check can refuse it.

### ConsentRate

`windows` is the Map in insertion order. `Restart` is the loss of the object's
memory. Callers share one clock. A denial changes no state. `Pruned` keeps the live
windows by their rank, and the history of a source its last `MaxPerWindow` + 1 writes.

### SignIn

`flow[f]` is one flow as browsers and identity provider see it: who started it,
whether that browser holds its cookie, who was shown its page, who signed in
for it, whether its code is spent. `state[f]`, `consent[f]` are the correlation
object's records (`OneTimeRecord`), `entry[f]` the entry in `OAUTH_KV`,
`callback` and `post` the requests, each at one of its awaits, `grant` and
`tokens` what the OAuth provider keeps. The nonce, the code and the state of a
flow are named after it, since each is random; a code may still meet another
flow's state. The properties of a grant are derived with the group lists of the
directory in the order the identity provider gives them (`BestGroupPolicy` is
the loop over that list, with its ambiguity). KV reads and deletes are
linearizable but not one step: the entry is read, the secret checked, the entry
deleted. The rate limit is an instance of `ConsentRate` in which every browser
is a source. `Prompt` keeps a tick out of the two places where a request waits
for storage alone, which takes milliseconds against minutes; without it the
bound of `AuthorityIsVouched` has that wait added. The cookie's Max-Age equals
the record's lifetime, so that it ends nothing earlier than the record does.

### RunCode

`run[r]` is one request of a user with its own environment, taken from
`releases` when it comes in, as a Worker keeps the environment it was started
with; `call[r][i]` the snippet's `i`-th host call, at its await. `Submit` and
`Refuse` stand for everything before the sandbox; nothing that is awaited there
changes what the run was given. A mutation takes its ordinal before its first
await, and is one claim and one settled effect, as `MutationGuard` shows them,
with the rows left out; `ledger[n]` is the record at ordinal `n` of the user's
key. `End` is `coded()`: it notes a host condition in the signals, and too late
if the answer was given. `Finish` is the choice of the answer. `releases` are
environments that replace each other: a policy narrowed, an approval withdrawn,
ceilings misspelt, mutations frozen. `InOrder` says that a snippet makes its
calls in the same order each time: one that races its calls takes ordinals by
chance, and `SameTermsApplyOnce` is claimed of the others only (section 5). A record
that settled never expires here, so that the property is of the time the ledger retains
it; what expiry does is the subject of `MutationGuard` (`lapsed`).

### Posture

A release is a record of its settings. A text is graded unset, good or bad; the
documents (named policies, the group map) and modes are small values with the
ways they can be wrong (`Malformed`, and `NotText` where a value inside a
document is not a string). `CollectPostureViolations` has one predicate per check of
`authz/production-posture-core.ts`, over the posture's own parser.
`LoadNamedActorPolicies`, `PolicyNamed`, `GroupPolicy`, `Credential` and
`HighestMode` are what `authz/actor-policy.ts`, `auth/oidc.ts`,
`tools/handlers.ts` and `authz/effective-mode.ts` make of the same record. That
the two agree where it matters is `GatesAreClosed`, and no assumption.

### Discovery

`release[i]` is the release an isolate was started with: its environment never
changes, so the remembered verdict of `assertProductionPostureOnce` is a
function of it. `grant` is what the OAuth provider keeps of a sign-in; it
outlives the release that issued it. `account` is whom a user's token belongs
to, `known` the principal stored with it, `kv` the entries of `SCHEMA_KV`,
`inFlight[i]` the map of misses of an isolate. A call goes through the awaits of
`describeTable` and `listTables` (`call[c].st`); a call whose identity costs a
bearer pays first and looks up later (`late`). Its reads are one step, as one
account with its roles at that moment. Three histories serve `SchemaIsOwn`: a
principal that has `changed` since it was stored, a call that has `slipped`
past a change, and whether the roles of a principal, a call's identity or an entry's
reader are `unread`: a link or a live resolution (`ReadRoles`) may store a principal without
roles, whose key has `"default"` for their hash. Times are what is left to an entry and the age of a principal. The
names of an allow list fall into chunks, and the rows of a chunk into a page,
by their `Position` in the order of names: sets, where the code has sorted arrays.
ServiceNow cuts the page before it hides rows (as the comment on `resolveSnPrincipal` has
it), so that `Rows` is the seen part of `Page`. A
leader whose request the runtime drops is `Gone`, and its entry stays.

## 4. Runs

| Run | Shows | Bounds and why they suffice |
|---|---|---|
| `ledger` | every call order on one object keeps unknown outcomes and the first stored result; a settled record is dropped although nobody calls | 3 hashes (holder, same, other), 2 results, retention 8 > every age difference that matters |
| `guard_retries` | tableUpdate: one effect per key, intent row and snapshot first, nothing sent after an unknown outcome, answers and rows that are true, a freed key was not applied, refinement of `EffectOnce` | three attempts (one holds, one is late, one retries), two requests, retention 1 so that a call can span an expiry |
| `guard_script` | runServerScript: every call ends, whatever is lost | two calls, two requests, no symmetry (liveness) |
| `executor` | a request runs once, answers and rows that say it did not run are true, every row closes unless killed | two transactions and two requests (two copies of one, or one of each), `Ttl` = 3 > 2 * `Fresh` = 2, the relation of 1 h to 2 * 120 s; skew of a tick; the proofs cover any number of copies and keys. Scripts throw plain errors: a reserved text is a divergence below |
| `admission` | the lease limit, the causes of a loss, no resurrection, leaked leases lapse | one lease at a time, two responses, three lease names; ticks of 15 s keep the ratio of window 60 s, lease 75 s and renewal 30 s; a renewal or its answer may be under way for any number of ticks; clocks differ by a tick |
| `budget` | a run's own limits always; the cap on traffic, failing closed and balanced books where section 3 says | a run and a discovery call of two users against a day with room for one and a half; two days; one refusal counted beyond a limit. `BooksBalance` is of the first day and three counters: across midnight it is `TrafficWithinCap` that fails |
| `token` | the signed actor owns the bearer, roles are recent (or none, where a read just failed), sign-in again has a cause | two requests, one link, two token issues, lifetimes of a tick: every expiry can fall between any two steps; `OneChange`: one rotation, or one role change, or reads that fail at any time, or one switch of modes; a grant is revoked before any of these, a refresh may fail after them too |
| `link` | a ticket starts one flow and a state ends one (`LinksAreUsedOnce`), own accounts only, records are erased | two users, one of them without an email, one ticket, two visits and two callbacks, so that every pair that can collide does |
| `sign_in` | a flow gives one OIDC grant and leaves nothing that could give it again (`GrantsAreFinal`), grants for the signer in the browser that started, no authority beyond recent groups, an exact rate limit | both modes; one flow with two callbacks, two posts and two browsers, so that each can come twice and from elsewhere; one person whose groups change once between a list with one mapped group, one with the best of three and an ambiguous one; lifetimes of a tick; a rate map of one for two browsers |
| `run_code` | what runs do is allowed by their own environment, successes are their calls', nothing repeats on the same terms while its record is retained, host conditions are in the answer | two runs, racing or one after the other, with modes write or admin_script; three snippets that cover the five host calls; three rollouts; two calls per run before the meter trips |
| `discovery` | nobody is shown what the own policy hides, cached schemas are of the account and roles they are looked up by, but for a slip or a role read that failed, a list misses nothing unsaid but what a page with a hidden row cut, misses have leaders, a production release is gated as promised | 187 releases, each a base with one setting changed, so that every check of the posture is the only one that stands; two users and two calls on one isolate, one asking what the other asks; both had linked one old account, ann may link one of her own; four tables, two of which extend each other; chunks of 3 and pages of 2, so that a list is cut in the first chunk, the last, both or none, with each account hiding another row of the page; every role read may fail; entries live 2 ticks and principals less than one, so that each can be stale while the other is not |

In `discovery`, further bounds are named where they are taken: requests come once
everybody has signed in, calls that run together ask the same, and the world
goes on while a call does. Whom an operator signs in gets a grant as high as can be.

The type invariants are proved where section 7 says, and spend no run. The bounds of a cfg are in its constants (`MaxTime`,
`MaxIssued`, `MaxRoles`, `MaxKek`, `LastDay`, `MaxRefused`, `Stale`, `MaxLists`,
`Horizon`: the clock in each mode of sign-in, `Crowded`: the modes in which the
rate limit also restarts and sees other flows, `RpcLimit`, `Later`: the releases
that may follow another, `Followed`: those under which a call is followed beyond
the gate, `MaxHops`); actions that would pass one are
disabled. Where a bounded clock or a finite number of calls really ends a run,
the cfg says `CHECK_DEADLOCK FALSE`; the ledger, guard and admission runs go on
for ever and check for deadlock.

`SignInCrossed.cfg` (`MCSignIn`) checks the properties of `sign_in` on two flows
of two people, with codes and states that cross, at one instant.

For every property of a passing run `PROJECT.json` names a mutant: a plausible
slip in one mapped definition under which the property fails.

## 5. Where code and comments disagree

This run checks one sentence of the repository and ends in a counterexample.
`PROJECT.json` quotes the sentence.

| Run | What happens |
|---|---|
| `budget_midnight` | reserve and reconcile on different days let later runs pass the cap |

Smaller disagreements have a configuration each, to be replayed by hand; none is
needed for the runs above.

| Configuration (module): property | The comment | The code |
|---|---|---|
| `GuardScript` (`MutationGuard`): `RejectionMeansNotApplied` | `sn/rpc.ts:149-151` a definitive rejection means the effect did not apply | a script that acted and then throws a reserved text is answered 401, and its key is freed for a second run |
| `GuardWedged` (`MutationGuard`): `BlockEndsWithRetention` | `sn/mutation-guard.ts:382` "BLOCKED (conflict) until its retention expires" | a read renews an expired `started` record, and the alarm reads it too: a success whose `complete` was lost blocks its key for ever |
| `GuardPreSend` (`MutationGuard`): `PreSendFailureIsClean` | `sn/mutation-guard.ts:232` "pre-send throw => fail()" | a token that cannot be minted inside the effect marks the key indeterminate although nothing was sent |
| `GuardSplash` (`MutationGuard`): `SplashIsDetected` | `sn/errors.ts:90` "callers detect the splash separately" | none does: the page of a hibernating instance is stored as a success |
| `BudgetRefused` (`MCDailyBudget`): `CountWithinCap` | `tools/handlers.ts:307-311` "cannot collectively overshoot the daily cap" | refused calls count as spent and lift the counter over the cap |
| `BudgetRows` (`MCDailyBudget`): `OvershootIsOneCeiling` | `do/budget.ts:152` "at most one per-run ceiling" | concurrent runs overshoot rows by one ceiling each |
| `TokenClobber` (`MCServiceNowToken`): `RefreshIsNotClobbered` | `auth/servicenow-oauth.ts:265` "so a concurrent refresh cannot be clobbered" | a refresh stored between the re-read (266) and the unconditional write (269) is overwritten by the older bundle |
| `Token` (`MCServiceNowToken`), with this invariant alone: `NoPrincipalFromAFailedRead` | `auth/servicenow-oauth.ts:193` "on any failure the caller persists the token WITHOUT a principal" | a role read that is redirected, refused or not JSON gives a principal without roles (234-239), stored and signed with as fresh for its five minutes |
| `Discovery` (`MCDiscovery`), with this invariant alone: `RoleChangeBustsCache` | `cache/schema.ts:18` "so a role change busts the cache" | an admin whose role read fails leaves his view under `"default"`, and finds it there for the entry's day when he is no admin any more |
| `SignInDouble` (`MCSignIn`): `NonceIsSingleUse` | `auth/servicenow-auth-handler.ts:407` "Single-use on success" | two posts that both read the entry before either deletes it are both granted |
| `RunRetry` (`MCRunCode`): `KeyAppliesOnce` | `sn/mutation-guard.ts:95` "will ... be BLOCKED ..., never double-applied" | ordinals name the mutations a run made, not the calls: when the first is refused or fails in one of the runs, the second has another ordinal in the retry, where nothing blocks it |
| `RunRetry` with `InOrder = FALSE` (`MCRunCode`): `SameTermsApplyOnce` | the same, for a snippet that does not await its calls in order | the ordinals fall as the calls race, and a call is carried out under two of them |
| `TokenShared` (`MCServiceNowToken`): `PerUserNeverShared` | `auth/servicenow-oauth.ts:340` "per_user_oauth NEVER mints via ROPC" | after a change of mode the slot still holds the shared token, which is reused and refreshed |
| `LinkTicket` (`MCLinkFlow`): `TicketIsOneShot` | `do/auth-correlation.ts:166` "ATOMIC one-shot ticket nonce claim" | the claim is dropped at the instant of expiry, when the ticket still verifies |
| `Rate` (`ConsentRate`, with `-continue`): `RollingCap` | `do/consent-rate.ts:7` "within a rolling window" | the window is fixed: twice the cap around its end |
| the same: `EvictsSoonestToExpire` | `do/consent-rate.ts:20` "the soonest to expire" | `Map.set` renews an entry in its old place |

Seen while modelling; none breaks a property above, and where a property had to allow
for one its comment says so.

- A lease (75 s) outlasts two renewals (30 s each) by 15 s. A renewal sent at 30 s that
  takes 15 s to fail leaves the next one for 75 s, when `expiresAt > now`
  (`do/mcp-admission.ts:101`) refuses it: one failed renewal costs the stream. `LossHasACause` holds
  the Worker to two failures in a row or to having used up those 15 s.
- A request the runtime drops while it leads a miss leaves its entry in
  `inFlightMisses` (`cache/schema.ts:51-60`): the `finally` that deletes it never
  runs, and all who ask for that key wait until the isolate goes. `MissesAreLed`
  allows such a leader.
- The principal is resolved before the read (`tools/handlers.ts:637`). A new link
  or a role change in between stores one view under the key of another for the
  entry's day. `SchemaIsOwn` allows exactly these reads, and the entries of readers
  whose role read had failed, which stay within their own account.
- ServiceNow cuts a page before it hides rows (`auth/servicenow-oauth.ts:199-201`), and
  `partial` counts the rows that come back (`sn/discovery.ts:209-212`). A page that was cut
  can hold fewer than the cap, and then the list is not called partial though
  tables the caller may see are missing. A chunk of 8192 bytes holds more than 1000 names only
  if they are short, about five letters. `ListsAreHonest` allows exactly the tables beyond a
  full page with a hidden row (`CutUnnoticed`).
- A padded deployment profile passes the posture, which trims it, but
  `instanceAllowlistForProfile` (`tools/handlers.ts:140-144`) compares it as it is.
- A masked field in `ACTOR_POLICIES_JSON` that is not a string passes the posture,
  and every request of that release fails in the loader.

## 6. Fairness

Safety runs assume none. The liveness runs assume, and the code justifies:

- `EveryAttemptEnds`: weak fairness of an attempt's own steps (every await of the
  guard resolves or throws: the fetch has a timeout and calls to objects reject),
  of the ledger's alarm (delivered at least once by the platform) and of time.
  Nothing is assumed of ServiceNow, of late calls, or of callers.
- `SettledIsDropped`, `RecordsAreErased`: weak fairness of time and alarms only.
- `EveryRowCloses`: a transaction goes on or is killed by the quota, weakly fair.
- `LeakedLeasesLapse`: time only. Neither the Worker's steps nor the delivery of
  renewals and releases are assumed.

## 7. Proofs

`tlapm` checks every theorem for all values of the constants that satisfy the
named assumptions.

| Theorem (module) | States |
|---|---|
| `LedgerTypeCorrect`, `UnknownKept`, `StoredResultStands` (`DurableObjectProofs`) | types; an unknown outcome keeps its key and hash for ever; a stored result is the one replayed while its record lives |
| `BudgetInvariant`, `BooksStayBalanced`, `RunsStayWithinLimits`, `FailuresStayClosed`, `OrderlyTrafficFits` (`DurableObjectProofs`) | what the counters are made of; each is the sum of reservations held and use reported; a run keeps its limits; failures over-count; what orderly runs really send fits the cap |
| `GuardTypeCorrect`, `UpdateAppliedAtMostOnce`, `EffectsAreTraced` (`MutationGuardProofs`) | types; at most one live effect of tableUpdate, for any number of attempts, requests and lost or late calls; intent row and snapshot come before any effect |
| `UpdateReportsAreTrue`, `UpdateRejectedNotApplied`, `UnknownUpdateIsFinal`, `UpdateImplementsEffectOnce` (`MutationGuardProofs`) | for tableUpdate: answers and rows are true; a freed key was not applied; nothing is sent after an unknown outcome; guard, ledger and ServiceNow implement the register `EffectOnce` |
| `ExecutorTypeCorrect`, `SignedRequestRunsOnce`, `ExecutorRowsAreTrue` (`ExecutorProofs`) | types; a signed request runs once; rows and rejections are true |
| `AdmissionTypeCorrect`, `LeasesStayBounded`, `GoneLeasesStayGone`, `StreamsAreLostForCause` (`AccessProofs`) | types and holders; live leases within the limit; a lease that is gone stays gone; a stream is cut only when two renewals in a row did not put its lease back, or the lease's slack was used up |
| `SignInTypeCorrect`, `GrantsStayFinal`, `GrantsStayOwn`, `AuthorityStaysVouched`, `RateLimitStaysExact` (`AccessProofs`) | types; one OIDC grant per flow and nothing left that could give it again; grants are their signers'; no token outlives the groups it rests on; every write counts and only a source's own |
| `TokenTypeCorrect`, `SignedStaysOwn`, `RolesStayRecent`, `ReauthStaysCaused` (`ServiceNowTokenProofs`) | types; a script is signed for the account whose bearer carries it; its roles are recent, or none because a read just failed; nobody signs in again without a mishap |
| `LinkTypeCorrect`, `LinksStayUsedOnce`, `LinksStayOwn` (`LinkFlowProofs`) | types; a ticket starts one flow and a state ends one; no user is linked to another's account |
| `RunCodeInvariant`, `SuccessTheorem`, `SameTermsTheorem`, `AllowedTheorem`, `HostConditionsTheorem` (`RunCodeProofs`) | what runs, calls, records and effects know of each other; a success is that call's; nothing repeats on the same terms while its record is retained; nothing happens that the own environment forbids; the answer attests what the host met |
| `DiscoveryTypeCorrect`, `GatesStayClosed`, `EveryMissIsLed`, `ShownStaysPermitted`, `SchemaStaysOwn`, `ListsStayHonest` (`DiscoveryProofs`) | types; the gates of production; misses have leaders; nothing hidden is shown; schemas are of their readers; a list not called partial misses only what a page with a hidden row cut |

Each inductive invariant below, or the parts of it that are new to a module, was an
invariant of TLC runs on the section 4 instances before it was proved.

*Ledger.* Reading never turns an unresolved record into another one
(`LiveKeepsUnresolved`), and no method overwrites an unknown or a completed one
(`CompletedStep`).

*Budgets.* The counters are sums over an unbounded number of runs, and the
induction theorems of the library take an operator, which the provers cannot
instantiate. So a sum is treated as the function it is built from, and induction
over the parts of a finite set is done in first-order form, by a least
counterexample (`WFMin`). `BudgetInvariant` says that a run's meter leads what it has
really used (`MeterLeads`) and, until midnight, that each counter is the sum of
what its runs hold of it, the reservation and afterwards the report (`Books`), and
that what they are `Owed`, each at most its reservation, fits the cap (`Funded`).
A report may be larger than the reservation, since the meter counts requests it
refuses and nobody sends: that is why the traffic fits the cap although the
counter may pass it (`BudgetRefused.cfg`). Assumed: finitely many runs. `Orderly`
is in the property, since without it the property is false (section 5).

*At most once.* The invariant alone is not inductive: it does not say why a
second attempt cannot send. `Protocol` adds that whoever is between its claim
and its settling call owns a `started` record (`ClaimsHeld`), that a settling
call still under way is the owner's, the only one, and frees the key only if
nothing was carried out (`LateCallsOwned`), that an attempt before its send has
sent nothing, that replies and definite errors fit what happened
(`RepliesFit`, `DefiniteErrorsFit`), and the heart of it, that whatever may have
been carried out is on record as blocking or completed (`SentIsOnRecord`). The
theorem is stated for `Op = "tableUpdate"`: for scripts `DefiniteErrorsFit` is
false, which is the divergence of `GuardScript.cfg`.

*Runs once.* The unique index on the nonce stops a copy only while its row
lives. The invariant says that a row is never older than its request, but for
the clock difference freshness permits (`RowsAreYoung`), so a row that may be
purged belongs to a request too old to pass the second freshness check, which
the core makes after the claim. Assumed: `Ttl > 2 * Fresh`, which 1 hour and
120 s satisfy, and which an `ASSUME` states.

*Rows of the executor.* `RowsFit` ties a transaction's place in the handler to
its row, its answer and what ran; with `SignedRequestRunsOnce` it gives
`RowsTellTheTruth`. Assumed: no script throws a text the endpoint reserves
(`"reserved" \notin Throws`), without which the property is false.

*The refinement.* `Trusted` adds to the invariant of *at most once* what the
ledger and the callers know: a record's hash is its owner's (`HashesSettled`), its
status fits what became of the owner's request (`RecordFits`), a completed
record and every success told name an effect that was carried out
(`SuccessesFit`), whoever holds the key or settles it late has no lapsed result
(`HoldersAreCurrent`), and what an attempt may still write fits what became of
its request (`AttemptsFit`). Under `Trusted` each action maps to one of `EffectOnce` or to a
stutter (`StepMaps`, `NextMaps`): `current` (`Current`) is the attempt whose effect counts,
`answer` (`Told`) what a caller learns of an effect, `past` the attempts whose
stored result has lapsed. Assumed: `Op = "tableUpdate"`, an
instance that does not hibernate (`GuardSplash.cfg` shows why), and that the
model value for no attempt or no hash is none (`NamesAssumption`).

*Leases.* A bound on live leases is not inductive, since a caller whose clock
lags sees expired leases as live and renews them: `MapBounded` bounds the whole
map instead, which `Admit` prunes before it counts. `LeasesLast` relates what is left of
a slot's lease to its timer, its `failed` renewals and the ticks it was `late` since the
lease was put back: while one renewal at most has failed and slack is left, the
next one still finds the lease. Assumed (`AdmissionAssumption`): a lease (75 s) is longer than
two renewals (60 s).

*Signed for the bearer.* The bearer is memoized early and the principal is
resolved late, possibly from a slot written since, so the property relates two
reads of it. Until the mode changes every request runs in the mode deployed
(`ModeStands`), and in per-user mode every bundle in the slot, in a request or
past the binding check, every memoized bearer and principal, and every
`expected` of a callback is of the actor's accounts (`AllIsOwn`). Assumed for `SignedStaysOwn`: the
actor's name belongs to one account. With `Rotates` free it covers an instance
that rotates refresh tokens.

*Recent roles.* A stamp carries the time it was made, and refreshes carry the stamp
on. Wherever a principal is kept, in the slot, in a request or in a callback, its
roles were its account's at that time, or are none and a read came back without
them no earlier than its stamp (`Known`): a bound on the age at use then bounds the age of the
roles, and how long a read that failed is believed.

*Sign in again.* `Kept` says that the bundle in the slot is sealed under a key of the
deployed ring, that ServiceNow honours it unless there was a mishap (a revocation,
an outage, a lost write), that every request and callback at work runs under a
deployment whose ring fits the one deployed (`InUse`), and that a request which sends
its user away although a bundle was there met a mishap or a younger key. Assumed:
`Rotates = FALSE`; an instance that rotates refresh tokens breaks it, since two
requests may refresh at once. `None` is no bundle and no deployment.

*Links.* The nonce object remembers that a ticket was claimed for as long as
the ticket verifies (`ClaimsAreKept`), and a state whose record was consumed
has none, nor will its visit write another (`StatesAreSpent`); so a second visit
in time, or a second callback, finds nothing to claim, whatever dies between.
`BindingsAreOwn` says that every account a ticket or a record expects and every
account linked is one the user may link: the one linked before or one that bears
the user's name.

*Grants and authority.* With OIDC a flow is at one place at a time: its state record,
one callback, its consent record, one post, or its grant (`OnePlaceEach`), which
is what makes a grant final. With the operator's secret a grant finds its entry
gone (`FlowsFit`). What the flow's properties rest on is carried along with a bound on its
age at each place (`AllVouched`): groups held at the instant of the exchange, at
most `Ttl` ago when the consent record is read, and so on to
2 `Ttl` + `AccessTtl` at the end of a token's life. `BestGroupPolicy` folds over a
list. That the fold yields an entry the list entitles to, or none, is shown by
induction over the parts of the list's index set, again by a least counterexample.
Assumed (`SignInAssumption`, `AmbiguousAssumption`): the modes of the scopes and of
the group map are modes, lifetimes and limits are positive, a group list is a
finite sequence, and `None` is none of the entries and names.

*Rate limit.* `RateFits` says that the live windows are of different sources, that a
window's count is the number of its source's writes since it opened, and that
these are the last in its history. The map keeps insertion order, and pruning is
defined by rank among live windows, so that survivors stay apart (`FS_Injection`).
The history is cut to `MaxPerWindow` + 1 writes, which is all the property reads.

*run_code.* An ordinal may name another call in another run, so a record proves
nothing by its number. The invariant says that whoever holds a claim has a
`started` record with the hash of its call and terms, and no other holds it
(`ClaimsApart`), that a completed record holds the result of an effect on the terms
of its hash (`RecordFits`), and that whatever was carried out or shown had passed
each check under the policy of its own release (`EffectFits`, `CallFits`). For
`SameTermsApplyOnce` a second invariant counts: in a run that makes its calls in
order, an ordinal is the number of mutations up to the call that its terms admit
(`OrdinalOf`), a function of snippet and terms alone, and an effect spends its
ordinal for good (`Spent`). Assumed for that theorem only: `InOrder`, without which
it is false (section 5).

*Discovery.* `GatesStayClosed` needs no induction over runs but over documents:
that a policy the posture accepts is one the loader reads with tables, key by
key, for any names and groups. The other four share the invariant that an
entry and a leader's answer were made under the key they are found by: for
`ShownStaysPermitted` because the key holds the policy, for `SchemaStaysOwn`
because it holds principal and roles, and the reader's account and roles do not
change between the resolution and the read without a slip, though the roles may be
`unread` (`RolesFit`). For
`ListsStayHonest` it holds the policy and the filter; what is left is that a page
which is not full has every row of its chunk (`ShortPageHasAll`: the first row left
out would have a full page before it), so that a seen table is missing only beyond
a full page of which a row was hidden, and that every name is in a chunk. Assumed
(`TablesAssumption`): what an account sees are tables with a name.

## 8. What is only model-checked, and what is not modelled

Only model-checked: liveness under fairness (`EveryAttemptEnds`,
`SettledIsDropped`, `RecordsAreErased`, `EveryRowCloses`, `LeakedLeasesLapse`),
which the prover cannot do, and the script operation of the guard, whose
properties are those of the update where section 5 does not contradict them.

Signatures, HMACs, AES-GCM and PKCE are ideal. Not modelled:

- Text processing: serialisation, redaction, transpiling, URL checks, parsing of
  encoded queries and row filters. The posture's texts are graded, not parsed.
- Declarations (tables, access rules) and operator scripts, the deployment
  program `alchemy.run.ts` among them.
- In `Discovery`: allow lists with patterns; the instance, domain and scope of a
  cache key, which are constant in a deployment; the bookkeeping of budgets
  (`DailyBudget`) and the interleaving inside the resolution of a principal
  (`ServiceNowToken`), which are ways to fail or one step here; that a
  describe_table cut at the page cap carries no flag, since no comment promises
  one; liveness of its calls, which the dropped leader of section 5 denies.

`PROJECT.json` names every part with its status and the reason.
