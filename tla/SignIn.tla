-------------------------------- MODULE SignIn --------------------------------
(***************************************************************************)
(* How an MCP client comes by its authority.  A browser starts a flow at   *)
(* GET /authorize; with AUTH_MODE oidc a person signs in at the identity   *)
(* provider, the callback turns the claims into the properties of a grant  *)
(* and a consent page is approved; with operator_secret the page asks for  *)
(* the operator's secret.  The OAuth provider then mints access tokens.    *)
(* A state or consent nonce is minted per flow and named after it.  A      *)
(* request that dies takes no further step; one that is refused before it  *)
(* changed anything is not shown.                                          *)
(***************************************************************************)
EXTENDS OneTimeRecord, SequencesExt

CONSTANTS
    Flows, Browsers, People, Callbacks, Posts,
    Operator,      \* MCP_OPERATOR_USER_ID
    ScopeMode,     \* ScopeMode[f]: maxModeFromScopes of what flow f asks for
    GroupPolicy,   \* OIDC_GROUP_POLICY_MAP: group to [mode, policy]
    DefaultPolicy, \* OIDC_DEFAULT_POLICY_NAME
    GroupLists,    \* lists of groups an ID token may carry
    Ttl,           \* ten minutes: state, consent, and the code of the OAuth provider
    AccessTtl,     \* lifetime of an access token
    MaxPerWindow, MaxKeys, Window, \* of the rate limit on consent writes
    MaxTime, MaxLists, \* bounds of an instance: clock, changes of groups,
    Horizon,           \* the clock in each mode,
    Crowded            \* the modes in which the rate limit restarts and browsers
                       \* have other flows as well

AuthModes == {"oidc", "operator_secret"}
Modes == 0..2 \* modeRisk of read_only, write, admin_script

ASSUME SignInAssumption ==
    /\ ScopeMode \in [Flows -> Modes]
    /\ \A g \in DOMAIN GroupPolicy : GroupPolicy[g].mode \in Modes /\ GroupPolicy[g] # None
    /\ \A list \in GroupLists : list \in Seq(Range(list))
    /\ None \notin Flows \cup Browsers \cup People
    /\ {Ttl, AccessTtl, MaxPerWindow, MaxKeys, Window} \subseteq Nat \ {0}
    /\ MaxTime \in Nat /\ MaxLists \in Nat /\ Horizon \in [AuthModes -> 0..MaxTime]
    /\ Operator \notin People
    /\ Crowded \subseteq AuthModes

VARIABLES
    authMode,  \* AUTH_MODE of the deployment
    now,       \* Date.now()
    windows, admitted, evicted, \* of the rate limit
    directory, \* what the identity provider lists for a person, oldest first
    flow,      \* a flow, as the browsers and the identity provider see it
    state,     \* object oidc:<state>
    consent,   \* object oidc-consent:<nonce>
    entry,     \* consent:<nonce> in OAUTH_KV: when it expires
    callback,  \* GET /oidc/callback
    post,      \* POST /oidc/consent, POST /authorize
    grant,     \* grants of the OAuth provider
    completed, \* history: calls of completeAuthorization for each flow
    tokens     \* access tokens that have not expired

Rate == INSTANCE ConsentRate WITH Keys <- Browsers

rateVars == <<windows, admitted, evicted>>
stores == <<state, consent, entry>>
providerVars == <<grant, completed, tokens>>
vars == <<authMode, now, rateVars, directory, flow, stores, callback, post, providerVars>>

NewFlow == [phase |-> "new", by |-> None, cookie |-> FALSE, page |-> None,
            signer |-> None, spent |-> FALSE]
NewRequest == [phase |-> "new", by |-> None, flow |-> None, code |-> None, props |-> None]

Init ==
    /\ authMode \in AuthModes
    /\ Rate!Init
    /\ directory \in [People -> {<<[groups |-> list, since |-> 0]>> : list \in GroupLists}]
    /\ flow = [f \in Flows |-> NewFlow]
    /\ state = [f \in Flows |-> Empty]
    /\ consent = [f \in Flows |-> Empty]
    /\ entry = [f \in Flows |-> None]
    /\ callback = [c \in Callbacks |-> NewRequest]
    /\ post = [q \in Posts |-> NewRequest]
    /\ grant = [f \in Flows |-> None]
    /\ completed = [f \in Flows |-> 0]
    /\ tokens = {}

\* minByRisk
Least(a, b) == IF b < a THEN b ELSE a

-----------------------------------------------------------------------------
(* GET /authorize                                                          *)

\* ConsentRateDO.allow answers true
Allowed(b) == Rate!Count(b) \/ Rate!Reopen(b) \/ Rate!Open(b)

\* prepareAuthorizationRequest
Authorize(f, b) ==
    /\ flow[f].phase = "new"
    /\ Allowed(b)
    /\ flow' = [flow EXCEPT ![f] = [@ EXCEPT !.phase = "admitted", !.by = b]]
    /\ UNCHANGED <<authMode, directory, stores, callback, post, providerVars>>

TooMany(b) ==
    /\ Rate!Deny(b)
    /\ UNCHANGED vars

\* The cookie, or the page, is the response's: it may not reach the browser.
\* Max-Age only ends a cookie whose record has expired with it.
StartOidc(f) ==
    /\ authMode = "oidc" /\ flow[f].phase = "admitted"
    /\ state' = [state EXCEPT ![f] = Create([expiresAt |-> now + Ttl])]
    /\ \E delivered \in BOOLEAN :
           flow' = [flow EXCEPT ![f] = [@ EXCEPT !.phase = "started", !.cookie = delivered]]
    /\ UNCHANGED <<authMode, now, rateVars, directory, consent, entry, callback, post, providerVars>>

ShowPage(f) ==
    /\ authMode = "operator_secret" /\ flow[f].phase = "admitted"
    /\ entry' = [entry EXCEPT ![f] = now + Ttl]
    /\ \E page \in {flow[f].by, None} :
           flow' = [flow EXCEPT ![f] = [@ EXCEPT !.phase = "started", !.page = page]]
    /\ UNCHANGED <<authMode, now, rateVars, directory, state, consent, callback, post, providerVars>>

\* A person signs in at the identity provider, which issues a code.
SignInAtProvider(f, p) ==
    /\ flow[f].cookie /\ flow[f].signer = None
    /\ flow' = [flow EXCEPT ![f] = [@ EXCEPT !.signer = p]]
    /\ UNCHANGED <<authMode, now, rateVars, directory, stores, callback, post, providerVars>>

-----------------------------------------------------------------------------
(* GET /oidc/callback                                                      *)

\* Mutant: any browser may finish the flow.
MutCookieHeld(b, f) == TRUE

CookieHeld(b, f) == flow[f].cookie /\ flow[f].by = b

\* The request carries the state of flow f and a code: the one issued for some
\* flow, or one the identity provider does not know.
ConsumeState(c, b, f, code) ==
    LET record == state[f].record
    IN  /\ callback[c].phase = "new"
        /\ code # None => flow[code].signer # None
        /\ CookieHeld(b, f) /\ record # None
        /\ state' = [state EXCEPT ![f] = Consume(@)]
        /\ callback' = [callback EXCEPT ![c] =
               [NewRequest EXCEPT !.phase = IF now > record.expiresAt THEN "refused" ELSE "consumed",
                                  !.by = b, !.flow = f, !.code = code]]
        /\ UNCHANGED <<authMode, now, rateVars, directory, flow, consent, entry, post, providerVars>>

Ambiguous == [mode |-> -1, policy |-> None]

ASSUME AmbiguousAssumption == None # Ambiguous

\* One turn of bestGroupPolicy's loop: an ambiguity throws.
BetterPolicy(group, best) ==
    IF best = Ambiguous \/ group \notin DOMAIN GroupPolicy THEN best
    ELSE LET found == GroupPolicy[group]
         IN  IF best = None \/ found.mode > best.mode THEN found
             ELSE IF found.mode = best.mode /\ found.policy # best.policy THEN Ambiguous
             ELSE best

BestGroupPolicy(groups) ==
    LET best == FoldRight(BetterPolicy, Reverse(groups), None)
    IN  IF best = None THEN [mode |-> 0, policy |-> DefaultPolicy] ELSE best

CurrentPolicy(p) == BestGroupPolicy(Last(directory[p]).groups)

\* oidcPropsFromClaims; refresh: the identity provider issues refresh tokens
PropsFromClaims(f, p, refresh) ==
    [user |-> p, mode |-> Least(ScopeMode[f], CurrentPolicy(p).mode),
     policy |-> CurrentPolicy(p).policy, refresh |-> refresh]

\* The code is redeemed with the verifier, and the ID token must bear the
\* nonce, of the record: those of the flow the code was issued for.
ExchangeCode(c) ==
    LET f == callback[c].flow
        p == flow[f].signer
    IN  /\ callback[c].phase = "consumed"
        /\ callback[c].code = f /\ ~ flow[f].spent
        /\ flow' = [flow EXCEPT ![f] = [@ EXCEPT !.spent = TRUE]]
        /\ \E refresh \in BOOLEAN :
               callback' = [callback EXCEPT ![c] =
                   IF CurrentPolicy(p) = Ambiguous THEN [@ EXCEPT !.phase = "refused"]
                   ELSE [@ EXCEPT !.phase = "exchanged",
                                  !.props = PropsFromClaims(f, p, refresh)]]
        /\ UNCHANGED <<authMode, now, rateVars, directory, stores, post, providerVars>>

\* The client is known still.
AskConsent(c) ==
    LET f == callback[c].flow
    IN  /\ callback[c].phase = "exchanged"
        /\ consent' = [consent EXCEPT ![f] =
               Create([props |-> callback[c].props, expiresAt |-> now + Ttl])]
        /\ callback' = [callback EXCEPT ![c] = [NewRequest EXCEPT !.phase = "answered"]]
        /\ \E delivered \in BOOLEAN :
               flow' = IF delivered
                       THEN [flow EXCEPT ![f] = [@ EXCEPT !.cookie = FALSE, !.page = callback[c].by]]
                       ELSE flow
        /\ UNCHANGED <<authMode, now, rateVars, directory, state, entry, post, providerVars>>

-----------------------------------------------------------------------------
(* Consent                                                                 *)

\* POST /oidc/consent
ConsumeConsent(q, b, f) ==
    LET record == consent[f].record
    IN  /\ post[q].phase = "new" /\ flow[f].page = b /\ record # None
        /\ consent' = [consent EXCEPT ![f] = Consume(@)]
        /\ post' = [post EXCEPT ![q] =
               [NewRequest EXCEPT !.phase = IF now > record.expiresAt THEN "refused" ELSE "approved",
                                  !.by = b, !.flow = f, !.props = record.props]]
        /\ UNCHANGED <<authMode, now, rateVars, directory, flow, state, entry, callback, providerVars>>

\* POST /authorize
ReadEntry(q, b, f) ==
    /\ post[q].phase = "new" /\ flow[f].page = b
    /\ entry[f] # None /\ now < entry[f]
    /\ post' = [post EXCEPT ![q] = [NewRequest EXCEPT !.phase = "read", !.by = b, !.flow = f]]
    /\ UNCHANGED <<authMode, now, rateVars, directory, flow, stores, callback, providerVars>>

\* A wrong secret, and one source too eager, leave the entry for another try.
CheckSecret(q, right) ==
    /\ post[q].phase = "read"
    /\ \/ Allowed(post[q].by)
          /\ post' = [post EXCEPT ![q] = IF right THEN [@ EXCEPT !.phase = "proven"] ELSE NewRequest]
       \/ Rate!Deny(post[q].by)
          /\ post' = [post EXCEPT ![q] = NewRequest]
    /\ UNCHANGED <<authMode, directory, flow, stores, callback, providerVars>>

OperatorProps(f) == [user |-> Operator, mode |-> ScopeMode[f], policy |-> None, refresh |-> TRUE]

\* Mutant: the entry is not burnt.
MutBurnEntry(q) ==
    /\ post[q].phase = "proven"
    /\ post' = [post EXCEPT ![q] =
           [@ EXCEPT !.phase = "approved", !.props = OperatorProps(post[q].flow)]]
    /\ UNCHANGED <<authMode, now, rateVars, directory, flow, stores, callback, providerVars>>

BurnEntry(q) ==
    /\ post[q].phase = "proven"
    /\ entry' = [entry EXCEPT ![post[q].flow] = None]
    /\ post' = [post EXCEPT ![q] =
           [@ EXCEPT !.phase = "approved", !.props = OperatorProps(post[q].flow)]]
    /\ UNCHANGED <<authMode, now, rateVars, directory, flow, state, consent, callback, providerVars>>

\* completeAuthorization; at and by are history.
Complete(q) ==
    LET f == post[q].flow
    IN  /\ post[q].phase = "approved"
        /\ grant' = [grant EXCEPT ![f] =
               [props |-> post[q].props, at |-> now, by |-> post[q].by, redeemed |-> FALSE]]
        /\ completed' = [completed EXCEPT ![f] = @ + 1]
        /\ post' = [post EXCEPT ![q] = [NewRequest EXCEPT !.phase = "answered"]]
        /\ UNCHANGED <<authMode, now, rateVars, directory, flow, stores, callback, tokens>>

-----------------------------------------------------------------------------
(* The token endpoint: the provider, with its tokenExchangeCallback        *)

\* oidcAccessTokenProps; of an operator's grant the token has the properties.
TokenMode(props, requested) == IF authMode = "oidc" THEN Least(props.mode, requested) ELSE props.mode

Mint(f, props, requested) ==
    tokens' = tokens \cup {[flow |-> f, user |-> props.user, policy |-> props.policy,
                            mode |-> TokenMode(props, requested), exp |-> now + AccessTtl]}

RedeemCode(f, requested) ==
    /\ grant[f] # None /\ ~ grant[f].redeemed /\ now <= grant[f].at + Ttl
    /\ Mint(f, grant[f].props, requested)
    /\ grant' = [grant EXCEPT ![f] = [@ EXCEPT !.redeemed = TRUE]]
    /\ UNCHANGED <<authMode, now, rateVars, directory, flow, stores, callback, post, completed>>

\* Mutant: the properties of the grant are those it was given.
MutRefreshedProps(f) == grant[f].props

\* refreshOidcGrantProps: the claims are read again.
RefreshedProps(f) ==
    IF authMode = "oidc" THEN PropsFromClaims(f, grant[f].props.user, TRUE) ELSE grant[f].props

\* Without a refresh token of the identity provider there is none of ours.
Refresh(f, requested) ==
    /\ grant[f] # None /\ grant[f].redeemed /\ grant[f].props.refresh
    /\ authMode = "oidc" => CurrentPolicy(grant[f].props.user) # Ambiguous
    /\ Mint(f, RefreshedProps(f), requested)
    /\ grant' = [grant EXCEPT ![f] = [@ EXCEPT !.props = RefreshedProps(f)]]
    /\ UNCHANGED <<authMode, now, rateVars, directory, flow, stores, callback, post, completed>>

-----------------------------------------------------------------------------
\* Somebody joins or leaves groups.
Regroup(p, list) ==
    /\ authMode = "oidc" /\ Len(directory[p]) < MaxLists
    /\ list # Last(directory[p]).groups
    /\ directory' = [directory EXCEPT ![p] = Append(@, [groups |-> list, since |-> now])]
    /\ UNCHANGED <<authMode, now, rateVars, flow, stores, callback, post, providerVars>>

AlarmOf(f) ==
    /\ AlarmDue(state[f], now) \/ AlarmDue(consent[f], now)
    /\ state' = [state EXCEPT ![f] = CleanupExpired(@, now)]
    /\ consent' = [consent EXCEPT ![f] = CleanupExpired(@, now)]
    /\ UNCHANGED <<authMode, now, rateVars, directory, flow, entry, callback, post, providerVars>>

\* Another flow of this browser, which is given up.
Stray(b) ==
    /\ authMode \in Crowded
    /\ Allowed(b)
    /\ UNCHANGED <<authMode, directory, flow, stores, callback, post, providerVars>>

RateRestart ==
    /\ authMode \in Crowded
    /\ Rate!Restart
    /\ UNCHANGED <<authMode, directory, flow, stores, callback, post, providerVars>>

\* Between the claims and the consent record, and between the approval and the
\* grant, a request waits for storage alone: less than a tick.
Prompt ==
    /\ \A c \in Callbacks : callback[c].phase # "exchanged"
    /\ \A q \in Posts : post[q].phase # "approved"

Tick ==
    /\ Prompt /\ now < Horizon[authMode]
    /\ Rate!Tick
    /\ tokens' = {t \in tokens : t.exp > now'}
    /\ UNCHANGED <<authMode, directory, flow, stores, callback, post, grant, completed>>

Next ==
    \/ Tick \/ RateRestart
    \/ \E b \in Browsers : TooMany(b) \/ Stray(b)
    \/ \E p \in People, list \in GroupLists : Regroup(p, list)
    \/ \E f \in Flows :
           \/ StartOidc(f) \/ ShowPage(f) \/ AlarmOf(f)
           \/ \E b \in Browsers : Authorize(f, b)
           \/ \E p \in People : SignInAtProvider(f, p)
           \/ \E requested \in Modes : RedeemCode(f, requested) \/ Refresh(f, requested)
    \/ \E c \in Callbacks :
           \/ \E b \in Browsers, f \in Flows, code \in Flows \cup {None} : ConsumeState(c, b, f, code)
           \/ ExchangeCode(c) \/ AskConsent(c)
    \/ \E q \in Posts :
           \/ \E b \in Browsers, f \in Flows : ConsumeConsent(q, b, f) \/ ReadEntry(q, b, f)
           \/ \E right \in BOOLEAN : CheckSecret(q, right)
           \/ BurnEntry(q) \/ Complete(q)

Spec == Init /\ [][Next]_vars

-----------------------------------------------------------------------------
(* Properties.                                                             *)

\* Every page and every guess at the secret counts against its source, unless
\* it was evicted, and a source is denied only when it has itself written
\* MaxPerWindow times in the last Window, whatever the other sources do.
RateLimitIsExact == Rate!EveryWriteCounts /\ Rate!DeniedOnlyAtCap

\* With OIDC one sign-in gives one grant, however often callback and consent are delivered.
\* Once a flow has been granted, nothing is stored that could grant it again: with
\* operator_secret, a page shown earlier is of no further use.
GrantsAreFinal ==
    \A f \in Flows :
        /\ authMode = "oidc" => completed[f] <= 1
        /\ grant[f] # None => entry[f] = None /\ state[f].record = None /\ consent[f].record = None

\* The comment in the POST handler: "Single-use on success".  Two requests that
\* both read the entry before either burns it are both granted.
NonceIsSingleUse == \A f \in Flows : completed[f] <= 1

\* The grant of a flow belongs to the person who signed in for that flow, and
\* was approved in the browser that started it, whatever codes and states meet.
GrantIsSignersOwn ==
    \A f \in Flows : grant[f] # None =>
        /\ grant[f].by = flow[f].by
        /\ grant[f].props.user = IF authMode = "oidc" THEN flow[f].signer ELSE Operator

\* The lists that held for person p at some time since t.
ListedSince(p, t) ==
    {directory[p][i].groups : i \in {j \in DOMAIN directory[p] :
        j = Len(directory[p]) \/ directory[p][j + 1].since >= t}}

\* The entries a list of groups entitles to: the most privileged mapped ones.
Entitled(groups) ==
    LET mapped == {GroupPolicy[g] : g \in Range(groups) \cap DOMAIN GroupPolicy}
    IN  IF mapped = {} THEN {[mode |-> 0, policy |-> DefaultPolicy]}
        ELSE {e \in mapped : \A other \in mapped : other.mode <= e.mode}

\* A live token never has more than its flow asked for, and has the mode and
\* the policy of groups its person was in at most one consent, one code and one
\* token lifetime ago: whoever leaves a group loses its powers within that time.
AuthorityIsVouched ==
    \A t \in tokens :
        /\ t.mode <= ScopeMode[t.flow]
        /\ authMode = "oidc" =>
               \E groups \in ListedSince(t.user, now - (2 * Ttl + AccessTtl)) :
                   \E e \in Entitled(groups) : t.mode <= e.mode /\ t.policy = e.policy
=============================================================================
