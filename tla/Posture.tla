------------------------------- MODULE Posture -------------------------------
(***************************************************************************)
(* The settings of a release and two readings of them: the checks a        *)
(* production release must pass (authz/production-posture-core.ts), and    *)
(* what the Worker makes of the same settings when it serves a request     *)
(* (authz/actor-policy.ts, auth/oidc.ts, tools/handlers.ts).  The two      *)
(* parse every document on their own.                                      *)
(*                                                                         *)
(* A text is graded: unset (absent or blank), good (it meets the check of  *)
(* the posture, or is the one value that switches a flag on), or bad (any  *)
(* other text).  A binding is good or unset.                               *)
(***************************************************************************)
EXTENDS Integers

CONSTANTS
    Names,     \* names an ActorPolicy may have; "default" is one
    Unset,     \* absent or blank
    Malformed, \* a text, or a value of a document, that its parser rejects
    NotText,   \* in a document: not a string where a string belongs
    Fails      \* what a loader that throws returns

ASSUME NamesAssumption == "default" \in Names

Grades == {"unset", "bad", "good"}
Modes == {"read_only", "write", "admin_script"}

\* These stand for texts of another kind.
ASSUME TextsAssumption == {Unset, Malformed} \cap (Modes \cup {"oidc", "per_user_oauth", "integration_user"}) = {}

Risk == [read_only |-> 0, write |-> 1, admin_script |-> 2]
MinByRisk(m, n) == IF Risk[m] < Risk[n] THEN m ELSE n

CoreBindings == {"AUDIT_KV", "BUDGET_DO", "LEDGER_DO", "OAUTH_KV", "AUTH_DO", "TOKEN_DO", "LOADER",
                 "CONSENT_RATE_DO", "MCP_ADMISSION_DO"}

\* Settings production demands as they should be, and those it forbids.
Demanded == CoreBindings \cup
    {"SNOW_OAUTH_CLIENT_ID", "SNOW_OAUTH_CLIENT_SECRET", "WORKER_PUBLIC_ORIGIN", "AUDIT_SIEM_ATTESTED",
     "TOKEN_KEK_CURRENT", "OAUTH_PROVIDER_SECRET", "X_MCP_EXECUTOR_HMAC_KEY", "ALLOWED_ORIGINS",
     "SNOW_INSTANCE_HOST", "SNOW_EXECUTOR_PATH"}
OidcDemanded == {"OIDC_ISSUER", "OIDC_CLIENT_ID", "OIDC_CLIENT_SECRET"}
Switches == {"ALLOW_LOCALHOST", "SNOW_DEV_ROPC", "ALLOW_ADMIN_SCRIPT_CEILING", "SNOW_EXECUTOR_VERIFIER_ATTESTED"}
Optional == {"MCP_OPERATOR_SECRET", "ADMIN_SCRIPT_ALLOWLIST", "ADMIN_SCRIPT_APPROVAL_TOKENS",
             "ADMIN_SCRIPT_REQUIRED_GROUP", "SNAPSHOT_ENABLED_TABLES", "SNAPSHOT_KV", "SNAPSHOT_KEK_CURRENT",
             "SCHEMA_KV", "SNOW_DEV_ROPC_PASSWORD"}
Settings == Demanded \cup OidcDemanded \cup Switches \cup Optional

Good(e, s) == e.grade[s] = "good"
IsSet(e, s) == e.grade[s] # "unset"

\* parseDeploymentProfile trims: a padded production is production.
Profile(e) == IF e.profile = "padded production" THEN "production" ELSE e.profile

-----------------------------------------------------------------------------
(* The posture's reading of the policies.  The settings of one policy are  *)
(* [allow, masks, filters, ceilings, mode]: allow and masks are Unset,     *)
(* Malformed, NotText or what they list; filters and ceilings Unset,       *)
(* Malformed, NotText or "valid"; mode Unset, Malformed or a mode.         *)

IsText(v) == v \notin {Unset, NotText}

HasActorPolicySetting(p) ==
    \/ \E k \in {"allow", "masks", "filters"} : IsText(p[k])
    \/ \E k \in {"ceilings", "mode"} : p[k] # Unset

ValidPolicyEnv(p) == \A k \in DOMAIN p : p[k] # Malformed

\* parseJsonObject: the keys of a document that is one.
Keys(document) == IF document \in {Unset, Malformed} THEN {} ELSE DOMAIN document

ValidNamedPolicy(e, n) ==
    LET p == e.named[n]
    IN  n \in Names /\ p # Malformed /\ HasActorPolicySetting(p) /\ IsText(p.allow) /\ ValidPolicyEnv(p)

ValidActorPolicy(e) ==
    /\ e.named # Malformed
    /\ ValidPolicyEnv(e.flat)
    /\ \A n \in Keys(e.named) : ValidNamedPolicy(e, n)

PolicyNames(e) == {"default"} \cup (Keys(e.named) \cap Names)

WithAllowlist(e) ==
    {n \in PolicyNames(e) : \/ n = "default" /\ IsText(e.flat.allow)
                            \/ n \in Keys(e.named) /\ e.named[n] # Malformed /\ IsText(e.named[n].allow)}

DefaultPolicyName(e) == IF e.defaultName = Unset THEN "default" ELSE e.defaultName

\* The entry of a group is Malformed or [maxMode, policy].
EntryPolicy(e, entry) == IF entry.policy = Unset THEN DefaultPolicyName(e) ELSE entry.policy

Referenced(e) ==
    {DefaultPolicyName(e)} \cup
    {EntryPolicy(e, e.groups[g]) : g \in {h \in Keys(e.groups) : e.groups[h] # Malformed}}

ValidOidcPolicyReferences(e) ==
    /\ e.groups # Malformed
    /\ \A g \in Keys(e.groups) : e.groups[g] # Malformed /\ e.groups[g].maxMode \in Modes
    /\ Referenced(e) \subseteq PolicyNames(e)

\* Mutant: the flat policy is not looked up.
MutReferencedHaveAllowlists(e) == (Referenced(e) \ {"default"}) \cap PolicyNames(e) \subseteq WithAllowlist(e)

\* validateReferencedActorPolicyAllowlists; without an AUTH_MODE only the default counts.
ReferencedHaveAllowlists(e) ==
    (IF e.authMode = Malformed THEN {"default"} ELSE Referenced(e)) \cap PolicyNames(e) \subseteq WithAllowlist(e)

-----------------------------------------------------------------------------
(* collectPostureViolations.                                               *)

AllowAdminScript(e) == Good(e, "ALLOW_ADMIN_SCRIPT_CEILING")

ValidModeCeiling(e, ceiling) == ceiling \in Modes /\ (ceiling = "admin_script" => AllowAdminScript(e))

\* What must hold, by the setting the violation names.
Conditions(e) ==
    [DEPLOYMENT_PROFILE |-> Profile(e) = "production",
     ACTOR_POLICIES_JSON |-> ValidActorPolicy(e) /\ ReferencedHaveAllowlists(e),
     SERVICENOW_CREDENTIAL_MODE |-> e.credentialMode = "per_user_oauth",
     AUTH_MODE |-> e.authMode = "oidc",
     OIDC_GROUP_POLICY_MAP |-> e.authMode # Malformed => e.groups # Unset /\ ValidOidcPolicyReferences(e),
     MCP_OPERATOR_SECRET |-> ~ IsSet(e, "MCP_OPERATOR_SECRET"),
     ALLOW_LOCALHOST |-> ~ Good(e, "ALLOW_LOCALHOST"),
     SNOW_DEV_ROPC |-> ~ Good(e, "SNOW_DEV_ROPC"),
     SNOW_EXECUTOR_VERIFIER_ATTESTED |-> AllowAdminScript(e) => Good(e, "SNOW_EXECUTOR_VERIFIER_ATTESTED"),
     ADMIN_SCRIPT_ALLOWLIST |-> AllowAdminScript(e) => Good(e, "ADMIN_SCRIPT_ALLOWLIST"),
     ADMIN_SCRIPT_APPROVAL_TOKENS |->
        /\ e.grade["ADMIN_SCRIPT_APPROVAL_TOKENS"] # "bad"
        /\ AllowAdminScript(e) => \/ IsSet(e, "ADMIN_SCRIPT_APPROVAL_TOKENS")
                                  \/ IsSet(e, "ADMIN_SCRIPT_REQUIRED_GROUP"),
     TENANT_MAX_MODE |-> ValidModeCeiling(e, e.tenantMax),
     INSTANCE_MAX_MODE |-> ValidModeCeiling(e, e.instanceMax),
     SNAPSHOT_ENABLED_TABLES |->
        Good(e, "SNAPSHOT_ENABLED_TABLES") => Good(e, "SNAPSHOT_KV") /\ Good(e, "SNAPSHOT_KEK_CURRENT")]

Broken(e) == LET conditions == Conditions(e) IN {c \in DOMAIN conditions : ~ conditions[c]}

\* Mutant: a credential mode of its own is no violation.
MutCollectPostureViolations(e) ==
    IF Profile(e) = "pilot" THEN {}
    ELSE (Broken(e) \ {"SERVICENOW_CREDENTIAL_MODE"}) \cup {s \in Demanded : ~ Good(e, s)}

\* Nothing is demanded of a pilot; a profile that is neither is a violation, and the rest
\* is checked as for production.
CollectPostureViolations(e) ==
    IF Profile(e) = "pilot" THEN {}
    ELSE Broken(e) \cup {s \in Demanded : ~ Good(e, s)}
                   \cup {s \in OidcDemanded : e.authMode # Malformed /\ ~ Good(e, s)}

-----------------------------------------------------------------------------
(* The Worker's reading.                                                   *)

\* Tables and masked <<table, field>> pairs; nothing is said of rows.
DenyAllPolicy == [tables |-> {}, masks |-> {}, maxMode |-> "read_only"]

HasFlatPolicyConfig(p) == \E k \in DOMAIN p : p[k] # Unset

ParserThrows(p) ==
    \/ \E k \in {"allow", "masks", "filters"} : p[k] \in {Malformed, NotText}
    \/ p.ceilings = Malformed

\* No allowlist allows nothing; a ceiling that is unset or no mode is read_only.
LoadActorPolicy(p) ==
    IF ParserThrows(p) THEN Fails
    ELSE IF ~ HasFlatPolicyConfig(p) THEN DenyAllPolicy
    ELSE [tables |-> IF p.allow = Unset THEN {} ELSE p.allow,
          masks |-> IF p.masks = Unset THEN {} ELSE p.masks,
          maxMode |-> IF p.mode \in Modes THEN p.mode ELSE "read_only"]

\* Flat settings make the default policy, unless the document names one.
FlatPolicy(e) ==
    IF e.named # Unset /\ ~ HasFlatPolicyConfig(e.flat) THEN DenyAllPolicy ELSE LoadActorPolicy(e.flat)

NamedPolicyLoads(e, n) ==
    n \in Names /\ e.named[n] # Malformed /\ HasFlatPolicyConfig(e.named[n]) /\ LoadActorPolicy(e.named[n]) # Fails

LoadNamedActorPolicies(e) ==
    IF FlatPolicy(e) = Fails \/ e.named = Malformed \/ \E n \in Keys(e.named) : ~ NamedPolicyLoads(e, n)
    THEN Fails
    ELSE [n \in {"default"} \cup Keys(e.named) |->
            IF n \in Keys(e.named) THEN LoadActorPolicy(e.named[n]) ELSE FlatPolicy(e)]

\* A grant may name a policy that this release does not have.
PolicyNamed(policies, n) == IF n \in DOMAIN policies THEN policies[n] ELSE DenyAllPolicy

\* parseGroupPolicyMap and bestGroupPolicy, for a user in one group.
GroupPolicy(e, g) ==
    IF e.groups = Malformed \/ \E h \in Keys(e.groups) : e.groups[h] = Malformed \/ e.groups[h].maxMode \notin Modes
    THEN Fails
    ELSE IF g \in Keys(e.groups)
    THEN [maxMode |-> e.groups[g].maxMode, policy |-> EntryPolicy(e, e.groups[g])]
    ELSE [maxMode |-> "read_only", policy |-> DefaultPolicyName(e)]

ParseMaxMode(m) == IF m = Unset THEN "admin_script" ELSE IF m \in Modes THEN m ELSE "read_only"

\* The highest mode a run of this grant may ask for and its policy lets pass.
HighestMode(e, maxMode, policy) ==
    MinByRisk(MinByRisk(maxMode, policy.maxMode), MinByRisk(ParseMaxMode(e.tenantMax), ParseMaxMode(e.instanceMax)))

OauthReady(e) ==
    /\ \A s \in {"SNOW_OAUTH_CLIENT_ID", "SNOW_OAUTH_CLIENT_SECRET", "TOKEN_DO", "TOKEN_KEK_CURRENT",
                 "SNOW_INSTANCE_HOST"} : IsSet(e, s)
    /\ e.credentialMode = "per_user_oauth" => Good(e, "WORKER_PUBLIC_ORIGIN")

\* Whose credential a ServiceNow request carries: the user's, the shared one, the developer's
\* password, or none.
Credential(e) ==
    IF e.credentialMode = Malformed \/ (e.credentialMode = "per_user_oauth" /\ ~ OauthReady(e)) THEN "none"
    ELSE IF OauthReady(e) THEN (IF e.credentialMode = "per_user_oauth" THEN "own" ELSE "shared")
    ELSE IF \A s \in {"SNOW_DEV_ROPC", "SNOW_DEV_ROPC_PASSWORD", "SNOW_INSTANCE_HOST"} : Good(e, s) THEN "basic"
    ELSE "none"

\* instanceAllowlistForProfile: the suffixes requests may go to; compares without trimming.
PinnedToInstance(e) == e.profile = "production"
=============================================================================
