---------------------------- MODULE EffectErrors ----------------------------
(***************************************************************************)
(* From an HTTP exchange with ServiceNow to the guard's verdict on the     *)
(* effect: http.ts and sn/errors.ts map the reply to an error, and         *)
(* isPostSendUnknown (sn/rpc.ts) says whether that error leaves the        *)
(* outcome unknown.                                                        *)
(***************************************************************************)

CONSTANTS Op,          \* the guarded operation: "tableUpdate" or "runServerScript"
          Hibernates   \* whether the instance may answer with its hibernation page

ASSUME OpAssumption == Op \in {"tableUpdate", "runServerScript"} /\ Hibernates \in BOOLEAN

\* Replies the code tells apart.  "2xxBare" is a success with an empty body,
\* "splash" the page a hibernating instance answers with, status 200;
\* "503off" carries the executor's kill-switch strings, "413size" its code_size
\* string, "4xx" any other client error.
Replies == {"2xx", "2xxBare", "splash", "3xx", "401", "403", "404", "413size", "429",
            "4xx", "503off", "5xx"}

\* Replies after which the effect closure returns: any 200 body that is not
\* JSON is wrapped as {raw}, and only patchRow reads a field of the body.
Successes == {"2xx", "splash"} \cup (IF Op = "runServerScript" THEN {"2xxBare"} ELSE {})

\* A thrown error: an McpToolError has a code, and for budget_exceeded a
\* dimension; a raw Error (transport failure, abort, failed token request) has
\* neither.
Codes == {"reauth_required", "table_not_found", "actor_policy_denied", "budget_exceeded",
          "code_size", "capability_denied", "instance_hibernating", "path_denied"}
Dimensions == {"none", "outboundBytesSent"}
Errors == [code : Codes \cup {"raw"}, dimension : Dimensions]

Coded(c)      == [code |-> c, dimension |-> "none"]
RawError      == [code |-> "raw", dimension |-> "none"]
OutboundSpent == [code |-> "budget_exceeded", dimension |-> "outboundBytesSent"]

\* mapServiceNowError, and the client's refusal to follow a redirect.
ErrorOf(reply) ==
  CASE reply = "401"     -> Coded("reauth_required")
    [] reply = "403"     -> Coded("actor_policy_denied")
    [] reply = "404"     -> Coded("table_not_found")
    [] reply = "413size" -> Coded("code_size")
    [] reply = "429"     -> Coded("budget_exceeded")
    [] reply = "503off"  -> Coded("capability_denied")
    [] reply = "5xx"     -> Coded("instance_hibernating")
    [] reply = "4xx"     -> Coded("path_denied")
    [] OTHER             -> RawError

\* Mutant: a rate limit counts as a definite refusal.
MutPostSendUnknown(e) == e.code \in {"raw", "instance_hibernating"}

\* isPostSendUnknown: everything but a definite refusal and a local budget trip
\* leaves the outcome unknown.
PostSendUnknown(e) ==
  /\ e # OutboundSpent
  /\ e.code \notin {"reauth_required", "actor_policy_denied", "capability_denied",
                    "table_not_found", "path_denied", "code_size"}

\* Replies ServiceNow may give after the effect took hold.  The Table API
\* refuses before it writes, so only a success, a redirect, a gateway error or a rate
\* limiter in front of it can follow a write.  The executor answers a failed
\* script with 500 whatever the script did before it failed, and with 401 when
\* the script's own exception reads "capability_required" or
\* "actor_signature_invalid".
AppliedReplies ==
  {"2xx", "2xxBare", "3xx", "429", "5xx"} \cup (IF Op = "runServerScript" THEN {"401"} ELSE {})

\* Replies ServiceNow may give when the effect was not carried out.
RefusedReplies == Replies \ ({"2xx", "2xxBare"} \cup (IF Hibernates THEN {} ELSE {"splash"}))
=============================================================================
