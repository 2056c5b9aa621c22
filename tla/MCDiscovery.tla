----------------------------- MODULE MCDiscovery -----------------------------
(* Finite instances of Discovery for TLC. *)
EXTENDS Discovery, TLC

CONSTANTS ann, bob, annsAccount, oldAccount, t1, t2, t3, t4, f1, f2, staff, guests

TwoUsers == {ann, bob}
\* Both have linked the old account before; ann may link one of her own.
OwnAccounts == [u \in TwoUsers |-> IF u = ann THEN {annsAccount} ELSE {}]
Before == [u \in TwoUsers |-> oldAccount]
Members == [u \in TwoUsers |-> IF u = ann THEN {staff} ELSE {guests}]
AllTables == <<t1, t2, t3, t4>>
\* t1 extends t2; t2 and t3 extend each other.
Extends == t1 :> t2 @@ t2 :> t3 @@ t3 :> t2 @@ t4 :> None
Fields == {<<t1, f1>>, <<t2, f2>>, <<t3, f1>>, <<t4, f1>>}

\* The old account does not see t2, others t3 and <<t2, f2>> as admins only; ann's account may
\* become one.
RowsSeen ==
    [a \in {annsAccount, oldAccount, Shared} |->
        [r \in {"default"} \cup (IF a = annsAccount THEN {"admin"} ELSE {}) |->
            [tables |-> Range(AllTables) \ (IF a = oldAccount THEN {t2} ELSE IF r = "admin" THEN {} ELSE {t3}),
             fields |-> Fields \ (IF r = "admin" THEN {} ELSE {<<t2, f2>>})]]]

TwoAsks == {[kind |-> "table", table |-> t1], [kind |-> "list", matches |-> Range(AllTables)]}

NoPolicy == [allow |-> Unset, masks |-> Unset, filters |-> Unset, ceilings |-> Unset, mode |-> Unset]
Wide == [NoPolicy EXCEPT !.allow = Range(AllTables), !.mode = "admin_script"]
Narrow == [NoPolicy EXCEPT !.allow = {t1, t2}, !.masks = {<<t1, f1>>}, !.mode = "read_only"]

Base ==
    [profile |-> "production", credentialMode |-> "per_user_oauth", authMode |-> "oidc",
     tenantMax |-> "write", instanceMax |-> "write",
     grade |-> [s \in Settings |-> IF s \in Demanded \cup OidcDemanded \cup {"SCHEMA_KV"} THEN "good" ELSE "unset"],
     flat |-> Wide, named |-> "narrow" :> Narrow,
     groups |-> staff :> [maxMode |-> "admin_script", policy |-> Unset]
                @@ guests :> [maxMode |-> "read_only", policy |-> "narrow"],
     defaultName |-> Unset]

\* The next release narrows the default policy and drops the other.
Narrowed == [Base EXCEPT !.flat = Narrow, !.named = Unset,
                         !.groups = staff :> [maxMode |-> "write", policy |-> Unset]]

Graded(e, settings, g) == [e EXCEPT !.grade = [s \in settings |-> g] @@ @]

Pilot ==
    [Graded(Base, {"MCP_OPERATOR_SECRET"}, "good") EXCEPT
        !.profile = "pilot", !.credentialMode = "integration_user", !.authMode = "operator_secret"]

AdminScript ==
    [Graded(Base, {"ALLOW_ADMIN_SCRIPT_CEILING", "SNOW_EXECUTOR_VERIFIER_ATTESTED", "ADMIN_SCRIPT_ALLOWLIST",
                   "ADMIN_SCRIPT_REQUIRED_GROUP"}, "good") EXCEPT
        !.tenantMax = "admin_script", !.instanceMax = "admin_script"]

OnePolicy(p) ==
    {[p EXCEPT ![k] = v] : k \in DOMAIN p \ {"mode"}, v \in {Unset, Malformed, NotText}}
    \cup {[p EXCEPT !.mode = m] : m \in {Unset, Malformed, "write"}}
FlatOnly(p) == \A k \in DOMAIN p : p[k] # NotText
OneGroup == {Malformed} \cup [maxMode : {"admin_script", "root"}, policy : {Unset, "default", "narrow", "gone"}]

\* A release is named by the one setting it has that differs from those of another.
Parts ==
    [profile |-> {"padded production", "other"},
     credentialMode |-> {"integration_user", Malformed},
     authMode |-> {"operator_secret", Malformed},
     tenantMax |-> {"admin_script", Unset, Malformed},
     instanceMax |-> {"admin_script", Unset, Malformed},
     flat |-> {p \in OnePolicy(Wide) : FlatOnly(p)} \cup {NoPolicy},
     named |-> {"narrow" :> p : p \in OnePolicy(Narrow) \cup {Malformed, NoPolicy}}
               \cup {Unset, Malformed, "default" :> Wide, "gone" :> Wide},
     groups |-> {[Base.groups EXCEPT ![guests] = g] : g \in OneGroup} \cup {Unset, Malformed},
     defaultName |-> {"narrow", "gone"}]
InDocument == {"default" :> p @@ "narrow" :> q : p \in {Wide, NoPolicy}, q \in {Narrow, [Narrow EXCEPT !.allow = Unset]}}

Whole == [base |-> Base, narrowed |-> Narrowed, pilot |-> Pilot, admin_script |-> AdminScript,
          in_document |-> [Base EXCEPT !.flat = NoPolicy]]
Ids ==
    {<<n>> : n \in DOMAIN Whole}
    \cup {<<"base", s, g>> : s \in Settings, g \in Grades}
    \cup UNION {{<<"base", k, v>> : v \in Parts[k]} : k \in DOMAIN Parts}
    \cup {<<"in_document", "named", v>> : v \in InDocument}
    \cup {<<"admin_script", s, g>> : g \in Grades,
             s \in Switches \cup {"ADMIN_SCRIPT_ALLOWLIST", "ADMIN_SCRIPT_REQUIRED_GROUP"}}

Release(id) ==
    LET e == Whole[id[1]]
    IN  IF Len(id) = 1 THEN e
        ELSE IF id[2] \in Settings THEN Graded(e, {id[2]}, id[3]) ELSE [e EXCEPT ![id[2]] = id[3]]

Production == {<<"base">>, <<"narrowed">>}
Settled == {<<"base">>, <<"pilot">>}
AllReleases == [id \in Ids |-> Release(id)]
=============================================================================
