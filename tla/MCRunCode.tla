------------------------------- MODULE MCRunCode -------------------------------
(* Finite instances of RunCode for TLC. *)
EXTENDS RunCode, TLC

CONSTANTS
    task, user,                  \* tables
    name, caller, callerName,    \* fields; callerName is caller.name
    agent, token, because

Symmetry == Permutations(Runs)

DotWalks == (name :> {name}) @@ (caller :> {caller}) @@ (callerName :> {caller, callerName})

Query(t, fs, where) == [op |-> "tableQuery", table |-> t, fields |-> fs, where |-> where]
Get(t, fs) == [op |-> "tableGet", table |-> t, fields |-> fs, where |-> None]
Count(t, fs, where) == [op |-> "aggregate", table |-> t, fields |-> fs, where |-> where]
Update(t, fs) == [op |-> "tableUpdate", table |-> t, fields |-> fs, where |-> None]
Script == [op |-> "runServerScript", table |-> None, fields |-> None, where |-> None]

\* A policy that hides who called, one that hides nothing, and one whose
\* configured ceiling is not a mode.
Narrow == [tables |-> {task, user}, masked |-> (task :> {caller}) @@ (user :> {}),
           maxMode |-> 1]
Wide == [tables |-> {task, user}, masked |-> [t \in Tables |-> {}],
         maxMode |-> 2]
Misspelt == [Wide EXCEPT !.maxMode = 9]

Env(policy) == [policies |-> agent :> policy, tenant |-> None, instance |-> None,
                frozen |-> FALSE, allowlisted |-> TRUE, tokens |-> {token}, member |-> FALSE]

Request(mode, reason) == [mode |-> mode, reason |-> reason, key |-> TRUE, token |-> token]

Calls == {<<Query(task, {name, callerName}, None), Update(task, {name})>>,
          <<Script, Update(task, {caller})>>,
          <<Count(task, {name}, {caller}), Get(task, None), Update(task, {name})>>}

\* A release that narrows the policy, one that withdraws an approval, and three
\* under which nothing is written: two ceilings misspelt, mutations frozen.
Deploys == {<<Env(Wide), Env(Narrow)>>,
            <<Env(Wide), [Env(Wide) EXCEPT !.allowlisted = FALSE]>>,
            <<Env(Misspelt), [Env(Wide) EXCEPT !.tenant = 9], [Env(Wide) EXCEPT !.frozen = TRUE]>>}

Asked == {Request(1, None), Request(2, because)}
=============================================================================
