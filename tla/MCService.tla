------------------------------ MODULE MCService ------------------------------
(* Two api processes, two migration files of which one is shipped later,   *)
(* the three seeded users and four environments.                           *)
EXTENDS Service

MCLexical == <<"001_schema.sql", "002_next.sql">>
MCShipped == [f \in {"001_schema.sql", "002_next.sql"} |->
                IF f = "001_schema.sql" THEN "v1" ELSE None]
MCWanted == <<"officer1", "supervisor1", "auditor1">>
MCRoleOf == [u \in {"officer1", "supervisor1", "auditor1"} |->
               CASE u = "officer1" -> "officer"
                 [] u = "supervisor1" -> "supervisor"
                 [] OTHER -> "auditor"]
MCPasswords(o) == [u \in {"officer1", "supervisor1", "auditor1"} |->
                     IF u = "officer1" THEN o ELSE "generated"]
(* One environment of bootstrap_env.sh and three with a value left over.   *)
Env(officer, jwt, app) == [passwords |-> MCPasswords(officer), jwt |-> jwt, app |-> app]
MCSettings ==
  {Env("generated", "generated", "generated"), Env("CHANGE_ME", "generated", "generated"),
   Env("generated", "short", "generated"), Env("generated", "generated", "")}
MCDeployable == {[file |-> "001_schema.sql", content |-> "v2"], [file |-> "002_next.sql", content |-> "v1"]}
=============================================================================
