------------------------------ MODULE MCDiscovery ------------------------------
(* Instances of Discovery. *)
EXTENDS Discovery

\* One namespace below the root, and one below that, which is never listed.
Below == [ns \in {"team", "nested"} |-> IF ns = "team" THEN "" ELSE "team"]

\* A KV mount of either version, the old one of the old type, and a mount of another kind.
Homes == [secret |-> "", legacy |-> "", kv |-> "team", bare |-> "team", pki |-> "team"]
Types == [secret |-> "kv", legacy |-> "generic", kv |-> "kv", bare |-> "kv", pki |-> "pki"]
Options == [secret |-> "2", legacy |-> "", kv |-> "1", bare |-> "2", pki |-> ""]

\* The name " app" is padded.
Trim == [n \in {"app", " app", "db"} |-> IF n = " app" THEN "app" ELSE n]

\* A secret and a folder of one name, and a folder in a folder.
Secrets == {<<"secret", <<"app">>>>, <<"secret", <<"app", "app", "db">>>>,
            <<"secret", <<" app", "db">>>>, <<"legacy", <<"db">>>>, <<"legacy", <<" app">>>>,
            <<"kv", <<"app", "db">>>>}
Changing == {<<"legacy", <<" app">>>>}
===============================================================================
