---------------------------- MODULE MCPlanPipeline ----------------------------
(* Values of the constants of PlanPipeline for TLC. *)
EXTENDS PlanPipeline

Loc(ns, mount) == [namespace |-> ns, mount |-> mount]
KV == <<"kv">>
App == <<"app">>

\* A mount in one namespace, and two in another of which the second takes the place of the
\* third when that has left it.
ThreeVersions == [kv_1 |-> 1, kv_2 |-> 2, kv_3 |-> 2]
ThreeHomes == [kv_1 |-> Loc("dev/", KV), kv_2 |-> Loc("prod/", <<"ops", "kv">>),
               kv_3 |-> Loc("prod/", KV)]
Succession == [kv_1 |-> {}, kv_2 |-> {Loc("prod/", KV)}, kv_3 |-> {Loc("prod/", <<"old">>)}]
SameSecretInThree == [a \in {"kv_1", "kv_2", "kv_3"} |-> {App}]

MostlyUpdates == [kv_1 |-> {"update", "list"}, kv_2 |-> {"update"}, kv_3 |-> {}]

\* A mount of each version, in two namespaces.
TwoVersions == [kv_1 |-> 1, kv_2 |-> 2]
SameSecret == [kv_1 |-> {App}, kv_2 |-> {App}]
AccessAndList == [kv_1 |-> {"update", "list"}, kv_2 |-> {"update", "list"}]

\* The second namespace moves with its mount, or not at all.
AcrossNamespaces == [kv_1 |-> {}, kv_2 |-> {Loc("new/", KV)}]
Fixed == [kv_1 |-> {}, kv_2 |-> {}]

\* A mount of version 1 whose path has two segments.
NestedVersionOne == [kv_1 |-> Loc("dev/", <<"ops", "kv">>), kv_2 |-> Loc("prod/", KV)]
\* The same path in two namespaces.
SamePath == [kv_1 |-> Loc("dev/", KV), kv_2 |-> Loc("prod/", KV)]

\* Overlapping patterns, and a policy of its own for one namespace.
Exact == [ns \in {"dev/"} |-> 1]
Patterns == {[covers |-> {"dev/", "prod/"}, period |-> 0], [covers |-> {"prod/"}, period |-> 1]}
NoPolicy == [ns \in {} |-> 0]

\* A malformed pattern, and one that matches no mount here.
Exclusions == {[of |-> "path", wellFormed |-> FALSE, covers |-> {KV \o App}],
               [of |-> "mount", wellFormed |-> TRUE, covers |-> {<<"identity">>}]}
===============================================================================
