--------------------------- MODULE InventoryPromise ---------------------------
(***************************************************************************)
(* What the discover command promises, with no worker, channel or request  *)
(* in sight: every namespace, and then every mount found in them, gets one *)
(* answer, which is final.  It is in the inventory or missing; the secrets *)
(* of a mount enter with it, and only such as Vault was seen to hold.      *)
(***************************************************************************)
CONSTANTS Namespace, Root, MountsIn  \* MountsIn[ns]: the KV mounts of a namespace

VARIABLES phase,      \* "list", "namespaces", "mounts", "end"
          open,       \* the namespaces, or the mounts, without an answer
          held,       \* what Vault has held since the start: pairs of a mount and a path
          inventory,
          missing     \* the namespaces and mounts that failed

avars == <<phase, open, held, inventory, missing>>

Init ==
  /\ phase = "list" /\ open = {}
  /\ inventory = [namespaces |-> {}, mounts |-> {}, secrets |-> {}]
  /\ missing = [namespaces |-> {}, mounts |-> {}]

Appear == held \subseteq held' /\ UNCHANGED <<phase, open, inventory, missing>>

Begin ==
  /\ phase = "list" /\ phase' = "namespaces"
  /\ \E S \in SUBSET Namespace : Root \in S /\ open' = S
  /\ UNCHANGED <<held, inventory, missing>>

GiveUp ==
  /\ phase = "list" /\ phase' = "end"
  /\ UNCHANGED <<open, held, inventory, missing>>

Answer(x) == x \in open /\ open' = open \ {x} /\ UNCHANGED <<phase, held>>

NamespaceListed(ns) ==
  /\ phase = "namespaces" /\ Answer(ns)
  /\ inventory' = [inventory EXCEPT !.namespaces = @ \cup {ns}]
  /\ UNCHANGED missing

NamespaceFails(ns) ==
  /\ phase = "namespaces" /\ Answer(ns)
  /\ missing' = [missing EXCEPT !.namespaces = @ \cup {ns}]
  /\ UNCHANGED inventory

\* Which secrets of the mount are found is left open: others may be below a folder that
\* failed, or have come too late.
MountListed(m, S) ==
  /\ phase = "mounts" /\ Answer(m)
  /\ \A s \in S : s[1] = m /\ s \in held
  /\ inventory' = [inventory EXCEPT !.mounts = @ \cup {m}, !.secrets = @ \cup S]
  /\ UNCHANGED missing

MountFails(m) ==
  /\ phase = "mounts" /\ Answer(m)
  /\ missing' = [missing EXCEPT !.mounts = @ \cup {m}]
  /\ UNCHANGED inventory

\* Nothing is left behind, and what was listed is what comes next.
NamespacesDone ==
  /\ phase = "namespaces" /\ open = {}
  /\ phase' = "mounts" /\ open' = UNION {MountsIn[ns] : ns \in inventory.namespaces}
  /\ UNCHANGED <<held, inventory, missing>>

MountsDone ==
  /\ phase = "mounts" /\ open = {}
  /\ phase' = "end"
  /\ UNCHANGED <<open, held, inventory, missing>>

Next ==
  \/ Appear \/ Begin \/ GiveUp \/ NamespacesDone \/ MountsDone
  \/ \E ns \in open : NamespaceListed(ns) \/ NamespaceFails(ns)
  \/ \E m \in open : MountFails(m) \/ \E S \in SUBSET held : MountListed(m, S)

Spec == Init /\ [][Next]_avars
===============================================================================
