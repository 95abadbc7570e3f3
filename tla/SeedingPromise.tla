---------------------------- MODULE SeedingPromise ----------------------------
(***************************************************************************)
(* What seeding promises, with no goroutine or channel in sight: in every  *)
(* stage each item gets at most one answer, and one at least if the run    *)
(* goes on to the next stage or succeeds.  What is counted as created is   *)
(* in Vault, and nothing is written but what is still without an answer.   *)
(***************************************************************************)
EXTENDS Integers

CONSTANTS
  Plan,  \* the items of each stage
  Home,  \* the namespace of each secret
  Cost   \* the mounts of each namespace, which fail when it cannot be read

VARIABLES
  stage,
  open,     \* the items of the stage without an answer
  written,  \* what Vault holds, pairs of a stage and an item
  budget, cancelled, spent, dropped, created, failures, outcome

counts == <<created, failures>>
ends == <<cancelled, spent, outcome>>
avars == <<stage, open, written, budget, dropped, counts, ends>>

Over(n) == budget = 0 \/ (budget > 0 /\ n >= budget)
Stopping == cancelled \/ spent
ItemsOf(s) == {i \in Plan[s] : s = "secrets" => Home[i] \notin dropped}
Follow == [namespaces |-> {"mounts", "discovery"}, mounts |-> {"secrets"},
           discovery |-> {"secrets"}, secrets |-> {}]

Init ==
  /\ stage \in {"namespaces", "mounts", "discovery"}
  /\ dropped = {} /\ open = ItemsOf(stage)
  /\ created = 0 /\ failures = 0
  /\ cancelled = FALSE /\ spent = FALSE /\ outcome = "none"

\* A request may take effect and fail all the same.
Write(i) ==
  /\ stage # "discovery" /\ written' = written \cup {<<stage, i>>}
  /\ UNCHANGED <<stage, open, budget, dropped, counts, ends>>

Cancel ==
  /\ cancelled' = TRUE
  /\ UNCHANGED <<stage, open, written, budget, dropped, counts, spent, outcome>>

Answer(i) == open' = open \ {i} /\ UNCHANGED <<stage, written, budget, cancelled>>

Created(i) ==
  /\ Answer(i) /\ <<stage, i>> \in written
  /\ created' = created + 1
  /\ UNCHANGED <<failures, dropped, spent, outcome>>

Fails(i) ==
  /\ Answer(i)
  /\ failures' = failures + 1 /\ spent' = (spent \/ Over(failures'))
  /\ UNCHANGED <<created, dropped, outcome>>

\* Only once the run is stopping is an item given up without being counted.
Abandoned(i) == Stopping /\ Answer(i) /\ UNCHANGED <<counts, dropped, spent, outcome>>

Read(ns) == stage = "discovery" /\ Answer(ns) /\ UNCHANGED <<counts, dropped, spent, outcome>>

Unreadable(ns) ==
  /\ stage = "discovery" /\ Answer(ns)
  /\ failures' = failures + Cost[ns] /\ dropped' = dropped \cup {ns}
  /\ outcome' = IF Over(failures') THEN "threshold" ELSE outcome
  /\ UNCHANGED <<created, spent>>

\* No stage is left with an item unanswered.  A run that was cancelled during the discovery
\* notices it in the first of its secrets.
NextStage ==
  /\ open = {} /\ (stage # "discovery" => ~Stopping)
  /\ stage' \in Follow[stage] /\ open' = ItemsOf(stage')
  /\ UNCHANGED <<written, budget, dropped, counts, ends>>

Return ==
  /\ \/ outcome' = "nil" /\ ~Stopping /\ stage = "secrets" /\ open = {}
     \/ outcome' = "ctx" /\ cancelled
     \/ outcome' = "threshold" /\ spent /\ ~cancelled
  /\ UNCHANGED <<stage, open, written, budget, dropped, counts, cancelled, spent>>

Next ==
  /\ outcome = "none"
  /\ \/ Cancel \/ NextStage \/ Return
     \/ \E i \in open : \/ Write(i) \/ Created(i) \/ Fails(i) \/ Abandoned(i)
                        \/ Read(i) \/ Unreadable(i)

Spec == Init /\ [][Next]_avars
===============================================================================
