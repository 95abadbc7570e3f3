---------------------------- MODULE SeedRunProofs ----------------------------
(* Theorems about SeedRun, for every plan, pool size, budget and starting point. *)
EXTENDS SeedRun, SequenceTheorems, FiniteSetTheorems, WellFoundedInduction, TLAPS

-------------------------------------------------------------------------------
(* Facts about the plan and the helpers. *)

Stage == {"namespaces", "mounts", "discovery", "secrets"}
Error == {"none", "other", "ctx", "skip"}
WorkerState == [at : {"idle", "run", "offer", "gone"}, item : Nat, err : Error]
Result == [item : Nat, err : Error]

\* The plan is finite and its references lead somewhere.
LEMMA PlanType ==
  /\ Namespace \subseteq Nat /\ IsFiniteSet(Namespace)
  /\ Cardinality(Namespace) = NumNamespaces
  /\ Mount \subseteq Nat /\ IsFiniteSet(Mount) /\ NamespaceOf \in [Mount -> Namespace]
  /\ Secret \subseteq Nat /\ IsFiniteSet(Secret) /\ MountOf \in [Secret -> Mount]
<1>1. NumNamespaces \in Nat
  BY SeedAssumption
<1>2. Namespace \subseteq Nat /\ IsFiniteSet(Namespace) /\ Cardinality(Namespace) = NumNamespaces
  BY <1>1, FS_Interval DEF Namespace
<1>3. /\ Len(NamespaceOf) \in Nat /\ Mount = 1..Len(NamespaceOf)
      /\ NamespaceOf \in [1..Len(NamespaceOf) -> Namespace]
  BY SeedAssumption, LenProperties DEF Mount
<1>4. /\ Len(MountOf) \in Nat /\ Secret = 1..Len(MountOf)
      /\ MountOf \in [1..Len(MountOf) -> Mount]
  BY SeedAssumption, LenProperties DEF Secret
<1>5. IsFiniteSet(Mount) /\ IsFiniteSet(Secret)
  BY <1>3, <1>4, FS_Interval
<1> QED
  BY <1>2, <1>3, <1>4, <1>5

\* A stage has finitely many items, whichever namespaces were dropped.
LEMMA ItemsFinite ==
  ASSUME NEW s \in Stage
  PROVE  Items(s) \subseteq Nat /\ IsFiniteSet(Items(s))
<1>1. Items(s) \subseteq Namespace \/ Items(s) \subseteq Mount \/ Items(s) \subseteq Secret
  BY PlanType DEF Items, Stage
<1> QED
  BY <1>1, PlanType, FS_Subset

LEMMA WidthType == Width \in Nat /\ 0 < Width
<1>1. Cardinality(Worker) \in Nat /\ Cardinality(Worker) # 0
  BY SeedAssumption, FS_EmptySet, FS_CardinalityType
<1> QED
  BY <1>1 DEF Width

\* The producer's next item is one of those left.
LEMMA FirstInSet ==
  ASSUME NEW S \in SUBSET Nat, S # {}
  PROVE  First(S) \in S
<1>1. PICK m \in S : \A b \in S : <<b, m>> \notin OpToRel(<, Nat)
  BY NatLessThanWellFounded, WFMin
<1>2. \A b \in S : m <= b
  <2> SUFFICES ASSUME NEW b \in S, b < m PROVE FALSE
    OBVIOUS
  <2> QED
    BY <1>1 DEF OpToRel
<1> QED
  BY <1>2 DEF First

LEMMA SetOfTwo == ASSUME NEW S, NEW a \in S, NEW b \in S PROVE {a, b} \subseteq S
  OBVIOUS

LEMMA SetOfThree == ASSUME NEW S, NEW a \in S, NEW b \in S, NEW c \in S PROVE {a, b, c} \subseteq S
  OBVIOUS

-------------------------------------------------------------------------------
(* Types. *)

\* A worker that has an item has one of the stage, and nobody else is to run it.
Carried ==
  \A w \in Worker :
    worker[w].at \in {"run", "offer"} => worker[w].item \in Items(stage) \ (unsent \cup jobs)

\* What the stage says about the options and the goroutines.
Staged ==
  /\ stage = "namespaces" => ~skipNamespaces
  /\ stage = "mounts" => ~skipMounts
  /\ stage \in {"namespaces", "mounts"} => dropped = {}
  /\ ~skipMounts => dropped = {}
  /\ stage = "discovery" =>
       /\ skipMounts /\ ~spent /\ jobs = {} /\ results = <<>> /\ held = Nil
       /\ worker = [w \in Worker |-> Waiting]

TypeInv == TypeOK /\ Carried /\ Staged

LEMMA InitType == Init => TypeInv
<1> SUFFICES ASSUME Init PROVE TypeInv
  OBVIOUS
<1>1. PICK skip \in Skips : skipNamespaces = skip[1] /\ skipMounts = skip[2]
  BY DEF Init
<1>2. skipNamespaces \in BOOLEAN /\ skipMounts \in BOOLEAN
  BY <1>1, SeedAssumption
<1>3. stage \in Stage
  BY DEF Init, Stage
<1>4. Cardinality({}) = 0 /\ Len(<<>>) = 0 /\ <<>> \in Seq(Result)
  BY FS_EmptySet
<1>5. version \in [Mount -> 1..2]
  BY SeedAssumption DEF Init
<1>6. TypeOK
  <2>1. worker \in [Worker -> WorkerState]
    BY DEF Init, Waiting, WorkerState, Error
  <2>2. unsent \subseteq Items(stage) /\ jobs \subseteq Items(stage) \ unsent
    BY DEF Init
  <2>3. Cardinality(jobs) <= Width /\ Len(results) <= Width /\ results \in Seq(Result)
    BY <1>4, WidthType DEF Init
  <2>4. /\ budget \in Budgets /\ namespaces \subseteq Namespace /\ mounts \in [Mount -> 0..2]
        /\ secrets = {} /\ misplaced = {} /\ dropped = {} /\ held = Nil
        /\ closed = FALSE /\ spent = FALSE /\ cancelled = FALSE
        /\ failures = 0 /\ created = 0 /\ refused = 0 /\ outcome = "none"
    BY DEF Init
  <2>5. /\ {skipNamespaces, skipMounts} \subseteq BOOLEAN
        /\ {closed, spent, cancelled} \subseteq BOOLEAN
        /\ {failures, created, refused} \subseteq Nat
    <3>1. closed \in BOOLEAN /\ spent \in BOOLEAN /\ cancelled \in BOOLEAN
      BY <2>4
    <3>2. failures \in Nat /\ created \in Nat /\ refused \in Nat
      BY <2>4
    <3> QED
      BY <1>2, <3>1, <3>2, SetOfTwo, SetOfThree, Zenon
  <2>6. results \in Seq([item : Nat, err : {"none", "other", "ctx", "skip"}])
    BY <2>3 DEF Result, Error
  <2> QED
    BY <1>3, <1>5, <2>1, <2>2, <2>3, <2>4, <2>5, <2>6 DEF TypeOK, WorkerState, Error, Stage
<1>7. Carried
  BY DEF Init, Carried, Waiting
<1>8. Staged
  BY <1>2 DEF Init, Staged
<1> QED
  BY <1>6, <1>7, <1>8 DEF TypeInv

LEMMA NextType == TypeInv /\ [Next]_vars => TypeInv'
<1> SUFFICES ASSUME TypeInv, [Next]_vars PROVE TypeInv'
  OBVIOUS
<1> TypeOK /\ Carried /\ Staged
  BY DEF TypeInv
<1> worker \in [Worker -> WorkerState] /\ results \in Seq(Result)
  BY DEF TypeOK, WorkerState, Result, Error
<1> Len(results) \in Nat
  BY LenProperties
<1> stage \in Stage /\ Width \in Nat /\ 0 < Width
  BY WidthType DEF TypeOK, Stage
<1>a. /\ Items(stage) \subseteq Nat /\ unsent \subseteq Nat /\ jobs \subseteq Nat
      /\ IsFiniteSet(jobs) /\ Cardinality(jobs) \in Nat
  <2>1. Items(stage) \subseteq Nat /\ IsFiniteSet(Items(stage))
    BY ItemsFinite
  <2>2. unsent \subseteq Items(stage) /\ jobs \subseteq Items(stage)
    BY DEF TypeOK
  <2>3. IsFiniteSet(jobs)
    BY <2>1, <2>2, FS_Subset
  <2> QED
    BY <2>1, <2>2, <2>3, FS_CardinalityType
<1> USE DEF vault, config, pool, tally
<1>1. CASE Cancel
  <2>1. TypeOK'
    BY <1>1 DEF Cancel, TypeOK, Items
  <2> QED
    BY <1>1, <2>1 DEF Cancel, TypeInv, Carried, Staged, Items
<1>2. CASE Produce
  <2> DEFINE f == First(unsent)
  <2>1. f \in unsent
    BY <1>2, <1>a, FirstInSet DEF Produce
  <2> HIDE DEF f
  <2>2. jobs' = jobs \cup {f} /\ unsent' = unsent \ {f} /\ Cardinality(jobs) < Width
    BY <1>2 DEF Produce, f
  <2>3. unsent' \subseteq Items(stage) /\ jobs' \subseteq Items(stage) \ unsent'
    BY <2>1, <2>2 DEF TypeOK
  <2>4. Cardinality(jobs') <= Width
    <3>1. f \notin jobs
      BY <2>1 DEF TypeOK
    <3>2. Cardinality(jobs \cup {f}) = Cardinality(jobs) + 1
      BY <1>a, <3>1, FS_AddElement
    <3> QED
      BY <1>a, <2>2, <3>2
  <2>5. TypeOK'
    BY <1>2, <2>3, <2>4 DEF Produce, TypeOK, Items
  <2>6. unsent' \cup jobs' = unsent \cup jobs
    BY <2>1, <2>2
  <2> QED
    BY <1>2, <2>5, <2>6 DEF Produce, TypeInv, Carried, Staged, Items, InPool
<1>3. CASE CloseJobs
  <2>1. TypeOK'
    BY <1>3 DEF CloseJobs, TypeOK, Items
  <2> QED
    BY <1>3, <2>1 DEF CloseJobs, TypeInv, Carried, Staged, Items
<1>4. CASE Receive
  <2>1. results # <<>> /\ held' = Head(results) /\ results' = Tail(results)
    BY <1>4 DEF Receive
  <2>2. held' \in Result /\ results' \in Seq(Result) /\ Len(results') <= Width
    BY <2>1, HeadTailProperties DEF TypeOK
  <2>3. TypeOK'
    BY <1>4, <2>2 DEF Receive, TypeOK, Items, Result, Error
  <2> QED
    BY <1>4, <2>3 DEF Receive, TypeInv, Carried, Staged, Items, InPool
<1>5. CASE Collect
  <2>1. /\ failures' \in Nat /\ created' \in Nat /\ refused' \in Nat /\ spent' \in BOOLEAN
        /\ held' = Nil /\ stage # "discovery"
    BY <1>5 DEF Collect, Count, TypeOK, InPool
  <2>2. /\ {closed', spent', cancelled'} \subseteq BOOLEAN
        /\ {failures', created', refused'} \subseteq Nat
    <3>1. closed' \in BOOLEAN /\ cancelled' \in BOOLEAN
      BY <1>5 DEF Collect, TypeOK
    <3> QED
      BY <2>1, <3>1, SetOfThree, Zenon
  <2>3. TypeOK'
    BY <1>5, <2>1, <2>2 DEF Collect, TypeOK, Items
  <2> QED
    BY <1>5, <2>1, <2>3 DEF Collect, TypeInv, Carried, Staged, Items
<1>6. ASSUME NEW w \in Worker, Take(w) PROVE TypeInv'
  <2> DEFINE f == First(jobs)
  <2>1. f \in jobs
    BY <1>6, <1>a, FirstInSet DEF Take
  <2> HIDE DEF f
  <2>2. PICK s \in WorkerState : /\ worker' = [worker EXCEPT ![w] = s]
                                 /\ s.item = f
    <3> DEFINE s == [at   |-> IF StageDone THEN "offer" ELSE "run", item |-> f,
                     err  |-> IF StageDone THEN "skip" ELSE "none"]
    <3>1. worker' = [worker EXCEPT ![w] = s]
      BY <1>6 DEF Take, Becomes, f
    <3>2. f \in Nat
      BY <1>a, <2>1
    <3>3. s \in WorkerState /\ s.item = f
      BY <3>2 DEF WorkerState, Error
    <3> QED
      BY <3>1, <3>3
  <2>3. jobs' = jobs \ {f} /\ unsent' = unsent /\ stage' = stage
    BY <1>6 DEF Take, f
  <2>4. Cardinality(jobs') <= Width
    <3>1. Cardinality(jobs \ {f}) = Cardinality(jobs) - 1
      BY <1>a, <2>1, FS_RemoveElement
    <3> QED
      BY <1>a, <2>3, <3>1 DEF TypeOK
  <2>5. worker' \in [Worker -> WorkerState]
    BY <2>2
  <2>6. jobs' \subseteq Items(stage) \ unsent
    BY <2>3 DEF TypeOK
  <2>7. TypeOK'
    BY <1>6, <2>3, <2>4, <2>5, <2>6 DEF Take, TypeOK, Items, WorkerState, Error
  <2>8. Carried'
    <3>1. Items(stage)' = Items(stage)
      BY <1>6 DEF Take, Items
    <3>2. f \in Items(stage) \ unsent
      BY <2>1 DEF TypeOK
    <3> SUFFICES ASSUME NEW v \in Worker, worker'[v].at \in {"run", "offer"}
                 PROVE  worker'[v].item \in Items(stage) \ (unsent \cup (jobs \ {f}))
      BY <2>3, <3>1 DEF Carried
    <3>3. CASE v = w
      BY <2>2, <3>2, <3>3
    <3>4. CASE v # w
      BY <2>2, <3>4 DEF Carried
    <3> QED
      BY <3>3, <3>4
  <2> QED
    BY <1>6, <2>7, <2>8 DEF Take, TypeInv, Staged, Items, InPool
<1>7. ASSUME NEW w \in Worker, NEW s \in WorkerState, worker' = [worker EXCEPT ![w] = s],
             s.at = "offer" => worker[w].at = "run" /\ s.item = worker[w].item,
             s.at # "run", stage # "discovery",
             results' \in Seq(Result), Len(results') <= Width,
             refused' \in Nat,
             mounts' \in [Mount -> 0..2], namespaces' \subseteq Namespace,
             secrets' \subseteq Secret, misplaced' \subseteq Secret,
             UNCHANGED <<config, stage, unsent, jobs, closed, held, spent, cancelled,
                         failures, created, version, dropped, outcome>>
      PROVE  TypeInv'
  <2>1. worker' \in [Worker -> WorkerState]
    BY <1>7
  <2>2. {failures', created', refused'} \subseteq Nat
    <3>1. failures' \in Nat /\ created' \in Nat
      BY <1>7 DEF TypeOK
    <3> QED
      BY <1>7, <3>1, SetOfThree, Zenon
  <2>3. TypeOK'
    BY <1>7, <2>1, <2>2 DEF TypeOK, Items, WorkerState, Result, Error
  <2>4. Items(stage)' = Items(stage)
    BY <1>7 DEF Items
  <2>5. Carried'
    BY <1>7, <2>4 DEF Carried
  <2> QED
    BY <1>7, <2>3, <2>5 DEF TypeInv, Staged
<1>8. ASSUME NEW w \in Worker, Leave(w) PROVE TypeInv'
  <2>1. Gone \in WorkerState /\ Gone.at = "gone"
    BY DEF Gone, Waiting, WorkerState, Error
  <2>2. worker' = [worker EXCEPT ![w] = Gone]
    BY <1>8 DEF Leave, Becomes
  <2> QED
    BY <1>7, <1>8, <2>1, <2>2 DEF Leave, TypeOK, InPool
<1>9. ASSUME NEW w \in Worker, NEW err \in {"none", "other", "ctx"}, Write(w, err)
      PROVE  TypeInv'
  <2> DEFINE s == [worker[w] EXCEPT !.at = "offer", !.err = err]
             i == worker[w].item
  <2>1. s \in WorkerState /\ s.at = "offer" /\ s.item = i
    BY DEF WorkerState, Error
  <2>2. worker' = [worker EXCEPT ![w] = s] /\ worker[w].at = "run" /\ stage # "discovery"
    BY <1>9 DEF Write, Offer, Becomes, InPool
  <2>3. refused' \in Nat
    BY <1>9 DEF Write, TypeOK
  <2>4. Apply(i) \/ UNCHANGED vault
    BY <1>9 DEF Write
  <2>5. i \in Items(stage)
    BY <2>2 DEF Carried
  <2> HIDE DEF s, i
  <2>6. /\ mounts' \in [Mount -> 0..2] /\ namespaces' \subseteq Namespace
        /\ secrets' \subseteq Secret /\ misplaced' \subseteq Secret
    <3>1. CASE stage = "namespaces"
      BY <2>4, <2>5, <3>1 DEF Apply, Items, TypeOK
    <3>2. CASE stage = "mounts"
      BY <2>4, <2>5, <3>2 DEF Apply, Items, TypeOK
    <3>3. CASE stage = "secrets"
      BY <2>4, <2>5, <3>3 DEF Apply, Items, TypeOK
    <3> QED
      BY <2>2, <3>1, <3>2, <3>3 DEF Stage
  <2> QED
    BY <1>7, <1>9, <2>1, <2>2, <2>3, <2>6 DEF Write, TypeOK, i
<1>10. ASSUME NEW w \in Worker, Send(w) PROVE TypeInv'
  <2>1. Waiting \in WorkerState /\ Waiting.at = "idle"
    BY DEF Waiting, WorkerState, Error
  <2>2. worker' = [worker EXCEPT ![w] = Waiting] /\ Len(results) < Width
    BY <1>10 DEF Send, Becomes
  <2> DEFINE r == [item |-> worker[w].item, err |-> worker[w].err]
  <2>3. r \in Result /\ results' = Append(results, r)
    BY <1>10 DEF Send, Result, WorkerState
  <2> HIDE DEF r
  <2>4. results' \in Seq(Result) /\ Len(results') <= Width
    BY <2>2, <2>3, AppendProperties
  <2> QED
    BY <1>7, <1>10, <2>1, <2>2, <2>4 DEF Send, TypeOK, InPool
<1>11. ASSUME NEW s \in Stage, Enter(s, Items(s)),
              s = "mounts" => ~skipMounts, s = "discovery" => skipMounts, s # "namespaces",
              s = "mounts" => dropped = {}, ~skipMounts => dropped = {},
              UNCHANGED <<vault, config, cancelled, tally, version, dropped, outcome>>
       PROVE  TypeInv'
  <2>1. Items(stage)' = Items(s)
    BY <1>11 DEF Enter, Items
  <2>2. Cardinality({}) = 0 /\ Len(<<>>) = 0 /\ <<>> \in Seq(Result)
    BY FS_EmptySet
  <2>3. worker' \in [Worker -> WorkerState]
    BY <1>11 DEF Enter, Waiting, WorkerState, Error
  <2>4. {closed', spent', cancelled'} \subseteq BOOLEAN
    <3>1. closed' \in BOOLEAN /\ spent' \in BOOLEAN /\ cancelled' \in BOOLEAN
      BY <1>11 DEF Enter, TypeOK
    <3> QED
      BY <3>1, SetOfThree, Zenon
  <2>5. Cardinality(jobs') <= Width /\ Len(results') <= Width /\ results' \in Seq(Result)
    BY <1>11, <2>2 DEF Enter
  <2>6. TypeOK'
    BY <1>11, <2>1, <2>3, <2>4, <2>5 DEF Enter, TypeOK, Stage, WorkerState, Result, Error
  <2>7. Carried'
    BY <1>11 DEF Enter, Carried, Waiting
  <2>8. Staged'
    BY <1>11 DEF Enter, Staged, Stage
  <2> QED
    BY <2>6, <2>7, <2>8 DEF TypeInv
<1>12. ASSUME outcome' \in {"none", "nil", "threshold", "ctx"},
              UNCHANGED <<vault, config, stage, pool, cancelled, tally, version, dropped>>
       PROVE  TypeInv'
  <2>1. TypeOK'
    BY <1>12 DEF TypeOK, Items
  <2> QED
    BY <1>12, <2>1 DEF TypeInv, Carried, Staged, Items
<1>13. CASE EndStage
  <2>1. CASE stage # "secrets" /\ Enter(Succeeding(stage), Items(Succeeding(stage))) /\ UNCHANGED outcome
    <3>1. /\ stage \in {"namespaces", "mounts"}
          /\ UNCHANGED <<vault, config, cancelled, tally, version, dropped>>
      BY <1>13, <2>1 DEF EndStage, InPool, Stage
    <3>2. /\ Succeeding(stage) \in Stage \ {"namespaces"} /\ dropped = {}
          /\ Succeeding(stage) = "mounts" => ~skipMounts
          /\ Succeeding(stage) = "discovery" => skipMounts
      BY <3>1 DEF Succeeding, Stage, Staged, TypeOK
    <3> QED
      BY <1>11, <2>1, <3>1, <3>2
  <2>2. CASE UNCHANGED <<stage, pool>> /\ outcome' \in {"none", "nil", "threshold", "ctx"}
    BY <1>12, <1>13, <2>2 DEF EndStage
  <2> QED
    BY <1>13, <2>1, <2>2 DEF EndStage
<1>14. CASE EndDiscovery
  <2>1. CASE Enter("secrets", Items("secrets")) /\ UNCHANGED outcome
    BY <1>11, <1>14, <2>1 DEF EndDiscovery, Stage, Staged
  <2>2. CASE UNCHANGED <<stage, pool>> /\ outcome' = "ctx"
    BY <1>12, <1>14, <2>2 DEF EndDiscovery
  <2> QED
    BY <1>14, <2>1, <2>2 DEF EndDiscovery
<1>15. ASSUME stage = "discovery", unsent' \subseteq unsent, version' \in [Mount -> 1..2],
              dropped' \subseteq Namespace, failures' \in Nat, refused' \in Nat,
              outcome' \in {"none", "nil", "threshold", "ctx"},
              UNCHANGED <<vault, config, stage, jobs, closed, worker, results, held, spent,
                          cancelled, created>>
       PROVE  TypeInv'
  <2>1. Items(stage)' = Items(stage)
    BY <1>15 DEF Items
  <2>2. {failures', created', refused'} \subseteq Nat
    <3>1. created' \in Nat
      BY <1>15 DEF TypeOK
    <3> QED
      BY <1>15, <3>1, SetOfThree, Zenon
  <2>3. TypeOK'
    BY <1>15, <2>1, <2>2 DEF TypeOK, Staged
  <2>4. Carried'
    BY <1>15, <2>1 DEF Carried
  <2> QED
    BY <1>15, <2>3, <2>4 DEF TypeInv, Staged
<1>16. CASE Learn
  <2>1. /\ stage = "discovery" /\ unsent' \subseteq unsent /\ KVVersions
        /\ version' = [m \in Mount |-> IF NamespaceOf[m] = Current THEN mounts[m] ELSE version[m]]
    BY <1>16 DEF Learn, LearnVersions
  <2>2. version' \in [Mount -> 1..2]
    BY <2>1 DEF TypeOK, KVVersions, MountsOf
  <2> QED
    BY <1>15, <1>16, <2>1, <2>2 DEF Learn, TypeOK
<1>17. CASE LearnFails
  <2>1. Current \in Namespace
    <3>1. Current \in unsent
      BY <1>17, <1>a, FirstInSet DEF LearnFails, Current
    <3>2. unsent \subseteq Namespace
      BY <1>17, PlanType DEF LearnFails, TypeOK, Items
    <3> QED
      BY <3>1, <3>2
  <2>2. Cardinality(MountsOf(Current)) \in Nat
    <3>1. MountsOf(Current) \in SUBSET Mount
      BY DEF MountsOf
    <3> QED
      BY <3>1, PlanType, FS_Subset, FS_CardinalityType
  <2>3. stage = "discovery" /\ unsent' \subseteq unsent
    BY <1>17 DEF LearnFails
  <2> QED
    BY <1>15, <1>17, <2>1, <2>2, <2>3 DEF LearnFails, TypeOK
<1>18. CASE UNCHANGED vars
  BY <1>12, <1>18 DEF vars, TypeOK
<1> QED
  BY <1>1, <1>2, <1>3, <1>4, <1>5, <1>6, <1>8, <1>9, <1>10, <1>13, <1>14, <1>16, <1>17, <1>18
  DEF Next, RunStep, WorkerStep, Writes

\* Every variable keeps its type and the channels their capacity.
THEOREM TypeCorrect == Spec => []TypeOK
<1>1. TypeInv => TypeOK
  BY DEF TypeInv
<1> QED
  BY <1>1, InitType, NextType, PTL DEF Spec

-------------------------------------------------------------------------------
(* After Run has returned. *)

\* Run returns when its goroutines are gone and nothing is left to collect.
Quiet ==
  ~Running => /\ held = Nil /\ results = <<>>
              /\ stage # "discovery" => \A w \in Worker : worker[w].at = "gone"

LEMMA QuietStep == TypeInv /\ Quiet /\ [Next]_vars => Quiet'
<1> SUFFICES ASSUME TypeInv, Quiet, [Next]_vars PROVE Quiet'
  OBVIOUS
<1> TypeOK /\ Staged
  BY DEF TypeInv
<1> USE DEF vault, config, pool, tally, Running
<1>1. CASE UNCHANGED <<outcome, held, results, stage, worker>>
  BY <1>1 DEF Quiet
<1>2. CASE outcome' = "none"
  BY <1>2 DEF Quiet
<1>3. CASE EndStage
  <2>1. CASE UNCHANGED outcome
    BY <1>3, <2>1 DEF Quiet, EndStage
  <2>2. CASE UNCHANGED <<stage, pool>>
    BY <1>3, <2>2 DEF Quiet, EndStage, Drained
  <2> QED
    BY <1>3, <2>1, <2>2 DEF EndStage
<1>4. CASE stage = "discovery" /\ stage' = stage /\ UNCHANGED <<held, results>>
  BY <1>4 DEF Quiet, Staged
<1>5. ASSUME NEW w \in Worker, worker[w].at \in {"idle", "run", "offer"}, stage # "discovery",
             outcome' = outcome
      PROVE  Quiet'
  BY <1>5 DEF Quiet
<1>6. ASSUME NEW w \in Worker, WorkerStep(w) \/ Writes(w) PROVE Quiet'
  BY <1>5, <1>6 DEF WorkerStep, Writes, Take, Leave, Send, Write, InPool
<1>7. CASE Cancel \/ Produce \/ CloseJobs \/ UNCHANGED vars
  BY <1>1, <1>7 DEF Cancel, Produce, CloseJobs, vars
<1>8. CASE Receive \/ Collect
  BY <1>2, <1>8 DEF Receive, Collect
<1>9. CASE Learn \/ LearnFails
  BY <1>4, <1>9 DEF Learn, LearnFails
<1>10. CASE EndDiscovery
  <2>1. CASE UNCHANGED outcome
    BY <1>2, <1>10, <2>1 DEF EndDiscovery
  <2>2. CASE UNCHANGED <<stage, pool>>
    BY <1>4, <1>10, <2>2 DEF EndDiscovery
  <2> QED
    BY <1>10, <2>1, <2>2 DEF EndDiscovery
<1> QED
  BY <1>3, <1>6, <1>7, <1>8, <1>9, <1>10 DEF Next, RunStep

LEMMA QuietHolds == Spec => [](TypeInv /\ Quiet)
<1>1. Init => Quiet
  BY DEF Init, Quiet, Running
<1> QED
  BY <1>1, InitType, NextType, QuietStep, PTL DEF Spec

\* Once Run has returned, no step of Next is a write: no worker is left to make one.
THEOREM QuietAfterReturn == Spec => NothingAfterReturn
<1>1. TypeInv /\ Quiet /\ [Next]_vars => [~Running => UNCHANGED vault]_vars
  <2> SUFFICES ASSUME TypeInv, Quiet, [Next]_vars, ~Running PROVE UNCHANGED vault
    OBVIOUS
  <2> USE DEF vault, config, pool, tally
  <2>1. ASSUME NEW w \in Worker, NEW err \in {"none", "other", "ctx"}, Write(w, err)
        PROVE  FALSE
    BY <2>1 DEF Write, Quiet, InPool
  <2>2. ASSUME NEW w \in Worker, WorkerStep(w) PROVE UNCHANGED vault
    BY <2>2 DEF WorkerStep, Take, Leave, Send
  <2>3. CASE Cancel \/ Produce \/ CloseJobs \/ UNCHANGED vars
    BY <2>3 DEF Cancel, Produce, CloseJobs, vars
  <2>4. CASE RunStep
    BY <2>4 DEF RunStep, Receive, Collect, EndStage, Learn, LearnFails, EndDiscovery
  <2> QED
    BY <2>1, <2>2, <2>3, <2>4 DEF Next, Writes
<1> QED
  BY <1>1, QuietHolds, PTL DEF Spec, NothingAfterReturn

-------------------------------------------------------------------------------
(* The failures. *)

Refusing == {w \in Worker : worker[w].at = "offer" /\ worker[w].err = "other"}
Others(s) == {i \in DOMAIN s : s[i].err = "other"}
InHand == IF held.err = "other" THEN 1 ELSE 0

\* An operation that failed is with its worker, in the channel, with the collector,
\* or counted.
Tallied ==
  failures + Cardinality(Refusing) + Cardinality(Others(results)) + InHand = refused

LEMMA RefusingFinite == IsFiniteSet(Refusing) /\ Cardinality(Refusing) \in Nat
<1>1. Refusing \in SUBSET Worker
  BY DEF Refusing
<1> QED
  BY <1>1, SeedAssumption, FS_Subset, FS_CardinalityType

LEMMA OthersFinite ==
  ASSUME NEW s \in Seq(Result)
  PROVE  IsFiniteSet(Others(s)) /\ Cardinality(Others(s)) \in Nat
<1>1. Len(s) \in Nat /\ DOMAIN s = 1..Len(s)
  BY LenProperties
<1>2. IsFiniteSet(1..Len(s))
  BY <1>1, FS_Interval
<1>3. Others(s) \in SUBSET (1..Len(s))
  BY <1>1 DEF Others
<1> QED
  BY <1>2, <1>3, FS_Subset, FS_CardinalityType

LEMMA OthersEmpty == Cardinality(Others(<<>>)) = 0
<1>1. Others(<<>>) = {}
  BY DEF Others
<1> QED
  BY <1>1, FS_EmptySet

\* A result that is sent is one more in the channel.
LEMMA OthersAppend ==
  ASSUME NEW s \in Seq(Result), NEW r \in Result
  PROVE  Cardinality(Others(Append(s, r))) =
           Cardinality(Others(s)) + (IF r.err = "other" THEN 1 ELSE 0)
<1> DEFINE t == Append(s, r)
<1>1. /\ Len(s) \in Nat /\ DOMAIN s = 1..Len(s) /\ DOMAIN t = 1..(Len(s) + 1)
      /\ \A i \in 1..Len(s) : t[i] = s[i]
      /\ t[Len(s) + 1] = r
  <2>1. t \in Seq(Result) /\ Len(t) = Len(s) + 1
    BY AppendProperties
  <2> HIDE DEF t
  <2>2. DOMAIN t = 1..(Len(s) + 1) /\ Len(s) \in Nat /\ DOMAIN s = 1..Len(s)
    BY <2>1, LenProperties
  <2> QED
    BY <2>2, AppendProperties DEF t
<1> HIDE DEF t
<1>2. Len(s) + 1 \notin Others(s)
  BY <1>1 DEF Others
<1>3. CASE r.err = "other"
  <2>1. Others(t) = Others(s) \cup {Len(s) + 1}
    BY <1>1, <1>3 DEF Others
  <2> QED
    BY <1>2, <1>3, <2>1, OthersFinite, FS_AddElement DEF t
<1>4. CASE r.err # "other"
  <2>1. Others(t) = Others(s)
    BY <1>1, <1>4 DEF Others
  <2> QED
    BY <1>4, <2>1, OthersFinite DEF t
<1> QED
  BY <1>3, <1>4

\* A result that is received is one less.
LEMMA OthersTail ==
  ASSUME NEW s \in Seq(Result), s # <<>>
  PROVE  Cardinality(Others(s)) =
           Cardinality(Others(Tail(s))) + (IF Head(s).err = "other" THEN 1 ELSE 0)
<1> DEFINE t == Tail(s)
           S == Others(s) \ {1}
           f == [i \in Others(t) |-> i + 1]
<1>1. /\ Len(s) \in Nat /\ DOMAIN s = 1..Len(s) /\ DOMAIN t = 1..(Len(s) - 1)
      /\ \A i \in 1..(Len(s) - 1) : t[i] = s[i + 1]
      /\ t \in Seq(Result) /\ 1 <= Len(s)
  <2>1. t \in Seq(Result) /\ Len(t) = Len(s) - 1 /\ \A i \in 1..Len(t) : t[i] = s[i + 1]
    BY HeadTailProperties
  <2>2. Len(s) \in Nat /\ DOMAIN s = 1..Len(s) /\ Len(s) # 0
    BY LenProperties, EmptySeq
  <2> HIDE DEF t
  <2>3. DOMAIN t = 1..Len(t)
    BY <2>1, LenProperties
  <2> QED
    BY <2>1, <2>2, <2>3
<1> HIDE DEF t
<1>2. f \in Bijection(Others(t), S)
  <2>1. f \in [Others(t) -> S]
    BY <1>1 DEF Others
  <2>2. \A i, j \in Others(t) : f[i] = f[j] => i = j
    BY <1>1 DEF Others
  <2>3. \A j \in S : \E i \in Others(t) : f[i] = j
    <3> TAKE j \in S
    <3>1. j - 1 \in Others(t) /\ (j - 1) + 1 = j
      BY <1>1 DEF Others
    <3> QED
      BY <3>1
  <2> QED
    BY <2>1, <2>2, <2>3 DEF Bijection, Injection, Surjection, IsInjective
<1>3. Cardinality(S) = Cardinality(Others(t)) /\ Cardinality(Others(t)) \in Nat
  BY <1>1, <1>2, OthersFinite, FS_Bijection DEF ExistsBijection
<1>4. 1 \in Others(s) <=> Head(s).err = "other"
  BY <1>1 DEF Others
<1>5. IsFiniteSet(Others(s)) /\ Cardinality(Others(s)) \in Nat
  BY OthersFinite
<1> HIDE DEF S
<1>6. Cardinality(S) = IF 1 \in Others(s) THEN Cardinality(Others(s)) - 1 ELSE Cardinality(Others(s))
  BY <1>5, FS_RemoveElement DEF S
<1> QED
  BY <1>3, <1>4, <1>5, <1>6 DEF t

LEMMA InitTallied == Init => Tallied
<1> SUFFICES ASSUME Init PROVE Tallied
  OBVIOUS
<1>1. Refusing = {} /\ results = <<>> /\ InHand = 0
  BY DEF Init, Refusing, Waiting, InHand, Nil
<1>2. failures = 0 /\ refused = 0
  BY DEF Init
<1> QED
  BY <1>1, <1>2, OthersEmpty, FS_EmptySet DEF Tallied

LEMMA TalliedStep == TypeInv /\ Tallied /\ [Next]_vars => Tallied'
<1> SUFFICES ASSUME TypeInv, Tallied, [Next]_vars PROVE Tallied'
  OBVIOUS
<1> TypeOK /\ Staged
  BY DEF TypeInv
<1> worker \in [Worker -> WorkerState] /\ results \in Seq(Result) /\ held \in {Nil} \cup Result
  BY DEF TypeOK, WorkerState, Result, Error
<1> DEFINE F == Cardinality(Refusing)
           O == Cardinality(Others(results))
<1>a. /\ F \in Nat /\ O \in Nat /\ failures \in Nat /\ refused \in Nat /\ InHand \in Nat
      /\ failures + F + O + InHand = refused
  BY RefusingFinite, OthersFinite DEF TypeOK, Tallied, InHand
<1> USE DEF vault, config, pool, tally
<1>1. CASE UNCHANGED <<failures, refused, worker, results, held>>
  BY <1>1 DEF Tallied, Refusing, InHand
<1>2. CASE Cancel \/ Produce \/ CloseJobs \/ Learn \/ UNCHANGED vars
  BY <1>1, <1>2 DEF Cancel, Produce, CloseJobs, Learn, vars
<1>3. ASSUME worker' = [w \in Worker |-> Waiting], results' = <<>>, held' = Nil,
             \A w \in Worker : worker[w].at # "offer",
             results = <<>>, held = Nil, UNCHANGED tally
      PROVE  Tallied'
  <2>1. Refusing = {} /\ Refusing' = {} /\ InHand = 0 /\ InHand' = 0
    BY <1>3 DEF Refusing, Waiting, InHand, Nil
  <2> QED
    BY <1>3, <2>1 DEF Tallied
<1>4. CASE EndStage
  <2>1. CASE UNCHANGED <<stage, pool>>
    BY <1>1, <1>4, <2>1 DEF EndStage
  <2>2. CASE Enter(Succeeding(stage), Items(Succeeding(stage)))
    BY <1>3, <1>4, <2>2 DEF EndStage, Enter, Drained
  <2> QED
    BY <1>4, <2>1, <2>2 DEF EndStage
<1>5. CASE EndDiscovery
  <2>1. CASE UNCHANGED <<stage, pool>>
    BY <1>1, <1>5, <2>1 DEF EndDiscovery
  <2>2. CASE Enter("secrets", Items("secrets"))
    <3>1. results = <<>> /\ held = Nil /\ \A w \in Worker : worker[w].at # "offer"
      BY <1>5 DEF EndDiscovery, Staged, Waiting
    <3> QED
      BY <1>3, <1>5, <2>2, <3>1 DEF EndDiscovery, Enter
  <2> QED
    BY <1>5, <2>1, <2>2 DEF EndDiscovery
<1>6. CASE LearnFails
  <2> DEFINE n == Cardinality(MountsOf(Current))
  <2>1. n \in Nat
    <3>1. MountsOf(Current) \in SUBSET Mount
      BY DEF MountsOf
    <3> QED
      BY <3>1, PlanType, FS_Subset, FS_CardinalityType
  <2> HIDE DEF n
  <2>2. /\ failures' = failures + n /\ refused' = refused + n
        /\ UNCHANGED <<worker, results, held>>
    BY <1>6 DEF LearnFails, n
  <2>3. F' = F /\ O' = O /\ InHand' = InHand
    BY <2>2 DEF Refusing, InHand
  <2> HIDE DEF F, O
  <2>4. failures' + F + O + InHand = refused'
    BY <1>a, <2>1, <2>2
  <2> QED
    BY <2>3, <2>4 DEF Tallied, F, O
<1>7. CASE Receive
  <2>1. /\ held = Nil /\ results # <<>> /\ held' = Head(results) /\ results' = Tail(results)
        /\ UNCHANGED <<worker, failures, refused>>
    BY <1>7 DEF Receive
  <2>2. O = Cardinality(Others(results')) + InHand'
    BY <2>1, OthersTail DEF InHand
  <2>3. Refusing' = Refusing /\ InHand = 0
    BY <2>1 DEF Refusing, InHand, Nil
  <2>4. Cardinality(Others(results')) \in Nat /\ InHand' \in Nat
    <3>1. results' \in Seq(Result)
      BY <2>1, HeadTailProperties
    <3> QED
      BY <3>1, OthersFinite DEF InHand
  <2> DEFINE P == Cardinality(Others(results'))
  <2> HIDE DEF F, O, P
  <2>5. failures + F + P + InHand' = refused
    BY <1>a, <2>2, <2>3, <2>4 DEF P
  <2> QED
    BY <2>1, <2>3, <2>5 DEF Tallied, F, P
<1>8. CASE Collect
  <2>1. /\ held # Nil /\ held' = Nil /\ UNCHANGED <<worker, results, refused>>
        /\ failures' = IF held.err = "other" THEN failures + 1 ELSE failures
    BY <1>8 DEF Collect, Count
  <2>2. Refusing' = Refusing /\ InHand' = 0 /\ failures' = failures + InHand
    BY <1>a, <2>1 DEF Refusing, InHand, Nil
  <2> HIDE DEF F, O
  <2>3. failures' + F + O + InHand' = refused
    BY <1>a, <2>2
  <2> QED
    BY <2>1, <2>2, <2>3 DEF Tallied, F, O
<1>9. ASSUME NEW w \in Worker, NEW s, worker' = [worker EXCEPT ![w] = s],
             s.at # "offer" \/ s.err # "other",
             worker[w].at # "offer", UNCHANGED <<failures, refused, results, held>>
      PROVE  Tallied'
  <2>1. Refusing' = Refusing
    BY <1>9 DEF Refusing
  <2> QED
    BY <1>9, <2>1 DEF Tallied, InHand
<1>10. ASSUME NEW w \in Worker, Take(w) \/ Leave(w) PROVE Tallied'
  <2>1. CASE Take(w)
    BY <1>9, <1>10, <2>1 DEF Take, Becomes
  <2>2. CASE Leave(w)
    <3>1. Gone.at = "gone"
      BY DEF Gone, Waiting
    <3> QED
      BY <1>9, <2>2, <3>1 DEF Leave, Becomes
  <2> QED
    BY <1>10, <2>1, <2>2
<1>11. ASSUME NEW w \in Worker, NEW err \in {"none", "other", "ctx"}, Write(w, err)
       PROVE  Tallied'
  <2> DEFINE s == [worker[w] EXCEPT !.at = "offer", !.err = err]
  <2>1. s.at = "offer" /\ s.err = err
    BY DEF WorkerState
  <2>2. /\ worker' = [worker EXCEPT ![w] = s] /\ worker[w].at = "run"
        /\ UNCHANGED <<failures, results, held>>
        /\ refused' = IF err = "other" THEN refused + 1 ELSE refused
    BY <1>11 DEF Write, Offer, Becomes
  <2> HIDE DEF s
  <2>3. CASE err # "other"
    BY <1>9, <2>1, <2>2, <2>3
  <2>4. CASE err = "other"
    <3>1. Refusing' = Refusing \cup {w} /\ w \notin Refusing
      BY <2>1, <2>2, <2>4 DEF Refusing
    <3>2. Cardinality(Refusing \cup {w}) = F + 1
      BY <3>1, RefusingFinite, FS_AddElement
    <3>3. O' = O /\ InHand' = InHand
      BY <2>2 DEF InHand
    <3> HIDE DEF F, O
    <3>4. failures + (F + 1) + O + InHand = refused'
      BY <1>a, <2>2, <2>4
    <3> QED
      BY <2>2, <3>1, <3>2, <3>3, <3>4 DEF Tallied, O
  <2> QED
    BY <2>3, <2>4
<1>12. ASSUME NEW w \in Worker, Send(w) PROVE Tallied'
  <2> DEFINE r == [item |-> worker[w].item, err |-> worker[w].err]
             e == IF worker[w].err = "other" THEN 1 ELSE 0
  <2>1. /\ worker[w].at = "offer" /\ worker' = [worker EXCEPT ![w] = Waiting]
        /\ results' = Append(results, r) /\ UNCHANGED <<failures, refused, held>>
    BY <1>12 DEF Send, Becomes
  <2>2. r \in Result /\ r.err = worker[w].err
    BY DEF Result, WorkerState
  <2>3. Cardinality(Others(results')) = O + e
    BY <2>1, <2>2, OthersAppend
  <2>4. Refusing' = Refusing \ {w} /\ (w \in Refusing <=> worker[w].err = "other")
    BY <2>1 DEF Refusing, Waiting
  <2>5. Cardinality(Refusing \ {w}) = F - e
    <3>1. Cardinality(Refusing \ {w}) = IF w \in Refusing THEN F - 1 ELSE F
      BY RefusingFinite, FS_RemoveElement
    <3> HIDE DEF F
    <3> QED
      BY <1>a, <2>4, <3>1
  <2>6. InHand' = InHand /\ e \in Nat
    BY <2>1 DEF InHand
  <2> HIDE DEF F, O, e
  <2>7. failures + (F - e) + (O + e) + InHand = refused
    BY <1>a, <2>6
  <2> QED
    BY <2>1, <2>3, <2>4, <2>5, <2>6, <2>7 DEF Tallied
<1> QED
  BY <1>2, <1>4, <1>5, <1>6, <1>7, <1>8, <1>10, <1>11, <1>12
  DEF Next, RunStep, WorkerStep, Writes

\* Result.Failures never runs ahead of the failures, and has them all when Run returns.
THEOREM FailuresExact == Spec => []FailuresAreExact
<1>1. TypeInv /\ Quiet /\ Tallied => FailuresAreExact
  <2> SUFFICES ASSUME TypeInv, Quiet, Tallied PROVE FailuresAreExact
    OBVIOUS
  <2>1. results \in Seq(Result) /\ failures \in Nat /\ InHand \in Nat
    BY DEF TypeInv, TypeOK, Result, Error, InHand
  <2>2. /\ Cardinality(Refusing) \in Nat /\ Cardinality(Others(results)) \in Nat
        /\ failures + Cardinality(Refusing) + Cardinality(Others(results)) + InHand = refused
    BY <2>1, RefusingFinite, OthersFinite DEF Tallied
  <2>3. failures <= refused
    BY <2>1, <2>2
  <2>4. ASSUME ~Running PROVE failures = refused
    <3>1. InHand = 0 /\ results = <<>> /\ Refusing = {}
      BY <2>4 DEF Quiet, InHand, Nil, Refusing, TypeInv, Staged, Waiting
    <3> QED
      BY <2>1, <2>2, <3>1, OthersEmpty, FS_EmptySet
  <2> QED
    BY <2>3, <2>4 DEF FailuresAreExact
<1> QED
  BY <1>1, InitTallied, QuietHolds, TalliedStep, PTL DEF Spec

-------------------------------------------------------------------------------
(* The budget. *)

\* The stage is cancelled, or Run ended for it, exactly when the budget is used up.
Bounded ==
  IF spent \/ outcome = "threshold" THEN budget # -1 /\ failures >= Limit
                                    ELSE budget = -1 \/ failures < Limit

LEMMA ExceedsIsLimit ==
  ASSUME NEW n \in Nat, 0 < n, budget \in Budgets
  PROVE  Exceeds(n) <=> budget # -1 /\ n >= Limit
  BY SeedAssumption DEF Exceeds, Limit

LEMMA InitBounded == Init => Bounded
<1>1. Init => failures = 0 /\ spent = FALSE /\ outcome = "none" /\ budget \in Budgets
  BY DEF Init
<1>2. budget \in Budgets => budget = -1 \/ 0 < Limit
  BY SeedAssumption DEF Limit
<1> QED
  BY <1>1, <1>2 DEF Bounded

LEMMA BoundedStep == TypeInv /\ Quiet /\ Bounded /\ [Next]_vars => Bounded'
<1> SUFFICES ASSUME TypeInv, Quiet, Bounded, [Next]_vars PROVE Bounded'
  OBVIOUS
<1> TypeOK /\ Staged /\ budget \in Budgets /\ failures \in Nat
  BY DEF TypeInv, TypeOK
<1>a. budget \in Int /\ Limit \in Int
  BY SeedAssumption DEF Limit
<1> USE DEF vault, config, pool, tally
<1>1. CASE UNCHANGED <<failures, spent, outcome, budget>>
  BY <1>1 DEF Bounded, Limit
<1>2. CASE Cancel \/ Produce \/ CloseJobs \/ Learn \/ Receive \/ UNCHANGED vars
  BY <1>1, <1>2 DEF Cancel, Produce, CloseJobs, Learn, Receive, vars
<1>3. ASSUME NEW w \in Worker, WorkerStep(w) \/ Writes(w) PROVE Bounded'
  BY <1>1, <1>3 DEF WorkerStep, Writes, Take, Leave, Send, Write
<1>4. CASE Collect
  <2>1. /\ outcome = "none" /\ UNCHANGED <<outcome, budget>>
        /\ failures' = IF held.err = "other" THEN failures + 1 ELSE failures
        /\ spent' = (spent \/ (held.err = "other" /\ Exceeds(failures + 1)))
    BY <1>4 DEF Collect, Count, Running
  <2>2. Exceeds(failures + 1) <=> budget # -1 /\ failures + 1 >= Limit
    BY ExceedsIsLimit
  <2>3. Limit' = Limit
    BY <2>1 DEF Limit
  <2>4. CASE held.err = "other"
    <3>1. spent' <=> budget # -1 /\ failures + 1 >= Limit
      <4>1. spent' <=> spent \/ Exceeds(failures + 1)
        BY <2>1, <2>4
      <4>2. spent => budget # -1 /\ failures >= Limit
        BY DEF Bounded
      <4>3. failures >= Limit => failures + 1 >= Limit
        BY <1>a
      <4> HIDE DEF Limit, Exceeds
      <4> QED
        BY <2>2, <4>1, <4>2, <4>3
    <3>2. failures' = failures + 1 /\ outcome' = "none" /\ budget' = budget
      BY <2>1, <2>4
    <3> QED
      BY <1>a, <2>3, <3>1, <3>2 DEF Bounded
  <2>5. CASE held.err # "other"
    <3>1. (spent' <=> spent) /\ failures' = failures /\ outcome' = outcome /\ budget' = budget
      BY <2>1, <2>5
    <3> QED
      BY <2>3, <3>1 DEF Bounded
  <2> QED
    BY <2>4, <2>5
<1>5. CASE LearnFails
  <2> DEFINE n == Cardinality(MountsOf(Current))
  <2>1. n \in Nat /\ 0 < n
    <3>1. Current \in {NamespaceOf[m] : m \in Mount}
      <4>1. unsent \subseteq {NamespaceOf[m] : m \in Mount} /\ unsent # {}
        BY <1>5 DEF LearnFails, TypeOK, Items
      <4>2. unsent \subseteq Nat
        BY <4>1, PlanType
      <4> QED
        BY <4>1, <4>2, FirstInSet DEF Current
    <3>2. MountsOf(Current) # {} /\ MountsOf(Current) \in SUBSET Mount
      BY <3>1 DEF MountsOf
    <3>3. IsFiniteSet(MountsOf(Current))
      BY <3>2, PlanType, FS_Subset
    <3>4. n \in Nat /\ n # 0
      BY <3>2, <3>3, FS_EmptySet, FS_CardinalityType
    <3> QED
      BY <3>4
  <2>2. /\ failures' = failures + n /\ ~spent /\ UNCHANGED <<spent, budget>>
        /\ outcome' = IF Exceeds(failures') THEN "threshold" ELSE "none"
    BY <1>5 DEF LearnFails, Staged
  <2> HIDE DEF n
  <2>3. failures + n \in Nat /\ 0 < failures + n
    BY <2>1
  <2>4. Exceeds(failures + n) <=> budget # -1 /\ failures + n >= Limit
    BY <2>3, ExceedsIsLimit
  <2>5. Limit' = Limit /\ (outcome' = "threshold" <=> budget # -1 /\ failures' >= Limit)
    BY <2>2, <2>4 DEF Limit
  <2> QED
    BY <1>a, <2>2, <2>3, <2>5 DEF Bounded
<1>6. CASE EndStage
  <2>1. outcome = "none" /\ UNCHANGED <<failures, budget>>
    BY <1>6 DEF EndStage, Running
  <2>2. CASE ~StageDone /\ Enter(Succeeding(stage), Items(Succeeding(stage))) /\ UNCHANGED outcome
    BY <2>1, <2>2 DEF Enter, StageDone, Bounded, Limit
  <2>3. CASE UNCHANGED <<stage, pool>> /\ outcome' = IF cancelled THEN "ctx" ELSE IF spent THEN "threshold" ELSE "nil"
    BY <2>1, <2>3 DEF Bounded, Limit
  <2> QED
    BY <1>6, <2>2, <2>3 DEF EndStage
<1>7. CASE EndDiscovery
  <2>1. outcome = "none" /\ ~spent /\ UNCHANGED <<failures, budget>>
    BY <1>7 DEF EndDiscovery, Running, Staged
  <2>2. CASE Enter("secrets", Items("secrets")) /\ UNCHANGED outcome
    BY <2>1, <2>2 DEF Enter, Bounded, Limit
  <2>3. CASE UNCHANGED <<stage, pool>> /\ outcome' = "ctx"
    BY <2>1, <2>3 DEF Bounded, Limit
  <2> QED
    BY <1>7, <2>2, <2>3 DEF EndDiscovery
<1> QED
  BY <1>2, <1>3, <1>4, <1>5, <1>6, <1>7 DEF Next, RunStep

LEMMA BoundedHolds == Spec => []Bounded
  BY InitBounded, QuietHolds, BoundedStep, PTL DEF Spec

\* What Run returns and what it counted agree on whether the budget was used up.
Returned ==
  /\ outcome = "nil" => ~spent /\ ~cancelled /\ stage = "secrets"
  /\ outcome = "threshold" => budget # -1 /\ failures >= Limit

LEMMA ReturnedStep == TypeInv /\ Quiet /\ Bounded /\ Bounded' /\ Returned /\ [Next]_vars => Returned'
<1> SUFFICES ASSUME TypeInv, Quiet, Bounded, Bounded', Returned, [Next]_vars PROVE Returned'
  OBVIOUS
<1> USE DEF vault, config, pool, tally, Running
<1>1. outcome' = "threshold" => (budget # -1 /\ failures >= Limit)'
  BY DEF Bounded
<1>2. CASE UNCHANGED <<outcome, spent, cancelled, stage>>
  BY <1>1, <1>2 DEF Returned
<1>3. CASE outcome = "none" /\ UNCHANGED outcome
  BY <1>1, <1>3 DEF Returned
<1>4. CASE Cancel \/ Receive \/ Collect
  BY <1>3, <1>4 DEF Cancel, Receive, Collect
<1>5. CASE Produce \/ CloseJobs \/ Learn \/ UNCHANGED vars
  BY <1>2, <1>5 DEF Produce, CloseJobs, Learn, vars
<1>6. ASSUME NEW w \in Worker, WorkerStep(w) \/ Writes(w) PROVE Returned'
  BY <1>2, <1>6 DEF WorkerStep, Writes, Take, Leave, Send, Write
<1>7. CASE LearnFails
  <2>1. outcome' # "nil"
    BY <1>7 DEF LearnFails
  <2> QED
    BY <1>1, <2>1 DEF Returned
<1>8. CASE EndStage \/ EndDiscovery
  <2>1. CASE UNCHANGED outcome
    BY <1>3, <1>8, <2>1 DEF EndStage, EndDiscovery
  <2>2. CASE UNCHANGED <<stage, pool>> /\ EndStage /\ (StageDone \/ stage = "secrets")
    BY <1>1, <2>2 DEF Returned, EndStage, StageDone
  <2>3. CASE outcome' = "ctx"
    BY <1>1, <2>3 DEF Returned
  <2> QED
    BY <1>8, <2>1, <2>2, <2>3 DEF EndStage, EndDiscovery
<1> QED
  BY <1>4, <1>5, <1>6, <1>7, <1>8 DEF Next, RunStep

LEMMA ReturnedHolds == Spec => []Returned
<1>1. Init => Returned
  BY DEF Init, Returned
<1> QED
  BY <1>1, QuietHolds, BoundedHolds, ReturnedStep, PTL DEF Spec

\* The budget is reported as used up, and Run returns nil, as the count of failures says.
THEOREM BudgetKept == Spec => []BudgetIsKept
<1>1. Bounded /\ Returned => BudgetIsKept
  <2> SUFFICES ASSUME Bounded, Returned PROVE BudgetIsKept
    OBVIOUS
  <2>1. outcome = "nil" => budget = -1 \/ failures < Limit
    BY DEF Bounded, Returned
  <2> QED
    BY <2>1 DEF Returned, BudgetIsKept
<1> QED
  BY <1>1, BoundedHolds, ReturnedHolds, PTL

-------------------------------------------------------------------------------
(* The versions of the mounts. *)

\* With SkipMounts no mount changes, and once its namespace has been read, and not
\* dropped, the plan knows its version.
Learned ==
  skipMounts =>
    /\ misplaced = {}
    /\ stage \in {"discovery", "secrets"} =>
         \A m \in Mount :
           (stage = "discovery" => NamespaceOf[m] \notin unsent) /\ NamespaceOf[m] \notin dropped
             => version[m] = mounts[m]

LEMMA InitLearned == Init => Learned
<1> SUFFICES ASSUME Init PROVE Learned
  OBVIOUS
<1>1. stage # "secrets" /\ misplaced = {} /\ unsent = Items(stage)
  BY DEF Init
<1>2. stage = "discovery" => \A m \in Mount : NamespaceOf[m] \in unsent
  BY <1>1 DEF Items
<1> QED
  BY <1>1, <1>2 DEF Learned

LEMMA LearnedStep == TypeInv /\ Learned /\ [Next]_vars => Learned'
<1> SUFFICES ASSUME TypeInv, Learned, [Next]_vars PROVE Learned'
  OBVIOUS
<1> TypeOK /\ Carried /\ Staged
  BY DEF TypeInv
<1> USE DEF vault, config, pool, tally
<1>1. ASSUME UNCHANGED <<mounts, misplaced, skipMounts, stage, version, dropped>>,
             stage = "discovery" => unsent' = unsent
      PROVE  Learned'
  BY <1>1 DEF Learned
<1>2. CASE Cancel \/ Produce \/ CloseJobs \/ Receive \/ Collect \/ UNCHANGED vars
  BY <1>1, <1>2 DEF Cancel, Produce, CloseJobs, Receive, Collect, InPool, vars
<1>3. ASSUME NEW w \in Worker, WorkerStep(w) PROVE Learned'
  BY <1>1, <1>3 DEF WorkerStep, Take, Leave, Send
<1>4. ASSUME NEW w \in Worker, NEW err \in {"none", "other", "ctx"}, Write(w, err)
      PROVE  Learned'
  <2> SUFFICES ASSUME skipMounts PROVE Learned'
    BY <1>4 DEF Write, Learned
  <2> DEFINE i == worker[w].item
  <2>1. /\ worker[w].at = "run" /\ stage # "discovery" /\ stage # "mounts"
        /\ Apply(i) \/ UNCHANGED vault
        /\ UNCHANGED <<config, stage, unsent, version, dropped>>
    BY <1>4 DEF Write, InPool, Staged
  <2>2. i \in Items(stage)
    BY <2>1 DEF Carried
  <2> HIDE DEF i
  <2>3. CASE stage = "namespaces"
    <3>1. UNCHANGED <<mounts, misplaced>>
      BY <2>1, <2>3 DEF Apply
    <3> QED
      BY <1>1, <2>1, <3>1
  <2>4. CASE stage = "secrets"
    <3>1. i \in Secret /\ NamespaceOf[MountOf[i]] \notin dropped
      BY <2>2, <2>4 DEF Items
    <3>2. MountOf[i] \in Mount
      BY <3>1, PlanType
    <3>3. mounts[MountOf[i]] = version[MountOf[i]]
      BY <2>4, <3>1, <3>2 DEF Learned
    <3>4. UNCHANGED <<mounts, misplaced>>
      BY <2>1, <2>4, <3>3 DEF Apply
    <3> QED
      BY <1>1, <2>1, <3>4
  <2> QED
    BY <2>1, <2>3, <2>4 DEF TypeOK
<1>5. CASE EndStage
  <2>1. UNCHANGED <<mounts, misplaced, skipMounts, version, dropped>>
    BY <1>5 DEF EndStage
  <2>2. CASE UNCHANGED <<stage, pool>>
    BY <1>1, <2>1, <2>2
  <2>3. CASE stage # "secrets" /\ Enter(Succeeding(stage), Items(Succeeding(stage)))
    <3> SUFFICES ASSUME skipMounts PROVE Learned'
      BY <2>1 DEF Learned
    <3>1. stage' = "discovery" /\ unsent' = Items("discovery")
      BY <1>5, <2>3 DEF EndStage, InPool, Enter, Succeeding, TypeOK, Staged
    <3>2. \A m \in Mount : NamespaceOf[m] \in unsent'
      BY <3>1 DEF Items
    <3> QED
      BY <2>1, <3>1, <3>2 DEF Learned
  <2> QED
    BY <1>5, <2>2, <2>3 DEF EndStage
<1>6. CASE EndDiscovery
  <2>1. stage = "discovery" /\ UNCHANGED <<mounts, misplaced, skipMounts, version, dropped>>
    BY <1>6 DEF EndDiscovery
  <2>2. CASE UNCHANGED <<stage, pool>>
    BY <1>1, <2>1, <2>2
  <2>3. CASE unsent = {} /\ Enter("secrets", Items("secrets"))
    BY <2>1, <2>3 DEF Enter, Learned
  <2> QED
    BY <1>6, <2>2, <2>3 DEF EndDiscovery
<1>7. CASE Learn
  <2> DEFINE c == Current
  <2>1. /\ stage = "discovery" /\ unsent' = unsent \ {c}
        /\ version' = [m \in Mount |-> IF NamespaceOf[m] = c THEN mounts[m] ELSE version[m]]
        /\ UNCHANGED <<mounts, misplaced, skipMounts, stage, dropped>>
    BY <1>7 DEF Learn, LearnVersions
  <2> HIDE DEF c
  <2> QED
    BY <2>1 DEF Learned
<1>8. CASE LearnFails
  <2> DEFINE c == Current
  <2>1. /\ stage = "discovery" /\ unsent' = unsent \ {c} /\ dropped' = dropped \cup {c}
        /\ UNCHANGED <<mounts, misplaced, skipMounts, stage, version>>
    BY <1>8 DEF LearnFails
  <2> HIDE DEF c
  <2> QED
    BY <2>1 DEF Learned
<1> QED
  BY <1>2, <1>3, <1>4, <1>5, <1>6, <1>7, <1>8 DEF Next, RunStep, Writes

\* Every secret is written in the layout its mount has, whatever mounts Vault held before.
THEOREM NoneMisplaced == Spec => []NothingIsMisplaced
<1>1. Learned => NothingIsMisplaced
  BY DEF Learned, NothingIsMisplaced
<1> QED
  BY <1>1, InitLearned, InitType, NextType, LearnedStep, PTL DEF Spec

-------------------------------------------------------------------------------
(* What is queued when the stage is cancelled. *)

\* Nothing is written before a worker takes it.
Fresh ==
  /\ stage # "secrets" => secrets = {} /\ misplaced = {}
  /\ stage = "secrets" => (secrets \cup misplaced) \cap (unsent \cup jobs) = {}

LEMMA FreshStep == TypeInv /\ Fresh /\ [Next]_vars => Fresh'
<1> SUFFICES ASSUME TypeInv, Fresh, [Next]_vars PROVE Fresh'
  OBVIOUS
<1> TypeOK /\ Carried /\ Staged
  BY DEF TypeInv
<1> USE DEF vault, config, pool, tally
<1>1. ASSUME UNCHANGED <<secrets, misplaced, stage>>, unsent' \cup jobs' \subseteq unsent \cup jobs
      PROVE  Fresh'
  BY <1>1 DEF Fresh
<1>2. CASE Cancel \/ CloseJobs \/ Receive \/ Collect \/ UNCHANGED vars
  BY <1>1, <1>2 DEF Cancel, CloseJobs, Receive, Collect, vars
<1>3. CASE Produce
  <2>1. First(unsent) \in unsent
    <3>1. unsent \subseteq Nat
      BY ItemsFinite DEF TypeOK, Stage
    <3> QED
      BY <1>3, <3>1, FirstInSet DEF Produce
  <2> QED
    BY <1>1, <1>3, <2>1 DEF Produce
<1>4. ASSUME NEW w \in Worker, WorkerStep(w) PROVE Fresh'
  BY <1>1, <1>4 DEF WorkerStep, Take, Leave, Send
<1>5. ASSUME NEW w \in Worker, NEW err \in {"none", "other", "ctx"}, Write(w, err)
      PROVE  Fresh'
  <2> DEFINE i == worker[w].item
  <2>1. /\ worker[w].at = "run" /\ stage # "discovery"
        /\ Apply(i) \/ UNCHANGED vault
        /\ UNCHANGED <<stage, unsent, jobs>>
    BY <1>5 DEF Write, InPool
  <2>2. i \notin unsent \cup jobs
    <3>1. worker[w].at \in {"run", "offer"}
      BY <2>1
    <3>2. worker[w].item \in Items(stage) \ (unsent \cup jobs)
      BY <3>1 DEF Carried
    <3> QED
      BY <3>2
  <2> HIDE DEF i
  <2>3. CASE stage = "secrets"
    <3>1. secrets' \cup misplaced' \subseteq secrets \cup misplaced \cup {i}
      BY <2>1, <2>3 DEF Apply
    <3> QED
      BY <2>1, <2>2, <2>3, <3>1 DEF Fresh
  <2>4. CASE stage # "secrets"
    <3>1. UNCHANGED <<secrets, misplaced>>
      BY <2>1, <2>4 DEF Apply, TypeOK
    <3> QED
      BY <1>1, <2>1, <3>1
  <2> QED
    BY <2>3, <2>4
<1>6. CASE EndStage \/ EndDiscovery
  <2>1. UNCHANGED <<secrets, misplaced>>
    BY <1>6 DEF EndStage, EndDiscovery
  <2>2. CASE UNCHANGED <<stage, pool>>
    BY <1>1, <2>1, <2>2
  <2>3. CASE stage # "secrets"
    BY <2>1, <2>3 DEF Fresh
  <2> QED
    BY <1>6, <2>2, <2>3 DEF EndStage, EndDiscovery
<1>7. CASE Learn \/ LearnFails
  BY <1>1, <1>7 DEF Learn, LearnFails
<1> QED
  BY <1>2, <1>3, <1>4, <1>5, <1>6, <1>7 DEF Next, RunStep, Writes

LEMMA FreshHolds == Spec => [](TypeInv /\ Fresh)
<1>1. Init => Fresh
  BY DEF Init, Fresh
<1> QED
  BY <1>1, InitType, NextType, FreshStep, PTL DEF Spec

\* The stage is cancelled, and no worker is to write x.
Passed(x) ==
  /\ stage = "secrets" /\ StageDone
  /\ x \notin secrets \cup misplaced
  /\ \A w \in Worker : worker[w].at = "run" => worker[w].item # x

LEMMA PassedStep ==
  ASSUME NEW x \in Secret, TypeInv, Passed(x), [Next]_vars
  PROVE  Passed(x)'
<1> TypeOK /\ worker \in [Worker -> WorkerState]
  BY DEF TypeInv, TypeOK, WorkerState, Error
<1> stage = "secrets" /\ StageDone
  BY DEF Passed
<1> USE DEF vault, config, pool, tally
<1>1. ASSUME UNCHANGED <<stage, secrets, misplaced, worker>>, spent => spent', cancelled => cancelled'
      PROVE  Passed(x)'
  BY <1>1 DEF Passed, StageDone
<1>2. CASE Cancel \/ Produce \/ CloseJobs \/ Receive \/ UNCHANGED vars
  BY <1>1, <1>2 DEF Cancel, Produce, CloseJobs, Receive, vars
<1>3. CASE Collect
  <2>1. spent => spent'
    BY <1>3 DEF Collect, Count
  <2> QED
    BY <1>1, <1>3, <2>1 DEF Collect
<1>4. ASSUME NEW w \in Worker, NEW s, worker' = [worker EXCEPT ![w] = s], s.at # "run",
             x \notin secrets' \cup misplaced', UNCHANGED <<stage, spent, cancelled>>
      PROVE  Passed(x)'
  BY <1>4 DEF Passed, StageDone
<1>5. ASSUME NEW w \in Worker, WorkerStep(w) PROVE Passed(x)'
  <2> x \notin secrets' \cup misplaced'
    BY <1>5 DEF WorkerStep, Take, Leave, Send, Passed
  <2>1. CASE Take(w)
    <3> DEFINE s == [at |-> "offer", item |-> First(jobs), err |-> "skip"]
    <3>1. worker' = [worker EXCEPT ![w] = s] /\ UNCHANGED <<stage, spent, cancelled>>
      BY <2>1 DEF Take, Becomes
    <3>2. s.at # "run"
      OBVIOUS
    <3> HIDE DEF s
    <3> QED
      BY <1>4, <3>1, <3>2
  <2>2. CASE Leave(w)
    <3>1. Gone.at # "run"
      BY DEF Gone, Waiting
    <3> QED
      BY <1>4, <2>2, <3>1 DEF Leave, Becomes
  <2>3. CASE Send(w)
    <3>1. Waiting.at # "run"
      BY DEF Waiting
    <3> QED
      BY <1>4, <2>3, <3>1 DEF Send, Becomes
  <2> QED
    BY <1>5, <2>1, <2>2, <2>3 DEF WorkerStep
<1>6. ASSUME NEW w \in Worker, NEW err \in {"none", "other", "ctx"}, Write(w, err)
      PROVE  Passed(x)'
  <2> DEFINE i == worker[w].item
             s == [worker[w] EXCEPT !.at = "offer", !.err = err]
  <2>1. /\ worker[w].at = "run" /\ (Apply(i) \/ UNCHANGED vault) /\ worker' = [worker EXCEPT ![w] = s]
        /\ UNCHANGED <<stage, spent, cancelled>>
    BY <1>6 DEF Write, Offer, Becomes
  <2>2. x \notin secrets' \cup misplaced'
    BY <2>1 DEF Apply, Passed
  <2>3. s.at # "run"
    BY DEF WorkerState
  <2> HIDE DEF s
  <2> QED
    BY <1>4, <2>1, <2>2, <2>3
<1>7. CASE EndStage
  BY <1>1, <1>7 DEF EndStage
<1>8. CASE Learn \/ LearnFails \/ EndDiscovery
  BY <1>8 DEF Learn, LearnFails, EndDiscovery
<1> QED
  BY <1>2, <1>3, <1>5, <1>6, <1>7, <1>8 DEF Next, RunStep, Writes

\* Once the stage is cancelled, what no worker has taken yet never reaches Vault.
THEOREM QueueIsAbandoned == Spec => QueuedNeverRuns
<1> SUFFICES ASSUME NEW x \in Secret
             PROVE  Spec => [](stage = "secrets" /\ StageDone /\ x \in unsent \cup jobs
                               => [](x \notin secrets \cup misplaced))
  BY DEF QueuedNeverRuns
<1>1. TypeInv /\ Fresh /\ stage = "secrets" /\ StageDone /\ x \in unsent \cup jobs => Passed(x)
  BY DEF Passed, Fresh, TypeInv, Carried
<1>2. TypeInv /\ Passed(x) /\ [Next]_vars => Passed(x)'
  BY PassedStep
<1>3. Passed(x) => x \notin secrets \cup misplaced
  BY DEF Passed
<1> QED
  BY <1>1, <1>2, <1>3, FreshHolds, PTL DEF Spec

================================================================================
