--------------------------- MODULE SeedItemsProofs ---------------------------
(***************************************************************************)
(* No item of the plan is lost between the producer, the workers and the   *)
(* collector of SeedRun, in any stage; its run is bounded and never stuck; *)
(* and it implements SeedingPromise.                                       *)
(***************************************************************************)
EXTENDS SeedRunProofs

\* The channel of jobs is closed behind the last item, and nobody leaves before.
Finished ==
  /\ closed /\ ~StageDone => unsent = {}
  /\ \A w \in Worker : worker[w].at = "gone" => closed /\ jobs = {}
  /\ stage = "discovery" => unsent \cap dropped = {}

\* As long as the stage is not cancelled, what is answered was run.
Answers ==
  ~StageDone =>
    /\ \A w \in Worker : worker[w].at = "offer" => worker[w].err \in {"none", "other"}
    /\ \A i \in DOMAIN results : results[i].err \in {"none", "other"}
    /\ held.err \in {"nil", "none", "other"}

Busy == {w \in Worker : worker[w].at \in {"run", "offer"}}
Holding == IF held = Nil THEN 0 ELSE 1
Underway == Cardinality(unsent) + Cardinality(jobs) + Cardinality(Busy) + Len(results) + Holding
Lost == Cardinality({m \in Mount : NamespaceOf[m] \in dropped})

\* The items of the stages before this one.
Before ==
  (IF skipNamespaces \/ stage = "namespaces" THEN 0 ELSE NumNamespaces)
  + (IF stage # "secrets" THEN 0 ELSE IF skipMounts THEN Lost ELSE Cardinality(Mount))

\* An item of the stage is answered or under way, until the stage is cancelled.
Accounted ==
  ~StageDone =>
    IF stage = "discovery" THEN created + failures = Before + Lost
    ELSE created + failures + Underway = Before + Cardinality(Items(stage))

\* The context of a stage is not undone: StageDone is left only with the stage.
LEMMA DoneStays ==
  ASSUME TypeInv, [Next]_vars, ~StageDone'
  PROVE  ~StageDone \/ (stage = "discovery" /\ stage' = "secrets")
<1> USE DEF vault, config, pool, tally
<1>1. CASE UNCHANGED <<cancelled, spent>>
  BY <1>1 DEF StageDone
<1>2. CASE Cancel \/ Produce \/ CloseJobs \/ Learn \/ LearnFails \/ Receive \/ UNCHANGED vars
  BY <1>1, <1>2 DEF Cancel, Produce, CloseJobs, Learn, LearnFails, Receive, vars, StageDone
<1>3. ASSUME NEW w \in Worker, WorkerStep(w) \/ Writes(w) PROVE UNCHANGED <<cancelled, spent>>
  BY <1>3 DEF WorkerStep, Writes, Take, Leave, Send, Write
<1>4. CASE Collect
  BY <1>4 DEF Collect, Count, StageDone
<1>5. CASE EndStage
  BY <1>1, <1>5 DEF EndStage
<1>6. CASE EndDiscovery
  BY <1>1, <1>6 DEF EndDiscovery, Enter, StageDone, TypeInv, Staged
<1> QED
  BY <1>1, <1>2, <1>3, <1>4, <1>5, <1>6 DEF Next, RunStep

LEMMA InitFinished == Init => Finished /\ Answers
  BY DEF Init, Finished, Answers, Waiting, Nil

LEMMA FinishedStep == TypeInv /\ Finished /\ [Next]_vars => Finished'
<1> SUFFICES ASSUME TypeInv, Finished, [Next]_vars PROVE Finished'
  OBVIOUS
<1> TypeOK /\ Staged /\ worker \in [Worker -> WorkerState]
  BY DEF TypeInv, TypeOK, WorkerState, Error
<1> USE DEF vault, config, pool, tally
<1>1. ASSUME UNCHANGED <<closed, unsent, jobs, worker, stage, dropped>>, ~StageDone' => ~StageDone
      PROVE  Finished'
  BY <1>1 DEF Finished
<1>2. CASE Cancel \/ Receive \/ Collect \/ UNCHANGED vars
  <2>1. UNCHANGED <<closed, unsent, jobs, worker, stage, dropped>>
    BY <1>2 DEF Cancel, Receive, Collect, vars
  <2>2. ~StageDone' => ~StageDone
    <3>1. CASE Cancel \/ Receive \/ UNCHANGED vars
      BY <3>1 DEF Cancel, Receive, StageDone, vars
    <3>2. CASE Collect
      BY <3>2 DEF Collect, Count, StageDone
    <3> QED
      BY <1>2, <3>1, <3>2
  <2> QED
    BY <1>1, <2>1, <2>2
<1>3. CASE Produce
  BY <1>3 DEF Produce, InPool, Finished
<1>4. CASE CloseJobs
  BY <1>4 DEF CloseJobs, InPool, Finished, StageDone
<1>5. ASSUME NEW w \in Worker, Take(w) PROVE Finished'
  <2> DEFINE s == [at |-> IF StageDone THEN "offer" ELSE "run", item |-> First(jobs),
                   err |-> IF StageDone THEN "skip" ELSE "none"]
  <2>1. /\ jobs # {} /\ worker' = [worker EXCEPT ![w] = s] /\ stage # "discovery"
        /\ UNCHANGED <<closed, unsent, stage, cancelled, spent>>
    BY <1>5 DEF Take, Becomes, InPool
  <2>2. s.at # "gone"
    OBVIOUS
  <2> HIDE DEF s
  <2>3. \A v \in Worker : worker[v].at # "gone"
    BY <2>1 DEF Finished
  <2>4. \A v \in Worker : worker'[v].at # "gone"
    BY <2>1, <2>2, <2>3
  <2> QED
    BY <2>1, <2>4 DEF Finished, StageDone
<1>6. ASSUME NEW w \in Worker, NEW s, worker' = [worker EXCEPT ![w] = s],
             s.at = "gone" => closed /\ jobs = {}, stage # "discovery",
             UNCHANGED <<closed, unsent, jobs, stage, cancelled, spent>>
      PROVE  Finished'
  BY <1>6 DEF Finished, StageDone
<1>7. ASSUME NEW w \in Worker, Leave(w) \/ Send(w) PROVE Finished'
  <2>1. CASE Leave(w)
    BY <1>6, <2>1 DEF Leave, Becomes, InPool
  <2>2. CASE Send(w)
    <3>1. Waiting.at # "gone"
      BY DEF Waiting
    <3> QED
      BY <1>6, <2>2, <3>1 DEF Send, Becomes, InPool
  <2> QED
    BY <1>7, <2>1, <2>2
<1>8. ASSUME NEW w \in Worker, NEW err \in {"none", "other", "ctx"}, Write(w, err)
      PROVE  Finished'
  <2> DEFINE s == [worker[w] EXCEPT !.at = "offer", !.err = err]
  <2>1. s.at # "gone"
    BY DEF WorkerState
  <2>2. worker' = [worker EXCEPT ![w] = s]
    BY <1>8 DEF Write, Offer, Becomes
  <2> HIDE DEF s
  <2> QED
    BY <1>6, <1>8, <2>1, <2>2 DEF Write, InPool
<1>9. ASSUME NEW s, NEW items, Enter(s, items), s = "discovery" => dropped = {},
             UNCHANGED dropped
      PROVE  Finished'
  BY <1>9 DEF Enter, Finished, Waiting
<1>10. CASE EndStage
  <2>1. CASE UNCHANGED <<stage, pool>>
    BY <1>1, <1>10, <2>1 DEF EndStage, StageDone
  <2>2. CASE stage # "secrets" /\ Enter(Succeeding(stage), Items(Succeeding(stage)))
    BY <1>9, <1>10, <2>2 DEF EndStage, InPool, Staged, TypeOK
  <2> QED
    BY <1>10, <2>1, <2>2 DEF EndStage
<1>11. CASE EndDiscovery
  <2>1. CASE UNCHANGED <<stage, pool>>
    BY <1>1, <1>11, <2>1 DEF EndDiscovery, StageDone
  <2>2. CASE Enter("secrets", Items("secrets"))
    BY <1>9, <1>11, <2>2 DEF EndDiscovery
  <2> QED
    BY <1>11, <2>1, <2>2 DEF EndDiscovery
<1>12. CASE Learn \/ LearnFails
  <2> DEFINE c == Current
  <2>1. /\ unsent' = unsent \ {c} /\ dropped' \subseteq dropped \cup {c}
        /\ UNCHANGED <<closed, jobs, worker, stage, cancelled, spent>>
    BY <1>12 DEF Learn, LearnFails
  <2> HIDE DEF c
  <2> QED
    BY <2>1 DEF Finished, StageDone
<1> QED
  BY <1>2, <1>3, <1>4, <1>5, <1>7, <1>8, <1>10, <1>11, <1>12
  DEF Next, RunStep, WorkerStep, Writes

LEMMA AnswersStep == TypeInv /\ Answers /\ [Next]_vars => Answers'
<1> SUFFICES ASSUME TypeInv, Answers, [Next]_vars, ~StageDone' PROVE Answers'
  BY DEF Answers
<1> TypeOK /\ Staged /\ worker \in [Worker -> WorkerState] /\ results \in Seq(Result)
  BY DEF TypeInv, TypeOK, WorkerState, Result, Error
<1> USE DEF vault, config, pool, tally
<1>1. ASSUME \A w \in Worker : worker'[w].at # "offer", results' = <<>>, held' = Nil
      PROVE  Answers'
  BY <1>1 DEF Answers, Nil
<1>2. CASE stage = "discovery" /\ stage' = "secrets"
  <2>1. EndDiscovery
    <3>1. ASSUME NEW w \in Worker, WorkerStep(w) \/ Writes(w) PROVE FALSE
      BY <1>2, <3>1 DEF WorkerStep, Writes, Take, Leave, Send, Write, InPool
    <3>2. CASE Cancel \/ Produce \/ CloseJobs \/ UNCHANGED vars
      BY <1>2, <3>2 DEF Cancel, Produce, CloseJobs, vars
    <3>3. CASE RunStep
      BY <1>2, <3>3 DEF RunStep, Receive, Collect, EndStage, Learn, LearnFails, InPool
    <3> QED
      BY <3>1, <3>2, <3>3 DEF Next
  <2>2. Enter("secrets", Items("secrets"))
    BY <1>2, <2>1 DEF EndDiscovery
  <2> QED
    BY <1>1, <2>2 DEF Enter, Waiting
<1>3. CASE ~StageDone
  <2>1. CASE UNCHANGED <<worker, results, held>>
    BY <1>3, <2>1 DEF Answers
  <2>2. CASE Cancel \/ Produce \/ CloseJobs \/ Learn \/ LearnFails \/ UNCHANGED vars
    BY <2>1, <2>2 DEF Cancel, Produce, CloseJobs, Learn, LearnFails, vars
  <2>3. CASE Receive
    <3>1. /\ held' = Head(results) /\ results' = Tail(results) /\ results # <<>>
          /\ worker' = worker
      BY <2>3 DEF Receive
    <3>2. /\ DOMAIN results = 1..Len(results) /\ Len(results) \in Nat /\ Len(results) # 0
          /\ DOMAIN results' = 1..(Len(results) - 1)
          /\ \A i \in 1..(Len(results) - 1) : results'[i] = results[i + 1]
      <4>1. /\ results' \in Seq(Result) /\ Len(results') = Len(results) - 1
            /\ \A i \in 1..Len(results') : results'[i] = results[i + 1]
        BY <3>1, HeadTailProperties
      <4>2. DOMAIN results' = 1..Len(results')
        BY <4>1, LenProperties
      <4>3. DOMAIN results = 1..Len(results) /\ Len(results) \in Nat /\ Len(results) # 0
        BY <3>1, LenProperties, EmptySeq
      <4> QED
        BY <4>1, <4>2, <4>3
    <3>3. \A i \in DOMAIN results' : i + 1 \in DOMAIN results /\ results'[i] = results[i + 1]
      BY <3>2
    <3>4. held'.err \in {"none", "other"}
      <4>1. Head(results) = results[1] /\ 1 \in DOMAIN results
        BY <3>2
      <4> QED
        BY <1>3, <3>1, <4>1 DEF Answers
    <3> QED
      BY <1>3, <3>1, <3>3, <3>4 DEF Answers
  <2>4. CASE Collect
    BY <1>3, <2>4 DEF Collect, Answers, Nil
  <2>5. ASSUME NEW w \in Worker, NEW s, worker' = [worker EXCEPT ![w] = s],
               s.at = "offer" => s.err \in {"none", "other"}, UNCHANGED <<results, held>>
        PROVE  Answers'
    BY <1>3, <2>5 DEF Answers
  <2>6. ASSUME NEW w \in Worker, Take(w) \/ Leave(w) PROVE Answers'
    <3>1. CASE Take(w)
      <4> DEFINE s == [at |-> "run", item |-> First(jobs), err |-> "none"]
      <4>1. worker' = [worker EXCEPT ![w] = s] /\ UNCHANGED <<results, held>>
        BY <1>3, <3>1 DEF Take, Becomes
      <4>2. s.at # "offer"
        OBVIOUS
      <4> HIDE DEF s
      <4> QED
        BY <2>5, <4>1, <4>2
    <3>2. CASE Leave(w)
      <4>1. Gone.at # "offer"
        BY DEF Gone, Waiting
      <4> QED
        BY <2>5, <3>2, <4>1 DEF Leave, Becomes
    <3> QED
      BY <2>6, <3>1, <3>2
  <2>7. ASSUME NEW w \in Worker, NEW err \in {"none", "other", "ctx"}, Write(w, err)
        PROVE  Answers'
    <3> DEFINE s == [worker[w] EXCEPT !.at = "offer", !.err = err]
    <3>1. worker' = [worker EXCEPT ![w] = s] /\ err # "ctx" /\ UNCHANGED <<results, held>>
      BY <1>3, <2>7 DEF Write, Offer, Becomes
    <3>2. s.err = err
      BY DEF WorkerState
    <3> HIDE DEF s
    <3> QED
      BY <2>5, <3>1, <3>2
  <2>8. ASSUME NEW w \in Worker, Send(w) PROVE Answers'
    <3> DEFINE r == [item |-> worker[w].item, err |-> worker[w].err]
    <3>1. /\ worker[w].at = "offer" /\ worker' = [worker EXCEPT ![w] = Waiting]
          /\ results' = Append(results, r) /\ held' = held
      BY <2>8 DEF Send, Becomes
    <3>2. r \in Result /\ r.err \in {"none", "other"}
      BY <1>3, <3>1 DEF Answers, Result, WorkerState
    <3> HIDE DEF r
    <3>3. \A i \in DOMAIN results' : results'[i].err \in {"none", "other"}
      <4>1. /\ results' \in Seq(Result) /\ Len(results') = Len(results) + 1
            /\ \A i \in 1..Len(results) : results'[i] = results[i]
            /\ results'[Len(results) + 1] = r
        BY <3>1, <3>2, AppendProperties
      <4>2. DOMAIN results' = 1..(Len(results) + 1) /\ DOMAIN results = 1..Len(results) /\ Len(results) \in Nat
        BY <4>1, LenProperties
      <4> QED
        BY <1>3, <3>2, <4>1, <4>2 DEF Answers
    <3>4. \A v \in Worker : worker'[v].at = "offer" => worker'[v] = worker[v]
      BY <3>1 DEF Waiting
    <3> QED
      BY <1>3, <3>1, <3>3, <3>4 DEF Answers
  <2>9. CASE EndStage \/ EndDiscovery
    <3>1. CASE UNCHANGED <<stage, pool>>
      BY <2>1, <3>1
    <3>2. CASE \E s, items : Enter(s, items)
      BY <1>1, <3>2 DEF Enter, Waiting
    <3> QED
      BY <2>9, <3>1, <3>2 DEF EndStage, EndDiscovery
  <2> QED
    BY <2>2, <2>3, <2>4, <2>6, <2>7, <2>8, <2>9 DEF Next, RunStep, WorkerStep, Writes
<1> QED
  BY <1>2, <1>3, DoneStays

LEMMA StageFinite ==
  ASSUME TypeOK
  PROVE  /\ unsent \subseteq Nat /\ IsFiniteSet(unsent) /\ Cardinality(unsent) \in Nat
         /\ jobs \subseteq Nat /\ IsFiniteSet(jobs) /\ Cardinality(jobs) \in Nat
         /\ Cardinality(Items(stage)) \in Nat
<1>1. Items(stage) \subseteq Nat /\ IsFiniteSet(Items(stage))
  BY ItemsFinite DEF TypeOK, Stage
<1>2. unsent \in SUBSET Items(stage) /\ jobs \in SUBSET Items(stage)
  BY DEF TypeOK
<1>3. IsFiniteSet(unsent) /\ IsFiniteSet(jobs)
  BY <1>1, <1>2, FS_Subset
<1> QED
  BY <1>1, <1>2, <1>3, FS_CardinalityType

LEMMA BusyFinite == IsFiniteSet(Busy) /\ Cardinality(Busy) \in Nat
<1>1. Busy \in SUBSET Worker
  BY DEF Busy
<1> QED
  BY <1>1, SeedAssumption, FS_Subset, FS_CardinalityType

LEMMA MountsFinite ==
  ASSUME NEW S \in SUBSET Mount
  PROVE  IsFiniteSet(S) /\ Cardinality(S) \in Nat
  BY PlanType, FS_Subset, FS_CardinalityType

\* In a stage that is being run, what is under way only changes hands.
LEMMA PoolAccounted ==
  ASSUME TypeInv, Answers, [Next]_vars, ~StageDone, stage # "discovery", ~EndStage
  PROVE  /\ created' + failures' + Underway' = created + failures + Underway
         /\ UNCHANGED <<config, stage, dropped>>
<1> TypeOK /\ Carried /\ Staged /\ worker \in [Worker -> WorkerState] /\ results \in Seq(Result)
  BY DEF TypeInv, TypeOK, WorkerState, Result, Error
<1> DEFINE U == Cardinality(unsent)
           J == Cardinality(jobs)
           B == Cardinality(Busy)
           L == Len(results)
<1>a. /\ U \in Nat /\ J \in Nat /\ B \in Nat /\ L \in Nat /\ Holding \in Nat
      /\ created \in Nat /\ failures \in Nat
      /\ Underway = U + J + B + L + Holding
  BY StageFinite, BusyFinite, LenProperties DEF TypeOK, Holding, Underway
<1> USE DEF vault, config, pool, tally
<1>1. CASE Cancel \/ CloseJobs \/ UNCHANGED vars
  BY <1>1 DEF Cancel, CloseJobs, vars, Underway, Busy, Holding
<1>2. CASE Produce
  <2> DEFINE f == First(unsent)
  <2>1. f \in unsent
    BY <1>2, StageFinite, FirstInSet DEF Produce
  <2> HIDE DEF f
  <2>2. /\ jobs' = jobs \cup {f} /\ unsent' = unsent \ {f} /\ f \notin jobs
        /\ UNCHANGED <<config, stage, worker, results, held, failures, created, dropped>>
    BY <1>2, <2>1 DEF Produce, f, TypeOK
  <2>3. Cardinality(jobs \cup {f}) = J + 1
    BY <2>2, StageFinite, FS_AddElement
  <2>4. Cardinality(unsent \ {f}) = U - 1
    BY <2>1, StageFinite, FS_RemoveElement
  <2>5. B' = B /\ L' = L /\ Holding' = Holding
    BY <2>2 DEF Busy, Holding
  <2> HIDE DEF U, J, B, L
  <2>6. (U - 1) + (J + 1) + B + L + Holding = Underway
    BY <1>a
  <2> QED
    BY <2>2, <2>3, <2>4, <2>5, <2>6 DEF Underway, B, L
<1>3. ASSUME NEW w \in Worker, NEW s, worker' = [worker EXCEPT ![w] = s],
             s.at = "offer", worker[w].at = "run",
             UNCHANGED <<config, stage, unsent, jobs, results, held, failures, created, dropped>>
      PROVE  Underway' = Underway
  <2>1. Busy' = Busy
    BY <1>3 DEF Busy
  <2> QED
    BY <1>3, <2>1 DEF Underway, Holding
<1>4. ASSUME NEW w \in Worker, Take(w) PROVE Underway' = Underway
  <2> DEFINE f == First(jobs)
             s == [at |-> "run", item |-> f, err |-> "none"]
  <2>1. f \in jobs
    BY <1>4, StageFinite, FirstInSet DEF Take
  <2>2. worker' = [worker EXCEPT ![w] = s]
    BY <1>4 DEF Take, Becomes
  <2>3. s.at = "run"
    OBVIOUS
  <2> HIDE DEF f, s
  <2>4. /\ jobs' = jobs \ {f} /\ worker[w].at = "idle"
        /\ UNCHANGED <<unsent, results, held>>
    BY <1>4 DEF Take, f
  <2>5. Busy' = Busy \cup {w} /\ w \notin Busy
    BY <2>2, <2>3, <2>4 DEF Busy
  <2>6. Cardinality(Busy \cup {w}) = B + 1
    BY <2>5, BusyFinite, FS_AddElement
  <2>7. Cardinality(jobs \ {f}) = J - 1
    BY <2>1, StageFinite, FS_RemoveElement
  <2>8. U' = U /\ L' = L /\ Holding' = Holding
    BY <2>4 DEF Holding
  <2> HIDE DEF U, J, B, L
  <2>9. U + (J - 1) + (B + 1) + L + Holding = Underway
    BY <1>a
  <2> QED
    BY <2>4, <2>5, <2>6, <2>7, <2>8, <2>9 DEF Underway, U, L
<1>5. ASSUME NEW w \in Worker, Leave(w) PROVE Underway' = Underway
  <2>1. /\ worker' = [worker EXCEPT ![w] = Gone] /\ worker[w].at = "idle" /\ Gone.at = "gone"
        /\ UNCHANGED <<unsent, jobs, results, held>>
    BY <1>5 DEF Leave, Becomes, Gone, Waiting
  <2>2. Busy' = Busy
    BY <2>1 DEF Busy
  <2> QED
    BY <2>1, <2>2 DEF Underway, Holding
<1>6. ASSUME NEW w \in Worker, Send(w) PROVE Underway' = Underway
  <2> DEFINE r == [item |-> worker[w].item, err |-> worker[w].err]
  <2>1. /\ worker' = [worker EXCEPT ![w] = Waiting] /\ worker[w].at = "offer" /\ Waiting.at = "idle"
        /\ UNCHANGED <<unsent, jobs, held>>
    BY <1>6 DEF Send, Becomes, Waiting
  <2>2. r \in Result /\ results' = Append(results, r)
    BY <1>6 DEF Send, Result, WorkerState
  <2> HIDE DEF r
  <2>3. Len(results') = L + 1
    BY <2>2, AppendProperties
  <2>4. Busy' = Busy \ {w} /\ w \in Busy
    BY <2>1 DEF Busy
  <2>5. Cardinality(Busy \ {w}) = B - 1
    BY <2>4, BusyFinite, FS_RemoveElement
  <2>6. U' = U /\ J' = J /\ Holding' = Holding
    BY <2>1 DEF Holding
  <2> HIDE DEF U, J, B, L
  <2>7. U + J + (B - 1) + (L + 1) + Holding = Underway
    BY <1>a
  <2> QED
    BY <2>3, <2>4, <2>5, <2>6, <2>7 DEF Underway, U, J
<1>7. ASSUME NEW w \in Worker, WorkerStep(w) \/ Writes(w)
      PROVE  /\ Underway' = Underway
             /\ UNCHANGED <<config, stage, failures, created, dropped>>
  <2>1. CASE WorkerStep(w)
    BY <1>4, <1>5, <1>6, <2>1 DEF WorkerStep, Take, Leave, Send
  <2>2. ASSUME NEW err \in {"none", "other", "ctx"}, Write(w, err)
        PROVE  /\ Underway' = Underway
               /\ UNCHANGED <<config, stage, failures, created, dropped>>
    <3> DEFINE s == [worker[w] EXCEPT !.at = "offer", !.err = err]
    <3>1. s.at = "offer"
      BY DEF WorkerState
    <3>2. worker' = [worker EXCEPT ![w] = s]
      BY <2>2 DEF Write, Offer, Becomes
    <3> HIDE DEF s
    <3> QED
      BY <1>3, <2>2, <3>1, <3>2 DEF Write
  <2> QED
    BY <1>7, <2>1, <2>2 DEF Writes
<1>8. CASE Receive
  <2>1. /\ held = Nil /\ results # <<>> /\ held' = Head(results) /\ results' = Tail(results)
        /\ UNCHANGED <<config, stage, unsent, jobs, worker, failures, created, dropped>>
    BY <1>8 DEF Receive
  <2>2. Len(results') = L - 1 /\ held' \in Result
    BY <2>1, HeadTailProperties
  <2>3. Holding = 0 /\ Holding' = 1
    BY <2>1, <2>2 DEF Holding, Nil, Result, Error
  <2>4. U' = U /\ J' = J /\ B' = B
    BY <2>1 DEF Busy
  <2> HIDE DEF U, J, B, L
  <2>5. U + J + B + (L - 1) + 1 = Underway
    BY <1>a, <2>3
  <2> QED
    BY <2>1, <2>2, <2>3, <2>4, <2>5 DEF Underway, U, J, B
<1>9. CASE Collect
  <2>1. /\ held # Nil /\ held' = Nil
        /\ UNCHANGED <<config, stage, unsent, jobs, worker, results, dropped>>
        /\ failures' = IF held.err = "other" THEN failures + 1 ELSE failures
        /\ created' = IF held.err = "none" THEN created + 1 ELSE created
    BY <1>9 DEF Collect, Count
  <2>2. held.err \in {"none", "other"}
    <3>1. held \in Result
      BY <2>1 DEF TypeOK, Result, Error
    <3> QED
      BY <3>1 DEF Answers, Result, Error
  <2>3. created' + failures' = created + failures + 1 /\ created' \in Nat /\ failures' \in Nat
    BY <1>a, <2>1, <2>2
  <2>4. Holding = 1 /\ Holding' = 0
    BY <2>1 DEF Holding
  <2>5. U' = U /\ J' = J /\ B' = B /\ L' = L
    BY <2>1 DEF Busy
  <2> HIDE DEF U, J, B, L
  <2>6. Underway' = U + J + B + L
    BY <1>a, <2>4, <2>5 DEF Underway, U, J, B, L
  <2>7. Underway = U + J + B + L + 1
    BY <1>a, <2>4
  <2> QED
    BY <1>a, <2>1, <2>3, <2>6, <2>7
<1>10. CASE Learn \/ LearnFails \/ EndDiscovery
  BY <1>10 DEF Learn, LearnFails, EndDiscovery
<1> QED
  BY <1>1, <1>2, <1>7, <1>8, <1>9, <1>10 DEF Next, RunStep

\* A stage that ends uncancelled has answered every item.
LEMMA NothingUnderway ==
  ASSUME TypeInv, Finished, ~StageDone, Drained
  PROVE  Underway = 0
<1>1. PICK w \in Worker : TRUE
  BY SeedAssumption
<1>2. unsent = {} /\ jobs = {}
  BY <1>1 DEF Finished, Drained
<1>3. Busy = {} /\ Holding = 0 /\ Len(results) = 0
  BY DEF Drained, Busy, Holding
<1> QED
  BY <1>2, <1>3, FS_EmptySet DEF Underway

\* A stage that begins has its items before it.
LEMMA AllUnderway ==
  ASSUME NEW s \in Stage, Enter(s, Items(s)), UNCHANGED dropped
  PROVE  Underway' = Cardinality(Items(stage)')
<1>1. Items(stage)' = Items(s) /\ unsent' = Items(s)
  BY DEF Enter, Items
<1>2. jobs' = {} /\ Busy' = {} /\ results' = <<>> /\ Holding' = 0
  BY DEF Enter, Busy, Holding, Waiting
<1>3. Cardinality(Items(s)) \in Nat
  BY ItemsFinite, FS_CardinalityType
<1>4. Cardinality(jobs') = 0 /\ Cardinality(Busy') = 0 /\ Len(results') = 0
  BY <1>2, FS_EmptySet
<1> QED
  BY <1>1, <1>2, <1>3, <1>4 DEF Underway

LEMMA InitAccounted == Init => Accounted
<1> SUFFICES ASSUME Init PROVE Accounted
  OBVIOUS
<1> TypeOK
  BY InitType DEF TypeInv
<1>1. /\ unsent = Items(stage) /\ jobs = {} /\ Busy = {} /\ Len(results) = 0 /\ Holding = 0
      /\ created = 0 /\ failures = 0
  BY DEF Init, Busy, Holding, Waiting
<1>2. Underway = Cardinality(Items(stage))
  <2>1. Cardinality(unsent) \in Nat /\ Cardinality({}) = 0
    BY StageFinite, FS_EmptySet
  <2> QED
    BY <1>1, <2>1 DEF Underway
<1>3. Lost = 0
  <2>1. {m \in Mount : NamespaceOf[m] \in dropped} = {}
    BY DEF Init
  <2> QED
    BY <2>1, FS_EmptySet DEF Lost
<1>4. Before = 0
  BY SeedAssumption DEF Init, Before
<1>5. Cardinality(Items(stage)) \in Nat
  BY StageFinite
<1> QED
  BY <1>1, <1>2, <1>3, <1>4, <1>5 DEF Accounted

LEMMA AccountedStep == TypeInv /\ Finished /\ Answers /\ Accounted /\ [Next]_vars => Accounted'
<1> SUFFICES ASSUME TypeInv, Finished, Answers, Accounted, [Next]_vars, ~StageDone'
             PROVE  Accounted'
  BY DEF Accounted
<1> TypeOK /\ Staged /\ Carried
  BY DEF TypeInv
<1>a. /\ created \in Nat /\ failures \in Nat /\ NumNamespaces \in Nat
      /\ Lost \in Nat /\ Cardinality(Mount) \in Nat
  <2>1. {m \in Mount : NamespaceOf[m] \in dropped} \in SUBSET Mount
    OBVIOUS
  <2> QED
    BY <2>1, MountsFinite, SeedAssumption DEF TypeOK, Lost
<1>b. Cardinality(Items(stage)) \in Nat
  BY StageFinite
<1> USE DEF vault, config, pool, tally
<1>1. ASSUME stage # "discovery", ~StageDone, ~EndStage PROVE Accounted'
  <2>1. /\ created' + failures' + Underway' = created + failures + Underway
        /\ UNCHANGED <<config, stage, dropped>>
    BY <1>1, PoolAccounted
  <2>2. Before' = Before /\ Items(stage)' = Items(stage)
    BY <2>1 DEF Before, Lost, Items
  <2> QED
    BY <1>1, <2>1, <2>2 DEF Accounted
<1>2. ASSUME ~StageDone, EndStage PROVE Accounted'
  <2>1. UNCHANGED <<config, created, failures, dropped>> /\ stage # "discovery" /\ Underway = 0
    BY <1>2, NothingUnderway DEF EndStage, InPool
  <2>2. created + failures = Before + Cardinality(Items(stage))
    BY <1>2, <1>a, <2>1 DEF Accounted
  <2>3. CASE UNCHANGED <<stage, pool>>
    <3>1. /\ Before' = Before /\ Items(stage)' = Items(stage) /\ Underway' = Underway
      BY <2>1, <2>3 DEF Before, Lost, Items, Underway, Busy, Holding
    <3> QED
      BY <1>2, <2>1, <2>3, <3>1 DEF Accounted
  <2>4. CASE stage # "secrets" /\ Enter(Succeeding(stage), Items(Succeeding(stage)))
    <3>1. stage \in {"namespaces", "mounts"} /\ stage' = Succeeding(stage) /\ dropped = {}
      BY <2>1, <2>4 DEF Enter, Staged, TypeOK
    <3>2. Succeeding(stage) \in Stage
      BY <3>1 DEF Succeeding, Stage
    <3>3. Underway' = Cardinality(Items(stage)')
      BY <2>1, <2>4, <3>2, AllUnderway
    <3>4. Lost = 0 /\ Lost' = 0
      <4>1. {m \in Mount : NamespaceOf[m] \in dropped} = {}
        BY <3>1
      <4> QED
        BY <2>1, <4>1, FS_EmptySet DEF Lost
    <3>5. Before' = Before + Cardinality(Items(stage))
      <4>1. CASE stage = "namespaces"
        <5>1. stage' \in {"mounts", "discovery"} /\ ~skipNamespaces
          BY <3>1, <4>1 DEF Succeeding, Staged
        <5>2. Before = 0 /\ Before' = NumNamespaces
          BY <1>a, <2>1, <4>1, <5>1 DEF Before
        <5>3. Cardinality(Items(stage)) = NumNamespaces
          BY <4>1, PlanType DEF Items
        <5> QED
          BY <1>a, <5>2, <5>3
      <4>2. CASE stage = "mounts"
        <5>1. stage' = "secrets" /\ ~skipMounts /\ ~skipMounts'
          BY <2>1, <3>1, <4>2 DEF Succeeding, Staged
        <5>2. Items(stage) = Mount
          BY <4>2 DEF Items
        <5> QED
          BY <1>a, <2>1, <4>2, <5>1, <5>2 DEF Before
      <4> QED
        BY <3>1, <4>1, <4>2
    <3>6. created' + failures' = Before'
      BY <2>1, <2>2, <3>5
    <3>7. Before' \in Nat /\ Underway' \in Nat
      <4>1. Before \in Nat
        BY <1>a DEF Before
      <4>2. Cardinality(Items(stage)') \in Nat
        <5>1. Items(stage)' = Items(Succeeding(stage))
          BY <2>1, <3>1 DEF Items
        <5> QED
          BY <3>2, <5>1, ItemsFinite, FS_CardinalityType
      <4> QED
        BY <1>b, <3>3, <3>5, <4>1, <4>2
    <3> QED
      BY <3>3, <3>4, <3>6, <3>7 DEF Accounted
  <2> QED
    BY <1>2, <2>3, <2>4 DEF EndStage
<1>3. ASSUME stage = "discovery" PROVE Accounted'
  <2>1. ~spent /\ skipMounts /\ (~StageDone => created + failures = Before + Lost)
    BY <1>3 DEF Staged, Accounted
  <2>2. CASE UNCHANGED <<cancelled, spent, config, stage, created, failures, dropped>>
    <3>1. Before' = Before /\ Lost' = Lost /\ ~StageDone
      BY <2>2 DEF Before, Lost, StageDone
    <3> QED
      BY <1>3, <2>1, <2>2, <3>1 DEF Accounted
  <2>3. ASSUME NEW w \in Worker, WorkerStep(w) \/ Writes(w) PROVE FALSE
    BY <1>3, <2>3 DEF WorkerStep, Writes, Take, Leave, Send, Write, InPool
  <2>4. CASE Cancel
    BY <2>4 DEF Cancel, StageDone
  <2>5. CASE Produce \/ CloseJobs \/ Learn \/ UNCHANGED vars
    BY <2>2, <2>5 DEF Produce, CloseJobs, Learn, vars
  <2>6. CASE Receive \/ Collect \/ EndStage
    BY <1>3, <2>6 DEF Receive, Collect, EndStage, InPool
  <2>7. CASE EndDiscovery
    <3>1. CASE UNCHANGED <<stage, pool>>
      BY <2>2, <2>7, <3>1 DEF EndDiscovery
    <3>2. CASE Enter("secrets", Items("secrets"))
      <4>1. /\ stage' = "secrets" /\ UNCHANGED <<config, created, failures, dropped, cancelled>>
            /\ ~StageDone
        BY <2>1, <2>7, <3>2 DEF EndDiscovery, Enter, StageDone
      <4>2. Underway' = Cardinality(Items(stage)')
        BY <3>2, <4>1, AllUnderway DEF Stage
      <4>3. Before' = Before + Lost
        BY <1>3, <1>a, <2>1, <4>1 DEF Before, Lost
      <4>4. Underway' \in Nat
        <5>1. Items(stage)' = Items("secrets")
          BY <4>1 DEF Items
        <5> QED
          BY <4>2, <5>1, ItemsFinite, FS_CardinalityType DEF Stage
      <4> QED
        BY <1>a, <2>1, <4>1, <4>2, <4>3, <4>4 DEF Accounted
    <3> QED
      BY <2>7, <3>1, <3>2 DEF EndDiscovery
  <2>8. CASE LearnFails
    <3> DEFINE c == Current
               n == Cardinality(MountsOf(Current))
               D == {m \in Mount : NamespaceOf[m] \in dropped}
               M == MountsOf(Current)
    <3>1. c \in unsent
      BY <2>8, StageFinite, FirstInSet DEF LearnFails, Current
    <3>2. /\ failures' = failures + n /\ dropped' = dropped \cup {c}
          /\ UNCHANGED <<config, stage, created, cancelled, spent>>
      BY <2>8 DEF LearnFails
    <3>3. c \notin dropped
      BY <1>3, <3>1 DEF Finished
    <3>4. {m \in Mount : NamespaceOf[m] \in dropped'} = D \cup M /\ D \cap M = {}
      BY <3>2, <3>3 DEF MountsOf
    <3>5. IsFiniteSet(D) /\ IsFiniteSet(M) /\ Cardinality(D) \in Nat /\ n \in Nat
      <4>1. D \in SUBSET Mount /\ M \in SUBSET Mount
        BY DEF MountsOf
      <4> QED
        BY <4>1, MountsFinite
    <3>6. Cardinality(D \cup M) = Cardinality(D) + n
      <4>1. Cardinality(D \cup M) = Cardinality(D) + Cardinality(M) - Cardinality(D \cap M)
        <5> HIDE DEF D, M
        <5> QED
          BY <3>5, FS_Union
      <4>2. Cardinality(D \cap M) = 0
        BY <3>4, FS_EmptySet
      <4>3. Cardinality(M) = n
        OBVIOUS
      <4> HIDE DEF D, M, n
      <4> QED
        BY <3>5, <4>1, <4>2, <4>3
    <3>7. Lost' = Lost + n
      BY <3>4, <3>6 DEF Lost
    <3>8. Before' = Before /\ Before \in Nat /\ ~StageDone
      BY <1>3, <1>a, <3>2 DEF Before, StageDone
    <3> HIDE DEF n
    <3>9. created' + failures' = Before' + Lost'
      BY <1>a, <2>1, <3>2, <3>5, <3>7, <3>8
    <3> QED
      BY <1>3, <3>2, <3>9 DEF Accounted
  <2> QED
    BY <2>3, <2>4, <2>5, <2>6, <2>7, <2>8 DEF Next, RunStep
<1> QED
  BY <1>1, <1>2, <1>3, DoneStays

\* When Run returns nil, each item of each stage it ran was created or counted as failed.
THEOREM ItemsAnswered == Spec => []EveryItemIsAnswered
<1>1. TypeInv /\ Quiet /\ Finished /\ Accounted /\ Returned => EveryItemIsAnswered
  <2> SUFFICES ASSUME TypeInv, Quiet, Finished, Accounted, Returned, outcome = "nil"
               PROVE  EveryItemIsAnswered
    BY DEF EveryItemIsAnswered
  <2>1. ~StageDone /\ stage = "secrets"
    BY DEF Returned, StageDone
  <2>2. Drained
    BY <2>1 DEF Quiet, Drained, Running
  <2>3. Underway = 0
    BY <2>1, <2>2, NothingUnderway
  <2>4. created \in Nat /\ failures \in Nat
    BY DEF TypeInv, TypeOK
  <2>5. created + failures = Before + Cardinality(Items(stage))
    BY <2>1, <2>3, <2>4 DEF Accounted
  <2> QED
    BY <2>1, <2>5 DEF EveryItemIsAnswered, Before, Lost
<1> QED
  BY <1>1, QuietHolds, ReturnedHolds, InitFinished, InitAccounted, FinishedStep, AnswersStep,
     AccountedStep, PTL DEF Spec

-------------------------------------------------------------------------------
(* A run is bounded. *)

Sum(u, j, r, o, l, h, n, c, d, x, z) ==
  6 * u + 5 * j + 4 * r + 3 * o + 2 * l + h + n + c + d + x + z

Unclosed == IF closed THEN 0 ELSE 1
Wanted == IF cancelled THEN 0 ELSE 1
Going == IF Running THEN 1 ELSE 0
Runs == Cardinality(With({"run"}))
Offers == Cardinality(With({"offer"}))
Stays == Cardinality(With({"idle", "run", "offer"}))

LEMMA HoldingCounts == Cardinality({held} \ {Nil}) = Holding
<1>1. \A x : Cardinality({x}) = 1
  BY FS_Singleton
<1>2. CASE held = Nil
  BY <1>2, FS_EmptySet DEF Holding
<1>3. CASE held # Nil
  <2>1. {held} \ {Nil} = {held}
    BY <1>3
  <2> QED
    BY <1>1, <1>3, <2>1 DEF Holding
<1> QED
  BY <1>2, <1>3

LEMMA StepsLeftSum ==
  StepsLeft = Sum(Cardinality(unsent), Cardinality(jobs), Runs, Offers, Len(results), Holding,
                  Stays, Unclosed, Later, Wanted, Going)
  BY HoldingCounts DEF StepsLeft, InStage, Sum, Runs, Offers, Stays, Unclosed, Wanted, Going

LEMMA WithFinite == ASSUME NEW A PROVE IsFiniteSet(With(A)) /\ Cardinality(With(A)) \in Nat
<1>1. With(A) \in SUBSET Worker
  BY DEF With
<1> QED
  BY <1>1, SeedAssumption, FS_Subset, FS_CardinalityType

\* A worker that changes its state is counted where it goes, and no longer where it was.
LEMMA WithChange ==
  ASSUME worker \in [Worker -> WorkerState], NEW w \in Worker, NEW s,
         worker' = [worker EXCEPT ![w] = s], NEW A
  PROVE  /\ (s.at \in A <=> worker[w].at \in A) => Cardinality(With(A)') = Cardinality(With(A))
         /\ s.at \in A /\ worker[w].at \notin A
              => Cardinality(With(A)') = Cardinality(With(A)) + 1
         /\ s.at \notin A /\ worker[w].at \in A
              => Cardinality(With(A)') = Cardinality(With(A)) - 1
<1>0. worker'[w] = s /\ \A v \in Worker \ {w} : worker'[v] = worker[v]
  OBVIOUS
<1>1. ASSUME s.at \in A <=> worker[w].at \in A PROVE With(A)' = With(A)
  BY <1>0, <1>1 DEF With
<1>2. ASSUME s.at \in A, worker[w].at \notin A
      PROVE  With(A)' = With(A) \cup {w} /\ w \notin With(A)
  BY <1>0, <1>2 DEF With
<1>3. ASSUME s.at \notin A, worker[w].at \in A
      PROVE  With(A)' = With(A) \ {w} /\ w \in With(A)
  BY <1>0, <1>3 DEF With
<1>4. ASSUME s.at \in A, worker[w].at \notin A
      PROVE  Cardinality(With(A)') = Cardinality(With(A)) + 1
  <2>1. Cardinality(With(A) \cup {w}) = Cardinality(With(A)) + 1
    BY <1>2, <1>4, WithFinite, FS_AddElement
  <2> QED
    BY <1>2, <1>4, <2>1
<1>5. ASSUME s.at \notin A, worker[w].at \in A
      PROVE  Cardinality(With(A)') = Cardinality(With(A)) - 1
  <2>1. Cardinality(With(A) \ {w}) = Cardinality(With(A)) - 1
    BY <1>3, <1>5, WithFinite, FS_RemoveElement
  <2> QED
    BY <1>3, <1>5, <2>1
<1> QED
  BY <1>1, <1>4, <1>5

LEMMA WholeType ==
  ASSUME NEW s \in Stage
  PROVE  /\ Whole(s) \in Nat /\ Width \in Nat
         /\ 2 + Width + 6 * Cardinality(Items(s)) <= Whole(s) /\ Cardinality(Items(s)) \in Nat
<1>1. IsFiniteSet(Secret) /\ IsFiniteSet(Items(s)) /\ Width \in Nat
  BY PlanType, ItemsFinite, WidthType
<1>2. Cardinality(Secret) \in Nat /\ Cardinality(Items(s)) \in Nat
  BY <1>1, FS_CardinalityType
<1>3. s = "secrets" => Cardinality(Items(s)) <= Cardinality(Secret)
  <2>1. s = "secrets" => Items(s) \in SUBSET Secret
    BY DEF Items
  <2> QED
    BY <1>1, <2>1, FS_Subset
<1>4. CASE s = "secrets"
  <2>1. Whole(s) = 2 + Width + 6 * Cardinality(Secret)
    BY <1>4 DEF Whole
  <2> QED
    BY <1>1, <1>2, <1>3, <1>4, <2>1
<1>5. CASE s # "secrets"
  <2>1. Whole(s) = 2 + Width + 6 * Cardinality(Items(s))
    BY <1>5 DEF Whole
  <2> QED
    BY <1>1, <1>2, <2>1
<1> QED
  BY <1>4, <1>5

\* What the stages to come may take does not depend on what happens meanwhile.
LEMMA LaterKept ==
  ASSUME stage \in Stage, UNCHANGED <<stage, skipMounts>>
  PROVE  Later' = Later
<1>1. Whole("secrets")' = Whole("secrets")
  BY DEF Whole, Width
<1>2. Whole("mounts")' = Whole("mounts")
  BY DEF Whole, Width, Items
<1>3. Whole("discovery")' = Whole("discovery")
  BY DEF Whole, Width, Items
<1> QED
  BY <1>1, <1>2, <1>3 DEF Later, Succeeding, Stage

LEMMA LaterType == ASSUME stage \in Stage PROVE Later \in Nat
<1>1. Whole("secrets") \in Nat /\ Whole("mounts") \in Nat /\ Whole("discovery") \in Nat
  BY WholeType DEF Stage
<1> QED
  BY <1>1 DEF Later, Succeeding, Stage

LEMMA PartsType ==
  ASSUME TypeInv
  PROVE  /\ Cardinality(unsent) \in Nat /\ Cardinality(jobs) \in Nat /\ Runs \in Nat
         /\ Offers \in Nat /\ Len(results) \in Nat /\ Holding \in Nat /\ Stays \in Nat
         /\ Unclosed \in Nat /\ Later \in Nat /\ Wanted \in Nat /\ Going \in Nat
<1>1. Cardinality(unsent) \in Nat /\ Cardinality(jobs) \in Nat
  BY StageFinite DEF TypeInv
<1>2. Runs \in Nat /\ Offers \in Nat /\ Stays \in Nat
  BY WithFinite DEF Runs, Offers, Stays
<1>3. Len(results) \in Nat
  BY LenProperties DEF TypeInv, TypeOK
<1>4. Holding \in Nat
  BY DEF Holding
<1>5. Later \in Nat
  BY LaterType DEF TypeInv, TypeOK, Stage
<1> QED
  BY <1>1, <1>2, <1>3, <1>4, <1>5 DEF Unclosed, Wanted, Going

\* The sum of the new parts.
NewSum == Sum(Cardinality(unsent'), Cardinality(jobs'), Runs', Offers', Len(results'), Holding',
              Stays', Unclosed', Later', Wanted', Going')

LEMMA NewStepsLeft == StepsLeft' = NewSum
<1>1. Cardinality({held'} \ {Nil}) = Holding'
  <2>1. \A x : Cardinality({x}) = 1
    BY FS_Singleton
  <2>2. CASE held' = Nil
    BY <2>2, FS_EmptySet DEF Holding
  <2>3. CASE held' # Nil
    <3>1. {held'} \ {Nil} = {held'}
      BY <2>3
    <3> QED
      BY <2>1, <2>3, <3>1 DEF Holding
  <2> QED
    BY <2>2, <2>3
<1> QED
  BY <1>1 DEF NewSum, StepsLeft, InStage, Sum, Runs, Offers, Stays, Unclosed, Wanted, Going

\* A stage that begins was paid for by what was to come.
LEMMA EnterShrinks ==
  ASSUME TypeInv, NEW s \in Stage, Enter(s, Items(s)), Later = Whole(s) + Later', Later' \in Nat,
         UNCHANGED <<cancelled, outcome>>
  PROVE  StepsLeft' < StepsLeft
<1>1. /\ unsent' = Items(s) /\ jobs' = {} /\ results' = <<>> /\ held' = Nil /\ closed' = FALSE
      /\ worker' = [w \in Worker |-> Waiting] /\ Waiting.at = "idle"
  BY DEF Enter, Waiting
<1>2. Runs' = 0 /\ Offers' = 0
  <2>1. With({"run"})' = {} /\ With({"offer"})' = {}
    BY <1>1 DEF With
  <2> QED
    BY <2>1, FS_EmptySet DEF Runs, Offers
<1>3. Stays' = Width
  <2>1. With({"idle", "run", "offer"})' = Worker
    BY <1>1 DEF With
  <2> QED
    BY <2>1 DEF Stays, Width
<1>4. /\ Cardinality(jobs') = 0 /\ Len(results') = 0 /\ Holding' = 0 /\ Unclosed' = 1
      /\ Wanted' = Wanted /\ Going' = Going
  BY <1>1, FS_EmptySet DEF Holding, Unclosed, Wanted, Going, Running
<1>5. StepsLeft' = Sum(Cardinality(Items(s)), 0, 0, 0, 0, 0, Width, 1, Later', Wanted, Going)
  BY <1>1, <1>2, <1>3, <1>4, NewStepsLeft DEF NewSum
<1>6. /\ 2 + Width + 6 * Cardinality(Items(s)) <= Whole(s) /\ Whole(s) \in Nat
      /\ Width \in Nat /\ Cardinality(Items(s)) \in Nat
  BY WholeType
<1>7. ASSUME NEW k \in Nat, NEW d \in Nat, NEW W \in Nat, NEW x \in Nat, NEW z \in Nat, NEW h \in Nat,
             NEW u \in Nat, NEW j \in Nat, NEW r \in Nat, NEW o \in Nat, NEW l \in Nat,
             NEW g \in Nat, NEW n \in Nat, NEW c \in Nat, 2 + W + 6 * k <= h
      PROVE  Sum(k, 0, 0, 0, 0, 0, W, 1, d, x, z) < Sum(u, j, r, o, l, g, n, c, h + d, x, z)
  BY <1>7 DEF Sum
<1> QED
  BY <1>5, <1>6, <1>7, StepsLeftSum, PartsType

\* One part after another decreases, by more than another may increase.
LEMMA SumShrinks ==
  ASSUME NEW u \in Nat, NEW j \in Nat, NEW r \in Nat, NEW o \in Nat, NEW l \in Nat, NEW h \in Nat,
         NEW n \in Nat, NEW c \in Nat, NEW d \in Nat, NEW x \in Nat, NEW z \in Nat
  PROVE  /\ Sum(u - 1, j + 1, r, o, l, h, n, c, d, x, z) < Sum(u, j, r, o, l, h, n, c, d, x, z)
         /\ Sum(u, j - 1, r + 1, o, l, h, n, c, d, x, z) < Sum(u, j, r, o, l, h, n, c, d, x, z)
         /\ Sum(u, j - 1, r, o + 1, l, h, n, c, d, x, z) < Sum(u, j, r, o, l, h, n, c, d, x, z)
         /\ Sum(u, j, r - 1, o + 1, l, h, n, c, d, x, z) < Sum(u, j, r, o, l, h, n, c, d, x, z)
         /\ Sum(u, j, r, o - 1, l + 1, h, n, c, d, x, z) < Sum(u, j, r, o, l, h, n, c, d, x, z)
         /\ Sum(u, j, r, o, l - 1, h + 1, n, c, d, x, z) < Sum(u, j, r, o, l, h, n, c, d, x, z)
         /\ Sum(u, j, r, o, l, h - 1, n, c, d, x, z) < Sum(u, j, r, o, l, h, n, c, d, x, z)
         /\ Sum(u, j, r, o, l, h, n - 1, c, d, x, z) < Sum(u, j, r, o, l, h, n, c, d, x, z)
         /\ Sum(u, j, r, o, l, h, n, c - 1, d, x, z) < Sum(u, j, r, o, l, h, n, c, d, x, z)
         /\ Sum(u, j, r, o, l, h, n, c, d, x - 1, z) < Sum(u, j, r, o, l, h, n, c, d, x, z)
         /\ Sum(u, j, r, o, l, h, n, c, d, x, z - 1) < Sum(u, j, r, o, l, h, n, c, d, x, z)
         /\ Sum(u - 1, j, r, o, l, h, n, c, d, x, z) < Sum(u, j, r, o, l, h, n, c, d, x, z)
         /\ Sum(u - 1, j, r, o, l, h, n, c, d, x, z - 1) < Sum(u, j, r, o, l, h, n, c, d, x, z)
  BY DEF Sum

LEMMA WorkerShrinks ==
  ASSUME TypeInv, NEW w \in Worker, WorkerStep(w) \/ Writes(w)
  PROVE  StepsLeft' < StepsLeft
<1> TypeOK /\ worker \in [Worker -> WorkerState] /\ results \in Seq(Result)
  BY DEF TypeInv, TypeOK, WorkerState, Result, Error
<1>0. UNCHANGED <<stage, skipMounts, unsent, held, closed, cancelled, outcome>>
  BY DEF WorkerStep, Writes, Take, Leave, Send, Write, config
<1>1. /\ Cardinality(unsent') = Cardinality(unsent) /\ Holding' = Holding /\ Unclosed' = Unclosed
      /\ Later' = Later /\ Wanted' = Wanted /\ Going' = Going
  BY <1>0, LaterKept DEF Holding, Unclosed, Wanted, Going, Running, TypeOK, Stage
<1>2. CASE Take(w)
  <2> DEFINE f == First(jobs)
             t == [at |-> IF StageDone THEN "offer" ELSE "run", item |-> f,
                   err |-> IF StageDone THEN "skip" ELSE "none"]
  <2>1. f \in jobs
    BY <1>2, StageFinite, FirstInSet DEF Take
  <2>2. /\ worker' = [worker EXCEPT ![w] = t] /\ worker[w].at = "idle" /\ t.at \in {"offer", "run"}
        /\ jobs' = jobs \ {f} /\ results' = results
    BY <1>2 DEF Take, Becomes
  <2> HIDE DEF f, t
  <2>3. Cardinality(jobs') = Cardinality(jobs) - 1
    BY <2>1, <2>2, StageFinite, FS_RemoveElement
  <2>4. Stays' = Stays
    <3>1. t.at \in {"idle", "run", "offer"} /\ worker[w].at \in {"idle", "run", "offer"}
      BY <2>2
    <3> QED
      BY <2>2, <3>1, WithChange DEF Stays
  <2>5. CASE t.at = "run"
    <3>1. Runs' = Runs + 1 /\ Offers' = Offers
      BY <2>2, <2>5, WithChange DEF Runs, Offers
    <3> QED
      BY <1>1, <2>2, <2>3, <2>4, <3>1, SumShrinks, PartsType, StepsLeftSum, NewStepsLeft DEF NewSum
  <2>6. CASE t.at = "offer"
    <3>1. Runs' = Runs /\ Offers' = Offers + 1
      BY <2>2, <2>6, WithChange DEF Runs, Offers
    <3> QED
      BY <1>1, <2>2, <2>3, <2>4, <3>1, SumShrinks, PartsType, StepsLeftSum, NewStepsLeft DEF NewSum
  <2> QED
    BY <2>2, <2>5, <2>6
<1>3. CASE Leave(w)
  <2>1. /\ worker' = [worker EXCEPT ![w] = Gone] /\ worker[w].at = "idle" /\ Gone.at = "gone"
        /\ UNCHANGED <<jobs, results>>
    BY <1>3 DEF Leave, Becomes, Gone, Waiting
  <2>2. Runs' = Runs /\ Offers' = Offers /\ Stays' = Stays - 1
    BY <2>1, WithChange DEF Runs, Offers, Stays
  <2> QED
    BY <1>1, <2>1, <2>2, SumShrinks, PartsType, StepsLeftSum, NewStepsLeft DEF NewSum
<1>4. CASE Send(w)
  <2> DEFINE r == [item |-> worker[w].item, err |-> worker[w].err]
  <2>1. /\ worker' = [worker EXCEPT ![w] = Waiting] /\ worker[w].at = "offer" /\ Waiting.at = "idle"
        /\ jobs' = jobs /\ r \in Result /\ results' = Append(results, r)
    BY <1>4 DEF Send, Becomes, Waiting, Result, WorkerState
  <2> HIDE DEF r
  <2>2. Runs' = Runs /\ Offers' = Offers - 1 /\ Stays' = Stays
    BY <2>1, WithChange DEF Runs, Offers, Stays
  <2>3. Len(results') = Len(results) + 1
    BY <2>1, AppendProperties
  <2> QED
    BY <1>1, <2>1, <2>2, <2>3, SumShrinks, PartsType, StepsLeftSum, NewStepsLeft DEF NewSum
<1>5. ASSUME NEW err \in {"none", "other", "ctx"}, Write(w, err) PROVE StepsLeft' < StepsLeft
  <2> DEFINE t == [worker[w] EXCEPT !.at = "offer", !.err = err]
  <2>1. t.at = "offer" /\ worker' = [worker EXCEPT ![w] = t] /\ worker[w].at = "run"
        /\ UNCHANGED <<jobs, results>>
    BY <1>5 DEF Write, Offer, Becomes, WorkerState
  <2> HIDE DEF t
  <2>2. Runs' = Runs - 1 /\ Offers' = Offers + 1 /\ Stays' = Stays
    BY <2>1, WithChange DEF Runs, Offers, Stays
  <2> QED
    BY <1>1, <2>1, <2>2, SumShrinks, PartsType, StepsLeftSum, NewStepsLeft DEF NewSum
<1> QED
  BY <1>2, <1>3, <1>4, <1>5 DEF WorkerStep, Writes

LEMMA PoolShrinks ==
  ASSUME TypeInv, Cancel \/ Produce \/ CloseJobs \/ Receive \/ Collect
  PROVE  StepsLeft' < StepsLeft
<1> TypeOK /\ results \in Seq(Result)
  BY DEF TypeInv, TypeOK, Result, Error
<1> USE DEF config, pool, Running
<1>0. UNCHANGED <<stage, skipMounts, worker, outcome>>
  BY DEF Cancel, Produce, CloseJobs, Receive, Collect
<1>1. Runs' = Runs /\ Offers' = Offers /\ Stays' = Stays /\ Later' = Later /\ Going' = Going
  BY <1>0, LaterKept DEF Runs, Offers, Stays, With, Going, TypeOK, Stage
<1>2. CASE Cancel
  <2>1. /\ UNCHANGED <<unsent, jobs, results, held, closed>> /\ Wanted = 1 /\ Wanted' = 0
    BY <1>2 DEF Cancel, Wanted
  <2>2. Holding' = Holding /\ Unclosed' = Unclosed /\ Wanted' = Wanted - 1
    BY <2>1 DEF Holding, Unclosed
  <2> QED
    BY <1>1, <2>1, <2>2, SumShrinks, PartsType, StepsLeftSum, NewStepsLeft DEF NewSum
<1>3. CASE Produce
  <2> DEFINE f == First(unsent)
  <2>1. f \in unsent
    BY <1>3, StageFinite, FirstInSet DEF Produce
  <2> HIDE DEF f
  <2>2. /\ jobs' = jobs \cup {f} /\ unsent' = unsent \ {f} /\ f \notin jobs
        /\ UNCHANGED <<results, held, closed, cancelled>>
    BY <1>3, <2>1 DEF Produce, f, TypeOK
  <2>3. Cardinality(jobs') = Cardinality(jobs) + 1
    BY <2>2, StageFinite, FS_AddElement
  <2>4. Cardinality(unsent') = Cardinality(unsent) - 1
    BY <2>1, <2>2, StageFinite, FS_RemoveElement
  <2>5. Holding' = Holding /\ Unclosed' = Unclosed /\ Wanted' = Wanted
    BY <2>2 DEF Holding, Unclosed, Wanted
  <2> QED
    BY <1>1, <2>2, <2>3, <2>4, <2>5, SumShrinks, PartsType, StepsLeftSum, NewStepsLeft DEF NewSum
<1>4. CASE CloseJobs
  <2>1. /\ UNCHANGED <<unsent, jobs, results, held, cancelled>> /\ Unclosed = 1 /\ Unclosed' = 0
    BY <1>4 DEF CloseJobs, Unclosed
  <2>2. Holding' = Holding /\ Wanted' = Wanted /\ Unclosed' = Unclosed - 1
    BY <2>1 DEF Holding, Wanted
  <2> QED
    BY <1>1, <2>1, <2>2, SumShrinks, PartsType, StepsLeftSum, NewStepsLeft DEF NewSum
<1>5. CASE Receive
  <2>1. /\ held = Nil /\ results # <<>> /\ held' = Head(results) /\ results' = Tail(results)
        /\ UNCHANGED <<unsent, jobs, closed, cancelled>>
    BY <1>5 DEF Receive
  <2>2. Len(results') = Len(results) - 1 /\ held' \in Result
    BY <2>1, HeadTailProperties
  <2>3. Holding = 0 /\ Holding' = 1
    BY <2>1, <2>2 DEF Holding, Nil, Result, Error
  <2>4. Unclosed' = Unclosed /\ Wanted' = Wanted /\ Holding' = Holding + 1
    BY <2>1, <2>3 DEF Unclosed, Wanted
  <2> QED
    BY <1>1, <2>1, <2>2, <2>4, SumShrinks, PartsType, StepsLeftSum, NewStepsLeft DEF NewSum
<1>6. CASE Collect
  <2>1. held # Nil /\ held' = Nil /\ UNCHANGED <<unsent, jobs, results, closed, cancelled>>
    BY <1>6 DEF Collect, Count
  <2>2. Unclosed' = Unclosed /\ Wanted' = Wanted /\ Holding' = Holding - 1
    BY <2>1 DEF Unclosed, Wanted, Holding
  <2> QED
    BY <1>1, <2>1, <2>2, SumShrinks, PartsType, StepsLeftSum, NewStepsLeft DEF NewSum
<1> QED
  BY <1>2, <1>3, <1>4, <1>5, <1>6

LEMMA StageShrinks ==
  ASSUME TypeInv, EndStage \/ Learn \/ LearnFails \/ EndDiscovery
  PROVE  StepsLeft' < StepsLeft
<1> TypeOK /\ stage \in Stage
  BY DEF TypeInv, TypeOK, Stage
<1> USE DEF config, tally
<1>1. ASSUME UNCHANGED <<stage, skipMounts, jobs, closed, worker, results, held, cancelled>>
      PROVE  /\ Cardinality(jobs') = Cardinality(jobs) /\ Len(results') = Len(results)
             /\ Runs' = Runs /\ Offers' = Offers /\ Stays' = Stays /\ Later' = Later
             /\ Holding' = Holding /\ Unclosed' = Unclosed /\ Wanted' = Wanted
  BY <1>1, LaterKept DEF Runs, Offers, Stays, With, Holding, Unclosed, Wanted
<1>2. ASSUME UNCHANGED <<stage, skipMounts, cancelled>>, UNCHANGED pool, Running, ~Running'
      PROVE  StepsLeft' < StepsLeft
  <2>1. UNCHANGED <<unsent, jobs, closed, worker, results, held>>
    BY <1>2 DEF pool
  <2>2. Cardinality(unsent') = Cardinality(unsent) /\ Going' = Going - 1
    BY <1>2, <2>1 DEF Going
  <2>3. /\ Cardinality(jobs') = Cardinality(jobs) /\ Len(results') = Len(results)
        /\ Runs' = Runs /\ Offers' = Offers /\ Stays' = Stays /\ Later' = Later
        /\ Holding' = Holding /\ Unclosed' = Unclosed /\ Wanted' = Wanted
    BY <1>1, <1>2, <2>1
  <2> QED
    BY <2>2, <2>3, SumShrinks, PartsType, StepsLeftSum, NewStepsLeft DEF NewSum
<1>3. CASE EndStage
  <2>1. UNCHANGED <<skipMounts, skipNamespaces, cancelled, dropped>> /\ stage # "discovery" /\ Running
    BY <1>3 DEF EndStage, InPool
  <2>2. CASE outcome' = outcome /\ stage # "secrets"
    <3> DEFINE s == Succeeding(stage)
    <3>1. PICK t \in Stage : t = s
      BY DEF Succeeding, Stage
    <3>2. Enter(t, Items(t))
      <4>1. ~(\/ StageDone \/ stage = "secrets")
        BY <1>3, <2>1, <2>2 DEF EndStage, Running, StageDone
      <4> QED
        BY <1>3, <3>1, <4>1 DEF EndStage
    <3>3. stage' = t
      BY <3>2 DEF Enter
    <3>4. Whole("secrets")' = Whole("secrets")
      BY DEF Whole, Width
    <3>5. Later' \in Nat
      <4>1. Whole("secrets") \in Nat
        BY WholeType DEF Stage
      <4> QED
        BY <2>1, <2>2, <3>1, <3>3, <3>4, <4>1 DEF Later, Succeeding, Stage
    <3>6. Later = Whole(t) + Later'
      <4>1. Whole(t) \in Nat /\ Whole("secrets") \in Nat
        BY WholeType DEF Stage
      <4>2. CASE stage = "namespaces"
        <5>1. Later = Whole(t) + Whole("secrets")
          BY <3>1, <4>2 DEF Later
        <5>2. Later' = Whole("secrets")
          BY <2>1, <3>1, <3>3, <3>4, <4>2 DEF Later, Succeeding
        <5> QED
          BY <5>1, <5>2
      <4>3. CASE stage = "mounts"
        <5>1. t = "secrets" /\ Later' = 0
          BY <3>1, <3>3, <4>3 DEF Later, Succeeding
        <5> QED
          BY <4>1, <4>3, <5>1 DEF Later
      <4> QED
        BY <2>1, <2>2, <4>2, <4>3 DEF Stage
    <3> QED
      BY <2>1, <2>2, <3>2, <3>5, <3>6, EnterShrinks
  <2>3. CASE ~(outcome' = outcome /\ stage # "secrets")
    <3>1. UNCHANGED <<stage, pool>> /\ outcome' # "none"
      BY <1>3, <2>1, <2>3 DEF EndStage
    <3> QED
      BY <1>2, <2>1, <3>1 DEF Running
  <2> QED
    BY <2>2, <2>3
<1>4. CASE Learn \/ LearnFails
  <2>1. /\ UNCHANGED <<stage, skipMounts, jobs, closed, worker, results, held, cancelled>>
        /\ unsent # {} /\ unsent' = unsent \ {Current} /\ Running
    BY <1>4 DEF Learn, LearnFails
  <2>2. Current \in unsent
    BY <2>1, StageFinite, FirstInSet DEF Current
  <2>3. Cardinality(unsent') = Cardinality(unsent) - 1
    BY <2>1, <2>2, StageFinite, FS_RemoveElement
  <2>4. Going' = Going \/ Going' = Going - 1
    BY <2>1 DEF Going
  <2>5. /\ Cardinality(jobs') = Cardinality(jobs) /\ Len(results') = Len(results)
        /\ Runs' = Runs /\ Offers' = Offers /\ Stays' = Stays /\ Later' = Later
        /\ Holding' = Holding /\ Unclosed' = Unclosed /\ Wanted' = Wanted
    BY <1>1, <2>1
  <2> QED
    BY <2>3, <2>4, <2>5, SumShrinks, PartsType, StepsLeftSum, NewStepsLeft DEF NewSum
<1>5. CASE EndDiscovery
  <2>1. UNCHANGED <<skipMounts, cancelled, dropped>> /\ stage = "discovery" /\ Running
    BY <1>5 DEF EndDiscovery
  <2>2. CASE unsent = {}
    <3>1. Enter("secrets", Items("secrets")) /\ UNCHANGED outcome
      BY <1>5, <2>2 DEF EndDiscovery
    <3>2. Later' = 0
      BY <3>1 DEF Enter, Later
    <3>3. Later = Whole("secrets") /\ Whole("secrets") \in Nat
      BY <2>1, WholeType DEF Later, Stage
    <3> QED
      BY <2>1, <3>1, <3>2, <3>3, EnterShrinks DEF Stage
  <2>3. CASE unsent # {}
    <3>1. UNCHANGED <<stage, pool>> /\ outcome' # "none"
      BY <1>5, <2>3 DEF EndDiscovery
    <3> QED
      BY <1>2, <2>1, <3>1 DEF Running
  <2> QED
    BY <2>2, <2>3
<1> QED
  BY <1>3, <1>4, <1>5

\* Whatever fails and wherever the budget runs out, a run takes no more steps than StepsLeft
\* says when it begins.
THEOREM BoundedRun == Spec => [](StepsLeft \in Nat) /\ RunIsBounded
<1>1. TypeInv => StepsLeft \in Nat
  <2>1. ASSUME NEW u \in Nat, NEW j \in Nat, NEW r \in Nat, NEW o \in Nat, NEW l \in Nat, NEW h \in Nat,
               NEW n \in Nat, NEW c \in Nat, NEW d \in Nat, NEW x \in Nat, NEW z \in Nat
        PROVE  Sum(u, j, r, o, l, h, n, c, d, x, z) \in Nat
    BY DEF Sum
  <2> QED
    BY <2>1, StepsLeftSum, PartsType
<1>2. TypeInv /\ [Next]_vars => [StepsLeft' < StepsLeft]_vars
  BY WorkerShrinks, PoolShrinks, StageShrinks DEF Next, RunStep
<1> QED
  BY <1>1, <1>2, InitType, NextType, PTL DEF Spec, RunIsBounded

\* The guards of the goroutines, but for what the context and Vault decide: with either
\* outcome there is a step to take.
RunReady ==
  \/ stage = "discovery"
  \/ held # Nil \/ results # <<>> \/ Drained
ProducerReady ==
  stage # "discovery" /\ ~closed /\ (unsent = {} \/ StageDone \/ Cardinality(jobs) < Width)
WorkerReady(w) ==
  /\ stage # "discovery"
  /\ \/ worker[w].at = "run"
     \/ worker[w].at = "offer" /\ Len(results) < Width
     \/ worker[w].at = "idle" /\ (jobs # {} \/ closed)

\* In no state of a run do the producer, the workers and the collector all wait for each
\* other at the two channels.  With BoundedRun this leaves of Terminates only the
\* scheduling: that a goroutine which can run does.
NeverStuck == Running => RunReady \/ ProducerReady \/ \E w \in Worker : WorkerReady(w)

\* A run can always go on, in whatever stage the budget or the caller cancels it.
THEOREM RunGoesOn == Spec => []NeverStuck
<1>1. TypeInv => NeverStuck
  <2> SUFFICES ASSUME TypeInv, ~RunReady, \A w \in Worker : ~WorkerReady(w)
               PROVE  ProducerReady
    BY DEF NeverStuck
  <2>1. Width \in Nat /\ 0 < Width
    BY WidthType
  <2>2. stage # "discovery" /\ held = Nil /\ results = <<>> /\ Len(results) = 0
    BY DEF RunReady
  <2>3. PICK w \in Worker : worker[w].at # "gone"
    BY <2>2 DEF RunReady, Drained
  <2>4. worker[w].at = "idle"
    BY <2>1, <2>2, <2>3 DEF TypeInv, TypeOK, WorkerReady
  <2>5. jobs = {} /\ ~closed
    BY <2>2, <2>4 DEF WorkerReady
  <2> QED
    BY <2>1, <2>2, <2>5, FS_EmptySet DEF ProducerReady
<1> QED
  BY <1>1, InitType, NextType, PTL DEF Spec

-------------------------------------------------------------------------------
(* The run implements SeedingPromise. *)

Sent(s) == {s[i] : i \in DOMAIN s}
Apiece(s) == \A i, j \in DOMAIN s : s[i].item = s[j].item => i = j

LEMMA SentAppend ==
  ASSUME NEW s \in Seq(Result), NEW r \in Result
  PROVE  /\ Sent(Append(s, r)) = Sent(s) \cup {r}
         /\ Apiece(s) /\ (\A q \in Sent(s) : q.item # r.item) => Apiece(Append(s, r))
<1> DEFINE t == Append(s, r)
<1>1. /\ Len(s) \in Nat /\ DOMAIN s = 1..Len(s) /\ DOMAIN t = 1..(Len(s) + 1)
      /\ \A i \in 1..Len(s) : t[i] = s[i]
      /\ t[Len(s) + 1] = r
  <2>1. t \in Seq(Result) /\ Len(t) = Len(s) + 1
    BY AppendProperties
  <2> HIDE DEF t
  <2>2. DOMAIN t = 1..(Len(s) + 1) /\ Len(s) \in Nat /\ DOMAIN s = 1..Len(s)
    BY <2>1, LenProperties
  <2> QED
    BY <2>2, AppendProperties DEF t
<1> HIDE DEF t
<1>2. 1..(Len(s) + 1) = 1..Len(s) \cup {Len(s) + 1}
  BY <1>1
<1>3. Sent(t) = Sent(s) \cup {r}
  BY <1>1, <1>2 DEF Sent
<1>4. ASSUME Apiece(s), \A q \in Sent(s) : q.item # r.item PROVE Apiece(t)
  BY <1>1, <1>2, <1>4 DEF Sent, Apiece
<1> QED
  BY <1>3, <1>4 DEF t

LEMMA SentTail ==
  ASSUME NEW s \in Seq(Result), s # <<>>
  PROVE  /\ Head(s) \in Result /\ Sent(s) = Sent(Tail(s)) \cup {Head(s)}
         /\ Apiece(s) => /\ Apiece(Tail(s))
                         /\ \A q \in Sent(Tail(s)) : q.item # Head(s).item
<1> DEFINE t == Tail(s)
<1>1. /\ Len(s) \in Nat /\ DOMAIN s = 1..Len(s) /\ DOMAIN t = 1..(Len(s) - 1)
      /\ \A i \in 1..(Len(s) - 1) : t[i] = s[i + 1]
      /\ 1 <= Len(s) /\ Head(s) = s[1] /\ Head(s) \in Result
  <2>1. /\ t \in Seq(Result) /\ Len(t) = Len(s) - 1 /\ \A i \in 1..Len(t) : t[i] = s[i + 1]
        /\ Head(s) \in Result
    BY HeadTailProperties
  <2>2. Len(s) \in Nat /\ DOMAIN s = 1..Len(s) /\ Len(s) # 0
    BY LenProperties, EmptySeq
  <2> HIDE DEF t
  <2>3. DOMAIN t = 1..Len(t)
    BY <2>1, LenProperties
  <2> QED
    BY <2>1, <2>2, <2>3
<1> HIDE DEF t
<1>2. \A j \in 1..Len(s) : j = 1 \/ (j - 1 \in 1..(Len(s) - 1) /\ (j - 1) + 1 = j)
  BY <1>1
<1>3. \A i \in 1..(Len(s) - 1) : i + 1 \in 1..Len(s) /\ i + 1 # 1
  BY <1>1
<1>4. Sent(s) = Sent(t) \cup {Head(s)}
  <2>1. ASSUME NEW j \in 1..Len(s) PROVE s[j] \in Sent(t) \cup {Head(s)}
    <3>1. CASE j = 1
      BY <1>1, <3>1
    <3>2. CASE j # 1
      <4>1. t[j - 1] = s[j] /\ j - 1 \in DOMAIN t
        BY <1>1, <1>2, <3>2
      <4> QED
        BY <4>1 DEF Sent
    <3> QED
      BY <3>1, <3>2
  <2>2. ASSUME NEW i \in 1..(Len(s) - 1) PROVE t[i] \in Sent(s)
    <3>1. t[i] = s[i + 1] /\ i + 1 \in DOMAIN s
      BY <1>1, <1>3
    <3> QED
      BY <3>1 DEF Sent
  <2>3. Head(s) \in Sent(s)
    BY <1>1 DEF Sent
  <2>4. Sent(s) \subseteq Sent(t) \cup {Head(s)}
    BY <1>1, <2>1 DEF Sent
  <2>5. Sent(t) \subseteq Sent(s)
    BY <1>1, <2>2 DEF Sent
  <2> QED
    BY <2>3, <2>4, <2>5
<1>5. ASSUME Apiece(s) PROVE Apiece(t) /\ \A q \in Sent(t) : q.item # Head(s).item
  <2>1. ASSUME NEW i \in 1..(Len(s) - 1), NEW j \in 1..(Len(s) - 1), t[i].item = t[j].item
        PROVE  i = j
    <3>1. i + 1 = j + 1
      BY <1>1, <1>3, <1>5, <2>1 DEF Apiece
    <3> QED
      BY <3>1
  <2>2. ASSUME NEW i \in 1..(Len(s) - 1) PROVE t[i].item # Head(s).item
    BY <1>1, <1>3, <1>5, <2>2 DEF Apiece
  <2> QED
    BY <1>1, <2>1, <2>2 DEF Apiece, Sent
<1> QED
  BY <1>1, <1>4, <1>5 DEF t

\* Where the items without an answer are: unsent, queued, with a worker, in the channel of
\* results, in the hand of the collector.
Carry == {worker[w].item : w \in Busy}
Fetched == {r.item : r \in Sent(results)}
Kept == IF held = Nil THEN {} ELSE {held.item}

LEMMA Parts == /\ Open = unsent \cup jobs \cup Carry \cup Fetched \cup Kept
               /\ Open' = unsent' \cup jobs' \cup Carry' \cup Fetched' \cup Kept'
<1>1. Carry = {worker[w].item : w \in With({"run", "offer"})}
      /\ Carry' = {worker'[w].item : w \in With({"run", "offer"})'}
  BY DEF Carry, Busy, With
<1>2. /\ Fetched = {results[i].item : i \in DOMAIN results}
      /\ Fetched' = {results'[i].item : i \in DOMAIN results'}
  BY DEF Fetched, Sent
<1> QED
  BY <1>1, <1>2 DEF Open, Kept

\* Each is in one place only (Carried and TypeOK say the rest).
Single ==
  /\ \A v, w \in Busy : worker[v].item = worker[w].item => v = w
  /\ Apiece(results)
  /\ Carry \cap (Fetched \cup Kept) = {}
  /\ Fetched \cap (unsent \cup jobs \cup Kept) = {}
  /\ Kept \cap (unsent \cup jobs) = {}

\* What is to be counted as created was accepted by Vault.
Made ==
  /\ \A w \in Worker :
       worker[w].at = "offer" /\ worker[w].err = "none" => <<stage, worker[w].item>> \in Written
  /\ \A r \in Sent(results) : r.err = "none" => <<stage, r.item>> \in Written
  /\ held.err = "none" => <<stage, held.item>> \in Written

PromiseInv == TypeInv /\ Quiet /\ Finished /\ Answers /\ Single /\ Made

LEMMA BusyApart == ASSUME TypeInv PROVE Carry \cap (unsent \cup jobs) = {} /\ jobs \cap unsent = {}
  BY DEF TypeInv, TypeOK, Carried, Carry, Busy

\* A step that leaves workers and results alone.
LEMMA QueueKeeps ==
  ASSUME Single, Made, UNCHANGED <<worker, results, held, stage, vault>>,
         unsent' \cup jobs' \subseteq unsent \cup jobs
  PROVE  /\ Single' /\ Made' /\ Written' = Written
         /\ unsent' \cup jobs' = unsent \cup jobs => Open' = Open
<1>1. Busy' = Busy /\ Carry' = Carry /\ Fetched' = Fetched /\ Kept' = Kept
  BY DEF Busy, Carry, Fetched, Kept, Sent
<1>2. Written' = Written
  BY DEF Written, vault
<1>3. Single'
  BY <1>1 DEF Single, Apiece
<1>4. Made'
  BY <1>2 DEF Made, Sent
<1> QED
  BY <1>1, <1>2, <1>3, <1>4, Parts

LEMMA TakeKeeps ==
  ASSUME TypeInv, Single, Made, NEW w \in Worker, Take(w)
  PROVE  Single' /\ Made' /\ Written' = Written /\ Open' = Open
<1> TypeOK /\ worker \in [Worker -> WorkerState]
  BY DEF TypeInv, TypeOK, WorkerState, Error
<1> DEFINE f == First(jobs)
           s == [at |-> IF StageDone THEN "offer" ELSE "run", item |-> f,
                 err |-> IF StageDone THEN "skip" ELSE "none"]
<1>1. f \in jobs
  BY StageFinite, FirstInSet DEF Take
<1>2. /\ worker' = [worker EXCEPT ![w] = s] /\ worker[w].at = "idle" /\ jobs' = jobs \ {f}
      /\ UNCHANGED <<unsent, results, held, stage, vault>>
  BY DEF Take, Becomes
<1>3. s.at \in {"run", "offer"} /\ s.item = f /\ ~(s.at = "offer" /\ s.err = "none")
  OBVIOUS
<1> HIDE DEF f, s
<1>4. /\ worker'[w] = s /\ \A v \in Worker \ {w} : worker'[v] = worker[v]
  BY <1>2
<1>5. Busy' = Busy \cup {w} /\ w \notin Busy /\ Busy \subseteq Worker
  BY <1>2, <1>3, <1>4 DEF Busy
<1>6. Carry' = Carry \cup {f}
  BY <1>3, <1>4, <1>5 DEF Carry
<1>7. Fetched' = Fetched /\ Kept' = Kept /\ Written' = Written /\ Sent(results)' = Sent(results)
  BY <1>2 DEF Fetched, Kept, Sent, Written, vault
<1>8. f \notin Carry /\ f \notin Fetched \cup Kept
  BY <1>1, BusyApart DEF Single
<1>9. Single'
  <2>1. \A v \in Busy : worker'[v] = worker[v] /\ worker[v].item # f
    BY <1>4, <1>5, <1>8 DEF Carry
  <2>2. \A u, v \in Busy' : worker'[u].item = worker'[v].item => u = v
    BY <1>3, <1>4, <1>5, <2>1 DEF Single
  <2>3. Apiece(results)'
    BY <1>2 DEF Single, Apiece
  <2>4. /\ Carry' \cap (Fetched' \cup Kept') = {}
        /\ Fetched' \cap (unsent' \cup jobs' \cup Kept') = {}
        /\ Kept' \cap (unsent' \cup jobs') = {}
    BY <1>2, <1>6, <1>7, <1>8 DEF Single
  <2> QED
    BY <2>2, <2>3, <2>4 DEF Single
<1>10. Made'
  BY <1>2, <1>3, <1>4, <1>7 DEF Made
<1>11. Open' = Open
  BY <1>1, <1>2, <1>6, <1>7, Parts
<1> QED
  BY <1>7, <1>9, <1>10, <1>11

LEMMA LeaveKeeps ==
  ASSUME TypeInv, Single, Made, NEW w \in Worker, Leave(w)
  PROVE  Single' /\ Made' /\ Written' = Written /\ Open' = Open
<1> worker \in [Worker -> WorkerState]
  BY DEF TypeInv, TypeOK, WorkerState, Error
<1>1. /\ worker[w].at = "idle" /\ worker'[w].at = "gone"
      /\ \A v \in Worker \ {w} : worker'[v] = worker[v]
      /\ UNCHANGED <<unsent, jobs, results, held, stage, vault>>
  BY DEF Leave, Becomes, Gone, Waiting
<1>2. Busy' = Busy /\ \A v \in Busy : worker'[v] = worker[v]
  BY <1>1 DEF Busy
<1>3. /\ Carry' = Carry /\ Fetched' = Fetched /\ Kept' = Kept /\ Written' = Written
      /\ Sent(results)' = Sent(results)
  BY <1>1, <1>2 DEF Carry, Fetched, Kept, Sent, Written, vault
<1>4. Single'
  BY <1>1, <1>2, <1>3 DEF Single, Apiece
<1>5. Made'
  BY <1>1, <1>3 DEF Made
<1> QED
  BY <1>1, <1>3, <1>4, <1>5, Parts

LEMMA SendKeeps ==
  ASSUME TypeInv, Single, Made, NEW w \in Worker, Send(w)
  PROVE  Single' /\ Made' /\ Written' = Written /\ Open' = Open
<1> worker \in [Worker -> WorkerState] /\ results \in Seq(Result)
  BY DEF TypeInv, TypeOK, WorkerState, Result, Error
<1> DEFINE r == [item |-> worker[w].item, err |-> worker[w].err]
<1>1. /\ worker' = [worker EXCEPT ![w] = Waiting] /\ worker[w].at = "offer"
      /\ results' = Append(results, r) /\ Waiting.at = "idle"
      /\ UNCHANGED <<unsent, jobs, held, stage, vault>>
  BY DEF Send, Becomes, Waiting
<1>2. r \in Result /\ r.item = worker[w].item /\ r.err = worker[w].err
  BY DEF Result, WorkerState
<1> HIDE DEF r
<1>3. worker'[w].at = "idle" /\ \A v \in Worker \ {w} : worker'[v] = worker[v]
  BY <1>1
<1>4. w \in Busy /\ Busy' = Busy \ {w} /\ Busy \subseteq Worker
  BY <1>1, <1>3 DEF Busy
<1>5. Sent(results)' = Sent(results) \cup {r}
  <2>1. Sent(results') = Sent(results) \cup {r}
    BY <1>1, <1>2, SentAppend
  <2> QED
    BY <2>1 DEF Sent
<1>6. Fetched' = Fetched \cup {r.item} /\ Kept' = Kept /\ Written' = Written
  BY <1>1, <1>5 DEF Fetched, Kept, Written, vault
<1>7. Carry = Carry' \cup {r.item} /\ r.item \notin Carry'
  <2>1. \A v \in Busy' : worker'[v] = worker[v] /\ worker[v].item # r.item
    BY <1>2, <1>3, <1>4 DEF Single
  <2> QED
    BY <1>2, <1>4, <2>1 DEF Carry
<1>8. Single'
  <2>1. \A q \in Sent(results) : q.item # r.item
    BY <1>7 DEF Single, Fetched
  <2>2. Apiece(results)'
    BY <1>1, <1>2, <2>1, SentAppend DEF Single, Apiece
  <2>3. \A u, v \in Busy' : worker'[u].item = worker'[v].item => u = v
    BY <1>3, <1>4 DEF Single
  <2>4. r.item \notin unsent \cup jobs
    BY <1>7, BusyApart
  <2>5. /\ Carry' \cap (Fetched' \cup Kept') = {}
        /\ Fetched' \cap (unsent' \cup jobs' \cup Kept') = {}
        /\ Kept' \cap (unsent' \cup jobs') = {}
    BY <1>1, <1>6, <1>7, <2>4 DEF Single
  <2> QED
    BY <2>2, <2>3, <2>5 DEF Single
<1>9. Made'
  BY <1>1, <1>2, <1>3, <1>5, <1>6 DEF Made
<1>10. Open' = Open
  BY <1>1, <1>6, <1>7, Parts
<1> QED
  BY <1>6, <1>8, <1>9, <1>10

LEMMA ReceiveKeeps ==
  ASSUME TypeInv, Single, Made, Receive
  PROVE  Single' /\ Made' /\ Written' = Written /\ Open' = Open
<1> results \in Seq(Result)
  BY DEF TypeInv, TypeOK, Result, Error
<1> DEFINE r == Head(results)
<1>1. /\ held = Nil /\ held' = r /\ results # <<>> /\ results' = Tail(results)
      /\ UNCHANGED <<unsent, jobs, worker, stage, vault>>
  BY DEF Receive
<1>2. /\ r \in Result /\ Sent(results) = Sent(results)' \cup {r}
      /\ Apiece(results)' /\ \A q \in Sent(results)' : q.item # r.item
  <2>1. Apiece(results)
    BY DEF Single
  <2>2. /\ r \in Result /\ Sent(results) = Sent(results') \cup {r}
        /\ Apiece(results') /\ \A q \in Sent(results') : q.item # r.item
    BY <1>1, <2>1, SentTail
  <2> HIDE DEF r
  <2> QED
    BY <2>2 DEF Sent, Apiece
<1> HIDE DEF r
<1>3. Kept = {} /\ Kept' = {r.item}
  BY <1>1, <1>2 DEF Kept, Nil, Result, Error
<1>4. Fetched = Fetched' \cup {r.item} /\ r.item \notin Fetched'
  BY <1>2 DEF Fetched
<1>5. Busy' = Busy /\ Carry' = Carry /\ Written' = Written
  BY <1>1 DEF Busy, Carry, Written, vault
<1>6. Single'
  <2>1. \A u, v \in Busy' : worker'[u].item = worker'[v].item => u = v
    BY <1>1, <1>5 DEF Single
  <2>2. /\ Carry' \cap (Fetched' \cup Kept') = {}
        /\ Fetched' \cap (unsent' \cup jobs' \cup Kept') = {}
        /\ Kept' \cap (unsent' \cup jobs') = {}
    BY <1>1, <1>3, <1>4, <1>5 DEF Single
  <2> QED
    BY <1>2, <2>1, <2>2 DEF Single
<1>7. Made'
  BY <1>1, <1>2, <1>5 DEF Made
<1>8. Open' = Open
  BY <1>1, <1>3, <1>4, <1>5, Parts
<1> QED
  BY <1>5, <1>6, <1>7, <1>8

\* What Vault accepts is the write of the item, in either layout.
LEMMA ApplyWrites ==
  ASSUME TypeOK, NEW i \in Items(stage), stage # "discovery", Apply(i)
  PROVE  Written' = Written \cup {<<stage, i>>}
<1> DEFINE M == {m \in Mount : mounts[m] # 0}
           X == secrets \cup misplaced
<1>1. /\ Written = ({"namespaces"} \X namespaces) \cup ({"mounts"} \X M) \cup ({"secrets"} \X X)
      /\ Written' = ({"namespaces"} \X namespaces') \cup ({"mounts"} \X M') \cup ({"secrets"} \X X')
  BY DEF Written
<1>2. CASE stage = "namespaces"
  <2>1. namespaces' = namespaces \cup {i} /\ M' = M /\ X' = X
    BY <1>2 DEF Apply
  <2> HIDE DEF M, X
  <2> QED
    BY <1>1, <1>2, <2>1
<1>3. CASE stage = "mounts"
  <2>1. namespaces' = namespaces /\ X' = X
    BY <1>3 DEF Apply
  <2>2. i \in Mount /\ version[i] # 0 /\ mounts' = [mounts EXCEPT ![i] = version[i]]
    BY <1>3 DEF Apply, Items, TypeOK
  <2>3. M' = M \cup {i}
    BY <2>2 DEF TypeOK
  <2> HIDE DEF M, X
  <2> QED
    BY <1>1, <1>3, <2>1, <2>3
<1>4. CASE stage = "secrets"
  <2>1. namespaces' = namespaces /\ M' = M /\ X' = X \cup {i}
    BY <1>4 DEF Apply
  <2> HIDE DEF M, X
  <2> QED
    BY <1>1, <1>4, <2>1
<1> QED
  BY <1>2, <1>3, <1>4 DEF TypeOK

LEMMA WriteKeeps ==
  ASSUME TypeInv, Single, Made, NEW w \in Worker, NEW err \in {"none", "other", "ctx"}, Write(w, err)
  PROVE  /\ Single' /\ Made' /\ Open' = Open /\ worker[w].item \in Open
         /\ Written' \in {Written, Written \cup {<<stage, worker[w].item>>}}
<1> worker \in [Worker -> WorkerState] /\ TypeOK /\ Carried
  BY DEF TypeInv, TypeOK, WorkerState, Error
<1> DEFINE i == worker[w].item
           s == [worker[w] EXCEPT !.at = "offer", !.err = err]
<1>1. /\ worker[w].at = "run" /\ worker' = [worker EXCEPT ![w] = s] /\ stage # "discovery"
      /\ Apply(i) \/ (err # "none" /\ UNCHANGED vault)
      /\ UNCHANGED <<unsent, jobs, results, held, stage>>
  BY DEF Write, Offer, Becomes, InPool
<1>2. s.at = "offer" /\ s.item = i /\ s.err = err
  BY DEF WorkerState
<1>3. i \in Items(stage)
  BY <1>1 DEF Carried
<1>4. Written' = Written \cup {<<stage, i>>} \/ (err # "none" /\ Written' = Written)
  <2>1. CASE Apply(i)
    BY <1>1, <1>3, <2>1, ApplyWrites
  <2>2. CASE err # "none" /\ UNCHANGED vault
    BY <2>2 DEF vault, Written
  <2> QED
    BY <1>1, <2>1, <2>2
<1> HIDE DEF s, i
<1>5. worker'[w] = s /\ \A v \in Worker \ {w} : worker'[v] = worker[v]
  BY <1>1
<1>6. Busy' = Busy /\ w \in Busy /\ \A v \in Busy : worker'[v].item = worker[v].item
  BY <1>1, <1>2, <1>5 DEF Busy, i
<1>7. Carry' = Carry /\ Fetched' = Fetched /\ Kept' = Kept /\ Sent(results)' = Sent(results)
  BY <1>1, <1>6 DEF Carry, Fetched, Kept, Sent
<1>8. i \in Carry
  BY <1>6 DEF Carry, i
<1>9. Single'
  BY <1>1, <1>6, <1>7 DEF Single, Apiece
<1>10. Made'
  <2>1. \A v \in Worker :
          worker'[v].at = "offer" /\ worker'[v].err = "none" => <<stage, worker'[v].item>> \in Written'
    BY <1>2, <1>4, <1>5 DEF Made
  <2>2. \A r \in Sent(results) : r.err = "none" => <<stage, r.item>> \in Written'
    BY <1>4 DEF Made
  <2>3. held.err = "none" => <<stage, held.item>> \in Written'
    BY <1>4 DEF Made
  <2> QED
    BY <1>1, <1>7, <2>1, <2>2, <2>3 DEF Made
<1>11. Open' = Open /\ i \in Open
  BY <1>1, <1>7, <1>8, Parts
<1> QED
  BY <1>4, <1>9, <1>10, <1>11 DEF i

LEMMA CollectKeeps ==
  ASSUME Single, Made, Collect
  PROVE  /\ Single' /\ Made' /\ Written' = Written
         /\ held.item \in Open /\ Open' = Open \ {held.item}
         /\ held.err = "none" => <<stage, held.item>> \in Written
<1>1. held # Nil /\ held' = Nil /\ UNCHANGED <<unsent, jobs, worker, results, stage, vault>>
  BY DEF Collect, Count
<1>2. /\ Busy' = Busy /\ Carry' = Carry /\ Fetched' = Fetched /\ Written' = Written
      /\ Sent(results)' = Sent(results)
  BY <1>1 DEF Busy, Carry, Fetched, Sent, Written, vault
<1>3. Kept = {held.item} /\ Kept' = {}
  BY <1>1 DEF Kept
<1>4. Single'
  BY <1>1, <1>2, <1>3 DEF Single, Apiece
<1>5. Made'
  BY <1>1, <1>2 DEF Made, Nil
<1>6. held.item \in Open /\ Open' = Open \ {held.item}
  BY <1>1, <1>2, <1>3, Parts DEF Single
<1> QED
  BY <1>2, <1>4, <1>5, <1>6 DEF Made

\* A stage that begins, and the discovery, have nothing but what is unsent.
Idle == jobs = {} /\ results = <<>> /\ held = Nil /\ worker = [w \in Worker |-> Waiting]

LEMMA IdlePool == Idle => Single /\ Made /\ Open = unsent
<1> SUFFICES ASSUME Idle PROVE Single /\ Made /\ Open = unsent
  OBVIOUS
<1>1. Busy = {} /\ Sent(results) = {} /\ Kept = {}
  BY DEF Idle, Busy, Waiting, Sent, Kept
<1>2. Carry = {} /\ Fetched = {}
  BY <1>1 DEF Carry, Fetched
<1>3. Single
  BY <1>1, <1>2 DEF Single, Apiece, Idle
<1>4. Made
  BY <1>1 DEF Made, Idle, Waiting, Nil
<1> QED
  BY <1>1, <1>2, <1>3, <1>4, Parts DEF Idle

LEMMA IdlePoolNext == Idle' => Single' /\ Made' /\ Open' = unsent'
<1> SUFFICES ASSUME Idle' PROVE Single' /\ Made' /\ Open' = unsent'
  OBVIOUS
<1>1. Busy' = {} /\ Sent(results)' = {} /\ Kept' = {}
  BY DEF Idle, Busy, Waiting, Sent, Kept
<1>2. Carry' = {} /\ Fetched' = {}
  BY <1>1 DEF Carry, Fetched
<1>3. Single'
  BY <1>1, <1>2 DEF Single, Apiece, Idle
<1>4. Made'
  BY <1>1 DEF Made, Idle, Waiting, Nil
<1> QED
  BY <1>1, <1>2, <1>3, <1>4, Parts DEF Idle

LEMMA PromiseItems == ASSUME NEW s \in Stage PROVE Promise!ItemsOf(s) = Items(s)
<1>1. CASE s = "secrets"
  BY <1>1 DEF Promise!ItemsOf, Items
<1>2. CASE s # "secrets"
  BY <1>2 DEF Promise!ItemsOf, Items, Stage
<1> QED
  BY <1>1, <1>2

\* The steps of the goroutines that answer nothing.
LEMMA WorkerRefines ==
  ASSUME PromiseInv, NEW w \in Worker, WorkerStep(w) \/ Writes(w)
  PROVE  Single' /\ Made' /\ [Promise!Next]_(Promise!avars)
<1> TypeInv /\ TypeOK /\ Quiet /\ Single /\ Made
  BY DEF PromiseInv, TypeInv
<1>1. CASE WorkerStep(w)
  <2>1. Single' /\ Made' /\ Written' = Written /\ Open' = Open
    BY <1>1, TakeKeeps, LeaveKeeps, SendKeeps DEF WorkerStep
  <2>2. UNCHANGED <<stage, budget, dropped, failures, created, cancelled, spent, outcome>>
    BY <1>1 DEF WorkerStep, Take, Leave, Send, config, tally
  <2> QED
    BY <2>1, <2>2 DEF Promise!avars, Promise!counts, Promise!ends
<1>2. ASSUME NEW err \in {"none", "other", "ctx"}, Write(w, err)
      PROVE  Single' /\ Made' /\ [Promise!Next]_(Promise!avars)
  <2> DEFINE i == worker[w].item
  <2>1. /\ Single' /\ Made' /\ Open' = Open /\ i \in Open
        /\ Written' \in {Written, Written \cup {<<stage, i>>}}
    BY <1>2, WriteKeeps
  <2>2. /\ UNCHANGED <<stage, budget, dropped, failures, created, cancelled, spent, outcome>>
        /\ stage # "discovery" /\ worker[w].at = "run"
    BY <1>2 DEF Write, config, InPool
  <2>3. Running
    BY <2>2 DEF Quiet
  <2> HIDE DEF i
  <2>4. CASE Written' = Written
    BY <2>1, <2>2, <2>4 DEF Promise!avars, Promise!counts, Promise!ends
  <2>5. CASE Written' = Written \cup {<<stage, i>>}
    <3>1. Promise!Write(i)
      BY <2>1, <2>2, <2>5 DEF Promise!Write, Promise!counts, Promise!ends
    <3> QED
      BY <2>1, <2>3, <3>1 DEF Promise!Next, Running
  <2> QED
    BY <2>1, <2>4, <2>5
<1> QED
  BY <1>1, <1>2 DEF Writes

LEMMA CollectRefines ==
  ASSUME PromiseInv, Collect
  PROVE  Single' /\ Made' /\ Promise!Next
<1> TypeInv /\ TypeOK /\ Answers /\ Single /\ Made
  BY DEF PromiseInv, TypeInv
<1> DEFINE i == held.item
<1>1. /\ Single' /\ Made' /\ Written' = Written /\ i \in Open /\ Open' = Open \ {i}
      /\ held.err = "none" => <<stage, i>> \in Written
  BY CollectKeeps
<1> HIDE DEF i
<1>2. UNCHANGED <<stage, budget, cancelled, dropped, outcome>> /\ Running
  BY DEF Collect, config
<1>3. /\ failures' = IF held.err = "other" THEN failures + 1 ELSE failures
      /\ created' = IF held.err = "none" THEN created + 1 ELSE created
      /\ spent' = (spent \/ (held.err = "other" /\ Exceeds(failures + 1)))
      /\ spent \in BOOLEAN /\ held # Nil
  BY DEF Collect, Count, TypeOK
<1>4. held.err \in Error
  BY <1>3 DEF TypeOK, Error
<1>5. Promise!Answer(i)
  BY <1>1, <1>2 DEF Promise!Answer
<1>6. CASE held.err = "none"
  <2>1. failures' = failures /\ created' = created + 1 /\ spent' = spent
    BY <1>3, <1>6
  <2>2. Promise!Created(i)
    BY <1>1, <1>2, <1>5, <1>6, <2>1 DEF Promise!Created
  <2> QED
    BY <1>1, <1>2, <2>2 DEF Promise!Next, Running
<1>7. CASE held.err = "other"
  <2>1. failures' = failures + 1 /\ created' = created
    BY <1>3, <1>7
  <2>2. spent' = (spent \/ Promise!Over(failures'))
    BY <1>3, <1>7, <2>1 DEF Exceeds, Promise!Over
  <2>3. Promise!Fails(i)
    BY <1>2, <1>5, <2>1, <2>2 DEF Promise!Fails
  <2> QED
    BY <1>1, <1>2, <2>3 DEF Promise!Next, Running
<1>8. CASE held.err \in {"ctx", "skip"}
  <2>1. failures' = failures /\ created' = created /\ spent' = spent
    BY <1>3, <1>8
  <2>2. StageDone
    BY <1>8 DEF Answers
  <2>3. Promise!Abandoned(i)
    BY <1>2, <1>5, <2>1, <2>2 DEF Promise!Abandoned, Promise!Stopping, Promise!counts, StageDone
  <2> QED
    BY <1>1, <1>2, <2>3 DEF Promise!Next, Running
<1> QED
  BY <1>1, <1>4, <1>6, <1>7, <1>8 DEF Error

\* A stage that is left without being stopped has no item without an answer.
LEMMA DrainedIsAnswered ==
  ASSUME PromiseInv, Drained, InPool, ~StageDone
  PROVE  Open = {}
<1>1. PICK w \in Worker : TRUE
  BY SeedAssumption
<1>2. closed /\ jobs = {} /\ unsent = {}
  BY <1>1 DEF PromiseInv, Finished, Drained
<1>3. Busy = {} /\ Sent(results) = {} /\ Kept = {}
  BY DEF Busy, Sent, Kept, Drained
<1>4. Carry = {} /\ Fetched = {}
  BY <1>3 DEF Carry, Fetched
<1> QED
  BY <1>2, <1>3, <1>4, Parts

\* The next stage begins.
LEMMA EnterRefines ==
  ASSUME PromiseInv, Running, NEW s \in Promise!Follow[stage], stage \in Stage, s \in Stage,
         Enter(s, Items(s)), Open = {}, stage # "discovery" => ~StageDone, ~spent,
         UNCHANGED <<vault, config, cancelled, tally, dropped, outcome>>
  PROVE  Single' /\ Made' /\ Promise!Next
<1>1. stage' = s /\ unsent' = Items(s) /\ spent' = FALSE /\ Idle'
  BY DEF Enter, Idle
<1>2. Single' /\ Made' /\ Open' = Items(s)
  BY <1>1, IdlePoolNext
<1>3. Written' = Written
  BY DEF Written, vault
<1>4. spent' = spent
  BY <1>1 DEF PromiseInv, TypeInv, TypeOK
<1>5. Open' = Promise!ItemsOf(stage')
  BY <1>1, <1>2, PromiseItems
<1>6. Promise!NextStage
  BY <1>1, <1>3, <1>4, <1>5
     DEF Promise!NextStage, Promise!Stopping, Promise!counts, Promise!ends, StageDone, config, tally
<1> QED
  BY <1>2, <1>6 DEF Promise!Next, Running

LEMMA ReturnRefines ==
  ASSUME Single, Made, Running,
         UNCHANGED <<vault, config, stage, pool, cancelled, tally, dropped>>,
         \/ outcome' = "nil" /\ ~StageDone /\ stage = "secrets" /\ Open = {}
         \/ outcome' = "ctx" /\ cancelled
         \/ outcome' = "threshold" /\ spent /\ ~cancelled
  PROVE  Single' /\ Made' /\ Promise!Next
<1>1. Single' /\ Made' /\ Written' = Written /\ Open' = Open
  BY QueueKeeps DEF pool
<1>2. Promise!Return
  BY <1>1 DEF Promise!Return, Promise!Stopping, Promise!counts, StageDone, config, pool, tally
<1> QED
  BY <1>1, <1>2 DEF Promise!Next, Running

LEMMA EndStageRefines ==
  ASSUME PromiseInv, EndStage
  PROVE  Single' /\ Made' /\ Promise!Next
<1> TypeInv /\ TypeOK /\ Staged /\ Single /\ Made /\ stage \in Stage
  BY DEF PromiseInv, TypeInv, TypeOK, Stage
<1>1. Running /\ Drained /\ InPool /\ UNCHANGED <<vault, config, cancelled, tally, dropped>>
  BY DEF EndStage
<1>2. ~StageDone => Open = {}
  BY <1>1, DrainedIsAnswered
<1>3. CASE ~StageDone /\ stage # "secrets"
  <2> DEFINE s == Succeeding(stage)
  <2>1. Enter(s, Items(s)) /\ UNCHANGED outcome
    BY <1>3 DEF EndStage
  <2>2. s \in Promise!Follow[stage] /\ s \in Stage
    BY <1>1, <1>3 DEF Promise!Follow, Succeeding, Stage, InPool
  <2> HIDE DEF s
  <2> QED
    BY <1>1, <1>2, <1>3, <2>1, <2>2, EnterRefines DEF StageDone
<1>4. CASE StageDone \/ stage = "secrets"
  <2>1. /\ outcome' = IF cancelled THEN "ctx" ELSE IF spent THEN "threshold" ELSE "nil"
        /\ UNCHANGED <<stage, pool>>
    BY <1>4 DEF EndStage
  <2> QED
    BY <1>1, <1>2, <1>4, <2>1, ReturnRefines DEF StageDone
<1> QED
  BY <1>3, <1>4

LEMMA DiscoveryRefines ==
  ASSUME PromiseInv, Learn \/ LearnFails \/ EndDiscovery
  PROVE  Single' /\ Made' /\ Promise!Next
<1> TypeInv /\ TypeOK /\ Staged /\ Single /\ Made /\ stage \in Stage
  BY DEF PromiseInv, TypeInv, TypeOK, Stage
<1>1. Running /\ stage = "discovery" /\ UNCHANGED <<vault, config, cancelled>>
  BY DEF Learn, LearnFails, EndDiscovery
<1>2. ~spent /\ Idle /\ Open = unsent
  BY <1>1, IdlePool DEF Staged, Idle
<1>3. CASE EndDiscovery
  <2>1. CASE unsent = {} /\ Enter("secrets", Items("secrets")) /\ UNCHANGED outcome
    <3>1. "secrets" \in Promise!Follow[stage] /\ "secrets" \in Stage
      BY <1>1 DEF Promise!Follow, Stage
    <3>2. UNCHANGED <<vault, config, cancelled, tally, dropped, outcome>>
      BY <1>3, <2>1 DEF EndDiscovery
    <3> QED
      BY <1>1, <1>2, <2>1, <3>1, <3>2, EnterRefines
  <2>2. CASE cancelled /\ outcome' = "ctx" /\ UNCHANGED <<stage, pool>>
    BY <1>1, <1>3, <2>2, ReturnRefines DEF EndDiscovery
  <2> QED
    BY <1>3, <2>1, <2>2 DEF EndDiscovery
<1>4. CASE Learn \/ LearnFails
  <2> DEFINE ns == Current
  <2>1. /\ unsent # {} /\ unsent' = unsent \ {ns}
        /\ UNCHANGED <<stage, jobs, worker, results, held, spent, created>>
    BY <1>4 DEF Learn, LearnFails, tally
  <2>2. ns \in unsent /\ ns \in Namespace
    <3>1. ns \in unsent
      BY <2>1, StageFinite, FirstInSet DEF Current
    <3> HIDE DEF ns
    <3>2. unsent \subseteq {NamespaceOf[m] : m \in Mount}
      BY <1>1 DEF TypeOK, Items
    <3>3. NamespaceOf \in [Mount -> Namespace]
      BY PlanType
    <3> QED
      BY <3>1, <3>2, <3>3
  <2> HIDE DEF ns
  <2>3. Single' /\ Made' /\ Open' = Open \ {ns} /\ Written' = Written
    BY <1>1, <1>2, <2>1, IdlePoolNext DEF Idle, Written, vault
  <2>4. Promise!Answer(ns)
    BY <1>1, <2>1, <2>3 DEF Promise!Answer, config
  <2>5. CASE Learn
    <3>1. UNCHANGED <<failures, dropped, outcome>>
      BY <2>5 DEF Learn, tally
    <3>2. Promise!Read(ns)
      BY <1>1, <2>1, <2>4, <3>1 DEF Promise!Read, Promise!counts
    <3> QED
      BY <1>1, <1>2, <2>2, <2>3, <3>2 DEF Promise!Next, Running
  <2>6. CASE LearnFails
    <3>1. /\ failures' = failures + Cardinality(MountsOf(ns)) /\ dropped' = dropped \cup {ns}
          /\ outcome' = IF Exceeds(failures') THEN "threshold" ELSE "none"
      BY <2>6 DEF LearnFails, ns
    <3>2. outcome' = IF Promise!Over(failures') THEN "threshold" ELSE outcome
      BY <1>1, <3>1 DEF Exceeds, Promise!Over, Running
    <3>3. Promise!Unreadable(ns)
      BY <1>1, <2>1, <2>2, <2>4, <3>1, <3>2 DEF Promise!Unreadable
    <3> QED
      BY <1>1, <1>2, <2>2, <2>3, <3>3 DEF Promise!Next, Running
  <2> QED
    BY <1>4, <2>5, <2>6
<1> QED
  BY <1>3, <1>4

LEMMA StepRefines ==
  PromiseInv /\ [Next]_vars => Single' /\ Made' /\ [Promise!Next]_(Promise!avars)
<1> SUFFICES ASSUME PromiseInv, [Next]_vars
             PROVE  Single' /\ Made' /\ [Promise!Next]_(Promise!avars)
  OBVIOUS
<1> TypeInv /\ TypeOK /\ Single /\ Made
  BY DEF PromiseInv, TypeInv
<1> USE DEF config, tally
<1>1. CASE Cancel
  <2>1. /\ cancelled' = TRUE /\ Running
        /\ UNCHANGED <<vault, stage, budget, dropped, failures, created, spent, outcome>>
        /\ UNCHANGED <<unsent, jobs, worker, results, held>>
    BY <1>1 DEF Cancel, pool
  <2>2. Single' /\ Made' /\ Written' = Written /\ Open' = Open
    BY <2>1, QueueKeeps
  <2>3. Promise!Cancel
    BY <2>1, <2>2 DEF Promise!Cancel, Promise!counts
  <2> QED
    BY <2>1, <2>2, <2>3 DEF Promise!Next, Running
<1>2. CASE Produce \/ CloseJobs \/ UNCHANGED vars
  <2>1. /\ UNCHANGED <<vault, stage, budget, dropped, failures, created, cancelled, spent, outcome>>
        /\ UNCHANGED <<worker, results, held>>
    BY <1>2 DEF Produce, CloseJobs, vars, pool
  <2>2. unsent' \cup jobs' = unsent \cup jobs
    <3>1. CASE Produce
      <4>1. First(unsent) \in unsent
        BY <3>1, StageFinite, FirstInSet DEF Produce
      <4> QED
        BY <3>1, <4>1 DEF Produce
    <3>2. CASE CloseJobs \/ UNCHANGED vars
      BY <3>2 DEF CloseJobs, vars, pool
    <3> QED
      BY <1>2, <3>1, <3>2
  <2>3. Single' /\ Made' /\ Written' = Written /\ Open' = Open
    BY <2>1, <2>2, QueueKeeps
  <2> QED
    BY <2>1, <2>3 DEF Promise!avars, Promise!counts, Promise!ends
<1>3. CASE Receive
  <2>1. Single' /\ Made' /\ Written' = Written /\ Open' = Open
    BY <1>3, ReceiveKeeps
  <2>2. UNCHANGED <<stage, budget, dropped, failures, created, cancelled, spent, outcome>>
    BY <1>3 DEF Receive
  <2> QED
    BY <2>1, <2>2 DEF Promise!avars, Promise!counts, Promise!ends
<1> QED
  BY <1>1, <1>2, <1>3, WorkerRefines, CollectRefines, EndStageRefines, DiscoveryRefines
     DEF Next, RunStep

\* Seeding implements SeedingPromise: whatever the goroutines do in whatever order, no item is
\* answered twice, given up before the run is stopping, or left unanswered in a stage that the
\* run goes on from; what is counted as created was accepted by Vault.
THEOREM Refinement == Spec => ImplementsPromise
<1>1. Init => Promise!Init
  <2> SUFFICES ASSUME Init PROVE Promise!Init
    OBVIOUS
  <2>1. Idle /\ unsent = Items(stage) /\ dropped = {} /\ stage \in {"namespaces", "mounts", "discovery"}
    BY DEF Init, Idle
  <2>2. Open = Promise!ItemsOf(stage)
    BY <2>1, IdlePool, PromiseItems DEF Stage
  <2> QED
    BY <2>1, <2>2 DEF Init, Promise!Init
<1>2. Init => PromiseInv
  <2>1. Init => Quiet /\ Idle
    BY DEF Init, Quiet, Running, Idle
  <2> QED
    BY <2>1, InitType, InitFinished, IdlePool DEF PromiseInv
<1>3. PromiseInv /\ [Next]_vars => PromiseInv'
  BY NextType, QuietStep, FinishedStep, AnswersStep, StepRefines DEF PromiseInv
<1> QED
  BY <1>1, <1>2, <1>3, StepRefines, PTL DEF Spec, ImplementsPromise, Promise!Spec
===============================================================================
