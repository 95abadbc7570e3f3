-------------------------------- MODULE SeedRun --------------------------------
(***************************************************************************)
(* The seeding engine (Engine.Run and runStage in internal/seeding/        *)
(* engine.go): namespaces, mounts and secrets are created stage by stage.  *)
(* In a stage a producer, a pool of workers and a collector work on two    *)
(* buffered channels, and the failures of all stages count against one     *)
(* budget that cancels the stage when it is used up.                       *)
(*                                                                         *)
(* Namespaces, mounts and secrets are numbers, in the order of the plan.   *)
(* A producer sends in that order, so the jobs in a channel are a set.     *)
(***************************************************************************)
EXTENDS Integers, Sequences, FiniteSets

CONSTANTS
  NumNamespaces,
  NamespaceOf,   \* the namespace of each mount, a sequence
  MountOf,       \* the mount of each secret, a sequence
  PlanVersion,   \* the KV version Allocate picked for each mount
  Worker,        \* the worker goroutines of a stage; also the size of its channels
  Budgets,       \* the values of MaxFailures: -1 unlimited, 0 none
  Skips          \* the values of SkipNamespaces and SkipMounts, pairs

Namespace == 1..NumNamespaces
Mount == DOMAIN NamespaceOf
Secret == DOMAIN MountOf
Width == Cardinality(Worker)
MountsOf(ns) == {m \in Mount : NamespaceOf[m] = ns}
SecretsOf(m) == {x \in Secret : MountOf[x] = m}

-------------------------------------------------------------------------------
(* The plan is one that Allocate may draw. *)

maxMountsPerNamespace == 5

\* allocateMountSecrets: with secrets enough, every mount of a namespace gets one.
AllocateMountSecrets(ns) ==
  Cardinality(UNION {SecretsOf(m) : m \in MountsOf(ns)}) >= Cardinality(MountsOf(ns)) =>
    \A m \in MountsOf(ns) : SecretsOf(m) # {}

\* Namespaces, their mounts and their secrets in this order; some namespace has a mount, and
\* those that have one share all the secrets.
Allocate ==
  /\ NumNamespaces > 0 /\ Secret # {} /\ Mount # {}
  /\ \A m, n \in Mount : m <= n => NamespaceOf[m] <= NamespaceOf[n]
  /\ \A x, y \in Secret : x <= y => MountOf[x] <= MountOf[y]
  /\ \A ns \in Namespace : /\ Cardinality(MountsOf(ns)) <= maxMountsPerNamespace
                           /\ AllocateMountSecrets(ns)

ASSUME SeedAssumption ==
  /\ NumNamespaces \in Nat
  /\ NamespaceOf \in Seq(Namespace) /\ MountOf \in Seq(Mount)
  /\ PlanVersion \in [Mount -> {1, 2}]
  /\ IsFiniteSet(Worker) /\ Worker # {}
  /\ \A b \in Budgets : b \in Int /\ b >= -1
  /\ Skips \subseteq BOOLEAN \X BOOLEAN
  /\ Allocate

VARIABLES
  namespaces, mounts, secrets,  \* Vault; mounts[m] is a KV version, 0 if absent
  misplaced,   \* the secrets of a version 2 layout written into a version 1 mount
  budget, skipNamespaces, skipMounts,   \* Config
  stage,       \* the stage that runs
  unsent, jobs, closed,         \* the producer and its channel
  worker, results, held,        \* the workers, their channel, the error just received
  spent,       \* thresholdErr # nil, and with it the stage's context is cancelled
  cancelled,   \* the caller's context is done
  failures, created,            \* Result.Failures; the creations counted, over all stages
  version,     \* the versions in the plan
  dropped,     \* the namespaces whose mounts were taken out of the plan
  outcome,
  refused      \* history: the operations that ended in an error of their own

vault == <<namespaces, mounts, secrets, misplaced>>
config == <<budget, skipNamespaces, skipMounts>>
pool == <<unsent, jobs, closed, worker, results, held, spent>>
tally == <<failures, created, refused>>
vars == <<vault, config, stage, pool, cancelled, tally, version, dropped, outcome>>

Waiting == [at |-> "idle", item |-> 0, err |-> "none"]
Gone == [Waiting EXCEPT !.at = "gone"]
Nil == [item |-> 0, err |-> "nil"]

First(S) == CHOOSE x \in S : \A y \in S : x <= y
Running == outcome = "none"
StageDone == cancelled \/ spent
Exceeds(n) == budget = 0 \/ (budget > 0 /\ n >= budget)

-------------------------------------------------------------------------------
(* Stages follow each other. *)

Items(s) == CASE s = "namespaces" -> Namespace
              [] s = "mounts"     -> Mount
              [] s = "discovery"  -> {NamespaceOf[m] : m \in Mount}
              [] s = "secrets"    -> {x \in Secret : NamespaceOf[MountOf[x]] \notin dropped}

Succeeding(s) == CASE s = "namespaces" -> IF skipMounts THEN "discovery" ELSE "mounts"
                   [] OTHER -> "secrets"

\* runStage makes its channels and starts its goroutines.
Enter(s, items) ==
  /\ stage' = s
  /\ unsent' = items /\ jobs' = {} /\ closed' = FALSE
  /\ worker' = [w \in Worker |-> Waiting] /\ results' = <<>> /\ held' = Nil
  /\ spent' = FALSE

\* Vault may hold namespaces and mounts of the plan, of any version, from before.
Init ==
  /\ \E skip \in Skips : skipNamespaces = skip[1] /\ skipMounts = skip[2]
  /\ budget \in Budgets
  /\ stage = IF ~skipNamespaces THEN "namespaces" ELSE IF skipMounts THEN "discovery" ELSE "mounts"
  /\ namespaces \in SUBSET Namespace /\ mounts \in [Mount -> 0..2]
  /\ \A m \in Mount : mounts[m] # 0 => NamespaceOf[m] \in namespaces
  /\ secrets = {} /\ misplaced = {} /\ dropped = {}
  /\ unsent = Items(stage) /\ jobs = {} /\ closed = FALSE
  /\ worker = [w \in Worker |-> Waiting] /\ results = <<>> /\ held = Nil /\ spent = FALSE
  /\ cancelled = FALSE /\ failures = 0 /\ created = 0 /\ version = PlanVersion
  /\ outcome = "none" /\ refused = 0

Cancel ==
  /\ Running /\ ~cancelled
  /\ cancelled' = TRUE
  /\ UNCHANGED <<vault, config, stage, pool, tally, version, dropped, outcome>>

-------------------------------------------------------------------------------
(* The producer and the workers. *)

InPool == stage # "discovery"

\* With room in the channel and the context done, the select takes either case.
Produce ==
  /\ InPool /\ ~closed /\ unsent # {} /\ Cardinality(jobs) < Width
  /\ jobs' = jobs \cup {First(unsent)} /\ unsent' = unsent \ {First(unsent)}
  /\ UNCHANGED <<vault, config, stage, closed, worker, results, held, spent, cancelled,
                 tally, version, dropped, outcome>>

\* Mutant: a producer that stops for the context leaves the channel open.
CloseJobsUnlessDone ==
  /\ InPool /\ ~closed /\ unsent = {} /\ ~StageDone
  /\ closed' = TRUE
  /\ UNCHANGED <<vault, config, stage, unsent, jobs, worker, results, held, spent,
                 cancelled, tally, version, dropped, outcome>>

CloseJobs ==
  /\ InPool /\ ~closed /\ (unsent = {} \/ StageDone)
  /\ closed' = TRUE
  /\ UNCHANGED <<vault, config, stage, unsent, jobs, worker, results, held, spent,
                 cancelled, tally, version, dropped, outcome>>

Becomes(w, state) == worker' = [worker EXCEPT ![w] = state]
Offer(w, err) == Becomes(w, [worker[w] EXCEPT !.at = "offer", !.err = err])

\* Mutant: a worker runs what is queued whatever the context says.
TakeDeaf(w) ==
  /\ InPool /\ worker[w].at = "idle" /\ jobs # {}
  /\ Becomes(w, [at |-> "run", item |-> First(jobs), err |-> "none"])
  /\ jobs' = jobs \ {First(jobs)}
  /\ UNCHANGED <<vault, config, stage, unsent, closed, results, held, spent, cancelled,
                 tally, version, dropped, outcome>>

\* A queued item is not run once the context is done.
Take(w) ==
  /\ InPool /\ worker[w].at = "idle" /\ jobs # {}
  /\ Becomes(w, [at   |-> IF StageDone THEN "offer" ELSE "run",
                 item |-> First(jobs),
                 err  |-> IF StageDone THEN "skip" ELSE "none"])
  /\ jobs' = jobs \ {First(jobs)}
  /\ UNCHANGED <<vault, config, stage, unsent, closed, results, held, spent, cancelled,
                 tally, version, dropped, outcome>>

\* Mutant: a worker leaves when it finds the channel empty.
LeaveWhenEmpty(w) ==
  /\ InPool /\ worker[w].at = "idle" /\ jobs = {}
  /\ Becomes(w, Gone)
  /\ UNCHANGED <<vault, config, stage, unsent, jobs, closed, results, held, spent, cancelled,
                 tally, version, dropped, outcome>>

Leave(w) ==
  /\ InPool /\ worker[w].at = "idle" /\ closed /\ jobs = {}
  /\ Becomes(w, Gone)
  /\ UNCHANGED <<vault, config, stage, unsent, jobs, closed, results, held, spent, cancelled,
                 tally, version, dropped, outcome>>

\* What Vault does with the write.  A namespace or mount has to be there, a mount cannot
\* be enabled twice, and a version 1 write does not reach a version 2 mount.
Apply(i) ==
  CASE stage = "namespaces" ->
         namespaces' = namespaces \cup {i} /\ UNCHANGED <<mounts, secrets, misplaced>>
    [] stage = "mounts" ->
         /\ NamespaceOf[i] \in namespaces /\ mounts[i] = 0
         /\ mounts' = [mounts EXCEPT ![i] = version[i]]
         /\ UNCHANGED <<namespaces, secrets, misplaced>>
    [] stage = "secrets" ->
         /\ mounts[MountOf[i]] \in 1..version[MountOf[i]]
         /\ IF mounts[MountOf[i]] = version[MountOf[i]]
            THEN secrets' = secrets \cup {i} /\ UNCHANGED misplaced
            ELSE misplaced' = misplaced \cup {i} /\ UNCHANGED secrets
         /\ UNCHANGED <<namespaces, mounts>>

\* Mutant: the error of the last attempt is lost.
WriteUnseen(w, err) ==
  /\ InPool /\ worker[w].at = "run"
  /\ err = "ctx" => StageDone
  /\ Apply(worker[w].item) \/ UNCHANGED vault
  /\ Offer(w, err)
  /\ refused' = IF err = "other" THEN refused + 1 ELSE refused
  /\ UNCHANGED <<config, stage, unsent, jobs, closed, results, held, spent, cancelled,
                 failures, created, version, dropped, outcome>>

\* executeWrite returns nil, the last error of its attempts, or the context's error.
\* In the last two cases Vault may or may not have carried out the write.
Write(w, err) ==
  /\ InPool /\ worker[w].at = "run"
  /\ err = "ctx" => StageDone
  /\ Apply(worker[w].item) \/ (err # "none" /\ UNCHANGED vault)
  /\ Offer(w, err)
  /\ refused' = IF err = "other" THEN refused + 1 ELSE refused
  /\ UNCHANGED <<config, stage, unsent, jobs, closed, results, held, spent, cancelled,
                 failures, created, version, dropped, outcome>>

Send(w) ==
  /\ InPool /\ worker[w].at = "offer" /\ Len(results) < Width
  /\ results' = Append(results, [item |-> worker[w].item, err |-> worker[w].err])
  /\ Becomes(w, Waiting)
  /\ UNCHANGED <<vault, config, stage, unsent, jobs, closed, held, spent, cancelled,
                 tally, version, dropped, outcome>>

-------------------------------------------------------------------------------
(* The collector. *)

Receive ==
  /\ Running /\ InPool /\ held = Nil /\ results # <<>>
  /\ held' = Head(results) /\ results' = Tail(results)
  /\ UNCHANGED <<vault, config, stage, unsent, jobs, closed, worker, spent, cancelled,
                 tally, version, dropped, outcome>>

\* Mutant: a job that was never run counts as failed.
CountSkipped ==
  /\ held # Nil
  /\ failures' = IF held.err # "none" THEN failures + 1 ELSE failures
  /\ created' = IF held.err = "none" THEN created + 1 ELSE created
  /\ spent' = (spent \/ (held.err # "none" /\ Exceeds(failures + 1)))

\* Mutant: the budget is checked before the failure is added to it.
CountLate ==
  /\ held # Nil
  /\ failures' = IF held.err = "other" THEN failures + 1 ELSE failures
  /\ created' = IF held.err = "none" THEN created + 1 ELSE created
  /\ spent' = (spent \/ (held.err = "other" /\ Exceeds(failures)))

\* errors.Is(err, stageCtx.Err()) holds of a skipped job and of one that was interrupted.
Count ==
  /\ held # Nil
  /\ failures' = IF held.err = "other" THEN failures + 1 ELSE failures
  /\ created' = IF held.err = "none" THEN created + 1 ELSE created
  /\ spent' = (spent \/ (held.err = "other" /\ Exceeds(failures + 1)))

\* Mutant: an item that failed is put back into the channel.
CollectAgain ==
  /\ Running /\ InPool /\ Count
  /\ held' = Nil
  /\ jobs' = IF held.err = "other" THEN jobs \cup {held.item} ELSE jobs
  /\ UNCHANGED <<vault, config, stage, unsent, closed, worker, results, cancelled,
                 refused, version, dropped, outcome>>

Collect ==
  /\ Running /\ InPool /\ Count
  /\ held' = Nil
  /\ UNCHANGED <<vault, config, stage, unsent, jobs, closed, worker, results, cancelled,
                 refused, version, dropped, outcome>>

\* Mutant: the collector returns as soon as the budget is used up.
DrainedOrSpent == held = Nil /\ \/ spent
                                \/ results = <<>> /\ \A w \in Worker : worker[w].at = "gone"

\* results is closed once every worker has left.
Drained == held = Nil /\ results = <<>> /\ \A w \in Worker : worker[w].at = "gone"

EndStage ==
  /\ Running /\ InPool /\ Drained
  /\ \/ /\ ~StageDone /\ stage # "secrets"
        /\ Enter(Succeeding(stage), Items(Succeeding(stage)))
        /\ UNCHANGED outcome
     \/ /\ StageDone \/ stage = "secrets"
        /\ outcome' = IF cancelled THEN "ctx" ELSE IF spent THEN "threshold" ELSE "nil"
        /\ UNCHANGED <<stage, pool>>
  /\ UNCHANGED <<vault, config, cancelled, tally, version, dropped>>

-------------------------------------------------------------------------------
(* With SkipMounts, the versions of the mounts are read, one namespace at a time. *)

Current == First(unsent)

\* Mutant: the plan keeps the versions it picked.
KeepVersions == version' = version

LearnVersions ==
  version' = [m \in Mount |-> IF NamespaceOf[m] = Current THEN mounts[m] ELSE version[m]]

\* KVVersions fails if one of the mounts is not in the listing.
KVVersions == Current \in namespaces /\ \A m \in MountsOf(Current) : mounts[m] # 0

\* Mutant: a mount that is not in the listing reads as version 0.
LearnAbsent ==
  /\ Running /\ stage = "discovery" /\ unsent # {} /\ Current \in namespaces
  /\ LearnVersions
  /\ unsent' = unsent \ {Current}
  /\ UNCHANGED <<vault, config, stage, jobs, closed, worker, results, held, spent, cancelled,
                 tally, dropped, outcome>>

Learn ==
  /\ Running /\ stage = "discovery" /\ unsent # {} /\ KVVersions
  /\ LearnVersions
  /\ unsent' = unsent \ {Current}
  /\ UNCHANGED <<vault, config, stage, jobs, closed, worker, results, held, spent, cancelled,
                 tally, dropped, outcome>>

\* A namespace that cannot be read costs a failure for each of its mounts.
LearnFails ==
  /\ Running /\ stage = "discovery" /\ unsent # {} /\ ~cancelled
  /\ failures' = failures + Cardinality(MountsOf(Current))
  /\ refused' = refused + Cardinality(MountsOf(Current))
  /\ dropped' = dropped \cup {Current}
  /\ unsent' = unsent \ {Current}
  /\ outcome' = IF Exceeds(failures') THEN "threshold" ELSE "none"
  /\ UNCHANGED <<vault, config, stage, jobs, closed, worker, results, held, spent, cancelled,
                 created, version>>

EndDiscovery ==
  /\ Running /\ stage = "discovery"
  /\ \/ /\ unsent = {}
        /\ Enter("secrets", Items("secrets"))
        /\ UNCHANGED outcome
     \/ /\ unsent # {} /\ cancelled
        /\ outcome' = "ctx"
        /\ UNCHANGED <<stage, pool>>
  /\ UNCHANGED <<vault, config, cancelled, tally, version, dropped>>

-------------------------------------------------------------------------------
WorkerStep(w) == Take(w) \/ Leave(w) \/ Send(w)
Writes(w) == \E err \in {"none", "other", "ctx"} : Write(w, err)
RunStep == Receive \/ Collect \/ EndStage \/ Learn \/ LearnFails \/ EndDiscovery

Next ==
  \/ Cancel \/ Produce \/ CloseJobs \/ RunStep
  \/ \E w \in Worker : WorkerStep(w) \/ Writes(w)

Spec == Init /\ [][Next]_vars

(* Goroutines that can run do, and every request to Vault ends. *)
Fairness == /\ WF_vars(RunStep) /\ WF_vars(Produce \/ CloseJobs)
            /\ \A w \in Worker : WF_vars(WorkerStep(w) \/ Writes(w))

FairSpec == Spec /\ Fairness

-------------------------------------------------------------------------------
(* Properties. *)

\* Every variable keeps its type, and the channels their capacity (make(chan T, workers)).
TypeOK ==
  /\ namespaces \subseteq Namespace /\ mounts \in [Mount -> 0..2]
  /\ secrets \subseteq Secret /\ misplaced \subseteq Secret
  /\ budget \in Budgets /\ {skipNamespaces, skipMounts} \subseteq BOOLEAN
  /\ stage \in {"namespaces", "mounts", "discovery", "secrets"}
  /\ unsent \subseteq Items(stage) /\ jobs \subseteq Items(stage) \ unsent
  /\ Cardinality(jobs) <= Width /\ Len(results) <= Width
  /\ worker \in [Worker -> [at : {"idle", "run", "offer", "gone"}, item : Nat,
                            err : {"none", "other", "ctx", "skip"}]]
  /\ results \in Seq([item : Nat, err : {"none", "other", "ctx", "skip"}])
  /\ held \in {Nil} \cup [item : Nat, err : {"none", "other", "ctx", "skip"}]
  /\ {closed, spent, cancelled} \subseteq BOOLEAN
  /\ {failures, created, refused} \subseteq Nat
  /\ version \in [Mount -> 1..2] /\ dropped \subseteq Namespace
  /\ outcome \in {"none", "nil", "threshold", "ctx"}

Limit == IF budget = 0 THEN 1 ELSE budget

\* Result.Failures counts the operations that failed and nothing else: when Run returns,
\* every one of them, although the last of them reach the collector after the budget is
\* used up and among results of jobs that never ran.
FailuresAreExact ==
  /\ failures <= refused
  /\ ~Running => failures = refused

\* Run reports the budget as used up only when MaxFailures failures were counted, and
\* returns nil only when they were not, whatever stages the failures came from.
BudgetIsKept ==
  /\ outcome = "threshold" => budget # -1 /\ failures >= Limit
  /\ outcome = "nil" => budget = -1 \/ failures < Limit

\* When Run returns nil every item of the plan was created or counted as failed; the
\* secrets of a namespace that could not be listed are left out, its mounts are counted.
EveryItemIsAnswered ==
  outcome = "nil" =>
    created + failures =
      (IF skipNamespaces THEN 0 ELSE NumNamespaces)
      + (IF skipMounts THEN Cardinality({m \in Mount : NamespaceOf[m] \in dropped})
                       ELSE Cardinality(Mount))
      + Cardinality(Items("secrets"))

\* With SkipMounts no secret is written in the layout of version 2 into a mount of version 1,
\* which Vault accepts and stores at data/ (the reason engine.go gives for the discovery).
NothingIsMisplaced == skipMounts => misplaced = {}

\* Once Run has returned, none of its goroutines writes to Vault.
NothingAfterReturn == [][~Running => UNCHANGED vault]_vars

\* Once the budget is used up or the caller gives up, a secret that no worker has taken yet
\* never reaches Vault, however long the workers take to drain the channel: the failures past
\* the budget are those of jobs that already ran.
QueuedNeverRuns ==
  \A x \in Secret :
    [](stage = "secrets" /\ StageDone /\ x \in unsent \cup jobs => [](x \notin secrets \cup misplaced))

\* The workers in some states.
With(states) == {w \in Worker : worker[w].at \in states}

\* The items of the stage without an answer, wherever they are between the goroutines, and
\* what Vault has accepted, for either layout.
Open == unsent \cup jobs \cup {worker[w].item : w \in With({"run", "offer"})}
        \cup {results[i].item : i \in DOMAIN results}
        \cup (IF held = Nil THEN {} ELSE {held.item})
Written == ({"namespaces"} \X namespaces) \cup ({"mounts"} \X {m \in Mount : mounts[m] # 0})
           \cup ({"secrets"} \X (secrets \cup misplaced))

Promise == INSTANCE SeedingPromise
  WITH open <- Open, written <- Written,
       Plan <- [namespaces |-> Namespace, mounts |-> Mount,
                discovery |-> {NamespaceOf[m] : m \in Mount}, secrets |-> Secret],
       Home <- [x \in Secret |-> NamespaceOf[MountOf[x]]],
       Cost <- [ns \in Namespace |-> Cardinality(MountsOf(ns))]

\* Producer, workers and collector add up to the abstract promise: no item is answered twice
\* or given up before the run is stopping, none is left when a stage is left for the next,
\* what is counted as created was accepted by Vault, and no answered item is written.
ImplementsPromise == Promise!Spec

\* What a run has ahead of it at most.  Of an item: to be produced, taken, written, sent,
\* received and counted; of a stage: that each worker leaves it, the producer and itself.
InStage ==
  6 * Cardinality(unsent) + 5 * Cardinality(jobs) + 4 * Cardinality(With({"run"}))
  + 3 * Cardinality(With({"offer"})) + 2 * Len(results) + Cardinality({held} \ {Nil})
  + Cardinality(With({"idle", "run", "offer"})) + (IF closed THEN 0 ELSE 1)
Whole(s) == 2 + Width + 6 * Cardinality(IF s = "secrets" THEN Secret ELSE Items(s))
Later == CASE stage = "namespaces" -> Whole(Succeeding(stage)) + Whole("secrets")
           [] stage = "secrets"    -> 0
           [] OTHER                -> Whole("secrets")
StepsLeft == InStage + Later + (IF cancelled THEN 0 ELSE 1) + (IF Running THEN 1 ELSE 0)

\* A run cannot go on for ever: every step of the producer, a worker, the collector or the
\* caller leaves fewer than there were, whatever fails and wherever the budget runs out.
RunIsBounded == [][StepsLeft' < StepsLeft]_vars

\* Run returns: no stage is left with its producer, a worker and the collector waiting for
\* each other, whichever of them stops first.
Terminates == <>(~Running)
===============================================================================
