# vault-secrets-cleanup in TLA+

The program finds secrets in HashiCorp Vault that nobody uses and deletes them.
Its commands work through files: `discover` writes an inventory, `analyze` (or
`import`) writes the access data, `plan` joins both into a deletion plan,
`execute` carries the plan out and records in the same file what is done,
`report` prints it. A separate script seeds a test Vault.

## Inventory

| Part | State it keeps | Operations | What makes it correct |
|---|---|---|---|
| Deletion engine (`internal/deletion/engine.go`) | plan in memory, queue, number in flight, stop flags, one goroutine per worker | start, dispatch, hand over, collect, save, drain, return | never blocks on its unbuffered channels; records only what happened; loses at most the jobs of the workers in a crash; ends; resumes |
| Plan file (`savePlan`) | file and temporary file | truncate, fill, rename | never half written; recorded deletions stay |
| Circuit breaker | consecutive failures, open | allow, success, failure | bounds a streak of failures, with the pool's jobs in flight |
| Executor, retry | attempt, last error | version lookup, attempts | deletes only what the plan allows, a dry run nothing |
| Discovery (`internal/discovery`) | two worker pools in turn, the folders each worker has yet to list, inventory, errors, counters | list namespaces, mounts, folders; hand over, collect | what it lists is or was there; what it misses is below a logged error; no job is lost; ends |
| Audit analysis, import (`internal/audit`, `internal/cli`) | map of records | read a line or record, merge, save, give up | a record tells the latest access, in whatever order the lines come |
| Correlation, planning | plan | match, threshold, exclusion, category | a secret seen in use within its period is neither stale nor unknown |
| Seeding engine (`internal/seeding`) | stage, producer, two channels, workers, failure budget | three stages and the listing of mounts, cancel | exact counts, budget kept, no goroutine left behind, right KV version, ends |
| Seeding allocator | none | `Allocate` | namespaces, mounts and secrets in order, a secret for every mount when there are enough |
| Vault client, rate limiter, reporting, configuration, logging, progress, protobuf code, seed script | none that matters here | | |

The parts interact through files between the commands, through channels inside
an engine, and through Vault, which other people use at the same time. The hard
behaviours are: the interleaving of dispatcher and workers with signals;
crashes between a deletion and its record; a request that failed for us and
succeeded in Vault; re-runs after any of it; listings that fail in the middle of
a walk; files made at different times, or cut short, from a Vault whose mounts
move; a plan executed long after it was made; and a failure budget shared by
workers and stages. `PROJECT.json` lists these at their lines, with the
properties that cover them and the reason where none does.

## Modules

`CircuitBreaker` has the methods of the breaker as operators on a record
(each holds the mutex for its whole body).

`DeletionEngine` is the `execute` command over all its runs. Variables carry
the names of the locals of `Engine.Execute` where there is one (`inFlight`,
`stop` for `stopDispatch`, `ctxErr`, `circuitErr`); `disk` and `tmp` are the two
files, `present` and `destroyed` are Vault, `pc` is the position of the
dispatcher. Each dispatcher step is the code between two points where another
goroutine can be noticed: `Dispatch` (one round of the inner loop up to the
send), `Hand` (the rendezvous on `jobs`), `Collect` (the rendezvous on
`results` and all the bookkeeping of the result, in `Note`), `WriteTmp`,
`FillTmp`, `RenameTmp`, `SaveFails`, `Discard`, `Return`. A worker goes
`Admit`, `Version`, then `Delete` or `AttemptFails` until its result is offered.
An attempt that fails may or may not have taken effect. `Start`, `Cancel`,
`Crash` and `Rewrite` are the operator, the system and the owners of secrets.

`ResumableDeletion` is the abstract specification: secrets disappear, and a
durable record follows one action at a time and is never ahead.
`DeletionEngine` implements it with `record <- disk`.

`Discovery` is the `discover` command. `ListNamespaces`, `EndNamespaces`,
`EndMounts`, `Hand` and `Collect` are the main goroutine, in its two pools;
`ListMounts`, `ListFolder`, `FinishWalk`, `Send` and `Leave` a worker. Both
pools have one shape (an unbuffered channel of jobs, a channel of results with
room for all of them, every job sent before a result is taken), so they share
these actions and `stage` says which one runs. `ListFolder` is one iteration of
the walk, in which the listing of a folder may fail and be logged. Secrets in
`Volatile` come and go between any two listings. Mounts are taken under the KV
version their options name; names are trimmed as the code trims them.

`InventoryPromise` is what discovery promises with no goroutine in sight: every
namespace, and then every mount found in them, gets one answer, which is final;
a stage ends when nothing is left open; the secrets of a mount enter with its
answer, and only such as Vault has held. `Discovery` implements it (`Promise`):
the open jobs are those neither in the inventory nor among the errors, wherever
they are between the goroutines.

`AccessRecords` has the pure part of analysis and import: path extraction,
normalisation, the two keys, and the merge. Paths are sequences of segments,
because properties depend on where a path is split.

`PlanPipeline` EXTENDS it and composes the commands as actions over the files
(`access`, `inventory`, `plan`), in any order, while users read and write
(`Use`) and administrators move mounts (`Move`). Its `Discover` gives any
inventory that `Discovery` allows: true items, with gaps. `Read` takes the
unread lines in any order, because files are read by name and lines of one file
may come from several listeners. `Save` replaces the access file, or leaves a
part of it or nothing that can be read (`Truncated`). Correlation iterates over
records in the random order of a Go map: `Outcomes` is the set of categories a
secret may get. `Delete` is one deletion of `execute`, at any later time: the
namespace and the path of the action lead to the mount that is there by then
(`Located`).

`SeedRun` is `seeding.Engine.Run` with `runStage`: `Produce` and `CloseJobs` are
the producer, `Take`, `Write`, `Send` and `Leave` a worker, `Receive` and
`Collect` the collector (two steps, since the context may end between them),
`EndStage` the change to the next stage, `Learn`, `LearnFails` and
`EndDiscovery` the reading of mount versions. Because the producer sends in plan
order, a channel of jobs is represented by the set of what is in it. Vault
(`Apply`) accepts a version 2 write on a version 1 mount, at another path.
`Allocate` says which plans `allocator.go` may draw, and is an assumption on the
constants.

`SeedingPromise` is what seeding promises with no goroutine in sight: in a stage
an item gets one answer at most, created, failed or, once the run is stopping,
given up uncounted; the next stage begins, and a run succeeds, only with none
left; what is counted as created was accepted by Vault, and what has its answer
is not written again. `SeedRun` implements it (`Promise`): the open items are
those unsent, in a channel, with a worker or in the collector's hand, and the
written ones are what Vault holds in either layout.

`MCDeletionEngine`, `MCDiscovery`, `MCPlanPipeline` and `MCSeedRun` give the
constants values; `MCPlanOrderly` adds the assumption `Orderly` (below) to those
of the planning run. `DeletionEngineProofs`, `DeletionReportProofs`,
`DiscoveryProofs`, `DiscoveryReportProofs`, `SeedRunProofs`, `SeedItemsProofs`,
`PlanPipelineProofs` and `PlanOutcomeProofs` hold the theorems. Operators marked "Mutant" are plausible
bugs: put in place of the definition below them, each makes a property fail, and
no specification uses them.

## Runs

| Run | Instance | What it shows |
|---|---|---|
| `deletion_safety` | 4 actions of three categories, 2 workers, threshold 2, 2 attempts, real and dry runs, 2 rewritable secrets, worker symmetry | all safety and step properties, the refinement of `ResumableDeletion`, and the bound on a run |
| `deletion_live` | 3 actions, 2 workers, threshold 1, 1 attempt, no symmetry | `Terminates`, `RerunsFinish`, `StreakBound` |
| `deletion_duplicate`, `deletion_timeout` | 2 or more actions | findings, below |
| `discovery_safety` | three namespaces of which one lies below another, a KV mount of each version and kind and one that is none, folders in folders, a secret and a folder of one name, padded names, a secret that comes and goes, 2 workers | the inventory is true, its gaps are logged, every job is answered, the counters agree, a result always finds room, `InventoryPromise` is implemented, a run is bounded, `Terminates` |
| `discovery_skipped` | as above | finding, below |
| `planning_safety` | a mount of version 1, and two of version 2 in another namespace of which the second takes the place that the third has left; exact and overlapping wildcard policies; both sources and strategies; truncated files and partial inventories; 2 lines, clock to 2, one plan and its deletions | categories agree with the lines; a deletion in the planned mount does not contradict them, and another mount is reached only after the planned one has left its place |
| `planning_moved`, `_import`, `_nested` | each drops one assumption of `Orderly` | findings, below |
| `seeding_safety` | 2 namespaces with a mount each, 3 secrets, 2 workers, budgets -1, 0, 2, both skip flags, any earlier mounts | counts, budget, versions, nothing after return, the bound on a run, and that the run implements `SeedingPromise` |
| `seeding_live` | 3 secrets, 2 workers, budgets 0 and 2, mounts skipped | `Terminates`, `QueuedNeverRuns` |

Why the bounds are enough. With more eligible actions than workers every worker
can be busy with the queue not empty, which is what the handover and the crash
window are about; two workers are the least with which results overtake each
other; threshold 2 tells a streak from a single failure; two attempts have a
last one and one before it. There is no bound on the number of runs, crashes or
rewrites. In discovery the pool of mounts has more jobs than workers, and a walk is
three folders deep, so that a folder can fail below one that did not. For
planning two lines are the least that can come out of order or share a key, and
a clock up to 2 with periods 0 and 1 has accesses before, at and after the
boundary; nobody uses the mount that leaves its place, which keeps the number of
lines small and still lets a deletion planned for it reach another mount in use.
In a stage with two workers and channels of two, three items let the
producer stop with an item unsent and both channels in use. The named bounds
are `MaxTime`, `MaxLog` and `MaxPlans` of `PlanPipeline`; nothing else is
capped. What a theorem states holds without any of these bounds.

Deadlock is checked for the deletion engine. The others stop by design: `Run` of
the seeding engine and `Discover` return (`Terminates` is the stronger
statement), and in `PlanPipeline` nobody has to give a command after the last
plan.

Fairness. Dispatcher, workers, producer, collector and main goroutine are
goroutines of one process: the Go scheduler runs what can run, so each has weak
fairness. A request ends, because the Vault client gives it a time limit:
success or failure is in the same fair action, so nothing says that it succeeds.
Crash, signal, rewriting, creating and removing secrets and starting a command
have no fairness. `RerunSpec` adds strong fairness of a real (not dry) start,
the operator who follows the advice the command prints, and `RerunsFinish` also
assumes that faults end. `PlanPipeline` has no liveness: every command is the
operator's choice.

## Findings

* `deletion_duplicate`: a lost reply or an unsaved record makes the next attempt
  or run delete again, also a secret written since. `docs/REQUIREMENTS.md:224`
  promises no duplicate deletions.
* `deletion_timeout`: one request over its time limit stops the whole run like a
  signal (`docs/REQUIREMENTS.md:211`).
* `planning_moved`: a mount moved between namespaces has two records per secret
  (the key holds the namespace) and accessor matching takes either, so a secret
  in use can be planned as stale (`docs/REQUIREMENTS.md:93`, `:108`).
* `planning_import`: records without accessor merge across namespaces, though
  `docs/examples/external-import.md:35` recommends them with path matching.
* `planning_nested`: a version 1 mount with two path segments is split wrongly
  (`docs/REQUIREMENTS.md:55`).
* `discovery_skipped`: when `sys/namespaces` cannot be listed the error is
  discarded (`namespace.go:20`), and namespaces below a listed one are never
  asked for; discovery succeeds without a word about either
  (`docs/REQUIREMENTS.md:18`, `:20`).

Seen while modelling and left without a run, since one assignment shows it:
analyze and import overwrite the access file where `docs/REQUIREMENTS.md:72`
promises a merge; and only the plan file is written atomically, which NFR-2.2.2
asks of files in general (the other files are modelled as they are written).

## Proofs

Every theorem holds for all values of the constants that satisfy the named
assumptions of its module: finite pools that are not empty, a finite plan, a
Vault, a configuration. The properties alone are not inductive; the third column
is what was missing.

| Theorem | States | Argument |
|---|---|---|
| **`DeletionEngineProofs`** | | |
| `TypeCorrect`, `FileIntact` | `TypeOK`, `PlanFileIntact` | `TypeInv` adds that the temporary file is whole when it is renamed and that the dispatcher sends only with something to send |
| `RecordSafe`, `OnlyEligible` | `RecordedIsTrue`, `OnlyEligibleDestroyed` | `OnlyBatch`: every job comes from the eligible actions. `Truthful`: a result without error outside a dry run, the memory and both files say deleted only of what Vault deleted |
| `HandoffSafe` | `HandoffNeverStalls` | `Counted`: `inFlight` is the number of busy workers; with the guard of `Dispatch` some worker is idle |
| `Refinement` | `ImplementsResumable` | `Exclusive` (an action has at most one worker and is then not in the queue) and `OneAhead` (memory and file differ in at most the action just collected): so the rename is one step of the abstract record |
| `RecordedForGood` | `DeletedStaysDeleted` | from the refinement's invariant: a batch holds no action the file calls deleted |
| `StreakBounded` | `StreakBound` | `StreakInv`: once the breaker is open, streak plus in flight stays below threshold plus workers |
| **`DeletionReportProofs`** | | |
| `CrashWindowHolds` | `CrashWindow` | `Window`: what is gone without a record lies in an initial segment, no longer than the pool, of what the file still calls pending. Jobs are handed out in the order of the plan and a re-run starts at the same place, so the windows of several crashes do not add up |
| `ReportComplete` | `ReportIsComplete` | `Tallied`: the counters agree with the actions handed out and no longer held |
| `DryRunHarmless` | `DryRunTouchesNothing` | `DryStays`: no worker of a dry run passes the dry-run test; `DryNeverSaves`: its dispatcher never reaches a save |
| `BoundedRun` | `RunIsBounded` | `StepsLeft` weighs what is still to hand out, what each worker has before it (retries included), and the position in a save. It is a natural number, and each step of a run lowers it; only the rewriting of a secret leaves it as it is |
| `RunGoesOn` | `NeverStuck`, `StaysReady` | from `Counted`: in every state of a run the dispatcher or a worker has a step to take, and keeps it until it takes one |
| **`DiscoveryProofs`** | | |
| `TypeCorrect` | `TypeOK` | and the jobs of workers and results belong to the pool that runs |
| `InventoryTrue` | `InventoryIsTrue` | `Truthful`: what a worker has found, what is in the channel and what is collected was in `ever`, below the folder where it was seen |
| `Complete` | `DiscoveryIsComplete` | `Covered`: a secret that stays is found, or below a folder still to list, or below a logged error, or in a job not yet answered |
| **`DiscoveryReportProofs`** | | |
| `JobsAnswered` | `EveryJobIsAnswered` | `Once`, `Somewhere`: a job of the running pool is in exactly one place, unsent, with a worker, in the channel or answered; `Handed`: the jobs of the second pool are what the first one found |
| `CountersExact` | `CountersAgree` | `CountInv`: the workers' counter is the number of secrets in the inventory, in the channel and in offers; what is counted twice would be of a mount that two hold, which `Once` excludes |
| `OffersFindRoom` | `OfferFindsRoom` | `Once`: results and offers are of different jobs, so with an offer open the channel holds fewer than all of them |
| `BoundedRun` | `RunIsBounded` | what is ahead is a tuple of finite sets of jobs, folders and workers, and every step of the run takes something out of one of them. `Frontier`: of the folders still to list none lies in another, so the folders that replace a listed one were ahead before, even those that the owners create during the walk |
| `RunGoesOn` | `NeverStuck` | from `OffersFindRoom` and `Ordered` (no worker leaves before the last job is sent) |
| `Refinement` | `ImplementsPromise` | `Once`: the job of a result has no answer yet; `Somewhere`: a drained pool has answered all; `Handed`: the second pool gets the mounts found; `Truthful`: what is found was held |
| **`SeedRunProofs`** | | |
| `TypeCorrect` | `TypeOK` | `Carried`, `Staged`: a worker and a result carry an item of the stage that runs |
| `QuietAfterReturn` | `NothingAfterReturn` | `Quiet`: no worker of a stage is left when the stage ends |
| `FailuresExact` | `FailuresAreExact` | `Tallied`: failures, results with an error in the channel, in hand and with workers sum up to the operations refused |
| `BudgetKept` | `BudgetIsKept` | `Bounded`, `Returned`: the budget flag follows the counter over all stages |
| `NoneMisplaced` | `NothingIsMisplaced` | `Learned`: with mounts skipped the version in the plan is the one Vault has when secrets are written |
| `QueueIsAbandoned` | `QueuedNeverRuns` | `Passed`: a secret no worker holds after the stage is done is never taken; a safety formula inside a box, proved from two invariants |
| **`SeedItemsProofs`** | | |
| `ItemsAnswered` | `EveryItemIsAnswered` | `Accounted`: created, failed and under way (unsent, in a channel, with a worker, in hand) sum up to the items of the stages so far, until a stage is cancelled |
| `BoundedRun` | `RunIsBounded` | `StepsLeft` counts for every item how far it is from being collected, for every stage its workers and producer, and the stages to come. It is a natural number, and every step lowers it |
| `RunGoesOn` | `NeverStuck` | from `TypeInv`: producer, workers and collector never all wait for each other |
| `Refinement` | `ImplementsPromise` | `Single`: an item without an answer is in one place only, so that collecting it closes it; `Made`: what a worker, the channel or the collector holds as created is in Vault; `Finished`, `Answers`: a stage left unstopped has answered all, and skips nothing |
| **`PlanPipelineProofs`** | | |
| `TypeCorrect` | `TypeOK` | `LineInv`: a line says where its mount was and what was meant |
| `LatestRecords` | `RecordsAreLatest` | `Origin`: a record is that of some line read, but for the time, so that the line whose time it has can be found among those with its key |
| **`PlanOutcomeProofs`** (under `Orderly`) | | |
| `StaleUnused`, `StaleSeen`, `UnknownUnseen` | `StaleIsUnused`, `StaleIsSeen`, `UnknownIsUnseen` | `Recovered`: of every path of a request, analysis and import recover the mount and the secret that were meant. `FileInv`: each record of the access file is that of an access to its secret, none of which came later; and of a whole file, every access has a record. `MatchIsOwn`: a match is the item's own, by its accessor or because no other mount can have been in its place (`Unshared`) |
| `DeletesAsPlanned` | `DestroyedAsPlanned` | `Apart`: no two mounts are in one place, so that a deletion that reaches another mount finds the planned one gone; `DestroyedInv`: what a deletion reaches is at the place of its item |

`Orderly` says when accessors and paths tell every secret from every other:
imports name the accessor; a mount stays in its namespace; no mount path has an
API segment (`data`, `metadata`, `subkeys`), and a version 1 mount has a path of
one segment and no API segment in its secrets. It is an assumption of these four
theorems only, and `MCPlanOrderly` has TLC check that the passing run satisfies
it. It is not more than the code needs: `planning_import`, `planning_moved` and
`planning_nested` drop one of the three and fail.

`Orderly` does not keep a mount from the place of another (sys/remount of the
one, then of the other). Three things follow, and the properties say so. By
accessor the plan is right all the same. Path-based matching takes the records of
both mounts for those of either, so `StaleIsUnused` and `StaleIsSeen` speak of
it only for secrets in a place no other mount can have (`Unshared`; and
`UnknownIsUnseen` only for mounts that never move, `Traceable`). And a deletion
goes to the path that was planned: if the planned mount has left it and another
has come, a secret of equal path in that other mount is destroyed, in use or not.
`DestroyedAsPlanned` says that this is the only way for a deletion to reach
another mount; the code does not rule it out, since nothing compares accessors
at execution (`executor.go:78-125`), and the instance of `planning_safety` has
such runs.

Every property of the passing runs is also proved, but for liveness
(`Terminates` in three modules, `RerunsFinish`), which is out of the prover's
reach together with ENABLED and is only model-checked. What `Terminates` rests
on is proved in safety formulas for each of the three engines: a run is bounded
(`BoundedRun`: no infinite sequence of its steps exists, whatever fails and
however the goroutines are interleaved), and in every state before its end a
goroutine has a step to take (`RunGoesOn`; its guards are written out by hand
where ENABLED would be used, leaving to choice only what the context and the
requests decide). So a run that does not end stops at a state where some
goroutine could always go on and never does, which weak fairness excludes. That
last inference is not checked by the prover. `RerunsFinish` spans any number of
runs and rests on strong fairness; nothing about it is proved.

Induction over data is out of reach, too, and so is what recursion computes for
every input; no module declares any.
`StringAssumption` of `PlanPipeline` states of two literals that they are
strings, which the provers do not know.

## Abstractions

* One secret per action of a plan, and an action per secret: `plan` lists each
  inventory entry once. The owner of a secret that still exists does not remove
  it; removing an absent secret succeeds, so it would change nothing here.
* A request takes effect within the attempt that made it or, when the process
  dies, at that moment; not after the next run started.
* Crashes are of the process: what was written stays. There is no fsync in
  `savePlan`, and a power failure is not modelled.
* One `execute` at a time, with a plan file (the command's option is not empty).
* Accessors are unique and stay with their mount, and no two mounts have one
  place at one time. A mount that is deleted and created anew is not modelled.
* The `mount_path` of an imported record begins with the namespace when the
  exporter is the documented one, and `normalizeMountPath` (`import.go:231-247`)
  takes it off again; `Normalize` does neither. They differ for an exporter that
  gives the path of the mount alone, and then only for a mount whose own path
  begins with that of its namespace.
* The access file does not keep whether it came from a log or from an export:
  the planner does not read it.
* Audit lines are well-formed responses with a time. A line that does not parse is
  skipped, as if the file did not hold it (`Open` takes any of the lines). Access types, counts and
  statistics are left out; the operation decides only whether there is a record.
  Operations like `patch` that the extractor ignores behave as `list` does.
* A truncated access file gives the records before the cut or is not read at
  all, so `UnknownIsUnseen` is stated of whole files only: nothing in the code
  tells the two apart. A truncated inventory is one with more gaps.
* Discovery lists folders and sends jobs in any order, where the code goes depth
  first; mounts stay where they are during one discovery; a pool starts no
  fewer workers than it is given, those without a job leave at once; the order
  of the inventory, its file and the rate limiter's delay are left out.
* Seeding: the dry run, the text of namespace paths and the two possible errors
  of a done context are left out.

## Not modelled

Reporting, configuration, logging and progress display (output or pure
conversion), generated code, token renewal (no command starts it), the flags of
the seed script, and the rate limiter (it delays, which every interleaving
includes, and fails when the context is done, which `Admit`, `ListMounts`,
`ListFolder` and `Write` include).

## Plan

Done: every part with state of its own, in the order of the table above, and
the composition of the commands through their files. Left, by what it would add:

1. Two `execute` processes on one plan file, as a composition smaller than
   `DeletionEngine`: they share the temporary file and overwrite each other's
   record.
2. Events whose time does not parse in `AccessRecords`: they give a record of
   the zero time.
