---------------------------- MODULE DeletionEngine ----------------------------
(***************************************************************************)
(* The execute command: a dispatcher goroutine (Engine.Execute in          *)
(* internal/deletion/engine.go), a pool of worker goroutines joined to it  *)
(* by two unbuffered channels, the executor with its retry loop, the plan  *)
(* file that makes a run resumable, and around them Vault, the disk, the   *)
(* operator who interrupts and re-runs the command, and the owners of the  *)
(* secrets.                                                                *)
(*                                                                         *)
(* An action of the plan is a number, its position in the plan, and stands *)
(* for the one secret it names.  The operations of the two channels are    *)
(* rendezvous: Hand is `jobs <-` in the dispatcher together with the       *)
(* receive of the worker, Collect and Discard are `results <-` together    *)
(* with the receive of the dispatcher.                                     *)
(***************************************************************************)
EXTENDS Integers, FiniteSets, CircuitBreaker

CONSTANTS
  NumActions,      \* number of actions in the plan
  Category,        \* [1..NumActions -> Categories], decided by the plan command
  IncludeUnknown,  \* PlanConfig.include_unknown
  Worker,          \* the worker goroutines
  MaxFailures,     \* --circuit-breaker
  MaxAttempts,     \* retry.Config.MaxAttempts
  DryRuns,         \* the values --dry-run may have when the command is run
  Rewritable,      \* the actions whose secret its owner may write again
  Torn, Absent     \* a file that was cut off while written; no file

Action == 1..NumActions
Categories == {"stale", "unknown", "active", "excluded"}
Status == {"pending", "deleted", "failed"}
Plan == [Action -> Status]

ASSUME PlanAssumption ==
  /\ NumActions \in Nat
  /\ Category \in [Action -> Categories]
  /\ IncludeUnknown \in BOOLEAN
  /\ Rewritable \subseteq Action

\* defaultWorkers and normalize replace counts that are not positive.
ASSUME PoolAssumption ==
  /\ IsFiniteSet(Worker) /\ Worker # {}
  /\ MaxFailures \in Int
  /\ MaxAttempts \in Nat \ {0}
  /\ DryRuns \subseteq BOOLEAN
  /\ Torn \notin Plan /\ Absent \notin Plan

VARIABLES
  present,    \* the actions whose secret exists in Vault
  destroyed,  \* history: the actions for which Vault carried out a request of ours
  disk,       \* the plan file: a status for every action, or Torn
  tmp,        \* the file next to it: the same, or Absent
  mem,        \* the plan in the memory of the process
  pc,         \* where the dispatcher is
  dryRun,     \* --dry-run of the current run
  cancelled,  \* the context is done (SIGINT or SIGTERM)
  batch,      \* pendingActions, fixed at the start of the run
  todo,       \* pendingActions[next..]
  inFlight, stop, ctxErr, circuitErr,  \* locals of Execute (errors as # nil)
  breaker, progress,
  worker,     \* the state of each worker goroutine
  outcome     \* what the last run returned

external == <<present, destroyed>>
files == <<disk, tmp>>
locals == <<batch, todo, inFlight, stop, ctxErr, circuitErr, breaker, progress>>
vars == <<present, destroyed, disk, tmp, mem, pc, dryRun, cancelled, batch, todo,
          inFlight, stop, ctxErr, circuitErr, breaker, progress, worker, outcome>>

Errors == {"none", "ctx", "other"}
Idle == [at |-> "idle", action |-> 0, attempt |-> 0, err |-> "none"]
BusyState == [at : {"admit", "version", "try", "reply"}, action : Action,
              attempt : 0..MaxAttempts, err : Errors]
WorkerState == {Idle} \cup BusyState

-------------------------------------------------------------------------------
(* What the engine may delete, and what is left to do in a plan. *)

ShouldDelete(a) == \/ Category[a] = "stale"
                   \/ Category[a] = "unknown" /\ IncludeUnknown

Eligible == {a \in Action : ShouldDelete(a)}

\* Mutants: the category is not looked at; deleted actions are taken again; failed
\* ones are not retried.
PendingAny(plan) == {a \in Action : plan[a] # "deleted"}
PendingAlsoDeleted(plan) == {a \in Action : ShouldDelete(a)}
PendingOnly(plan) == {a \in Action : plan[a] = "pending" /\ ShouldDelete(a)}

Pending(plan) == {a \in Action : plan[a] # "deleted" /\ ShouldDelete(a)}

First(S) == CHOOSE a \in S : \A b \in S : a <= b

-------------------------------------------------------------------------------
(* The command is started, interrupted, killed and started again. *)

Init ==
  /\ present = Action /\ destroyed = {}
  /\ disk = [a \in Action |-> "pending"] /\ tmp = Absent
  /\ mem = disk
  /\ pc = "off" /\ outcome = "none"
  /\ dryRun = FALSE /\ cancelled = FALSE
  /\ batch = {} /\ todo = {} /\ inFlight = 0
  /\ stop = FALSE /\ ctxErr = FALSE /\ circuitErr = FALSE
  /\ breaker = NewCircuitBreaker
  /\ progress = [completed |-> 0, failed |-> 0]
  /\ worker = [w \in Worker |-> Idle]

\* The variables of Execute as it declares them; its workers wait for a job.
ResetLocals ==
  /\ cancelled' = FALSE
  /\ inFlight' = 0 /\ stop' = FALSE /\ ctxErr' = FALSE /\ circuitErr' = FALSE
  /\ breaker' = NewCircuitBreaker
  /\ progress' = [completed |-> 0, failed |-> 0]
  /\ worker' = [w \in Worker |-> Idle]

\* runExecute reads the plan file and calls Execute.  A torn file does not parse.
Start(dry) ==
  /\ pc = "off" /\ disk # Torn
  /\ mem' = disk
  /\ batch' = Pending(disk) /\ todo' = Pending(disk)
  /\ IF Pending(disk) = {}
     THEN pc' = "off" /\ outcome' = "nil"
     ELSE pc' = "dispatch" /\ outcome' = "none"
  /\ dryRun' = dry
  /\ ResetLocals
  /\ UNCHANGED <<external, files>>

Cancel ==
  /\ pc # "off" /\ ~cancelled
  /\ cancelled' = TRUE
  /\ UNCHANGED <<external, files, mem, pc, dryRun, locals, worker, outcome>>

\* The process dies.  Delete requests on their way may still reach Vault.
Crash ==
  /\ pc # "off"
  /\ \E late \in SUBSET {worker[w].action : w \in {v \in Worker : worker[v].at = "try"}} :
       /\ present' = present \ late
       /\ destroyed' = destroyed \cup late
  /\ pc' = "off" /\ outcome' = "crash"
  /\ mem' = [a \in Action |-> "pending"]
  /\ dryRun' = FALSE /\ batch' = {} /\ todo' = {}
  /\ ResetLocals
  /\ UNCHANGED files

\* The owner of a secret that is gone writes it again.
Rewrite(a) ==
  /\ a \in destroyed \ present
  /\ present' = present \cup {a}
  /\ UNCHANGED <<destroyed, files, mem, pc, dryRun, cancelled, locals, worker, outcome>>

-------------------------------------------------------------------------------
(* The dispatcher. *)

Becomes(w, state) == worker' = [worker EXCEPT ![w] = state]

\* Mutant: one job more than there are workers.
OverDispatch == ~stop /\ inFlight <= Cardinality(Worker) /\ todo # {}

CanDispatch == ~stop /\ inFlight < Cardinality(Worker) /\ todo # {}

Dispatch ==
  /\ pc = "dispatch" /\ CanDispatch
  /\ \/ /\ cancelled
        /\ ctxErr' = TRUE /\ stop' = TRUE
        /\ UNCHANGED <<pc, circuitErr>>
     \/ /\ ~cancelled /\ ~Allow(breaker)
        /\ circuitErr' = TRUE /\ stop' = TRUE
        /\ UNCHANGED <<pc, ctxErr>>
     \/ /\ ~cancelled /\ Allow(breaker)
        /\ pc' = "send"
        /\ UNCHANGED <<ctxErr, circuitErr, stop>>
  /\ UNCHANGED <<external, files, mem, dryRun, cancelled, batch, todo, inFlight,
                 breaker, progress, worker, outcome>>

Hand(w) ==
  /\ pc = "send" /\ worker[w].at = "idle"
  /\ Becomes(w, [Idle EXCEPT !.at = "admit", !.action = First(todo)])
  /\ todo' = todo \ {First(todo)}
  /\ inFlight' = inFlight + 1
  /\ pc' = "dispatch"
  /\ UNCHANGED <<external, files, mem, dryRun, cancelled, batch, stop, ctxErr,
                 circuitErr, breaker, progress, outcome>>

\* Mutant: a result that is not a refusal counts as a deletion.
NoteCtxAsDeleted(a, err) ==
  /\ progress' = [progress EXCEPT !.completed = @ + 1]
  /\ mem' = [mem EXCEPT ![a] = IF err = "other" THEN "failed" ELSE "deleted"]
  /\ UNCHANGED breaker
  /\ ctxErr' = (ctxErr \/ err = "ctx")
  /\ stop' = (stop \/ err = "ctx")
  /\ UNCHANGED circuitErr

\* engine.go:163-197, the bookkeeping of one result.
Note(a, err) ==
  /\ progress' = [completed |-> progress.completed + 1,
                  failed    |-> progress.failed + (IF err = "none" THEN 0 ELSE 1)]
  /\ mem' = IF err # "none" THEN [mem EXCEPT ![a] = "failed"]
            ELSE IF dryRun THEN mem ELSE [mem EXCEPT ![a] = "deleted"]
  /\ breaker' = CASE err = "ctx"   -> breaker
                  [] err = "other" -> RecordFailure(breaker, MaxFailures)
                  [] err = "none"  -> IF circuitErr THEN breaker ELSE RecordSuccess(breaker)
  /\ ctxErr' = (ctxErr \/ err = "ctx")
  /\ circuitErr' = (circuitErr \/ breaker'.open)
  /\ stop' = (stop \/ err = "ctx" \/ breaker'.open)

\* Mutant: the plan is saved once the queue is empty, not after each result.
CollectSaveLate(w) ==
  /\ pc = "dispatch" /\ ~CanDispatch /\ inFlight > 0
  /\ worker[w].at = "reply"
  /\ Note(worker[w].action, worker[w].err)
  /\ inFlight' = inFlight - 1
  /\ Becomes(w, Idle)
  /\ pc' = IF dryRun \/ todo # {} THEN "dispatch" ELSE "write"
  /\ UNCHANGED <<external, files, dryRun, cancelled, batch, todo, outcome>>

Collect(w) ==
  /\ pc = "dispatch" /\ ~CanDispatch /\ inFlight > 0
  /\ worker[w].at = "reply"
  /\ Note(worker[w].action, worker[w].err)
  /\ inFlight' = inFlight - 1
  /\ Becomes(w, Idle)
  /\ pc' = IF dryRun THEN "dispatch" ELSE "write"
  /\ UNCHANGED <<external, files, dryRun, cancelled, batch, todo, outcome>>

\* Mutant: the plan file itself is truncated and filled.
WriteInPlace ==
  /\ pc = "write"
  /\ disk' = Torn /\ pc' = "fill"
  /\ UNCHANGED <<external, tmp, mem, dryRun, cancelled, locals, worker, outcome>>

\* os.WriteFile truncates the temporary file, then fills it.
WriteTmp ==
  /\ pc = "write"
  /\ tmp' = Torn /\ pc' = "fill"
  /\ UNCHANGED <<external, disk, mem, dryRun, cancelled, locals, worker, outcome>>

FillTmp ==
  /\ pc = "fill"
  /\ tmp' = mem /\ pc' = "rename"
  /\ UNCHANGED <<external, disk, mem, dryRun, cancelled, locals, worker, outcome>>

RenameTmp ==
  /\ pc = "rename"
  /\ disk' = tmp /\ tmp' = Absent /\ pc' = "dispatch"
  /\ UNCHANGED <<external, mem, dryRun, cancelled, locals, worker, outcome>>

\* Any step of savePlan may fail; Execute then only drains the workers.
SaveFails ==
  /\ pc \in {"write", "fill", "rename"}
  /\ pc' = "drain"
  /\ UNCHANGED <<external, files, mem, dryRun, cancelled, locals, worker, outcome>>

\* Mutant: Execute waits for its workers without taking their results.
WaitWithoutDraining(w) ==
  /\ pc = "drain" /\ inFlight > 0
  /\ worker[w].at = "done"
  /\ Becomes(w, Idle)
  /\ inFlight' = inFlight - 1
  /\ UNCHANGED <<external, files, mem, pc, dryRun, cancelled, batch, todo, stop, ctxErr,
                 circuitErr, breaker, progress, outcome>>

Discard(w) ==
  /\ pc = "drain" /\ inFlight > 0
  /\ worker[w].at = "reply"
  /\ Becomes(w, Idle)
  /\ inFlight' = inFlight - 1
  /\ UNCHANGED <<external, files, mem, pc, dryRun, cancelled, batch, todo, stop, ctxErr,
                 circuitErr, breaker, progress, outcome>>

\* Mutant: Execute returns as soon as the queue is empty.
ReturnEarly ==
  /\ pc = "dispatch" /\ todo = {}
  /\ outcome' = "nil"
  /\ pc' = "off"
  /\ worker' = [w \in Worker |-> Idle]
  /\ UNCHANGED <<external, files, mem, dryRun, cancelled, locals>>

Return ==
  /\ inFlight = 0
  /\ \/ pc = "drain" /\ outcome' = "save"
     \/ /\ pc = "dispatch" /\ ~CanDispatch
        /\ outcome' = CASE ctxErr -> "ctx"
                        [] ~ctxErr /\ circuitErr -> "circuit"
                        [] OTHER -> "nil"
  /\ pc' = "off"
  /\ UNCHANGED <<external, files, mem, dryRun, cancelled, locals, worker>>

-------------------------------------------------------------------------------
(* A worker, from the job it received to the result it offers. *)

Reply(w, err) == Becomes(w, [worker[w] EXCEPT !.at = "reply", !.err = err])

\* Mutant: the attempts are not counted.
RetryUncounted(w) == Becomes(w, worker[w])

Retry(w) == Becomes(w, [worker[w] EXCEPT !.attempt = @ + 1])

\* Mutant: the executor does not look at dry-run.
AdmitDryRun(w) ==
  /\ worker[w].at = "admit"
  /\ IF cancelled THEN Reply(w, "ctx")
     ELSE Becomes(w, [worker[w] EXCEPT !.at = "version"])
  /\ UNCHANGED <<external, files, mem, pc, dryRun, cancelled, locals, outcome>>

\* ctx.Err() and rateLimiter.Wait, then the head of Executor.Delete.
Admit(w) ==
  /\ worker[w].at = "admit"
  /\ IF cancelled THEN Reply(w, "ctx")
     ELSE IF dryRun THEN Reply(w, "none")
     ELSE Becomes(w, [worker[w] EXCEPT !.at = "version"])
  /\ UNCHANGED <<external, files, mem, pc, dryRun, cancelled, locals, outcome>>

\* KVVersion is not retried.
Version(w) ==
  /\ worker[w].at = "version" /\ ~cancelled
  /\ Becomes(w, [worker[w] EXCEPT !.at = "try", !.attempt = 1])
  /\ UNCHANGED <<external, files, mem, pc, dryRun, cancelled, locals, outcome>>

VersionFails(w, err) ==
  /\ worker[w].at = "version"
  /\ cancelled => err = "ctx"
  /\ Reply(w, err)
  /\ UNCHANGED <<external, files, mem, pc, dryRun, cancelled, locals, outcome>>

Destroy(a) == /\ present' = present \ {a}
              /\ destroyed' = destroyed \cup {a}

\* Vault removes the secret and says so.  Removing an absent one succeeds too.
Delete(w) ==
  /\ worker[w].at = "try" /\ ~cancelled
  /\ Destroy(worker[w].action)
  /\ Reply(w, "none")
  /\ UNCHANGED <<files, mem, pc, dryRun, cancelled, locals, outcome>>

\* Mutant: one attempt too many.
AttemptFailsOneMore(w, kind) ==
  /\ worker[w].at = "try" /\ ~cancelled
  /\ UNCHANGED external
  /\ IF kind = "fatal" \/ worker[w].attempt > MaxAttempts
     THEN Reply(w, IF kind = "deadline" THEN "ctx" ELSE "other")
     ELSE Retry(w)
  /\ UNCHANGED <<files, mem, pc, dryRun, cancelled, locals, outcome>>

\* The attempt ends in an error, which says nothing of whether Vault has applied it:
\* the reply may be lost or late.  kind: "fatal" is not retried (retry.IsRetryable);
\* "transient" and "deadline" (the time limit of the one request) are, and the last
\* attempt's error is the one returned.
AttemptFails(w, kind) ==
  /\ worker[w].at = "try" /\ ~cancelled
  /\ Destroy(worker[w].action) \/ UNCHANGED external
  /\ IF kind = "fatal" \/ worker[w].attempt = MaxAttempts
     THEN Reply(w, IF kind = "deadline" THEN "ctx" ELSE "other")
     ELSE Retry(w)
  /\ UNCHANGED <<files, mem, pc, dryRun, cancelled, locals, outcome>>

\* The context ends before an attempt, during it or while the retry loop waits.
Interrupted(w) ==
  /\ worker[w].at = "try" /\ cancelled
  /\ Destroy(worker[w].action) \/ UNCHANGED external
  /\ Reply(w, "ctx")
  /\ UNCHANGED <<files, mem, pc, dryRun, cancelled, locals, outcome>>

-------------------------------------------------------------------------------
DispatcherStep ==
  \/ Dispatch \/ WriteTmp \/ FillTmp \/ RenameTmp \/ Return
  \/ \E w \in Worker : Hand(w) \/ Collect(w) \/ Discard(w)

WorkerStep(w) == Admit(w) \/ Version(w) \/ Delete(w) \/ Interrupted(w)

RequestFails(w) == \/ \E err \in {"ctx", "other"} : VersionFails(w, err)
                   \/ \E kind \in {"fatal", "transient", "deadline"} : AttemptFails(w, kind)

Fault == Cancel \/ Crash \/ SaveFails \/ \E w \in Worker : RequestFails(w)

Next ==
  \/ \E dry \in DryRuns : Start(dry)
  \/ DispatcherStep
  \/ \E w \in Worker : WorkerStep(w)
  \/ Fault
  \/ \E a \in Rewritable : Rewrite(a)

Spec == Init /\ [][Next]_vars

(* A goroutine that can run runs, and a request to Vault ends: the client   *)
(* gives it a time limit.  Nothing obliges the operator, the disk or the    *)
(* network to fail.                                                         *)
Fairness == /\ WF_vars(DispatcherStep \/ SaveFails)
            /\ \A w \in Worker : WF_vars(WorkerStep(w) \/ RequestFails(w))

FairSpec == Spec /\ Fairness

-------------------------------------------------------------------------------
(* Properties. *)

PlanFile == Plan \cup {Torn}

\* Every variable has its type.
TypeOK ==
  /\ present \subseteq Action /\ destroyed \subseteq Action
  /\ disk \in PlanFile /\ tmp \in PlanFile \cup {Absent} /\ mem \in Plan
  /\ pc \in {"off", "dispatch", "send", "write", "fill", "rename", "drain"}
  /\ {dryRun, cancelled, stop, ctxErr, circuitErr} \subseteq BOOLEAN
  /\ batch \subseteq Action /\ todo \subseteq batch /\ inFlight \in Nat
  /\ breaker \in [consecutive : Nat, open : BOOLEAN]
  /\ progress \in [completed : Nat, failed : Nat]
  /\ worker \in [Worker -> WorkerState]
  /\ outcome \in {"none", "nil", "ctx", "circuit", "save", "crash"}

\* The channels are unbuffered, so a send with no receiver left would stop the
\* dispatcher for ever: whenever it sends a job some worker is idle, and whenever
\* it waits for a result some worker is busy with a job (engine.go:137-160, 201-205).
Busy == {w \in Worker : worker[w].at # "idle"}
HandoffNeverStalls ==
  /\ pc = "send" => todo # {} /\ Busy # Worker
  /\ pc # "off" /\ inFlight > 0 => Busy # {}

\* Whatever crashes, failed saves and re-runs happened, the plan file calls an
\* action deleted only if Vault carried out a request of ours to delete its secret.
RecordedIsTrue == disk # Torn => \A a \in Action : disk[a] = "deleted" => a \in destroyed

\* Nothing is removed from Vault but the stale secrets and, when the plan says
\* so, the unknown ones (shouldDelete).
OnlyEligibleDestroyed == destroyed \subseteq Eligible

\* The secrets that are gone and that the plan file still calls pending, over any
\* number of crashes and re-runs, never outnumber the workers: each result is saved
\* before another job is handed out (engine.go:199-209).
CrashWindow ==
  disk # Torn =>
    Cardinality({a \in destroyed : disk[a] = "pending"}) <= Cardinality(Worker)

\* The plan file is at no time half written (savePlan).
PlanFileIntact == disk # Torn

\* No later run, whatever fails in it, takes a deletion back from the record.
DeletedStaysDeleted ==
  [][\A a \in Action : disk # Torn /\ disk[a] = "deleted" =>
       disk' # Torn /\ disk'[a] = "deleted"]_vars

\* What the breaker promises with a pool: after Threshold consecutive failures only
\* the jobs already in flight, at most one less than the workers, can add to them.
StreakBound ==
  breaker.consecutive <= Threshold(MaxFailures) + Cardinality(Worker) - 1

\* A run that ends by itself has recorded, in the file too, a result for every
\* action it handed out, and a run that returns nil handed out the whole batch.
ReportIsComplete ==
  outcome \in {"nil", "ctx", "circuit"} =>
    /\ progress.completed = Cardinality(batch \ todo)
    /\ outcome = "nil" => todo = {}
    /\ ~dryRun => /\ disk = mem
                  /\ \A a \in batch \ todo : disk[a] # "pending"
                  /\ progress.failed = Cardinality({a \in batch \ todo : disk[a] = "failed"})

\* A dry run removes nothing from Vault and writes no file.
DryRunTouchesNothing == [][dryRun => UNCHANGED <<destroyed, disk, tmp>>]_vars

\* How far a run is from its end: what is left to hand out, to do for each worker, to
\* save, and whether it has been stopped or interrupted.
Ahead(state) == CASE state.at = "idle"    -> 0
                  [] state.at = "reply"   -> 4
                  [] state.at = "try"     -> MaxAttempts + 5 - state.attempt
                  [] state.at = "version" -> MaxAttempts + 5
                  [] state.at = "admit"   -> MaxAttempts + 6
AllAhead == {x \in Worker \X (1..(MaxAttempts + 6)) : x[2] <= Ahead(worker[x[1]])}
Position == (CASE pc = "off" -> 0
               [] pc = "send" -> 1
               [] pc \in {"dispatch", "drain"} -> 2
               [] pc = "rename" -> 3
               [] pc = "fill" -> 4
               [] pc = "write" -> 5)
            + (IF stop THEN 0 ELSE 1) + (IF cancelled THEN 0 ELSE 1)
StepsLeft == IF pc = "off" THEN 0
             ELSE (MaxAttempts + 8) * Cardinality(todo) + Cardinality(AllAhead) + Position

\* A run cannot go on for ever, whatever fails, is retried or interrupted and however the
\* goroutines are scheduled: each of its steps brings it nearer to its end, and what the
\* owner of a removed secret does takes it no farther away.
RunIsBounded ==
  [][pc # "off" => \/ StepsLeft' < StepsLeft
                   \/ StepsLeft' = StepsLeft /\ \E a \in Rewritable : Rewrite(a)]_vars

\* Execute returns: no interleaving of failures, interruption and a failing
\* save leaves the dispatcher or a worker waiting for ever.
Terminates == pc # "off" ~> pc = "off"

\* "Re-run execute to retry failed items" (execute.go:168): once nothing fails any
\* more, an operator who keeps re-running the command gets every action deleted.
RerunSpec == FairSpec /\ SF_vars(Start(FALSE))
AllDeleted == disk # Torn /\ \A a \in Eligible : disk[a] = "deleted"
RerunsFinish == <>[][~Fault]_vars => <>[]AllDeleted

\* Over all its runs the command implements ResumableDeletion: the record kept by
\* that specification is the plan file.
Abstract == INSTANCE ResumableDeletion WITH record <- disk
ImplementsResumable == Abstract!Spec

\* REQUIREMENTS.md:224 "No duplicate deletions": a secret that the command has
\* removed and its owner has written again is not removed again.
NoDuplicateDeletions == [][\A a \in present \ present' : a \notin destroyed]_vars

\* REQUIREMENTS.md:211 "Continue processing on non-fatal errors": a run that nobody
\* interrupted hands out its whole batch unless the circuit breaker opens or the plan
\* cannot be saved; the time limit of one request does not end it.
TimeoutIsNotFatal == outcome = "ctx" /\ ~cancelled => todo = {}
===============================================================================
