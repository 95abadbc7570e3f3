-------------------------- MODULE DeletionEngineProofs --------------------------
(* Theorems about DeletionEngine, for every plan, pool size and threshold. *)
EXTENDS DeletionEngine, FiniteSetTheorems, WellFoundedInduction, TLAPS

-------------------------------------------------------------------------------
(* Facts about the helpers. *)

\* The actions of a plan are finitely many.
LEMMA ActionFinite == ASSUME NEW S \in SUBSET Action
                      PROVE  S \subseteq Int /\ IsFiniteSet(S)
<1>1. 1 \in Int /\ NumActions \in Int
  BY PlanAssumption
<1>2. IsFiniteSet(Action)
  BY <1>1, FS_Interval DEF Action
<1>3. IsFiniteSet(S)
  BY <1>2, FS_Subset
<1> QED
  BY <1>3 DEF Action

\* The next job is one of those left (pendingActions[next] exists): the sets of
\* smaller members are finite and ordered by inclusion, so one of them is minimal.
LEMMA FirstInSet ==
  ASSUME NEW S \in SUBSET Action, S # {}
  PROVE  First(S) \in S /\ \A a \in S : First(S) <= a
<1> DEFINE below(a) == {b \in S : b < a}
           R == StrictSubsetOrdering(S)
           T == {below(a) : a \in S}
<1>1. S \subseteq Int /\ IsFiniteSet(S)
  BY ActionFinite
<1>2. T \subseteq FiniteSubsetsOf(S) /\ T # {}
  <2>1. \A a \in S : IsFiniteSet(below(a))
    <3> TAKE a \in S
    <3>1. below(a) \in SUBSET S
      OBVIOUS
    <3> QED
      BY <1>1, <3>1, FS_Subset
  <2> QED
    BY <2>1 DEF FiniteSubsetsOf
<1>3. PICK U \in T : \A V \in T : <<V, U>> \notin R
  <2>1. IsWellFoundedOn(R, FiniteSubsetsOf(S))
    BY FS_StrictSubsetOrderingWellFounded
  <2> HIDE DEF T, R
  <2> QED
    BY <1>2, <2>1, WFMin
<1>4. PICK m \in S : U = below(m)
  OBVIOUS
<1>5. \A b \in S : m <= b
  <2> SUFFICES ASSUME NEW b \in S, b < m PROVE FALSE
    BY <1>1
  <2>1. \A c \in S : c < b => c < m
    BY <1>1
  <2>2. ~(b < b)
    BY <1>1
  <2>3. below(b) \subseteq below(m) /\ b \in below(m) /\ b \notin below(b)
    BY <2>1, <2>2
  <2>4. <<below(b), U>> \in R
    BY <1>4, <2>3 DEF StrictSubsetOrdering
  <2> QED
    BY <1>3, <2>4
<1> QED
  BY <1>5 DEF First

\* The breaker's methods return a breaker.
LEMMA BreakerType ==
  ASSUME NEW cb \in [consecutive : Nat, open : BOOLEAN]
  PROVE  /\ NewCircuitBreaker \in [consecutive : Nat, open : BOOLEAN]
         /\ RecordSuccess(cb) \in [consecutive : Nat, open : BOOLEAN]
         /\ RecordFailure(cb, MaxFailures) \in [consecutive : Nat, open : BOOLEAN]
  BY PoolAssumption DEF NewCircuitBreaker, RecordSuccess, RecordFailure, Threshold

\* The ways in which the state of a busy worker changes keep its type.
LEMMA BusyType ==
  ASSUME NEW s \in BusyState
  PROVE  /\ [s EXCEPT !.at = "version"] \in BusyState
         /\ [s EXCEPT !.at = "try", !.attempt = 1] \in BusyState
         /\ \A err \in Errors : [s EXCEPT !.at = "reply", !.err = err] \in BusyState
         /\ s.attempt # MaxAttempts => [s EXCEPT !.attempt = @ + 1] \in BusyState
<1>1. 1 \in 0..MaxAttempts
  BY PoolAssumption
<1>2. \A n \in 0..MaxAttempts : n # MaxAttempts => n + 1 \in 0..MaxAttempts
  BY PoolAssumption
<1>3. s.attempt \in 0..MaxAttempts
  BY DEF BusyState
<1> QED
  BY <1>1, <1>2, <1>3 DEF BusyState

\* A worker that receives a job is busy with it.
LEMMA HandType ==
  ASSUME NEW a \in Action
  PROVE  [Idle EXCEPT !.at = "admit", !.action = a] \in BusyState
<1>1. 0 \in 0..MaxAttempts
  BY PoolAssumption
<1> QED
  BY <1>1 DEF Idle, BusyState, Errors

\* A worker is idle or in a busy state.
LEMMA IdleOrBusy ==
  ASSUME NEW s \in WorkerState
  PROVE  /\ s.at = "idle" <=> s = Idle
         /\ s.at # "idle" <=> s \in BusyState
  BY DEF WorkerState, Idle, BusyState

\* What a step of a worker can change: its own state, in which it stays busy with
\* the same action, and Vault, where it can only remove that action's secret.  It
\* reports success of a real run only once Vault has carried out the request.
StaysBusy(w, s) ==
  /\ worker' = [worker EXCEPT ![w] = s]
  /\ s \in BusyState /\ s.action = worker[w].action
  /\ s.at = "reply" /\ s.err = "none" /\ ~dryRun => worker[w].action \in destroyed'

OnlyVault(w) ==
  /\ UNCHANGED <<disk, tmp, mem, pc, dryRun, cancelled, batch, todo, inFlight, stop,
                 ctxErr, circuitErr, breaker, progress, outcome>>
  /\ present' \subseteq present /\ destroyed \subseteq destroyed'
  /\ destroyed' \subseteq destroyed \cup {worker[w].action}

LEMMA WorkerFrame ==
  ASSUME worker \in [Worker -> WorkerState], NEW w \in Worker,
         WorkerStep(w) \/ RequestFails(w)
  PROVE  /\ OnlyVault(w) /\ worker[w] \in BusyState
         /\ \E s \in BusyState : StaysBusy(w, s)
<1> DEFINE s0 == worker[w]
           replied(err) == [s0 EXCEPT !.at = "reply", !.err = err]
<1>1. s0 \in BusyState
  <2>1. s0.at \in {"admit", "version", "try"}
    BY DEF WorkerStep, RequestFails, Admit, Version, Delete, Interrupted, VersionFails,
           AttemptFails
  <2> QED
    BY <2>1, IdleOrBusy
<1>2. OnlyVault(w)
  BY DEF OnlyVault, WorkerStep, RequestFails, Admit, Version, Delete, Interrupted,
         VersionFails, AttemptFails, Destroy, external, files, locals, ResetLocals
<1>3. ASSUME NEW err \in {"ctx", "other"}, Reply(w, err)
      PROVE  StaysBusy(w, replied(err))
  <2>1. replied(err) \in BusyState
    BY <1>1, BusyType DEF Errors
  <2>2. replied(err).action = s0.action /\ replied(err).err = err
    BY <1>1 DEF BusyState
  <2> QED
    BY <1>3, <2>1, <2>2 DEF Reply, Becomes, StaysBusy
<1>4. ASSUME Reply(w, "none"), dryRun \/ s0.action \in destroyed'
      PROVE  StaysBusy(w, replied("none"))
  <2>1. replied("none") \in BusyState
    BY <1>1, BusyType DEF Errors
  <2>2. replied("none").action = s0.action
    BY <1>1 DEF BusyState
  <2> QED
    BY <1>4, <2>1, <2>2 DEF Reply, Becomes, StaysBusy
<1>5. ASSUME Becomes(w, [s0 EXCEPT !.at = "version"])
      PROVE  StaysBusy(w, [s0 EXCEPT !.at = "version"])
  <2>1. [s0 EXCEPT !.at = "version"] \in BusyState
    BY <1>1, BusyType
  <2>2. [s0 EXCEPT !.at = "version"].action = s0.action /\ [s0 EXCEPT !.at = "version"].at # "reply"
    BY <1>1 DEF BusyState
  <2> QED
    BY <1>5, <2>1, <2>2 DEF Becomes, StaysBusy
<1>6. ASSUME Becomes(w, [s0 EXCEPT !.at = "try", !.attempt = 1])
      PROVE  StaysBusy(w, [s0 EXCEPT !.at = "try", !.attempt = 1])
  <2> DEFINE s == [s0 EXCEPT !.at = "try", !.attempt = 1]
  <2>1. s \in BusyState
    BY <1>1, BusyType
  <2>2. s.action = s0.action /\ s.at # "reply"
    BY <1>1 DEF BusyState
  <2> QED
    BY <1>6, <2>1, <2>2 DEF Becomes, StaysBusy
<1>7. ASSUME Retry(w), s0.at = "try", s0.attempt # MaxAttempts
      PROVE  StaysBusy(w, [s0 EXCEPT !.attempt = @ + 1])
  <2> DEFINE s == [s0 EXCEPT !.attempt = @ + 1]
  <2>1. s \in BusyState
    BY <1>1, <1>7, BusyType
  <2>2. s.action = s0.action /\ s.at # "reply"
    BY <1>1, <1>7 DEF BusyState
  <2> QED
    BY <1>7, <2>1, <2>2 DEF Retry, Becomes, StaysBusy
<1>8. \/ \E err \in {"ctx", "other"} : Reply(w, err)
      \/ Reply(w, "none") /\ (dryRun \/ s0.action \in destroyed')
      \/ Becomes(w, [s0 EXCEPT !.at = "version"])
      \/ Becomes(w, [s0 EXCEPT !.at = "try", !.attempt = 1])
      \/ Retry(w) /\ s0.at = "try" /\ s0.attempt # MaxAttempts
  <2>1. CASE Admit(w)
    BY <2>1 DEF Admit
  <2>2. CASE Version(w)
    BY <2>2 DEF Version
  <2>3. CASE Delete(w)
    BY <2>3 DEF Delete, Destroy
  <2>4. CASE Interrupted(w)
    BY <2>4 DEF Interrupted
  <2>5. CASE RequestFails(w)
    BY <2>5 DEF RequestFails, VersionFails, AttemptFails
  <2> QED
    BY <2>1, <2>2, <2>3, <2>4, <2>5 DEF WorkerStep
<1> QED
  BY <1>1, <1>2, <1>3, <1>4, <1>5, <1>6, <1>7, <1>8 DEF StaysBusy

-------------------------------------------------------------------------------
(* Type correctness.  The rename reads the temporary file, so that the plan file *)
(* keeps its type needs to know what the write has left in it.                   *)

\* What savePlan renames is the plan in memory, and the plan file is whole.
SavedWhole == /\ disk # Torn
              /\ pc = "rename" => tmp = mem

\* The job the dispatcher is about to send exists.
SendsSomething == pc = "send" => todo # {}

TypeInv == TypeOK /\ SavedWhole /\ SendsSomething

LEMMA InitType == Init => TypeInv
<1> SUFFICES ASSUME Init PROVE TypeInv
  OBVIOUS
<1>1. [a \in Action |-> "pending"] \in Plan
  BY DEF Plan, Status
<1>2. Idle \in WorkerState
  BY DEF WorkerState
<1>3. SavedWhole /\ SendsSomething
  BY <1>1, PoolAssumption DEF Init, SavedWhole, SendsSomething
<1>4. breaker \in [consecutive : Nat, open : BOOLEAN]
  BY DEF Init, NewCircuitBreaker
<1> QED
  BY <1>1, <1>2, <1>3, <1>4 DEF Init, TypeInv, TypeOK, PlanFile

\* Results, replies and idle workers keep the pool in its type.
LEMMA NextType == TypeInv /\ [Next]_vars => TypeInv'
<1> SUFFICES ASSUME TypeInv, [Next]_vars PROVE TypeInv'
  OBVIOUS
<1> USE PlanAssumption, PoolAssumption
    DEF TypeInv, TypeOK, SavedWhole, SendsSomething, PlanFile, external, files, locals, ResetLocals
<1> Idle \in WorkerState
  BY DEF WorkerState
<1>1. ASSUME NEW dry \in DryRuns, Start(dry) PROVE TypeInv'
  BY <1>1, BreakerType DEF Start, Pending
<1>2. CASE Cancel
  BY <1>2 DEF Cancel
<1>3. CASE Crash
  <2>1. \A w \in Worker : worker[w].at = "try" => worker[w].action \in Action
    BY IdleOrBusy DEF BusyState
  <2>2. destroyed' \subseteq Action /\ present' \subseteq Action
    BY <1>3, <2>1 DEF Crash
  <2>3. mem' \in Plan
    BY <1>3 DEF Crash, Plan, Status
  <2> QED
    BY <1>3, <2>2, <2>3, BreakerType DEF Crash
<1>4. ASSUME NEW a \in Rewritable, Rewrite(a) PROVE TypeInv'
  BY <1>4 DEF Rewrite
<1>5. CASE Dispatch
  BY <1>5 DEF Dispatch, CanDispatch
<1>6. ASSUME NEW w \in Worker, Hand(w) PROVE TypeInv'
  <2>1. todo # {} /\ todo \in SUBSET Action
    BY <1>6 DEF Hand
  <2>2. First(todo) \in Action
    BY <2>1, FirstInSet
  <2>3. [Idle EXCEPT !.at = "admit", !.action = First(todo)] \in WorkerState
    BY <2>2, HandType DEF WorkerState
  <2>4. worker' \in [Worker -> WorkerState]
    BY <1>6, <2>3 DEF Hand, Becomes
  <2> QED
    BY <1>6, <2>4 DEF Hand
<1>7. ASSUME NEW w \in Worker, Collect(w) PROVE TypeInv'
  <2> DEFINE a == worker[w].action
             err == worker[w].err
  <2>0. err \in {"none", "ctx", "other"}
    BY <1>7, IdleOrBusy DEF Collect, BusyState, Errors
  <2>1. Note(a, err) /\ UNCHANGED <<external, files, dryRun, cancelled, batch, todo, outcome>>
    BY <1>7 DEF Collect
  <2>2. breaker' \in [consecutive : Nat, open : BOOLEAN]
    BY <2>0, <2>1, BreakerType DEF Note
  <2>3. progress' \in [completed : Nat, failed : Nat]
    BY <2>1 DEF Note
  <2>4. mem' \in Plan
    BY <2>1 DEF Note, Plan, Status
  <2>5. {ctxErr', circuitErr', stop'} \subseteq BOOLEAN
    BY <2>1, <2>2 DEF Note
  <2>6. worker' \in [Worker -> WorkerState]
    BY <1>7 DEF Collect, Becomes
  <2> QED
    BY <1>7, <2>1, <2>2, <2>3, <2>4, <2>5, <2>6 DEF Collect
<1>8. CASE WriteTmp
  BY <1>8 DEF WriteTmp
<1>9. CASE FillTmp
  BY <1>9 DEF FillTmp
<1>10. CASE RenameTmp
  BY <1>10 DEF RenameTmp
<1>11. CASE SaveFails
  BY <1>11 DEF SaveFails
<1>12. ASSUME NEW w \in Worker, Discard(w) PROVE TypeInv'
  <2>1. worker' \in [Worker -> WorkerState]
    BY <1>12 DEF Discard, Becomes
  <2> QED
    BY <1>12, <2>1 DEF Discard
<1>13. CASE Return
  BY <1>13 DEF Return
<1>14. ASSUME NEW w \in Worker, WorkerStep(w) \/ RequestFails(w) PROVE TypeInv'
  <2>1. OnlyVault(w) /\ worker[w] \in BusyState
    BY <1>14, WorkerFrame
  <2>2. PICK s \in BusyState : StaysBusy(w, s)
    BY <1>14, WorkerFrame
  <2>3. worker' \in [Worker -> WorkerState]
    BY <2>2 DEF StaysBusy, WorkerState
  <2>4. destroyed' \subseteq Action
    BY <2>1 DEF OnlyVault, BusyState
  <2> QED
    BY <2>1, <2>3, <2>4 DEF OnlyVault
<1>15. CASE UNCHANGED vars
  BY <1>15 DEF vars
<1> QED
  BY <1>1, <1>2, <1>3, <1>4, <1>5, <1>6, <1>7, <1>8, <1>9, <1>10, <1>11, <1>12, <1>13,
     <1>14, <1>15 DEF Next, DispatcherStep, Fault

\* Every reachable state is well typed.
THEOREM TypeCorrect == Spec => []TypeOK
<1>1. TypeInv => TypeOK
  BY DEF TypeInv
<1> QED
  BY <1>1, InitType, NextType, PTL DEF Spec

\* Whatever step of savePlan fails or is cut short by a crash, the plan file is never torn.
THEOREM FileIntact == Spec => []PlanFileIntact
<1>1. TypeInv => PlanFileIntact
  BY DEF TypeInv, SavedWhole, PlanFileIntact
<1> QED
  BY <1>1, InitType, NextType, PTL DEF Spec

-------------------------------------------------------------------------------
(* What the record says, and what may be deleted. *)

\* A worker holds an action of the batch, the batch is eligible, and so is all
\* that was ever removed.
OnlyBatch ==
  /\ batch \subseteq Eligible /\ destroyed \subseteq Eligible
  /\ \A w \in Worker : worker[w].at # "idle" => worker[w].action \in batch

\* "deleted" is true in the memory of the process, in the plan file, and of a
\* worker that offers a success.
Truthful ==
  /\ \A a \in Action : mem[a] = "deleted" => a \in destroyed
  /\ \A a \in Action : disk[a] = "deleted" => a \in destroyed
  /\ \A w \in Worker :
       worker[w].at = "reply" /\ worker[w].err = "none" /\ ~dryRun =>
         worker[w].action \in destroyed

\* The steps of the dispatcher and of the environment that touch neither the pool, nor
\* the plan in memory, nor Vault's secrets named by it.
Quiet == UNCHANGED <<destroyed, mem, dryRun, batch, worker>>

LEMMA OnlyBatchStep == TypeInv /\ OnlyBatch /\ [Next]_vars => OnlyBatch'
<1> SUFFICES ASSUME TypeInv, OnlyBatch, [Next]_vars PROVE OnlyBatch'
  OBVIOUS
<1> worker \in [Worker -> WorkerState]
  BY DEF TypeInv, TypeOK
<1> USE DEF OnlyBatch, external, files, locals, ResetLocals
<1>1. ASSUME NEW dry \in DryRuns, Start(dry) PROVE OnlyBatch'
  BY <1>1 DEF Start, Pending, Eligible, Idle
<1>2. CASE Crash
  BY <1>2 DEF Crash, Idle
<1>3. ASSUME Quiet PROVE OnlyBatch'
  BY <1>3 DEF Quiet
<1>4. ASSUME NEW w \in Worker, Hand(w) PROVE OnlyBatch'
  <2>1. First(todo) \in batch
    <3>1. todo # {} /\ todo \in SUBSET Action /\ todo \subseteq batch
      BY <1>4 DEF Hand, TypeInv, TypeOK, SendsSomething
    <3> QED
      BY <3>1, FirstInSet
  <2>2. [Idle EXCEPT !.at = "admit", !.action = First(todo)].action = First(todo)
    BY DEF Idle
  <2> QED
    BY <1>4, <2>1, <2>2 DEF Hand, Becomes
<1>5. ASSUME NEW w \in Worker, Collect(w) \/ Discard(w) PROVE OnlyBatch'
  <2>1. worker' = [worker EXCEPT ![w] = Idle] /\ UNCHANGED <<batch, destroyed>>
    BY <1>5 DEF Collect, Discard, Becomes
  <2> QED
    BY <2>1 DEF Idle
<1>6. ASSUME NEW w \in Worker, WorkerStep(w) \/ RequestFails(w) PROVE OnlyBatch'
  <2>1. OnlyVault(w) /\ worker[w] \in BusyState
    BY <1>6, WorkerFrame
  <2>2. PICK s \in BusyState : StaysBusy(w, s)
    BY <1>6, WorkerFrame
  <2>3. worker[w].action \in batch
    BY <2>1 DEF BusyState
  <2> QED
    BY <2>1, <2>2, <2>3 DEF OnlyVault, StaysBusy
<1>7. \/ \E dry \in DryRuns : Start(dry)
      \/ Crash \/ Quiet
      \/ \E w \in Worker : Hand(w) \/ Collect(w) \/ Discard(w)
      \/ \E w \in Worker : WorkerStep(w) \/ RequestFails(w)
  BY DEF Next, DispatcherStep, Fault, Quiet, Rewrite, Cancel, Dispatch, WriteTmp, FillTmp,
         RenameTmp, SaveFails, Return, vars
<1> QED
  BY <1>1, <1>2, <1>3, <1>4, <1>5, <1>6, <1>7

LEMMA TruthfulStep == TypeInv /\ Truthful /\ [Next]_vars => Truthful'
<1> SUFFICES ASSUME TypeInv, Truthful, [Next]_vars PROVE Truthful'
  OBVIOUS
<1> worker \in [Worker -> WorkerState] /\ disk \in Plan /\ mem \in Plan
  BY DEF TypeInv, TypeOK, SavedWhole, PlanFile
<1> USE DEF Truthful, external, files, locals, ResetLocals
<1>1. ASSUME NEW dry \in DryRuns, Start(dry) PROVE Truthful'
  BY <1>1 DEF Start, Idle
<1>2. CASE Crash
  BY <1>2 DEF Crash, Idle
<1>3. ASSUME Quiet, disk' = disk \/ disk' = mem PROVE Truthful'
  BY <1>3 DEF Quiet
<1>4. ASSUME NEW w \in Worker, Hand(w) PROVE Truthful'
  <2>1. [Idle EXCEPT !.at = "admit", !.action = First(todo)].at # "reply"
    BY DEF Idle
  <2> QED
    BY <1>4, <2>1 DEF Hand, Becomes
<1>5. ASSUME NEW w \in Worker, Collect(w) PROVE Truthful'
  <2> DEFINE a == worker[w].action
  <2>1. worker' = [worker EXCEPT ![w] = Idle] /\ UNCHANGED <<destroyed, disk, dryRun>>
    BY <1>5 DEF Collect, Becomes
  <2>2. \/ mem' = mem
        \/ mem' = [mem EXCEPT ![a] = "failed"]
        \/ mem' = [mem EXCEPT ![a] = "deleted"] /\ a \in destroyed
    BY <1>5 DEF Collect, Note
  <2>3. \A b \in Action : mem'[b] = "deleted" => b \in destroyed'
    BY <2>1, <2>2 DEF Plan
  <2> QED
    BY <2>1, <2>3 DEF Idle
<1>6. ASSUME NEW w \in Worker, Discard(w) PROVE Truthful'
  BY <1>6 DEF Discard, Becomes, Idle
<1>7. ASSUME NEW w \in Worker, WorkerStep(w) \/ RequestFails(w) PROVE Truthful'
  <2>1. OnlyVault(w)
    BY <1>7, WorkerFrame
  <2>2. PICK s \in BusyState : StaysBusy(w, s)
    BY <1>7, WorkerFrame
  <2> QED
    BY <2>1, <2>2 DEF OnlyVault, StaysBusy
<1>8. \/ \E dry \in DryRuns : Start(dry)
      \/ Crash
      \/ Quiet /\ (disk' = disk \/ disk' = mem)
      \/ \E w \in Worker : Hand(w) \/ Collect(w) \/ Discard(w)
      \/ \E w \in Worker : WorkerStep(w) \/ RequestFails(w)
  BY DEF TypeInv, SavedWhole, Next, DispatcherStep, Fault, Quiet, Rewrite, Cancel, Dispatch,
         WriteTmp, FillTmp, RenameTmp, SaveFails, Return, vars
<1> QED
  BY <1>1, <1>2, <1>3, <1>4, <1>5, <1>6, <1>7, <1>8

LEMMA RecordTrue == Spec => [](OnlyBatch /\ Truthful)
<1>1. Init => OnlyBatch /\ Truthful
  BY DEF Init, OnlyBatch, Truthful, Idle
<1> QED
  BY <1>1, InitType, NextType, OnlyBatchStep, TruthfulStep, PTL DEF Spec

\* A record of a deletion is true, over any number of runs, crashes, interruptions and
\* failed saves.
THEOREM RecordSafe == Spec => []RecordedIsTrue
<1>1. Truthful => RecordedIsTrue
  BY DEF Truthful, RecordedIsTrue
<1> QED
  BY <1>1, RecordTrue, PTL

\* Only secrets of the categories asked for are ever removed.
THEOREM OnlyEligible == Spec => []OnlyEligibleDestroyed
<1>1. OnlyBatch => OnlyEligibleDestroyed
  BY DEF OnlyBatch, OnlyEligibleDestroyed
<1> QED
  BY <1>1, RecordTrue, PTL

-------------------------------------------------------------------------------
(* The channels. *)

\* inFlight counts the busy workers, and a job is only sent when one is idle.
Counted ==
  /\ inFlight = Cardinality(Busy)
  /\ pc = "off" => inFlight = 0
  /\ pc = "send" => inFlight < Cardinality(Worker)

\* How the set of busy workers changes when one of them does.
LEMMA BusyChange ==
  ASSUME worker \in [Worker -> WorkerState], NEW w \in Worker
  PROVE  /\ \A s \in BusyState :
              worker' = [worker EXCEPT ![w] = s] => Busy' = Busy \cup {w}
         /\ worker' = [worker EXCEPT ![w] = Idle] => Busy' = Busy \ {w}
         /\ worker[w] \in BusyState => w \in Busy
         /\ worker[w].at = "idle" => w \notin Busy
<1>1. \A s \in BusyState : s.at # "idle"
  BY DEF BusyState
<1> QED
  BY <1>1 DEF Busy, Idle

LEMMA BusyFinite == IsFiniteSet(Busy) /\ Cardinality(Busy) \in Nat
<1>1. Busy \in SUBSET Worker
  BY DEF Busy
<1>2. IsFiniteSet(Busy)
  BY <1>1, PoolAssumption, FS_Subset
<1> QED
  BY <1>2, FS_CardinalityType

LEMMA InitCounted == Init => Counted
<1> SUFFICES ASSUME Init PROVE Counted
  OBVIOUS
<1>1. Busy = {}
  BY DEF Init, Busy, Idle
<1> QED
  BY <1>1, FS_EmptySet DEF Init, Counted

LEMMA CountedStep == TypeInv /\ Counted /\ [Next]_vars => Counted'
<1> SUFFICES ASSUME TypeInv, Counted, [Next]_vars PROVE Counted'
  OBVIOUS
<1> worker \in [Worker -> WorkerState] /\ inFlight \in Nat
  BY DEF TypeInv, TypeOK
<1> USE DEF Counted, external, files, locals, ResetLocals
<1>1. ASSUME worker' = [w \in Worker |-> Idle], inFlight' = 0, pc' # "send" PROVE Counted'
  <2>1. Busy' = {}
    BY <1>1 DEF Busy, Idle
  <2> QED
    BY <1>1, <2>1, FS_EmptySet
<1>2. ASSUME UNCHANGED <<worker, inFlight>>,
             pc' = "off" => pc = "off" \/ inFlight = 0,
             pc' = "send" => inFlight < Cardinality(Worker)
      PROVE  Counted'
  BY <1>2 DEF Busy
<1>3. ASSUME NEW w \in Worker, Hand(w) PROVE Counted'
  <2> DEFINE s == [Idle EXCEPT !.at = "admit", !.action = First(todo)]
  <2>1. s \in BusyState
    <3>1. todo # {} /\ todo \in SUBSET Action
      BY <1>3 DEF Hand, TypeInv, TypeOK, SendsSomething
    <3>2. First(todo) \in Action
      BY <3>1, FirstInSet
    <3> QED
      BY <3>2, HandType
  <2> HIDE DEF s
  <2>2. worker' = [worker EXCEPT ![w] = s]
    BY <1>3 DEF Hand, Becomes, s
  <2>3. Busy' = Busy \cup {w} /\ w \notin Busy
    BY <1>3, <2>1, <2>2, BusyChange DEF Hand
  <2>4. Cardinality(Busy') = Cardinality(Busy) + 1
    BY <2>3, BusyFinite, FS_AddElement
  <2> QED
    BY <1>3, <2>4 DEF Hand
<1>4. ASSUME NEW w \in Worker, Collect(w) \/ Discard(w) PROVE Counted'
  <2>1. worker' = [worker EXCEPT ![w] = Idle] /\ worker[w].at = "reply"
    BY <1>4 DEF Collect, Discard, Becomes
  <2>2. Busy' = Busy \ {w} /\ w \in Busy
    BY <2>1, BusyChange DEF Busy
  <2>3. Cardinality(Busy') = Cardinality(Busy) - 1
    BY <2>2, BusyFinite, FS_RemoveElement
  <2>4. inFlight' = inFlight - 1 /\ pc' \in {"dispatch", "write", "drain"}
    BY <1>4 DEF Collect, Discard
  <2> QED
    BY <2>3, <2>4
<1>5. ASSUME NEW w \in Worker, WorkerStep(w) \/ RequestFails(w) PROVE Counted'
  <2>1. OnlyVault(w) /\ worker[w] \in BusyState
    BY <1>5, WorkerFrame
  <2>2. PICK s \in BusyState : StaysBusy(w, s)
    BY <1>5, WorkerFrame
  <2>3. Busy' = Busy \cup {w} /\ w \in Busy
    <3>1. worker' = [worker EXCEPT ![w] = s]
      BY <2>2 DEF StaysBusy
    <3> QED
      BY <2>1, <3>1, BusyChange
  <2> QED
    BY <2>1, <2>3 DEF OnlyVault
<1>6. \/ worker' = [w \in Worker |-> Idle] /\ inFlight' = 0 /\ pc' # "send"
      \/ /\ UNCHANGED <<worker, inFlight>>
         /\ pc' = "off" => pc = "off" \/ inFlight = 0
         /\ pc' = "send" => inFlight < Cardinality(Worker)
      \/ \E w \in Worker : Hand(w) \/ Collect(w) \/ Discard(w)
      \/ \E w \in Worker : WorkerStep(w) \/ RequestFails(w)
  BY DEF Next, DispatcherStep, Fault, Start, Crash, Rewrite, Cancel, Dispatch, CanDispatch,
         WriteTmp, FillTmp, RenameTmp, SaveFails, Return, vars
<1> QED
  BY <1>1, <1>2, <1>3, <1>4, <1>5, <1>6

\* Whatever the number of workers and of actions, the dispatcher sends only when a
\* worker is free to receive, and waits only for a worker that holds a job.
THEOREM HandoffSafe == Spec => []HandoffNeverStalls
<1>2. TypeInv /\ Counted => HandoffNeverStalls
  <2> SUFFICES ASSUME TypeInv, Counted PROVE HandoffNeverStalls
    OBVIOUS
  <2>1. inFlight \in Nat
    BY DEF TypeInv, TypeOK
  <2>2. pc = "send" => todo # {} /\ Busy # Worker
    <3> SUFFICES ASSUME pc = "send" PROVE todo # {} /\ Busy # Worker
      OBVIOUS
    <3>1. Cardinality(Busy) < Cardinality(Worker)
      BY DEF Counted
    <3>2. Busy # Worker
      BY <2>1, <3>1, BusyFinite
    <3> QED
      BY <3>2 DEF TypeInv, SendsSomething
  <2>3. inFlight > 0 => Busy # {}
    BY <2>1, FS_EmptySet DEF Counted
  <2> QED
    BY <2>2, <2>3 DEF HandoffNeverStalls
<1> QED
  BY <1>2, InitCounted, InitType, NextType, CountedStep, PTL DEF Spec

-------------------------------------------------------------------------------
(* The record advances one action at a time. *)

Held == {worker[w].action : w \in Busy}

\* No action is handed out twice in a run.
Exclusive ==
  /\ Held \cap todo = {}
  /\ \A v, w \in Busy : worker[v].action = worker[w].action => v = w

\* While a save is in progress memory and file differ in the one result just
\* collected; otherwise they agree, and no job left or in flight is recorded.
OneAhead ==
  /\ pc \in {"dispatch", "send", "write", "fill", "rename"} =>
       \A a \in todo \cup Held : disk[a] # "deleted"
  /\ pc \in {"dispatch", "send"} /\ ~dryRun => mem = disk
  /\ pc \in {"write", "fill", "rename"} =>
       \E a \in batch \ (todo \cup Held), status \in {"deleted", "failed"} :
         disk[a] # "deleted" /\ mem = [disk EXCEPT ![a] = status]

\* How the set of actions held by the workers changes when one of them changes.
LEMMA HeldChange ==
  ASSUME worker \in [Worker -> WorkerState], NEW w \in Worker
  PROVE  /\ worker[w] \in BusyState => worker[w].action \in Held
         /\ \A s \in BusyState : worker[w] \in BusyState /\ s.action = worker[w].action /\
              worker' = [worker EXCEPT ![w] = s] => Held' = Held
         /\ \A s \in BusyState : worker[w].at = "idle" /\
              worker' = [worker EXCEPT ![w] = s] => Held' = Held \cup {s.action}
         /\ worker' = [worker EXCEPT ![w] = Idle] => Held' \subseteq Held
<1> USE DEF Held
<1>0. worker[w] \in BusyState => w \in Busy
  BY BusyChange
<1>1. ASSUME NEW s \in BusyState, worker[w] \in BusyState, s.action = worker[w].action,
             worker' = [worker EXCEPT ![w] = s]
      PROVE  Held' = Held
  <2>1. Busy' = Busy \cup {w} /\ w \in Busy
    BY <1>0, <1>1, BusyChange
  <2>2. \A v \in Worker : worker'[v].action = worker[v].action
    BY <1>1
  <2> QED
    BY <2>1, <2>2 DEF Busy
<1>2. ASSUME NEW s \in BusyState, worker[w].at = "idle", worker' = [worker EXCEPT ![w] = s]
      PROVE  Held' = Held \cup {s.action}
  <2>1. Busy' = Busy \cup {w} /\ w \notin Busy
    BY <1>2, BusyChange
  <2> HIDE DEF Held
  <2>2. \A v \in Busy : worker'[v].action = worker[v].action
    BY <1>2, <2>1 DEF Busy
  <2>3. worker'[w].action = s.action
    BY <1>2
  <2> QED
    BY <2>1, <2>2, <2>3 DEF Held
<1>3. ASSUME worker' = [worker EXCEPT ![w] = Idle]
      PROVE  Held' \subseteq Held
  <2>1. Busy' = Busy \ {w}
    BY <1>3, BusyChange
  <2> QED
    BY <1>3, <2>1 DEF Busy
<1> QED
  BY <1>0, <1>1, <1>2, <1>3

\* A worker never gets an action that another one holds or that is still queued.
LEMMA ExclusiveStep == TypeInv /\ Exclusive /\ [Next]_vars => Exclusive'
<1> SUFFICES ASSUME TypeInv, Exclusive, [Next]_vars PROVE Exclusive'
  OBVIOUS
<1> worker \in [Worker -> WorkerState]
  BY DEF TypeInv, TypeOK
<1> USE DEF Exclusive, external, files, locals, ResetLocals
<1>1. ASSUME worker' = [w \in Worker |-> Idle] PROVE Exclusive'
  <2>1. Busy' = {} /\ Held' = {}
    BY <1>1 DEF Busy, Held, Idle
  <2> QED
    BY <2>1
<1>2. ASSUME UNCHANGED <<worker, todo>> PROVE Exclusive'
  BY <1>2 DEF Busy, Held
<1>3. ASSUME NEW w \in Worker, Hand(w) PROVE Exclusive'
  <2> DEFINE a == First(todo)
             s == [Idle EXCEPT !.at = "admit", !.action = a]
  <2>1. a \in todo /\ a \in Action
    <3>1. todo # {} /\ todo \in SUBSET Action
      BY <1>3 DEF Hand, TypeInv, TypeOK, SendsSomething
    <3> QED
      BY <3>1, FirstInSet
  <2>2. s \in BusyState /\ s.action = a
    BY <2>1, HandType DEF Idle
  <2>3. worker' = [worker EXCEPT ![w] = s] /\ worker[w].at = "idle" /\ todo' = todo \ {a}
    BY <1>3 DEF Hand, Becomes
  <2> HIDE DEF s, a
  <2>4. Held' = Held \cup {a}
    BY <2>2, <2>3, HeldChange
  <2>5. Busy' = Busy \cup {w} /\ w \notin Busy
    BY <2>2, <2>3, BusyChange
  <2>6. \A v \in Busy : worker'[v].action = worker[v].action /\ worker[v].action # a
    BY <2>1, <2>3, <2>5 DEF Busy, Held
  <2>7. worker'[w].action = a
    BY <2>2, <2>3
  <2> QED
    BY <2>1, <2>3, <2>4, <2>5, <2>6, <2>7
<1>4. ASSUME NEW w \in Worker, Collect(w) \/ Discard(w) PROVE Exclusive'
  <2>1. worker' = [worker EXCEPT ![w] = Idle] /\ todo' = todo
    BY <1>4 DEF Collect, Discard, Becomes
  <2>2. Held' \subseteq Held /\ Busy' = Busy \ {w}
    BY <2>1, HeldChange, BusyChange
  <2>3. \A v \in Busy' : worker'[v] = worker[v]
    BY <2>1, <2>2 DEF Busy
  <2> QED
    BY <2>1, <2>2, <2>3
<1>5. ASSUME NEW w \in Worker, WorkerStep(w) \/ RequestFails(w) PROVE Exclusive'
  <2>1. OnlyVault(w) /\ worker[w] \in BusyState
    BY <1>5, WorkerFrame
  <2>2. PICK s \in BusyState : StaysBusy(w, s)
    BY <1>5, WorkerFrame
  <2>3. worker' = [worker EXCEPT ![w] = s] /\ s.action = worker[w].action
    BY <2>2 DEF StaysBusy
  <2>4. Held' = Held
    BY <2>1, <2>3, HeldChange
  <2>5. Busy' = Busy \cup {w} /\ w \in Busy
    BY <2>1, <2>3, BusyChange
  <2>6. \A v \in Worker : worker'[v].action = worker[v].action
    BY <2>3
  <2> QED
    BY <2>1, <2>4, <2>5, <2>6 DEF OnlyVault, Busy
<1>6. \/ worker' = [w \in Worker |-> Idle]
      \/ UNCHANGED <<worker, todo>>
      \/ \E w \in Worker : Hand(w) \/ Collect(w) \/ Discard(w)
      \/ \E w \in Worker : WorkerStep(w) \/ RequestFails(w)
  BY DEF Next, DispatcherStep, Fault, Start, Crash, Rewrite, Cancel, Dispatch, WriteTmp,
         FillTmp, RenameTmp, SaveFails, Return, vars
<1> QED
  BY <1>1, <1>2, <1>3, <1>4, <1>5, <1>6

\* The results of a run reach the plan file in the order in which they were collected.
LEMMA OneAheadStep ==
  TypeInv /\ OnlyBatch /\ Exclusive /\ OneAhead /\ [Next]_vars => OneAhead'
<1> SUFFICES ASSUME TypeInv, OnlyBatch, Exclusive, OneAhead, [Next]_vars PROVE OneAhead'
  OBVIOUS
<1> worker \in [Worker -> WorkerState] /\ disk \in Plan /\ mem \in Plan /\ disk # Torn
  BY DEF TypeInv, TypeOK, SavedWhole, PlanFile
<1> USE DEF external, files, locals, ResetLocals
<1>1. ASSUME NEW dry \in DryRuns, Start(dry) PROVE OneAhead'
  <2>1. Held' = {}
    BY <1>1 DEF Start, Held, Busy, Idle
  <2>2. /\ mem' = disk /\ disk' = disk /\ todo' = Pending(disk)
        /\ pc' \in {"off", "dispatch"}
    BY <1>1 DEF Start
  <2>3. \A a \in todo' : disk[a] # "deleted"
    BY <2>2 DEF Pending
  <2> QED
    BY <2>1, <2>2, <2>3 DEF OneAhead
<1>2. ASSUME pc' \in {"off", "drain"} PROVE OneAhead'
  BY <1>2 DEF OneAhead
<1>3. ASSUME UNCHANGED <<disk, mem, dryRun, batch, todo, worker>>,
             \/ pc' = pc
             \/ {pc, pc'} \subseteq {"dispatch", "send"}
             \/ {pc, pc'} \subseteq {"write", "fill", "rename"}
      PROVE  OneAhead'
  BY <1>3 DEF OneAhead, Held, Busy
<1>4. CASE RenameTmp
  <2>1. /\ disk' = mem /\ mem' = mem /\ pc = "rename" /\ pc' = "dispatch"
        /\ UNCHANGED <<todo, worker>>
    BY <1>4 DEF RenameTmp, TypeInv, SavedWhole
  <2>2. Held' = Held
    BY <2>1 DEF Held, Busy
  <2>3. \A a \in todo \cup Held : mem[a] # "deleted"
    <3>1. PICK b \in batch \ (todo \cup Held), status \in {"deleted", "failed"} :
            mem = [disk EXCEPT ![b] = status]
      BY <2>1 DEF OneAhead
    <3>2. \A a \in todo \cup Held : a # b /\ disk[a] # "deleted"
      BY <2>1, <3>1 DEF OneAhead
    <3>3. \A a \in todo \cup Held : mem[a] = disk[a]
      <4>1. todo \cup Held \subseteq Action
        BY IdleOrBusy DEF TypeInv, TypeOK, Held, Busy, BusyState
      <4> QED
        BY <3>1, <3>2, <4>1 DEF Plan
    <3> QED
      BY <3>2, <3>3
  <2> QED
    BY <2>1, <2>2, <2>3 DEF OneAhead
<1>5. ASSUME NEW w \in Worker, Hand(w) PROVE OneAhead'
  <2> DEFINE a == First(todo)
             s == [Idle EXCEPT !.at = "admit", !.action = a]
  <2>1. a \in todo /\ a \in Action
    <3>1. todo # {} /\ todo \in SUBSET Action
      BY <1>5 DEF Hand, TypeInv, TypeOK, SendsSomething
    <3> QED
      BY <3>1, FirstInSet
  <2>2. s \in BusyState /\ s.action = a
    BY <2>1, HandType DEF Idle
  <2>3. /\ worker' = [worker EXCEPT ![w] = s] /\ worker[w].at = "idle"
        /\ todo' = todo \ {a} /\ pc = "send" /\ pc' = "dispatch"
        /\ UNCHANGED <<mem, disk, dryRun>>
    BY <1>5 DEF Hand, Becomes
  <2> HIDE DEF s, a
  <2>4. Held' = Held \cup {a}
    BY <2>2, <2>3, HeldChange
  <2> QED
    BY <2>1, <2>3, <2>4 DEF OneAhead
<1>6. ASSUME NEW w \in Worker, Collect(w) PROVE OneAhead'
  <2> DEFINE a == worker[w].action
  <2>1. /\ worker' = [worker EXCEPT ![w] = Idle] /\ worker[w] \in BusyState
        /\ pc = "dispatch" /\ UNCHANGED <<disk, dryRun, todo, batch>>
        /\ pc' = IF dryRun THEN "dispatch" ELSE "write"
    BY <1>6, IdleOrBusy DEF Collect, Becomes
  <2>2. Held' \subseteq Held /\ Busy' = Busy \ {w} /\ w \in Busy /\ a \in Held
    BY <2>1, HeldChange, BusyChange
  <2>3. a \in batch \ (todo' \cup Held')
    <3>1. a \in batch
      BY <2>1, IdleOrBusy DEF OnlyBatch
    <3>2. a \notin todo'
      BY <2>1, <2>2 DEF Exclusive
    <3>3. a \notin Held'
      <4>1. \A v \in Busy' : worker'[v].action = worker[v].action /\ v # w /\ v \in Busy
        BY <2>1, <2>2 DEF Busy
      <4> QED
        BY <2>2, <4>1 DEF Exclusive, Held
    <3> QED
      BY <2>1, <3>1, <3>2, <3>3
  <2>4. disk[a] # "deleted"
    BY <2>1, <2>2 DEF OneAhead
  <2>5. ~dryRun => \E status \in {"deleted", "failed"} : mem' = [disk EXCEPT ![a] = status]
    <3>1. ~dryRun => mem = disk
      BY <2>1 DEF OneAhead
    <3> QED
      BY <1>6, <3>1 DEF Collect, Note
  <2>6. \A b \in todo' \cup Held' : disk'[b] # "deleted"
    BY <2>1, <2>2 DEF OneAhead
  <2> HIDE DEF a
  <2> QED
    BY <2>1, <2>3, <2>4, <2>5, <2>6 DEF OneAhead
<1>7. ASSUME NEW w \in Worker, WorkerStep(w) \/ RequestFails(w) PROVE OneAhead'
  <2>1. OnlyVault(w) /\ worker[w] \in BusyState
    BY <1>7, WorkerFrame
  <2>2. PICK s \in BusyState : StaysBusy(w, s)
    BY <1>7, WorkerFrame
  <2>3. worker' = [worker EXCEPT ![w] = s] /\ s.action = worker[w].action
    BY <2>2 DEF StaysBusy
  <2>4. Held' = Held
    BY <2>1, <2>3, HeldChange
  <2> QED
    BY <2>1, <2>4 DEF OnlyVault, OneAhead
<1>8. \/ \E dry \in DryRuns : Start(dry)
      \/ pc' \in {"off", "drain"}
      \/ /\ UNCHANGED <<disk, mem, dryRun, batch, todo, worker>>
         /\ \/ pc' = pc
            \/ {pc, pc'} \subseteq {"dispatch", "send"}
            \/ {pc, pc'} \subseteq {"write", "fill", "rename"}
      \/ RenameTmp
      \/ \E w \in Worker : Hand(w) \/ Collect(w)
      \/ \E w \in Worker : WorkerStep(w) \/ RequestFails(w)
  BY DEF Next, DispatcherStep, Fault, Crash, Rewrite, Cancel, Dispatch, WriteTmp,
         FillTmp, SaveFails, Return, Discard, vars
<1> QED
  BY <1>1, <1>2, <1>3, <1>4, <1>5, <1>6, <1>7, <1>8

\* What the record's theorems rest on, together.
RecordInv == TypeInv /\ OnlyBatch /\ Truthful /\ Exclusive /\ OneAhead

LEMMA RecordInvHolds == Spec => []RecordInv
<1>1. Init => RecordInv
  <2> SUFFICES ASSUME Init PROVE RecordInv
    OBVIOUS
  <2>1. Busy = {} /\ Held = {}
    BY DEF Init, Busy, Held, Idle
  <2> QED
    BY <2>1, InitType DEF Init, RecordInv, OnlyBatch, Truthful, Exclusive, OneAhead, Idle
<1>2. RecordInv /\ [Next]_vars => RecordInv'
  BY NextType, OnlyBatchStep, TruthfulStep, ExclusiveStep, OneAheadStep DEF RecordInv
<1> QED
  BY <1>1, <1>2, PTL DEF Spec

\* One step of the command is one step of the abstract specification, or none.
LEMMA StepRefines == RecordInv /\ [Next]_vars => [Abstract!Next]_(Abstract!avars)
<1> SUFFICES ASSUME RecordInv, [Next]_vars PROVE [Abstract!Next]_(Abstract!avars)
  OBVIOUS
<1> worker \in [Worker -> WorkerState] /\ disk \in Plan /\ mem \in Plan
  BY DEF RecordInv, TypeInv, TypeOK, SavedWhole, PlanFile
<1> USE DEF RecordInv, external, files, locals, ResetLocals
<1>1. CASE RenameTmp
  <2>1. disk' = mem /\ pc = "rename" /\ destroyed' = destroyed
    BY <1>1 DEF RenameTmp, TypeInv, SavedWhole
  <2>2. PICK a \in batch, status \in {"deleted", "failed"} :
          disk[a] # "deleted" /\ mem = [disk EXCEPT ![a] = status]
    BY <2>1 DEF OneAhead
  <2>3. a \in Eligible /\ a \in Action
    BY DEF OnlyBatch, Eligible
  <2>4. status = "deleted" => a \in destroyed
    BY <2>2, <2>3 DEF Truthful, Plan
  <2>5. Abstract!Record(a, status)
    BY <2>1, <2>2, <2>4 DEF Abstract!Record
  <2> QED
    BY <2>3, <2>5 DEF Abstract!Next
<1>2. ASSUME disk' = disk, destroyed \subseteq destroyed', destroyed' \subseteq Eligible
      PROVE  [Abstract!Next]_(Abstract!avars)
  <2>1. Abstract!Remove(destroyed')
    BY <1>2 DEF Abstract!Remove
  <2> QED
    BY <1>2, <2>1 DEF Abstract!Next
<1>3. ASSUME NEW w \in Worker, WorkerStep(w) \/ RequestFails(w)
      PROVE  disk' = disk /\ destroyed \subseteq destroyed' /\ destroyed' \subseteq Eligible
  <2>1. OnlyVault(w) /\ worker[w] \in BusyState
    BY <1>3, WorkerFrame
  <2>2. worker[w].action \in Eligible
    BY <2>1, IdleOrBusy DEF OnlyBatch
  <2> QED
    BY <2>1, <2>2 DEF OnlyVault, OnlyBatch
<1>4. CASE Crash
  <2>1. \A w \in Worker : worker[w].at = "try" => worker[w].action \in Eligible
    BY DEF OnlyBatch
  <2> QED
    BY <1>2, <1>4, <2>1 DEF Crash, OnlyBatch
<1>5. \/ RenameTmp \/ Crash
      \/ UNCHANGED <<disk, destroyed>>
      \/ \E w \in Worker : WorkerStep(w) \/ RequestFails(w)
  BY DEF Next, DispatcherStep, Fault, Start, Rewrite, Cancel, Dispatch, WriteTmp,
         FillTmp, SaveFails, Return, Hand, Collect, Discard, vars
<1> QED
  BY <1>1, <1>2, <1>3, <1>4, <1>5 DEF Abstract!avars

\* For every plan and pool, and over any number of runs, the command implements the
\* abstract promise: the durable record is never ahead of Vault, a recorded deletion
\* is final, and results become durable one by one.
THEOREM Refinement == Spec => ImplementsResumable
<1>1. Init => Abstract!Init
  BY DEF Init, Abstract!Init
<1> QED
  BY <1>1, RecordInvHolds, StepRefines, PTL DEF Spec, ImplementsResumable, Abstract!Spec

\* A deletion once recorded stays recorded, whatever later runs meet.
THEOREM RecordedForGood == Spec => DeletedStaysDeleted
<1> DEFINE kept == \A a \in Action : disk # Torn /\ disk[a] = "deleted" =>
                     disk' # Torn /\ disk'[a] = "deleted"
<1>1. RecordInv /\ RecordInv' /\ [Next]_vars => [kept]_vars
  <2> SUFFICES ASSUME RecordInv, RecordInv', [Next]_vars PROVE kept
    OBVIOUS
  <2>1. disk \in Plan /\ disk' # Torn
    BY DEF RecordInv, TypeInv, TypeOK, SavedWhole, PlanFile
  <2>2. CASE UNCHANGED disk
    BY <2>1, <2>2
  <2>3. ASSUME NEW a \in Eligible, NEW status \in {"deleted", "failed"},
               Abstract!Record(a, status)
        PROVE  kept
    BY <2>1, <2>3 DEF Abstract!Record, Plan
  <2> QED
    BY <2>2, <2>3, StepRefines DEF Abstract!Next, Abstract!Remove, Abstract!avars
<1> QED
  BY <1>1, RecordInvHolds, PTL DEF Spec, DeletedStaysDeleted

-------------------------------------------------------------------------------
(* The circuit breaker. *)

Limit == Threshold(MaxFailures)

\* An open breaker has stopped the dispatcher, and the failures counted so far and the
\* jobs that may still fail stay below the bound together.
StreakInv ==
  /\ ~breaker.open => breaker.consecutive < Limit
  /\ breaker.open => /\ stop /\ circuitErr /\ pc # "send"
                     /\ breaker.consecutive + inFlight <= Limit + Cardinality(Worker) - 1

LEMMA StreakStep == TypeInv /\ Counted /\ StreakInv /\ [Next]_vars => StreakInv'
<1> SUFFICES ASSUME TypeInv, Counted, StreakInv, [Next]_vars PROVE StreakInv'
  OBVIOUS
<1>0. /\ Limit \in Int /\ Limit >= 1
      /\ Cardinality(Worker) \in Nat /\ inFlight \in Nat /\ inFlight <= Cardinality(Worker)
      /\ breaker \in [consecutive : Nat, open : BOOLEAN]
  <2>1. Cardinality(Busy) <= Cardinality(Worker) /\ Cardinality(Worker) \in Nat
    <3>1. Busy \in SUBSET Worker
      BY DEF Busy
    <3> QED
      BY <3>1, PoolAssumption, FS_Subset, FS_CardinalityType
  <2>2. Limit \in Int /\ Limit >= 1
    BY PoolAssumption DEF Limit, Threshold
  <2> QED
    BY <2>1, <2>2 DEF Counted, TypeInv, TypeOK
<1> USE <1>0 DEF StreakInv, external, files, locals
<1>1. ASSUME breaker' = NewCircuitBreaker PROVE StreakInv'
  BY <1>1 DEF NewCircuitBreaker, Limit
<1>2. ASSUME UNCHANGED <<breaker, circuitErr, inFlight, stop>>, pc' = "send" => pc = "send"
      PROVE  StreakInv'
  BY <1>2 DEF Limit
<1>3. CASE Dispatch
  BY <1>3 DEF Dispatch, CanDispatch, Limit
<1>4. ASSUME NEW w \in Worker, Hand(w) PROVE StreakInv'
  BY <1>4 DEF Hand, Limit
<1>5. ASSUME NEW w \in Worker, Collect(w) PROVE StreakInv'
  <2> DEFINE err == worker[w].err
  <2>1. /\ Note(worker[w].action, err) /\ inFlight' = inFlight - 1 /\ inFlight > 0
        /\ pc' # "send"
    BY <1>5 DEF Collect
  <2>2. err \in {"none", "ctx", "other"}
    <3>1. worker[w] \in BusyState
      BY <1>5, IdleOrBusy DEF Collect, TypeInv, TypeOK
    <3> QED
      BY <3>1 DEF BusyState, Errors
  <2>3. breaker'.open => stop' /\ circuitErr'
    BY <2>1 DEF Note
  <2>4. CASE breaker' = breaker
    BY <2>1, <2>3, <2>4 DEF Limit
  <2>5. CASE breaker' = NewCircuitBreaker
    BY <2>5, <1>1
  <2>6. CASE breaker' = RecordFailure(breaker, MaxFailures)
    <3>1. /\ breaker'.consecutive = breaker.consecutive + 1
          /\ breaker'.open <=> breaker.open \/ breaker.consecutive + 1 >= Limit
      BY <2>6 DEF RecordFailure, Limit
    <3> QED
      BY <2>1, <2>3, <3>1 DEF Limit
  <2> QED
    BY <2>1, <2>2, <2>4, <2>5, <2>6 DEF Note, RecordSuccess
<1>6. ASSUME NEW w \in Worker, Discard(w) PROVE StreakInv'
  BY <1>6 DEF Discard, Limit
<1>7. ASSUME NEW w \in Worker, WorkerStep(w) \/ RequestFails(w) PROVE StreakInv'
  <2>1. OnlyVault(w)
    BY <1>7, WorkerFrame DEF TypeInv, TypeOK
  <2> QED
    BY <2>1, <1>2 DEF OnlyVault
<1>8. \/ breaker' = NewCircuitBreaker
      \/ UNCHANGED <<breaker, circuitErr, inFlight, stop>> /\ (pc' = "send" => pc = "send")
      \/ Dispatch
      \/ \E w \in Worker : Hand(w) \/ Collect(w) \/ Discard(w)
      \/ \E w \in Worker : WorkerStep(w) \/ RequestFails(w)
  BY DEF Next, DispatcherStep, Fault, Start, Crash, ResetLocals, Rewrite, Cancel, WriteTmp,
         FillTmp, RenameTmp, SaveFails, Return, vars
<1> QED
  BY <1>1, <1>2, <1>3, <1>4, <1>5, <1>6, <1>7, <1>8

\* For every threshold and pool: once the breaker opens, only the jobs in flight can
\* fail, whatever order their results come in.
THEOREM StreakBounded == Spec => []StreakBound
<1>2. Init => StreakInv
  BY PoolAssumption DEF Init, StreakInv, NewCircuitBreaker, Limit, Threshold
<1>3. TypeInv /\ Counted /\ StreakInv => StreakBound
  <2> SUFFICES ASSUME TypeInv, StreakInv PROVE StreakBound
    OBVIOUS
  <2>1. /\ Limit \in Int /\ inFlight \in Nat /\ breaker.consecutive \in Nat
        /\ Cardinality(Worker) \in Nat /\ Cardinality(Worker) # 0
    BY PoolAssumption, FS_CardinalityType, FS_EmptySet
    DEF Limit, Threshold, TypeInv, TypeOK
  <2>2. breaker.open \in BOOLEAN
    BY DEF TypeInv, TypeOK
  <2>3. breaker.consecutive <= Limit + Cardinality(Worker) - 1
    BY <2>1, <2>2 DEF StreakInv
  <2> QED
    BY <2>3 DEF StreakBound, Limit
<1> QED
  BY <1>2, <1>3, InitCounted, InitType, NextType, CountedStep, StreakStep, PTL DEF Spec
===============================================================================
