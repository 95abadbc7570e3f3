------------------------- MODULE DeletionReportProofs -------------------------
(***************************************************************************)
(* How far the plan file of DeletionEngine can be behind Vault after a     *)
(* crash, what a run that ends by itself has recorded, and that a run is   *)
(* bounded and never stuck.                                                *)
(***************************************************************************)
EXTENDS DeletionEngineProofs

-------------------------------------------------------------------------------
(* Jobs are handed out in the order of the plan and recorded one by one, so the actions  *)
(* that a run may have carried out without a record are the first of those the file      *)
(* calls pending.  A later run starts with the same ones, and that is why the windows of *)
(* several crashes do not add up.                                                        *)

\* What the plan file calls pending, and of this what the run has handed out.
Left == {a \in Eligible : disk[a] = "pending"}
Unrecorded == {a \in batch \ todo : disk[a] = "pending"}

\* With each action of Left the set S has those before it.
Initial(S) == S \subseteq Left /\ \A a \in S, b \in Left : b < a => b \in S

InOrder ==
  /\ \A a \in batch \ todo, b \in todo : a < b
  /\ pc # "off" => Left \subseteq batch

\* A worker that is past the dry-run test belongs to a real run.
DryStays == dryRun => \A w \in Worker : worker[w].at \notin {"version", "try"}

\* In a real run what is handed out and not recorded is with the workers, but for the result
\* that is being saved; when the save fails nothing more is handed out.
FewUnrecorded ==
  ~dryRun =>
    /\ pc \in {"dispatch", "send"} => Unrecorded \subseteq Held
    /\ pc \in {"write", "fill", "rename"} =>
         /\ inFlight < Cardinality(Worker)
         /\ \A a \in Unrecorded \ Held : mem[a] # "pending"
    /\ pc = "drain" => Cardinality(Unrecorded) <= Cardinality(Worker)

\* The inductive form of CrashWindow: what is gone without a record lies in an initial
\* segment of what is left, and the segment is as small as the pool.
Window ==
  \E S \in SUBSET Action :
    /\ Initial(S) /\ Cardinality(S) <= Cardinality(Worker)
    /\ destroyed \cap Left \subseteq S

WindowInv == RecordInv /\ Counted /\ InOrder /\ DryStays /\ FewUnrecorded /\ Window


\* The workers hold no more actions than there are busy ones.
LEMMA HeldBound ==
  ASSUME worker \in [Worker -> WorkerState]
  PROVE  /\ IsFiniteSet(Held) /\ Cardinality(Held) \in Nat
         /\ Cardinality(Held) <= Cardinality(Busy)
<1> DEFINE f == [w \in Busy |-> worker[w].action]
<1>1. f \in Surjection(Busy, Held)
  BY DEF Surjection, Held
<1> HIDE DEF f
<1>2. IsFiniteSet(Held) /\ Cardinality(Held) <= Cardinality(Busy)
  BY <1>1, BusyFinite, FS_Surjection
<1> QED
  BY <1>2, FS_CardinalityType

\* The step in which a worker's result is received takes its action out of those held.
LEMMA HeldLoses ==
  ASSUME TypeInv, Exclusive, OnlyBatch, NEW w \in Worker, worker[w].at = "reply",
         worker' = [worker EXCEPT ![w] = Idle]
  PROVE  /\ Held' = Held \ {worker[w].action}
         /\ worker[w].action \in Held /\ worker[w].action \in batch \ todo
         /\ Busy' = Busy \ {w} /\ w \in Busy
<1> DEFINE a == worker[w].action
<1> worker \in [Worker -> WorkerState]
  BY DEF TypeInv, TypeOK
<1>1. Busy' = Busy \ {w} /\ w \in Busy
  BY BusyChange DEF Busy
<1>2. a \in Held
  BY <1>1 DEF Held
<1>3. \A v \in Busy' : worker'[v].action = worker[v].action /\ v # w /\ v \in Busy
  BY <1>1 DEF Busy
<1>4. Held' \subseteq Held \ {a}
  BY <1>1, <1>3 DEF Exclusive, Held
<1>5. Held \ {a} \subseteq Held'
  <2> SUFFICES ASSUME NEW v \in Busy, worker[v].action # a PROVE worker[v].action \in Held'
    BY DEF Held
  <2>1. v \in Busy'
    BY <1>1
  <2> QED
    BY <1>3, <2>1 DEF Held
<1>6. a \in batch \ todo
  BY <1>1, <1>2 DEF OnlyBatch, Exclusive, Busy
<1> QED
  BY <1>1, <1>2, <1>4, <1>5, <1>6

\* What a worker takes is the first action left to hand out.
LEMMA HandTakes ==
  ASSUME TypeInv, NEW w \in Worker, Hand(w)
  PROVE  /\ First(todo) \in todo /\ \A b \in todo : First(todo) <= b
         /\ todo' = todo \ {First(todo)} /\ Held' = Held \cup {First(todo)}
         /\ \E s \in BusyState : /\ worker' = [worker EXCEPT ![w] = s]
                                 /\ s.at = "admit" /\ s.action = First(todo)
<1> DEFINE a == First(todo)
           s == [Idle EXCEPT !.at = "admit", !.action = a]
<1>1. a \in todo /\ (\A b \in todo : a <= b) /\ a \in Action
  <2>1. todo # {} /\ todo \in SUBSET Action
    BY DEF Hand, TypeInv, TypeOK, SendsSomething
  <2> QED
    BY <2>1, FirstInSet
<1>2. s \in BusyState /\ s.action = a /\ s.at = "admit"
  BY <1>1, HandType DEF Idle
<1>3. worker' = [worker EXCEPT ![w] = s] /\ worker[w].at = "idle" /\ todo' = todo \ {a}
  BY DEF Hand, Becomes
<1> HIDE DEF s, a
<1>4. Held' = Held \cup {a}
  <2>1. worker \in [Worker -> WorkerState]
    BY DEF TypeInv, TypeOK
  <2> QED
    BY <1>2, <1>3, <2>1, HeldChange
<1> QED
  BY <1>1, <1>2, <1>3, <1>4 DEF a

-------------------------------------------------------------------------------
(* The crash window. *)

\* After a step that leaves the file alone or records a result, less is left.
LEMMA LeftShrinks ==
  ASSUME TypeInv, OneAhead, disk' = disk \/ RenameTmp
  PROVE  Left' \subseteq Left
<1>1. CASE disk' = disk
  BY <1>1 DEF Left
<1>2. CASE RenameTmp
  <2>1. disk' = mem /\ pc = "rename" /\ disk \in Plan
    BY <1>2 DEF RenameTmp, TypeInv, TypeOK, SavedWhole, PlanFile
  <2>2. PICK a \in batch \ (todo \cup Held), status \in {"deleted", "failed"} :
          mem = [disk EXCEPT ![a] = status]
    BY <2>1 DEF OneAhead
  <2>3. \A b \in Action : mem[b] = "pending" => disk[b] = "pending"
    BY <2>1, <2>2 DEF Plan
  <2> QED
    BY <2>1, <2>3 DEF Left, Eligible
<1> QED
  BY <1>1, <1>2

\* The only step that writes the plan file is the rename.
LEMMA FileSteps == [Next]_vars => disk' = disk \/ RenameTmp
  BY DEF Next, DispatcherStep, WorkerStep, RequestFails, Fault, Start, Crash, Rewrite, Cancel,
         Dispatch, Hand, Collect, Discard, WriteTmp, FillTmp, SaveFails, Return, Admit, Version,
         Delete, Interrupted, VersionFails, AttemptFails, vars, external, files, locals

LEMMA InOrderStep ==
  TypeInv /\ OnlyBatch /\ OneAhead /\ InOrder /\ [Next]_vars => InOrder'
<1> SUFFICES ASSUME TypeInv, OnlyBatch, OneAhead, InOrder, [Next]_vars PROVE InOrder'
  OBVIOUS
<1> USE DEF external, files, locals, ResetLocals
<1>0. Left' \subseteq Left
  BY FileSteps, LeftShrinks
<1>1. ASSUME NEW dry \in DryRuns, Start(dry) PROVE InOrder'
  <2>1. batch' = Pending(disk) /\ todo' = Pending(disk) /\ disk' = disk
    BY <1>1 DEF Start
  <2>2. Left' \subseteq batch'
    BY <2>1 DEF Left, Pending, Eligible
  <2> QED
    BY <2>1, <2>2 DEF InOrder
<1>2. CASE Crash
  BY <1>2 DEF Crash, InOrder
<1>3. ASSUME NEW w \in Worker, Hand(w) PROVE InOrder'
  <2> DEFINE f == First(todo)
  <2>1. batch' = batch /\ pc # "off"
    BY <1>3 DEF Hand
  <2>2. /\ f \in todo /\ \A b \in todo : f <= b
        /\ todo' = todo \ {f}
    BY <1>3, HandTakes
  <2> HIDE DEF f
  <2>3. todo \subseteq Int
    <3>1. todo \in SUBSET Action
      BY DEF TypeInv, TypeOK
    <3> QED
      BY <3>1, ActionFinite
  <2>4. \A b \in todo' : f < b
    BY <2>2, <2>3
  <2>5. \A a \in batch' \ todo', b \in todo' : a < b
    <3> SUFFICES ASSUME NEW a \in batch \ todo', NEW b \in todo' PROVE a < b
      BY <2>1
    <3>1. a = f \/ a \in batch \ todo
      BY <2>2
    <3> QED
      BY <2>2, <2>4, <3>1 DEF InOrder
  <2>6. Left' \subseteq batch'
    BY <1>0, <2>1 DEF InOrder
  <2> QED
    BY <2>5, <2>6 DEF InOrder
<1>4. ASSUME UNCHANGED <<batch, todo>>, pc' # "off" => pc # "off" PROVE InOrder'
  BY <1>0, <1>4 DEF InOrder
<1>5. \/ \E dry \in DryRuns : Start(dry)
      \/ Crash
      \/ \E w \in Worker : Hand(w)
      \/ UNCHANGED <<batch, todo>> /\ (pc' # "off" => pc # "off")
  <2>1. ASSUME NEW w \in Worker, WorkerStep(w) \/ RequestFails(w)
        PROVE  UNCHANGED <<batch, todo>> /\ (pc' # "off" => pc # "off")
    <3>1. worker \in [Worker -> WorkerState]
      BY DEF TypeInv, TypeOK
    <3> QED
      BY <2>1, <3>1, WorkerFrame DEF OnlyVault
  <2> QED
    BY <2>1 DEF Next, DispatcherStep, Fault, Rewrite, Cancel, Dispatch, Collect, Discard,
           WriteTmp, FillTmp, RenameTmp, SaveFails, Return, vars
<1> QED
  BY <1>1, <1>2, <1>3, <1>4, <1>5

LEMMA DryStaysStep == TypeInv /\ DryStays /\ [Next]_vars => DryStays'
<1> SUFFICES ASSUME TypeInv, DryStays, [Next]_vars PROVE DryStays'
  OBVIOUS
<1> worker \in [Worker -> WorkerState]
  BY DEF TypeInv, TypeOK
<1> USE DEF external, files, locals, ResetLocals
<1>1. ASSUME worker' = [w \in Worker |-> Idle] PROVE DryStays'
  BY <1>1 DEF DryStays, Idle
<1>2. ASSUME UNCHANGED <<dryRun, worker>> PROVE DryStays'
  BY <1>2 DEF DryStays
<1>3. ASSUME NEW w \in Worker, Hand(w) PROVE DryStays'
  <2>1. dryRun' = dryRun
    BY <1>3 DEF Hand
  <2>2. PICK s \in BusyState : worker' = [worker EXCEPT ![w] = s] /\ s.at = "admit"
    BY <1>3, HandTakes
  <2> QED
    BY <2>1, <2>2 DEF DryStays
<1>4. ASSUME NEW w \in Worker, dryRun' = dryRun, worker' = [worker EXCEPT ![w] = Idle]
      PROVE  DryStays'
  BY <1>4 DEF DryStays, Idle
<1>5. ASSUME NEW w \in Worker, WorkerStep(w) \/ RequestFails(w) PROVE DryStays'
  <2> SUFFICES ASSUME dryRun' PROVE \A v \in Worker : worker'[v].at \notin {"version", "try"}
    BY DEF DryStays
  <2>1. dryRun
    BY <1>5, WorkerFrame DEF OnlyVault
  <2>2. Admit(w)
    BY <1>5, <2>1 DEF DryStays, WorkerStep, RequestFails, Version, Delete, Interrupted,
           VersionFails, AttemptFails
  <2>3. \E err \in Errors : Reply(w, err)
    BY <2>1, <2>2 DEF Admit, Errors
  <2>4. PICK err \in Errors : worker' = [worker EXCEPT ![w] = [worker[w] EXCEPT !.at = "reply", !.err = err]]
    BY <2>3 DEF Reply, Becomes
  <2>5. worker[w] \in BusyState
    BY <1>5, WorkerFrame
  <2>6. worker'[w].at = "reply"
    BY <2>4, <2>5 DEF BusyState
  <2> QED
    BY <2>1, <2>4, <2>6 DEF DryStays
<1>6. \/ worker' = [w \in Worker |-> Idle]
      \/ UNCHANGED <<dryRun, worker>>
      \/ \E w \in Worker : Hand(w)
      \/ \E w \in Worker : dryRun' = dryRun /\ worker' = [worker EXCEPT ![w] = Idle]
      \/ \E w \in Worker : WorkerStep(w) \/ RequestFails(w)
  BY DEF Next, DispatcherStep, Fault, Start, Crash, Rewrite, Cancel, Dispatch, Collect, Discard,
         Becomes, WriteTmp, FillTmp, RenameTmp, SaveFails, Return, vars
<1> QED
  BY <1>1, <1>2, <1>3, <1>4, <1>5, <1>6


\* What is unrecorded is at most what the workers hold, and the result being saved.
LEMMA UnrecordedBound ==
  ASSUME TypeInv, OnlyBatch, OneAhead, Counted, FewUnrecorded, ~dryRun, pc # "off",
         inFlight <= Cardinality(Worker)
  PROVE  IsFiniteSet(Unrecorded) /\ Cardinality(Unrecorded) <= Cardinality(Worker)
<1> DEFINE W == Cardinality(Worker)
<1>0. W \in Nat /\ inFlight \in Nat
  BY PoolAssumption, FS_CardinalityType DEF TypeInv, TypeOK
<1>1. /\ IsFiniteSet(Held) /\ Cardinality(Held) \in Nat /\ Cardinality(Held) <= inFlight
  <2>1. worker \in [Worker -> WorkerState]
    BY DEF TypeInv, TypeOK
  <2> QED
    BY <2>1, HeldBound DEF Counted
<1>2. IsFiniteSet(Unrecorded)
  <2>1. Unrecorded \in SUBSET Action
    BY DEF Unrecorded, TypeInv, TypeOK
  <2> QED
    BY <2>1, ActionFinite
<1>3. ASSUME Unrecorded \subseteq Held PROVE Cardinality(Unrecorded) <= W
  <2>1. Cardinality(Unrecorded) <= Cardinality(Held)
    BY <1>1, <1>3, FS_Subset
  <2>2. Cardinality(Unrecorded) \in Nat
    BY <1>2, FS_CardinalityType
  <2> QED
    BY <1>0, <1>1, <2>1, <2>2
<1>4. CASE pc \in {"write", "fill", "rename"}
  <2>1. PICK a \in batch \ (todo \cup Held), status \in {"deleted", "failed"} :
          mem = [disk EXCEPT ![a] = status]
    BY <1>4 DEF OneAhead
  <2>2. Unrecorded \subseteq Held \cup {a}
    <3> SUFFICES ASSUME NEW b \in Unrecorded \ Held, b # a PROVE FALSE
      OBVIOUS
    <3>1. b \in Action /\ disk \in Plan /\ disk[b] = "pending"
      BY DEF Unrecorded, TypeInv, TypeOK, SavedWhole, PlanFile
    <3>2. mem[b] = disk[b]
      BY <2>1, <3>1 DEF Plan
    <3> QED
      BY <1>4, <3>1, <3>2 DEF FewUnrecorded
  <2>3. /\ IsFiniteSet(Held \cup {a}) /\ Cardinality(Held \cup {a}) \in Nat
        /\ Cardinality(Held \cup {a}) <= Cardinality(Held) + 1
    <3>1. IsFiniteSet(Held \cup {a}) /\ Cardinality(Held \cup {a}) = Cardinality(Held) + 1
      <4>1. a \notin Held
        BY <2>1
      <4> QED
        BY <1>1, <4>1, FS_AddElement
    <3> QED
      BY <3>1, FS_CardinalityType
  <2>4. Cardinality(Unrecorded) <= Cardinality(Held \cup {a}) /\ Cardinality(Unrecorded) \in Nat
    BY <1>2, <2>2, <2>3, FS_Subset, FS_CardinalityType
  <2>5. inFlight + 1 <= W
    BY <1>0, <1>4 DEF FewUnrecorded
  <2> QED
    BY <1>0, <1>1, <1>2, <2>3, <2>4, <2>5
<1>5. pc \in {"dispatch", "send", "write", "fill", "rename", "drain"}
  BY DEF TypeInv, TypeOK
<1> QED
  BY <1>2, <1>3, <1>4, <1>5 DEF FewUnrecorded

\* No more jobs are in flight than there are workers.
LEMMA InFlightBound ==
  ASSUME Counted
  PROVE  inFlight <= Cardinality(Worker)
<1>1. Busy \in SUBSET Worker
  BY DEF Busy
<1> QED
  BY <1>1, PoolAssumption, FS_Subset DEF Counted

LEMMA FewUnrecordedStep ==
  TypeInv /\ OnlyBatch /\ Exclusive /\ OneAhead /\ Counted /\ FewUnrecorded /\ [Next]_vars
    => FewUnrecorded'
<1> SUFFICES ASSUME TypeInv, OnlyBatch, Exclusive, OneAhead, Counted, FewUnrecorded, [Next]_vars
             PROVE  FewUnrecorded'
  OBVIOUS
<1> worker \in [Worker -> WorkerState] /\ disk \in Plan /\ mem \in Plan
  BY DEF TypeInv, TypeOK, SavedWhole, PlanFile
<1> USE DEF external, files, locals, ResetLocals
<1>1. ASSUME NEW dry \in DryRuns, Start(dry) PROVE FewUnrecorded'
  <2>1. batch' = todo' /\ pc' \in {"off", "dispatch"}
    BY <1>1 DEF Start
  <2>2. Unrecorded' = {}
    BY <2>1 DEF Unrecorded
  <2> QED
    BY <2>1, <2>2 DEF FewUnrecorded
<1>2. ASSUME pc' = "off" PROVE FewUnrecorded'
  BY <1>2 DEF FewUnrecorded
<1>3. ASSUME UNCHANGED <<disk, mem, dryRun, batch, todo, worker, inFlight>>,
             \/ pc' = pc
             \/ {pc, pc'} \subseteq {"dispatch", "send"}
             \/ {pc, pc'} \subseteq {"write", "fill", "rename"}
      PROVE  FewUnrecorded'
  <2>1. Held' = Held /\ Unrecorded' = Unrecorded
    BY <1>3 DEF Held, Busy, Unrecorded
  <2> QED
    BY <1>3, <2>1 DEF FewUnrecorded
<1>4. CASE RenameTmp
  <2>1. /\ disk' = mem /\ pc = "rename" /\ pc' = "dispatch"
        /\ UNCHANGED <<batch, todo, worker, dryRun>>
    BY <1>4 DEF RenameTmp, TypeInv, SavedWhole
  <2>2. Held' = Held
    BY <2>1 DEF Held, Busy
  <2> SUFFICES ASSUME ~dryRun, NEW a \in Unrecorded' PROVE a \in Held
    BY <2>1, <2>2 DEF FewUnrecorded
  <2>3. a \in batch \ todo /\ mem[a] = "pending" /\ a \in Action
    BY <2>1 DEF Unrecorded, TypeInv, TypeOK
  <2>4. disk[a] = "pending"
    <3>1. PICK b \in batch \ (todo \cup Held), status \in {"deleted", "failed"} :
            mem = [disk EXCEPT ![b] = status]
      BY <2>1 DEF OneAhead
    <3> QED
      BY <2>3, <3>1 DEF Plan
  <2> QED
    BY <2>1, <2>3, <2>4 DEF FewUnrecorded, Unrecorded
<1>5. CASE SaveFails
  <2>1. /\ pc \in {"write", "fill", "rename"} /\ pc' = "drain"
        /\ UNCHANGED <<batch, todo, disk, dryRun>>
    BY <1>5 DEF SaveFails
  <2>2. Unrecorded' = Unrecorded
    BY <2>1 DEF Unrecorded
  <2>3. ~dryRun => Cardinality(Unrecorded) <= Cardinality(Worker)
    BY <2>1, InFlightBound, UnrecordedBound
  <2> QED
    BY <2>1, <2>2, <2>3 DEF FewUnrecorded
<1>6. ASSUME NEW w \in Worker, Hand(w) PROVE FewUnrecorded'
  <2>1. /\ pc = "send" /\ pc' = "dispatch" /\ UNCHANGED <<disk, dryRun, batch>>
        /\ todo' = todo \ {First(todo)} /\ Held' = Held \cup {First(todo)}
    BY <1>6, HandTakes DEF Hand
  <2>2. Unrecorded' \subseteq Unrecorded \cup {First(todo)}
    BY <2>1 DEF Unrecorded
  <2> QED
    BY <2>1, <2>2 DEF FewUnrecorded
<1>7. ASSUME NEW w \in Worker, Collect(w) PROVE FewUnrecorded'
  <2> DEFINE a == worker[w].action
  <2>1. /\ worker[w].at = "reply" /\ worker' = [worker EXCEPT ![w] = Idle]
        /\ pc = "dispatch" /\ pc' = (IF dryRun THEN "dispatch" ELSE "write")
        /\ inFlight' = inFlight - 1 /\ inFlight > 0
        /\ UNCHANGED <<disk, dryRun, todo, batch>>
    BY <1>7 DEF Collect, Becomes
  <2>2. Held' = Held \ {a}
    BY <2>1, HeldLoses
  <2>3. Unrecorded' = Unrecorded
    BY <2>1 DEF Unrecorded
  <2> SUFFICES ASSUME ~dryRun
               PROVE  inFlight' < Cardinality(Worker)
                      /\ \A b \in Unrecorded \ Held' : mem'[b] # "pending"
    BY <2>1, <2>3 DEF FewUnrecorded
  <2>4. inFlight' < Cardinality(Worker)
    <3>1. Cardinality(Worker) \in Nat /\ inFlight \in Nat
      BY PoolAssumption, FS_CardinalityType DEF TypeInv, TypeOK
    <3> QED
      BY <2>1, <3>1, InFlightBound
  <2>5. \E status \in {"deleted", "failed"} : mem' = [mem EXCEPT ![a] = status]
    BY <1>7 DEF Collect, Note
  <2>6. Unrecorded \ Held' \subseteq {a}
    BY <2>1, <2>2 DEF FewUnrecorded
  <2>7. a \in Action
    BY <2>1, IdleOrBusy DEF BusyState
  <2> HIDE DEF a
  <2>8. mem'[a] # "pending"
    BY <2>5, <2>7 DEF Plan
  <2> QED
    BY <2>4, <2>6, <2>8
<1>8. ASSUME NEW w \in Worker, Discard(w) PROVE FewUnrecorded'
  <2>1. pc = "drain" /\ UNCHANGED <<pc, disk, dryRun, todo, batch>>
    BY <1>8 DEF Discard
  <2>2. Unrecorded' = Unrecorded
    BY <2>1 DEF Unrecorded
  <2> QED
    BY <2>1, <2>2 DEF FewUnrecorded
<1>9. ASSUME NEW w \in Worker, WorkerStep(w) \/ RequestFails(w) PROVE FewUnrecorded'
  <2>1. OnlyVault(w) /\ worker[w] \in BusyState
    BY <1>9, WorkerFrame
  <2>2. PICK s \in BusyState : StaysBusy(w, s)
    BY <1>9, WorkerFrame
  <2>3. Held' = Held
    BY <2>1, <2>2, HeldChange DEF StaysBusy
  <2>4. Unrecorded' = Unrecorded
    BY <2>1 DEF Unrecorded, OnlyVault
  <2> QED
    BY <2>1, <2>3, <2>4 DEF OnlyVault, FewUnrecorded
<1>10. \/ \E dry \in DryRuns : Start(dry)
       \/ pc' = "off"
       \/ /\ UNCHANGED <<disk, mem, dryRun, batch, todo, worker, inFlight>>
          /\ \/ pc' = pc
             \/ {pc, pc'} \subseteq {"dispatch", "send"}
             \/ {pc, pc'} \subseteq {"write", "fill", "rename"}
       \/ RenameTmp \/ SaveFails
       \/ \E w \in Worker : Hand(w) \/ Collect(w) \/ Discard(w)
       \/ \E w \in Worker : WorkerStep(w) \/ RequestFails(w)
  BY DEF Next, DispatcherStep, Fault, Crash, Rewrite, Cancel, Dispatch, WriteTmp,
         FillTmp, Return, vars
<1> QED
  BY <1>1, <1>2, <1>3, <1>4, <1>5, <1>6, <1>7, <1>8, <1>9, <1>10

\* Requests of this run destroy only what it has handed out, and none in a dry run.
LEMMA Destroys ==
  ASSUME TypeInv, OnlyBatch, Exclusive, Counted, DryStays, [Next]_vars
  PROVE  destroyed' \subseteq destroyed \cup (IF dryRun \/ pc = "off" THEN {} ELSE batch \ todo)
<1> DEFINE Reached == {worker[w].action : w \in {v \in Worker : worker[v].at = "try"}}
<1>1. destroyed' \subseteq destroyed \cup Reached
  <2>1. CASE Crash
    BY <2>1 DEF Crash
  <2>2. ASSUME NEW w \in Worker, WorkerStep(w) \/ RequestFails(w)
        PROVE  destroyed' \subseteq destroyed \cup Reached
    <3>1. worker[w].at = "try" => worker[w].action \in Reached
      OBVIOUS
    <3> HIDE DEF Reached
    <3> QED
      BY <2>2, <3>1 DEF WorkerStep, RequestFails, Admit, Version, Delete, Interrupted, VersionFails,
             AttemptFails, Destroy, external
  <2>3. destroyed' = destroyed \/ Crash \/ \E w \in Worker : WorkerStep(w) \/ RequestFails(w)
    BY DEF Next, DispatcherStep, Fault, Start, Rewrite, Cancel, Dispatch, Hand, Collect,
           Discard, WriteTmp, FillTmp, RenameTmp, SaveFails, Return, vars, external
  <2> QED
    BY <2>1, <2>2, <2>3
<1>2. Reached # {} => ~dryRun /\ pc # "off"
  <2> SUFFICES ASSUME NEW w \in Worker, worker[w].at = "try" PROVE ~dryRun /\ pc # "off"
    OBVIOUS
  <2>1. w \in Busy
    BY DEF Busy
  <2>2. inFlight # 0
    BY <2>1, BusyFinite, FS_EmptySet DEF Counted
  <2> QED
    BY <2>2 DEF Counted, DryStays
<1>3. Reached \subseteq batch \ todo
  BY DEF OnlyBatch, Exclusive, Held, Busy
<1> QED
  BY <1>1, <1>2, <1>3

\* Two initial segments are one within the other.
LEMMA Nested ==
  ASSUME NEW S, NEW T, Initial(S), Initial(T), Left \subseteq Int
  PROVE  S \subseteq T \/ T \subseteq S
<1> SUFFICES ASSUME NEW x \in S \ T, NEW y \in T PROVE y \in S
  OBVIOUS
<1>1. x \in Left /\ y \in Left /\ x \in Int /\ y \in Int
  BY DEF Initial
<1>2. ~(x < y) /\ x # y
  BY <1>1 DEF Initial
<1>3. y < x
  BY <1>1, <1>2
<1> QED
  BY <1>1, <1>3 DEF Initial

LEMMA WindowStep ==
  WindowInv /\ [Next]_vars => Window'
<1> SUFFICES ASSUME WindowInv, [Next]_vars PROVE Window'
  OBVIOUS
<1> USE DEF WindowInv, RecordInv
<1>1. Left' \subseteq Left /\ Left \subseteq Int
  <2>1. Left \in SUBSET Action
    BY DEF Left, Eligible
  <2> QED
    BY <2>1, FileSteps, LeftShrinks, ActionFinite
<1>2. PICK S \in SUBSET Action :
        /\ Initial(S) /\ Cardinality(S) <= Cardinality(Worker) /\ destroyed \cap Left \subseteq S
  BY DEF Window
<1>3. PICK T \in SUBSET Action :
        /\ Initial(T) /\ Cardinality(T) <= Cardinality(Worker) /\ destroyed' \cap Left \subseteq T
  <2>1. CASE dryRun \/ pc = "off"
    <3>1. destroyed' \subseteq destroyed
      BY <2>1, Destroys
    <3> QED
      BY <1>2, <3>1
  <2>2. CASE ~dryRun /\ pc # "off"
    <3>1. destroyed' \cap Left \subseteq S \cup Unrecorded
      <4>1. destroyed' \subseteq destroyed \cup (batch \ todo)
        BY <2>2, Destroys
      <4> QED
        BY <1>2, <4>1 DEF Left, Unrecorded
    <3>2. Initial(Unrecorded)
      <4>1. Unrecorded \subseteq Left
        BY DEF Unrecorded, Left, OnlyBatch, Eligible
      <4>2. ASSUME NEW a \in Unrecorded, NEW b \in Left, b < a PROVE b \in Unrecorded
        <5>1. b \in batch /\ disk[b] = "pending"
          BY <2>2 DEF InOrder, Left
        <5>2. a \in Int /\ b \in Int /\ ~(a < b)
          BY <1>1, <4>1, <4>2
        <5> QED
          BY <5>1, <5>2 DEF InOrder, Unrecorded
      <4> QED
        BY <4>1, <4>2 DEF Initial
    <3>3. Cardinality(Unrecorded) <= Cardinality(Worker)
      BY <2>2, InFlightBound, UnrecordedBound
    <3>4. S \subseteq Unrecorded \/ Unrecorded \subseteq S
      BY <1>1, <1>2, <3>2, Nested
    <3>5. Unrecorded \in SUBSET Action
      BY DEF Unrecorded, TypeInv, TypeOK
    <3>6. CASE S \subseteq Unrecorded
      <4>1. destroyed' \cap Left \subseteq Unrecorded
        BY <3>1, <3>6
      <4> QED
        BY <3>2, <3>3, <3>5, <4>1
    <3>7. CASE Unrecorded \subseteq S
      <4>1. destroyed' \cap Left \subseteq S
        BY <3>1, <3>7
      <4> QED
        BY <1>2, <4>1
    <3> QED
      BY <3>4, <3>6, <3>7
  <2> QED
    BY <2>1, <2>2
<1>0. PICK U \in SUBSET Action : U = T \cap Left'
  OBVIOUS
<1>4. Initial(U)'
  <2>1. \A a \in U, b \in Left' : b < a => b \in U
    BY <1>0, <1>1, <1>3 DEF Initial
  <2> QED
    BY <1>0, <2>1 DEF Initial
<1>5. Cardinality(U) <= Cardinality(Worker)
  <2>1. IsFiniteSet(T)
    BY ActionFinite
  <2>2. Cardinality(U) <= Cardinality(T) /\ Cardinality(U) \in Nat /\ Cardinality(T) \in Nat
    BY <1>0, <2>1, FS_Subset, FS_CardinalityType
  <2>3. Cardinality(Worker) \in Nat
    BY PoolAssumption, FS_CardinalityType
  <2> QED
    BY <1>3, <2>2, <2>3
<1>6. (destroyed \cap Left)' \subseteq U
  BY <1>0, <1>1, <1>3
<1> QED
  BY <1>4, <1>5, <1>6 DEF Window

\* After any number of crashes, failed saves and re-runs, with any number of workers, at most as
\* many secrets are gone without a record as there are workers.
THEOREM CrashWindowHolds == Spec => []CrashWindow
<1>1. Init => InOrder /\ DryStays /\ FewUnrecorded /\ Window
  <2> SUFFICES ASSUME Init PROVE InOrder /\ DryStays /\ FewUnrecorded /\ Window
    OBVIOUS
  <2>1. Initial({}) /\ Cardinality({}) <= Cardinality(Worker) /\ destroyed = {}
    BY PoolAssumption, FS_EmptySet, FS_CardinalityType DEF Init, Initial
  <2> QED
    BY <2>1 DEF Init, InOrder, DryStays, FewUnrecorded, Window, Idle
<1>2. WindowInv /\ [Next]_vars => InOrder' /\ DryStays' /\ FewUnrecorded' /\ Window'
  BY InOrderStep, DryStaysStep, FewUnrecordedStep, WindowStep DEF WindowInv, RecordInv
<1>3. WindowInv => CrashWindow
  <2> SUFFICES ASSUME WindowInv
               PROVE  Cardinality({a \in destroyed : disk[a] = "pending"}) <= Cardinality(Worker)
    BY DEF CrashWindow
  <2>1. PICK S \in SUBSET Action :
          Cardinality(S) <= Cardinality(Worker) /\ destroyed \cap Left \subseteq S
    BY DEF WindowInv, Window
  <2>2. {a \in destroyed : disk[a] = "pending"} \subseteq S
    BY <2>1 DEF WindowInv, RecordInv, OnlyBatch, Left
  <2>3. IsFiniteSet(S)
    BY ActionFinite
  <2> DEFINE D == {a \in destroyed : disk[a] = "pending"}
  <2> HIDE DEF D
  <2>4. Cardinality(D) <= Cardinality(S) /\ Cardinality(D) \in Nat /\ Cardinality(S) \in Nat
    BY <2>2, <2>3, FS_Subset, FS_CardinalityType DEF D
  <2>5. Cardinality(Worker) \in Nat
    BY PoolAssumption, FS_CardinalityType
  <2> QED
    BY <2>1, <2>4, <2>5 DEF D
<1>4. RecordInv /\ Counted => TypeInv
  BY DEF RecordInv
<1> QED
  BY <1>1, <1>2, <1>3, <1>4, RecordInvHolds, InitCounted, CountedStep, PTL DEF Spec, WindowInv

-------------------------------------------------------------------------------
(* What a run reports. *)

\* The actions whose result the dispatcher has received.
Received == (batch \ todo) \ Held

\* The counters count the results received, and each of these is in memory.
Tallied ==
  /\ pc # "off" => outcome = "none"
  /\ stop => ctxErr \/ circuitErr
  /\ pc \notin {"off", "drain"} =>
       /\ progress.completed = Cardinality(Received)
       /\ ~dryRun => /\ \A a \in Received : mem[a] # "pending"
                     /\ progress.failed = Cardinality({a \in Received : mem[a] = "failed"})
  /\ pc = "off" => ReportIsComplete

\* Received in every state, however the counters change.
LEMMA ReceivedFinite ==
  ASSUME TypeInv, NEW S \in SUBSET Received
  PROVE  IsFiniteSet(S) /\ Cardinality(S) \in Nat
<1>1. S \in SUBSET Action
  BY DEF Received, TypeInv, TypeOK
<1> QED
  BY <1>1, ActionFinite, FS_CardinalityType

LEMMA TalliedStep ==
  RecordInv /\ Counted /\ Tallied /\ [Next]_vars => Tallied'
<1> SUFFICES ASSUME RecordInv, Counted, Tallied, [Next]_vars PROVE Tallied'
  OBVIOUS
<1> TypeInv /\ OnlyBatch /\ Exclusive /\ OneAhead
  BY DEF RecordInv
<1> worker \in [Worker -> WorkerState] /\ disk \in Plan /\ mem \in Plan
  BY DEF TypeInv, TypeOK, SavedWhole, PlanFile
<1> USE DEF external, files, locals, ResetLocals
<1>1. ASSUME NEW dry \in DryRuns, Start(dry) PROVE Tallied'
  <2>1. /\ batch' = Pending(disk) /\ todo' = Pending(disk) /\ mem' = disk /\ disk' = disk
        /\ progress' = [completed |-> 0, failed |-> 0] /\ stop' = FALSE
        /\ IF Pending(disk) = {} THEN pc' = "off" /\ outcome' = "nil"
                                 ELSE pc' = "dispatch" /\ outcome' = "none"
    BY <1>1 DEF Start
  <2>2. Received' = {} /\ (batch \ todo)' = {}
    BY <2>1 DEF Received
  <2>3. Cardinality({}) = 0
    BY FS_EmptySet
  <2>4. {a \in Received' : mem'[a] = "failed"} = {} /\ {a \in (batch \ todo)' : disk'[a] = "failed"} = {}
    BY <2>2
  <2>5. CASE Pending(disk) = {}
    <3>1. ReportIsComplete'
      BY <2>1, <2>2, <2>3, <2>4, <2>5 DEF ReportIsComplete
    <3> QED
      BY <2>1, <2>5, <3>1 DEF Tallied
  <2>6. CASE Pending(disk) # {}
    BY <2>1, <2>2, <2>3, <2>4, <2>6 DEF Tallied
  <2> QED
    BY <2>5, <2>6
<1>2. CASE Crash
  BY <1>2 DEF Crash, Tallied, ReportIsComplete
<1>3. ASSUME UNCHANGED <<mem, dryRun, batch, todo, worker, progress, outcome>>,
             pc # "off", pc' # "off", pc' # "drain" => pc # "drain",
             UNCHANGED <<stop, ctxErr, circuitErr>> \/ ctxErr' \/ circuitErr'
      PROVE  Tallied'
  <2>1. Received' = Received
    BY <1>3 DEF Received, Held, Busy
  <2> QED
    BY <1>3, <2>1 DEF Tallied
<1>4. ASSUME pc = "off", pc' = "off",
             UNCHANGED <<disk, mem, dryRun, batch, todo, progress, outcome, stop, ctxErr, circuitErr>>
      PROVE  Tallied'
  BY <1>4 DEF Tallied, ReportIsComplete
<1>5. ASSUME NEW w \in Worker, Hand(w) PROVE Tallied'
  <2> DEFINE f == First(todo)
  <2>1. f \in todo /\ todo' = todo \ {f} /\ Held' = Held \cup {f}
    BY <1>5, HandTakes
  <2> HIDE DEF f
  <2>2. /\ pc = "send" /\ pc' = "dispatch"
        /\ UNCHANGED <<mem, dryRun, batch, progress, outcome, stop, ctxErr, circuitErr>>
    BY <1>5 DEF Hand
  <2>3. Received' = Received
    BY <2>1, <2>2 DEF Received, Exclusive
  <2> QED
    BY <2>2, <2>3 DEF Tallied
<1>6. ASSUME NEW w \in Worker, Collect(w) PROVE Tallied'
  <2> DEFINE a == worker[w].action
             err == worker[w].err
  <2>1. /\ worker[w].at = "reply" /\ worker' = [worker EXCEPT ![w] = Idle]
        /\ pc = "dispatch" /\ pc' \in {"dispatch", "write"}
        /\ UNCHANGED <<dryRun, todo, batch, outcome>>
    BY <1>6 DEF Collect, Becomes
  <2>2. Held' = Held \ {a} /\ a \in Held /\ a \in batch \ todo
    BY <2>1, HeldLoses
  <2>3. Received' = Received \cup {a} /\ a \notin Received
    BY <2>1, <2>2 DEF Received
  <2>4. /\ progress' = [completed |-> progress.completed + 1,
                        failed    |-> progress.failed + (IF err = "none" THEN 0 ELSE 1)]
        /\ ~dryRun => mem' = [mem EXCEPT ![a] = IF err = "none" THEN "deleted" ELSE "failed"]
    BY <1>6 DEF Collect, Note
  <2>5. stop' => ctxErr' \/ circuitErr'
    <3>1. /\ ctxErr' = (ctxErr \/ err = "ctx")
          /\ circuitErr' = (circuitErr \/ breaker'.open)
          /\ stop' = (stop \/ err = "ctx" \/ breaker'.open)
      BY <1>6 DEF Collect, Note
    <3> QED
      BY <3>1 DEF Tallied
  <2>6. a \in Action /\ Received \subseteq Action
    BY <2>1, IdleOrBusy DEF BusyState, Received, TypeInv, TypeOK
  <2>7. progress.completed \in Nat /\ progress.failed \in Nat
    BY DEF TypeInv, TypeOK
  <2> DEFINE F == {b \in Received : mem[b] = "failed"}
  <2>8. IsFiniteSet(Received) /\ IsFiniteSet(F)
    BY ReceivedFinite
  <2> HIDE DEF a, err
  <2>9. progress'.completed = Cardinality(Received')
    <3>1. Cardinality(Received \cup {a}) = Cardinality(Received) + 1
      BY <2>3, <2>8, FS_AddElement
    <3> QED
      BY <2>1, <2>3, <2>4, <3>1 DEF Tallied
  <2>10. ~dryRun => \A b \in Received' : mem'[b] # "pending"
    <3> SUFFICES ASSUME ~dryRun, NEW b \in Received' PROVE mem'[b] # "pending"
      OBVIOUS
    <3>1. CASE b = a
      BY <2>4, <2>6, <3>1 DEF Plan
    <3>2. CASE b \in Received
      BY <2>1, <2>3, <2>4, <2>6, <3>2 DEF Plan, Tallied
    <3> QED
      BY <2>3, <3>1, <3>2
  <2>11. ~dryRun => progress'.failed = Cardinality({b \in Received' : mem'[b] = "failed"})
    <3> SUFFICES ASSUME ~dryRun
                 PROVE  progress'.failed = Cardinality({b \in Received' : mem'[b] = "failed"})
      OBVIOUS
    <3>1. progress.failed = Cardinality(F)
      BY <2>1 DEF Tallied
    <3>2. \A b \in Received : mem'[b] = mem[b]
      BY <2>3, <2>4, <2>6 DEF Plan
    <3>3. CASE err = "none"
      <4>1. mem'[a] = "deleted" /\ progress'.failed = progress.failed
        BY <2>4, <2>6, <2>7, <3>3 DEF Plan
      <4>2. {b \in Received' : mem'[b] = "failed"} = F
        BY <2>3, <3>2, <4>1
      <4> QED
        BY <3>1, <4>1, <4>2
    <3>4. CASE err # "none"
      <4>1. mem'[a] = "failed" /\ progress'.failed = progress.failed + 1
        BY <2>4, <2>6, <2>7, <3>4 DEF Plan
      <4>2. {b \in Received' : mem'[b] = "failed"} = F \cup {a} /\ a \notin F
        BY <2>3, <3>2, <4>1
      <4>3. Cardinality(F \cup {a}) = Cardinality(F) + 1
        <5> HIDE DEF F
        <5> QED
          BY <2>8, <4>2, FS_AddElement
      <4> QED
        BY <3>1, <4>1, <4>2, <4>3
    <3> QED
      BY <3>3, <3>4
  <2>12. outcome' = "none"
    BY <2>1 DEF Tallied
  <2> QED
    BY <2>1, <2>5, <2>9, <2>10, <2>11, <2>12 DEF Tallied
<1>7. CASE Return
  <2>1. /\ inFlight = 0 /\ pc' = "off"
        /\ UNCHANGED <<disk, mem, dryRun, batch, todo, progress, stop, ctxErr, circuitErr>>
        /\ \/ pc = "drain" /\ outcome' = "save"
           \/ pc = "dispatch" /\ ~CanDispatch /\ outcome' = (CASE ctxErr -> "ctx"
                        [] ~ctxErr /\ circuitErr -> "circuit"
                        [] OTHER -> "nil")
    BY <1>7 DEF Return
  <2>2. CASE pc = "drain"
    BY <2>1, <2>2 DEF Tallied, ReportIsComplete
  <2>3. CASE pc = "dispatch"
    <3>1. Received = batch \ todo
      <4>1. Busy = {}
        BY <2>1, BusyFinite, FS_EmptySet DEF Counted
      <4> QED
        BY <4>1 DEF Received, Held
    <3>2. outcome' = "nil" => todo = {}
      <4>1. 0 < Cardinality(Worker)
        <5>1. Cardinality(Worker) \in Nat /\ Cardinality(Worker) # 0
          BY PoolAssumption, FS_EmptySet, FS_CardinalityType
        <5> QED
          BY <5>1
      <4>2. outcome' = "nil" => ~ctxErr /\ ~circuitErr
        BY <2>1, <2>3
      <4> QED
        BY <2>1, <2>3, <4>1, <4>2 DEF CanDispatch, Tallied
    <3>3. ~dryRun => mem = disk
      BY <2>3 DEF OneAhead
    <3>4. ReportIsComplete'
      BY <2>1, <2>3, <3>1, <3>2, <3>3 DEF ReportIsComplete, Tallied
    <3> QED
      BY <2>1, <3>4 DEF Tallied
  <2> QED
    BY <2>1, <2>2, <2>3
<1>8. ASSUME NEW w \in Worker, Discard(w) PROVE Tallied'
  BY <1>8 DEF Discard, Tallied
<1>9. ASSUME NEW w \in Worker, WorkerStep(w) \/ RequestFails(w) PROVE Tallied'
  <2>1. OnlyVault(w) /\ worker[w] \in BusyState
    BY <1>9, WorkerFrame
  <2>2. PICK s \in BusyState : StaysBusy(w, s)
    BY <1>9, WorkerFrame
  <2>3. Held' = Held
    BY <2>1, <2>2, HeldChange DEF StaysBusy
  <2>4. Received' = Received
    BY <2>1, <2>3 DEF Received, OnlyVault
  <2>5. pc # "off"
    <3>1. Busy # {}
      BY <2>1, BusyChange
    <3> QED
      BY <3>1, BusyFinite, FS_EmptySet DEF Counted
  <2> QED
    BY <2>1, <2>4, <2>5 DEF OnlyVault, Tallied
<1>10. \/ \E dry \in DryRuns : Start(dry)
       \/ Crash
       \/ /\ UNCHANGED <<mem, dryRun, batch, todo, worker, progress, outcome>>
          /\ pc # "off" /\ pc' # "off" /\ (pc' # "drain" => pc # "drain")
          /\ UNCHANGED <<stop, ctxErr, circuitErr>> \/ ctxErr' \/ circuitErr'
       \/ /\ pc = "off" /\ pc' = "off"
          /\ UNCHANGED <<disk, mem, dryRun, batch, todo, progress, outcome, stop, ctxErr, circuitErr>>
       \/ Return
       \/ \E w \in Worker : Hand(w) \/ Collect(w) \/ Discard(w)
       \/ \E w \in Worker : WorkerStep(w) \/ RequestFails(w)
  BY DEF Next, DispatcherStep, Fault, Rewrite, Cancel, Dispatch, WriteTmp, FillTmp,
         RenameTmp, SaveFails, vars
<1> QED
  BY <1>1, <1>2, <1>3, <1>4, <1>5, <1>6, <1>7, <1>8, <1>9, <1>10

\* A run that ends by itself has counted, and in a real run recorded in the file, a result for
\* every action it handed out, whatever happened on the way and in the runs before.
THEOREM ReportComplete == Spec => []ReportIsComplete
<1>1. Init => Tallied
  BY DEF Init, Tallied, ReportIsComplete
<1>2. Tallied => ReportIsComplete
  BY DEF Tallied, ReportIsComplete
<1>3. RecordInv => TypeInv
  BY DEF RecordInv
<1> QED
  BY <1>1, <1>2, <1>3, RecordInvHolds, InitCounted, CountedStep, TalliedStep, PTL DEF Spec

-------------------------------------------------------------------------------
(* A dry run. *)

DryNeverSaves == dryRun => pc \notin {"write", "fill", "rename"}

LEMMA DryNeverSavesStep == DryNeverSaves /\ [Next]_vars => DryNeverSaves'
<1> SUFFICES ASSUME DryNeverSaves, [Next]_vars PROVE DryNeverSaves'
  OBVIOUS
<1> USE DEF DryNeverSaves
<1>1. CASE Fault \/ \E w \in Worker : WorkerStep(w)
  BY <1>1 DEF Fault, Cancel, Crash, SaveFails, RequestFails, WorkerStep, Admit, Version, Delete,
              Interrupted, VersionFails, AttemptFails
<1>2. CASE DispatcherStep
  BY <1>2 DEF DispatcherStep, Dispatch, Hand, Collect, Discard, WriteTmp, FillTmp, RenameTmp, Return
<1>3. CASE \E dry \in DryRuns : Start(dry)
  BY <1>3 DEF Start
<1>4. CASE (\E a \in Rewritable : Rewrite(a)) \/ UNCHANGED vars
  BY <1>4 DEF Rewrite, vars
<1> QED
  BY <1>1, <1>2, <1>3, <1>4 DEF Next

\* A dry run removes nothing from Vault, also when the process dies in it, and writes no file.
THEOREM DryRunHarmless == Spec => DryRunTouchesNothing
<1>1. Init => DryStays /\ DryNeverSaves
  BY DEF Init, DryStays, DryNeverSaves, Idle
<1>2. DryStays /\ DryNeverSaves /\ [Next]_vars => [dryRun => UNCHANGED <<destroyed, disk, tmp>>]_vars
  <2> SUFFICES ASSUME DryStays, DryNeverSaves, Next, dryRun
               PROVE  UNCHANGED <<destroyed, disk, tmp>>
    OBVIOUS
  <2> USE DEF external, files
  <2>1. \A w \in Worker : worker[w].at \notin {"version", "try"}
    BY DEF DryStays
  <2>2. CASE Crash
    <3>1. {worker[w].action : w \in {v \in Worker : worker[v].at = "try"}} = {}
      BY <2>1
    <3> QED
      BY <2>2, <3>1 DEF Crash
  <2>3. ASSUME NEW w \in Worker, WorkerStep(w) \/ RequestFails(w)
        PROVE  UNCHANGED <<destroyed, disk, tmp>>
    BY <2>1, <2>3 DEF WorkerStep, RequestFails, Admit, Version, Delete, Interrupted,
                      VersionFails, AttemptFails
  <2>4. CASE DispatcherStep
    BY <2>4 DEF DispatcherStep, Dispatch, Hand, Collect, Discard, WriteTmp, FillTmp, RenameTmp,
                Return, DryNeverSaves
  <2>5. CASE Cancel \/ SaveFails \/ (\E dry \in DryRuns : Start(dry)) \/ (\E a \in Rewritable : Rewrite(a))
    BY <2>5 DEF Cancel, SaveFails, Start, Rewrite
  <2> QED
    BY <2>2, <2>3, <2>4, <2>5 DEF Next, Fault
<1> QED
  BY <1>1, <1>2, InitType, NextType, DryStaysStep, DryNeverSavesStep, PTL
  DEF Spec, DryRunTouchesNothing

-------------------------------------------------------------------------------
(* A run is bounded. *)

\* The steps ahead of a worker are limited by its attempts.
LEMMA AheadType ==
  ASSUME NEW s \in WorkerState
  PROVE  Ahead(s) \in 0..(MaxAttempts + 6) /\ Ahead(Idle) = 0
<1>1. CASE s = Idle
  BY <1>1, PoolAssumption DEF Ahead, Idle
<1>2. CASE s \in BusyState
  <2>1. s.at \in {"admit", "version", "try", "reply"} /\ s.attempt \in 0..MaxAttempts
    BY <1>2 DEF BusyState
  <2> QED
    BY <2>1, PoolAssumption DEF Ahead, Idle
<1> QED
  BY <1>1, <1>2 DEF WorkerState

\* The steps ahead of all workers are counted worker by worker.
LEMMA AheadChange ==
  ASSUME worker \in [Worker -> WorkerState], NEW w \in Worker, NEW s \in WorkerState,
         worker' = [worker EXCEPT ![w] = s]
  PROVE  /\ Cardinality(AllAhead) \in Nat /\ Cardinality(AllAhead') \in Nat
         /\ Cardinality(AllAhead') + Ahead(worker[w]) = Cardinality(AllAhead) + Ahead(s)
<1> DEFINE K == MaxAttempts + 6
           All == Worker \X (1..K)
           Others == {x \in All : x[1] # w /\ x[2] <= Ahead(worker[x[1]])}
           Own(n) == {w} \X (1..n)
<1>1. K \in Nat /\ Ahead(worker[w]) \in 0..K /\ Ahead(s) \in 0..K
  BY AheadType, PoolAssumption
<1>2. IsFiniteSet(All) /\ IsFiniteSet(Others)
  <2>1. IsFiniteSet(1..K)
    BY <1>1, FS_Interval
  <2>2. IsFiniteSet(All)
    BY <2>1, PoolAssumption, FS_Product
  <2>3. Others \subseteq All
    OBVIOUS
  <2> QED
    BY <2>2, <2>3, FS_Subset
<1>3. AllAhead = Others \cup Own(Ahead(worker[w]))
  BY <1>1 DEF AllAhead
<1>4. AllAhead' = Others \cup Own(Ahead(s))
  <2>1. \A v \in Worker : worker'[v] = IF v = w THEN s ELSE worker[v]
    OBVIOUS
  <2>2. AllAhead' = {x \in All : x[2] <= Ahead(worker'[x[1]])}
    BY DEF AllAhead, Ahead
  <2>3. \A x \in All : x[1] = w => worker'[x[1]] = s
    BY <2>1
  <2>4. \A x \in All : x[1] # w => worker'[x[1]] = worker[x[1]]
    BY <2>1
  <2> HIDE DEF K
  <2> QED
    BY <1>1, <2>2, <2>3, <2>4
<1>5. ASSUME NEW n \in 0..K
      PROVE  /\ Cardinality(Others \cup Own(n)) = Cardinality(Others) + n
             /\ Cardinality(Others) \in Nat
  <2>1. IsFiniteSet(Own(n)) /\ Cardinality(Own(n)) = n
    <3>1. IsFiniteSet(1..n) /\ Cardinality(1..n) = n
      BY <1>1, FS_Interval
    <3>2. IsFiniteSet({w}) /\ Cardinality({w}) = 1
      BY FS_Singleton
    <3>3. IsFiniteSet(Own(n)) /\ Cardinality(Own(n)) = Cardinality({w}) * Cardinality(1..n)
      BY <3>1, <3>2, FS_Product
    <3> QED
      BY <3>1, <3>2, <3>3
  <2>2. Others \cap Own(n) = {}
    OBVIOUS
  <2>3. Cardinality(Others \cup Own(n)) = Cardinality(Others) + Cardinality(Own(n)) - Cardinality({})
    BY <1>2, <2>1, <2>2, FS_Union
  <2>4. Cardinality({}) = 0 /\ Cardinality(Others) \in Nat
    BY <1>2, FS_EmptySet, FS_CardinalityType
  <2> HIDE DEF Own, Others
  <2> QED
    BY <2>1, <2>3, <2>4
<1> HIDE DEF K, Others, Own
<1>6. /\ Cardinality(AllAhead) = Cardinality(Others) + Ahead(worker[w])
      /\ Cardinality(AllAhead') = Cardinality(Others) + Ahead(s)
      /\ Cardinality(Others) \in Nat
  BY <1>1, <1>3, <1>4, <1>5
<1> QED
  BY <1>1, <1>6

\* Each step of a worker takes it forward.
LEMMA AheadLess ==
  ASSUME worker \in [Worker -> WorkerState], NEW w \in Worker,
         WorkerStep(w) \/ RequestFails(w)
  PROVE  \E s \in WorkerState : /\ worker' = [worker EXCEPT ![w] = s]
                                /\ Ahead(s) < Ahead(worker[w])
<1> DEFINE s0 == worker[w]
           Nearer(s) == s \in WorkerState /\ Ahead(s) < Ahead(s0)
<1>1. s0 \in BusyState /\ s0.attempt \in 0..MaxAttempts /\ MaxAttempts \in Nat \ {0}
  BY WorkerFrame, PoolAssumption DEF BusyState
<1>2. s0.at \in {"admit", "version", "try"}
  BY DEF WorkerStep, RequestFails, Admit, Version, Delete, Interrupted, VersionFails,
         AttemptFails
<1>3. ASSUME NEW err \in Errors PROVE Nearer([s0 EXCEPT !.at = "reply", !.err = err])
  <2> DEFINE s == [s0 EXCEPT !.at = "reply", !.err = err]
  <2>1. s \in BusyState /\ s.at = "reply"
    BY <1>1, BusyType DEF BusyState
  <2> QED
    BY <1>1, <1>2, <2>1 DEF WorkerState, Ahead
<1>4. ASSUME s0.at = "admit" PROVE Nearer([s0 EXCEPT !.at = "version"])
  <2> DEFINE s == [s0 EXCEPT !.at = "version"]
  <2>1. s \in BusyState /\ s.at = "version"
    BY <1>1, BusyType DEF BusyState
  <2> QED
    BY <1>1, <1>4, <2>1 DEF WorkerState, Ahead
<1>5. ASSUME s0.at = "version" PROVE Nearer([s0 EXCEPT !.at = "try", !.attempt = 1])
  <2> DEFINE s == [s0 EXCEPT !.at = "try", !.attempt = 1]
  <2>1. s \in BusyState /\ s.at = "try" /\ s.attempt = 1
    BY <1>1, BusyType DEF BusyState
  <2> QED
    BY <1>1, <1>5, <2>1 DEF WorkerState, Ahead
<1>6. ASSUME s0.at = "try", s0.attempt # MaxAttempts
      PROVE  Nearer([s0 EXCEPT !.attempt = @ + 1])
  <2> DEFINE s == [s0 EXCEPT !.attempt = @ + 1]
  <2>1. s \in BusyState /\ s.at = "try" /\ s.attempt = s0.attempt + 1
    BY <1>1, <1>6, BusyType DEF BusyState
  <2> QED
    BY <1>1, <1>6, <2>1 DEF WorkerState, Ahead
<1>7. \/ \E err \in Errors : worker' = [worker EXCEPT ![w] = [s0 EXCEPT !.at = "reply", !.err = err]]
      \/ s0.at = "admit" /\ worker' = [worker EXCEPT ![w] = [s0 EXCEPT !.at = "version"]]
      \/ s0.at = "version" /\ worker' = [worker EXCEPT ![w] = [s0 EXCEPT !.at = "try", !.attempt = 1]]
      \/ /\ s0.at = "try" /\ s0.attempt # MaxAttempts
         /\ worker' = [worker EXCEPT ![w] = [s0 EXCEPT !.attempt = @ + 1]]
  <2> USE DEF Reply, Becomes, Retry, Errors
  <2>1. CASE Admit(w)
    BY <2>1 DEF Admit
  <2>2. CASE Version(w)
    BY <2>2 DEF Version
  <2>3. CASE Delete(w) \/ Interrupted(w)
    BY <2>3 DEF Delete, Interrupted
  <2>4. CASE RequestFails(w)
    BY <2>4 DEF RequestFails, VersionFails, AttemptFails
  <2> QED
    BY <2>1, <2>2, <2>3, <2>4 DEF WorkerStep
<1> QED
  BY <1>3, <1>4, <1>5, <1>6, <1>7

\* The parts of the bound are numbers.
LEMMA PartsType ==
  ASSUME TypeInv
  PROVE  /\ Cardinality(todo) \in Nat /\ IsFiniteSet(todo)
         /\ Cardinality(AllAhead) \in Nat
         /\ Position \in 0..7 /\ (pc # "off" => Position >= 1)
         /\ (MaxAttempts + 8) * Cardinality(todo) \in Nat
<1>1. IsFiniteSet(todo) /\ Cardinality(todo) \in Nat
  <2>1. todo \in SUBSET Action
    BY DEF TypeInv, TypeOK
  <2> QED
    BY <2>1, ActionFinite, FS_CardinalityType
<1>2. Cardinality(AllAhead) \in Nat
  <2> PICK w \in Worker : TRUE
    BY PoolAssumption
  <2>1. IsFiniteSet(1..(MaxAttempts + 6))
    BY PoolAssumption, FS_Interval
  <2>2. IsFiniteSet(Worker \X (1..(MaxAttempts + 6)))
    BY <2>1, PoolAssumption, FS_Product
  <2>3. AllAhead \subseteq Worker \X (1..(MaxAttempts + 6))
    BY DEF AllAhead
  <2> QED
    BY <2>2, <2>3, FS_Subset, FS_CardinalityType
<1>3. Position \in 0..7 /\ (pc # "off" => Position >= 1)
  BY DEF TypeInv, TypeOK, Position
<1>4. (MaxAttempts + 8) * Cardinality(todo) \in Nat
  <2>1. MaxAttempts + 8 \in Nat
    BY PoolAssumption
  <2> QED
    BY <1>1, <2>1
<1> QED
  BY <1>1, <1>2, <1>3, <1>4

\* A job handed out is one factor less.
LEMMA OneFactorLess ==
  ASSUME NEW k \in Nat, NEW n \in Nat
  PROVE  k * (n + 1) = k * n + k
OBVIOUS

\* Every step of a run brings it nearer to its end.
LEMMA BoundStep ==
  ASSUME TypeInv, TypeInv', Counted, Next, pc # "off", ~\E a \in Rewritable : Rewrite(a)
  PROVE  StepsLeft' < StepsLeft
<1> DEFINE J == (MaxAttempts + 8) * Cardinality(todo)
<1>0. /\ J \in Nat /\ Cardinality(AllAhead) \in Nat /\ Position \in 1..7
      /\ StepsLeft = J + Cardinality(AllAhead) + Position
  BY PartsType DEF StepsLeft
<1>1. /\ J' \in Nat /\ Cardinality(AllAhead') \in Nat /\ Position' \in 0..7
      /\ pc' # "off" => StepsLeft' = J' + Cardinality(AllAhead') + Position'
  <2>1. /\ Cardinality(todo') \in Nat /\ Cardinality(AllAhead') \in Nat
    <3>1. todo' \in SUBSET Action
      BY DEF TypeInv, TypeOK
    <3>2. IsFiniteSet(Worker \X (1..(MaxAttempts + 6)))
      <4>1. IsFiniteSet(1..(MaxAttempts + 6))
        BY PoolAssumption, FS_Interval
      <4> QED
        BY <4>1, PoolAssumption, FS_Product
    <3>3. AllAhead' \subseteq Worker \X (1..(MaxAttempts + 6))
      BY DEF AllAhead
    <3> QED
      BY <3>1, <3>2, <3>3, ActionFinite, FS_Subset, FS_CardinalityType
  <2>2. Position' \in 0..7
    BY DEF TypeInv, TypeOK, Position
  <2>3. MaxAttempts + 8 \in Nat
    BY PoolAssumption
  <2> QED
    BY <2>1, <2>2, <2>3 DEF StepsLeft
<1> worker \in [Worker -> WorkerState]
  BY DEF TypeInv, TypeOK
<1> USE DEF external, files, locals, ResetLocals
<1>2. ASSUME pc' = "off" PROVE StepsLeft' < StepsLeft
  BY <1>0, <1>2 DEF StepsLeft
<1>3. ASSUME UNCHANGED <<todo, worker>>, pc' # "off", Position' < Position
      PROVE  StepsLeft' < StepsLeft
  <2>1. J' = J /\ AllAhead' = AllAhead
    BY <1>3 DEF AllAhead, Ahead
  <2> HIDE DEF J
  <2> QED
    BY <1>0, <1>1, <1>3, <2>1
<1>4. ASSUME NEW w \in Worker, NEW s \in WorkerState, worker' = [worker EXCEPT ![w] = s],
             todo' = todo, pc' # "off",
             Ahead(s) + Position' < Ahead(worker[w]) + Position
      PROVE  StepsLeft' < StepsLeft
  <2>1. J' = J
    BY <1>4
  <2>2. Cardinality(AllAhead') + Ahead(worker[w]) = Cardinality(AllAhead) + Ahead(s)
    BY <1>4, AheadChange
  <2>3. Ahead(s) \in Nat /\ Ahead(worker[w]) \in Nat
    BY AheadType, PoolAssumption
  <2> HIDE DEF J
  <2> QED
    BY <1>0, <1>1, <1>4, <2>1, <2>2, <2>3
<1>5. ASSUME NEW w \in Worker, Hand(w) PROVE StepsLeft' < StepsLeft
  <2> DEFINE f == First(todo)
  <2>1. /\ f \in todo /\ todo' = todo \ {f}
        /\ \E s \in BusyState : worker' = [worker EXCEPT ![w] = s] /\ s.at = "admit"
    BY <1>5, HandTakes
  <2>2. PICK s \in BusyState : worker' = [worker EXCEPT ![w] = s] /\ s.at = "admit"
    BY <2>1
  <2> HIDE DEF f
  <2>3. /\ worker[w] = Idle /\ pc = "send" /\ pc' = "dispatch"
        /\ UNCHANGED <<stop, cancelled>>
    BY <1>5, IdleOrBusy DEF Hand
  <2>4. s \in WorkerState /\ Ahead(s) = MaxAttempts + 6 /\ Ahead(worker[w]) = 0
    BY <2>2, <2>3, AheadType DEF WorkerState, Ahead
  <2>5. Cardinality(AllAhead') + Ahead(worker[w]) = Cardinality(AllAhead) + Ahead(s)
    BY <2>2, <2>4, AheadChange
  <2>6. J = J' + MaxAttempts + 8
    <3>1. Cardinality(todo') = Cardinality(todo) - 1 /\ Cardinality(todo') \in Nat /\ Cardinality(todo) \in Nat
      <4>1. IsFiniteSet(todo)
        BY PartsType
      <4>2. Cardinality(todo \ {f}) = Cardinality(todo) - 1 /\ IsFiniteSet(todo \ {f})
        BY <2>1, <4>1, FS_RemoveElement
      <4> QED
        BY <2>1, <4>1, <4>2, FS_CardinalityType
    <3> DEFINE n == Cardinality(todo')
               k == MaxAttempts + 8
    <3>2. Cardinality(todo) = n + 1
      BY <3>1
    <3>3. k * (n + 1) = k * n + k
      <4>1. k \in Nat /\ n \in Nat
        BY <3>1, PoolAssumption
      <4> HIDE DEF k, n
      <4> QED
        BY <4>1, OneFactorLess
    <3>4. J = k * (n + 1) /\ J' = k * n
      BY <3>2
    <3> HIDE DEF J
    <3> QED
      BY <1>1, <3>3, <3>4, PoolAssumption
  <2>7. Position' = Position + 1
    BY <2>3 DEF Position, TypeInv, TypeOK
  <2> HIDE DEF J
  <2> QED
    BY <1>0, <1>1, <2>3, <2>4, <2>5, <2>6, <2>7, PoolAssumption
<1>6. ASSUME NEW w \in Worker, Collect(w) PROVE StepsLeft' < StepsLeft
  <2>1. /\ worker' = [worker EXCEPT ![w] = Idle] /\ worker[w].at = "reply"
        /\ pc = "dispatch" /\ pc' \in {"dispatch", "write"}
        /\ UNCHANGED <<todo, cancelled>> /\ (stop => stop')
    BY <1>6 DEF Collect, Note, Becomes
  <2>2. Idle \in WorkerState /\ Ahead(Idle) = 0 /\ Ahead(worker[w]) = 4
    BY <2>1, PoolAssumption DEF WorkerState, Ahead, Idle
  <2>3. Position' <= Position + 3 /\ pc' # "off"
    BY <2>1 DEF Position, TypeInv, TypeOK
  <2>4. 0 + Position' < 4 + Position
    <3>1. Position \in Int /\ Position' \in Int
      BY <1>0, <1>1
    <3>2. ASSUME NEW p \in Int, NEW q \in Int, q <= p + 3 PROVE 0 + q < 4 + p
      BY <3>2
    <3> QED
      BY <2>3, <3>1, <3>2
  <2>5. Ahead(Idle) + Position' < Ahead(worker[w]) + Position
    BY <2>2, <2>4, Zenon
  <2> QED
    BY <1>4, <2>1, <2>2, <2>3, <2>5
<1>7. ASSUME NEW w \in Worker, Discard(w) PROVE StepsLeft' < StepsLeft
  <2>1. /\ worker' = [worker EXCEPT ![w] = Idle] /\ worker[w].at = "reply"
        /\ UNCHANGED <<todo, pc, cancelled, stop>>
    BY <1>7 DEF Discard, Becomes
  <2>2. Idle \in WorkerState /\ Ahead(Idle) = 0 /\ Ahead(worker[w]) = 4
    BY <2>1, PoolAssumption DEF WorkerState, Ahead, Idle
  <2>3. Position' = Position /\ pc' # "off"
    BY <2>1 DEF Position
  <2>4. Ahead(Idle) + Position' < Ahead(worker[w]) + Position
    BY <1>0, <2>2, <2>3
  <2> QED
    BY <1>4, <2>1, <2>2, <2>3, <2>4
<1>8. ASSUME NEW w \in Worker, WorkerStep(w) \/ RequestFails(w) PROVE StepsLeft' < StepsLeft
  <2>1. UNCHANGED <<todo, pc, cancelled, stop>>
    BY <1>8, WorkerFrame DEF OnlyVault
  <2>2. PICK s \in WorkerState : worker' = [worker EXCEPT ![w] = s] /\ Ahead(s) < Ahead(worker[w])
    BY <1>8, AheadLess
  <2>3. Position' = Position /\ pc' # "off"
    BY <2>1 DEF Position
  <2>4. Ahead(s) \in Nat /\ Ahead(worker[w]) \in Nat
    BY AheadType, PoolAssumption
  <2>5. Ahead(s) + Position' < Ahead(worker[w]) + Position
    BY <1>0, <2>2, <2>3, <2>4
  <2> QED
    BY <1>4, <2>1, <2>2, <2>3, <2>5
<1>9. CASE Cancel \/ Dispatch
  <2>1. UNCHANGED <<todo, worker>> /\ pc' # "off"
    BY <1>9 DEF Cancel, Dispatch
  <2>2. Position' < Position
    BY <1>9 DEF Cancel, Dispatch, CanDispatch, Position, TypeInv, TypeOK
  <2> QED
    BY <1>3, <2>1, <2>2
<1>10. CASE WriteTmp \/ FillTmp \/ RenameTmp \/ SaveFails
  BY <1>3, <1>10 DEF WriteTmp, FillTmp, RenameTmp, SaveFails, Position
<1>11. CASE Crash \/ Return
  BY <1>2, <1>11 DEF Crash, Return
<1> QED
  BY <1>5, <1>6, <1>7, <1>8, <1>9, <1>10, <1>11 DEF Next, DispatcherStep, Fault, Start

\* Whatever fails, is retried or interrupted, and however the goroutines are scheduled, a run
\* takes no more steps than StepsLeft says at its start.
THEOREM BoundedRun == Spec => [](StepsLeft \in Nat) /\ RunIsBounded
<1>1. TypeInv => StepsLeft \in Nat
  BY PartsType DEF StepsLeft
<1>2. ASSUME NEW a \in Rewritable, Rewrite(a) PROVE StepsLeft' = StepsLeft
  BY <1>2 DEF Rewrite, locals, StepsLeft, AllAhead, Ahead, Position
<1>3. TypeInv /\ Counted /\ TypeInv' /\ [Next]_vars
        => [pc # "off" => \/ StepsLeft' < StepsLeft
                          \/ StepsLeft' = StepsLeft /\ \E a \in Rewritable : Rewrite(a)]_vars
  BY <1>2, BoundStep
<1> QED
  BY <1>1, <1>3, InitType, NextType, InitCounted, CountedStep, PTL DEF Spec, RunIsBounded

\* The guards of the dispatcher and of a busy worker, but for what the context and the
\* network decide: with either outcome there is a step to take.
DispatcherReady ==
  \/ pc = "dispatch" /\ CanDispatch
  \/ pc = "send" /\ \E w \in Worker : worker[w].at = "idle"
  \/ pc \in {"dispatch", "drain"} /\ (inFlight = 0 \/ \E w \in Worker : worker[w].at = "reply")
  \/ pc \in {"write", "fill", "rename"}
WorkerReady(w) == worker[w].at \in {"admit", "version", "try"}

\* In no state of a run is everyone waiting for someone else, and who can move still can when
\* others have moved.  With BoundedRun this leaves of Terminates only the scheduling: that
\* a goroutine which can run does.
NeverStuck == pc # "off" => DispatcherReady \/ \E w \in Worker : WorkerReady(w)
StaysReady ==
  [][/\ DispatcherReady => \/ DispatcherReady' \/ pc' = "off"
                           \/ DispatcherStep \/ SaveFails
     /\ \A w \in Worker : WorkerReady(w) => \/ WorkerReady(w)' \/ pc' = "off"
                                            \/ WorkerStep(w) \/ RequestFails(w)]_vars

\* A run can always go on, whatever has failed in it and whoever has stopped.
THEOREM RunGoesOn == Spec => []NeverStuck /\ StaysReady
<1>1. TypeInv /\ Counted => NeverStuck
  <2> SUFFICES ASSUME TypeInv, Counted, pc # "off", \A w \in Worker : ~WorkerReady(w)
               PROVE  DispatcherReady
    BY DEF NeverStuck
  <2>1. pc \in {"dispatch", "send", "write", "fill", "rename", "drain"} /\ inFlight \in Nat
    BY DEF TypeInv, TypeOK
  <2>2. CASE pc = "send"
    <3>1. Busy # Worker
      <4>1. Cardinality(Busy) < Cardinality(Worker) /\ Cardinality(Worker) \in Nat
        BY <2>2, PoolAssumption, FS_CardinalityType DEF Counted
      <4> QED
        BY <4>1
    <3> QED
      BY <2>2, <3>1 DEF Busy, DispatcherReady
  <2>3. CASE inFlight # 0
    <3>1. Busy # {}
      BY <2>3, FS_EmptySet DEF Counted
    <3>2. PICK w \in Worker : worker[w].at # "idle"
      BY <3>1 DEF Busy
    <3>3. worker[w].at = "reply"
      BY <3>2, IdleOrBusy DEF WorkerReady, BusyState, TypeInv, TypeOK
    <3> QED
      BY <2>1, <2>2, <3>3 DEF DispatcherReady
  <2> QED
    BY <2>1, <2>2, <2>3 DEF DispatcherReady
<1>2. TypeInv /\ Counted /\ Counted' /\ [Next]_vars =>
        [/\ DispatcherReady => \/ DispatcherReady' \/ pc' = "off"
                               \/ DispatcherStep \/ SaveFails
         /\ \A w \in Worker : WorkerReady(w) => \/ WorkerReady(w)' \/ pc' = "off"
                                                \/ WorkerStep(w) \/ RequestFails(w)]_vars
  <2> SUFFICES ASSUME TypeInv, Counted, Counted', Next, pc' # "off"
               PROVE  /\ DispatcherReady => DispatcherReady' \/ DispatcherStep \/ SaveFails
                      /\ \A w \in Worker : WorkerReady(w) => \/ WorkerReady(w)'
                                                             \/ WorkerStep(w) \/ RequestFails(w)
    OBVIOUS
  <2> worker \in [Worker -> WorkerState]
    BY DEF TypeInv, TypeOK
  <2> USE DEF external, files, locals, ResetLocals, DispatcherReady, WorkerReady
  <2>1. CASE Cancel \/ \E a \in Rewritable : Rewrite(a)
    BY <2>1 DEF Cancel, Rewrite, CanDispatch
  <2>2. CASE \E dry \in DryRuns : Start(dry)
    <3>1. Busy = {}
      BY <2>2, BusyFinite, FS_EmptySet DEF Start, Counted
    <3>2. \A w \in Worker : worker[w].at = "idle"
      BY <3>1 DEF Busy
    <3> QED
      BY <2>2, <3>2 DEF Start
  <2>3. CASE DispatcherStep \/ SaveFails
    <3> SUFFICES ASSUME NEW w \in Worker, WorkerReady(w)
                 PROVE  WorkerReady(w)'
      BY <2>3
    <3>1. CASE \E v \in Worker : Hand(v) \/ Collect(v) \/ Discard(v)
      BY <3>1 DEF Hand, Collect, Discard, Becomes
    <3>2. CASE ~\E v \in Worker : Hand(v) \/ Collect(v) \/ Discard(v)
      BY <2>3, <3>2 DEF DispatcherStep, Dispatch, WriteTmp, FillTmp, RenameTmp, Return, SaveFails
    <3> QED
      BY <3>1, <3>2
  <2>4. ASSUME NEW w \in Worker, WorkerStep(w) \/ RequestFails(w)
        PROVE  /\ DispatcherReady => DispatcherReady'
               /\ \A v \in Worker : v # w /\ WorkerReady(v) => WorkerReady(v)'
    <3>1. OnlyVault(w) /\ worker[w] \in BusyState
      BY <2>4, WorkerFrame
    <3>2. PICK s \in BusyState : worker' = [worker EXCEPT ![w] = s]
      BY <2>4, WorkerFrame DEF StaysBusy
    <3>3. \A v \in Worker : v # w => worker'[v] = worker[v]
      BY <3>2
    <3>4. worker[w].at \in {"admit", "version", "try"}
      BY <2>4 DEF WorkerStep, RequestFails, Admit, Version, Delete, Interrupted, VersionFails,
                  AttemptFails
    <3> QED
      BY <3>1, <3>3, <3>4 DEF OnlyVault, CanDispatch
  <2>5. CASE Crash
    BY <2>5 DEF Crash
  <2> QED
    BY <2>1, <2>2, <2>3, <2>4, <2>5 DEF Next, Fault
<1> QED
  BY <1>1, <1>2, InitType, NextType, InitCounted, CountedStep, PTL DEF Spec, StaysReady

================================================================================
