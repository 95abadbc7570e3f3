---------------------------- MODULE DiscoveryProofs ----------------------------
(* Theorems about Discovery, for every Vault, pool size and tree of folders. *)
EXTENDS Discovery, FiniteSetTheorems, FunctionTheorems, SequenceTheorems, TLAPS

-------------------------------------------------------------------------------
(* Paths. *)

Above(folder, path) == Len(folder) < Len(path) /\ SubSeq(path, 1, Len(folder)) = folder

\* The key of a path in the listing of a folder above it is one name longer than the folder.
LEMMA ChildType ==
  ASSUME NEW f \in Path, NEW p \in Path, Len(f) < Len(p)
  PROVE  /\ Child(f, p) \in Path /\ Len(Child(f, p)) = Len(f) + 1
         /\ \A i \in 1..Len(f) : Child(f, p)[i] = f[i]
         /\ Child(f, p)[Len(f) + 1] = Trimmed[p[Len(f) + 1]]
<1>1. Len(f) \in Nat /\ Len(p) \in Nat /\ Len(f) + 1 \in 1..Len(p)
  BY LenProperties DEF Path
<1>2. p[Len(f) + 1] \in Name
  BY <1>1, ElementOfSeq DEF Path
<1>3. Trimmed[p[Len(f) + 1]] \in Name
  BY <1>2, VaultAssumption DEF Name
<1> QED
  BY <1>1, <1>3, AppendProperties DEF Child, Path

\* What the names of a prefix are.
LEMMA Prefix ==
  ASSUME NEW p \in Path, NEW n \in 0..Len(p)
  PROVE  /\ SubSeq(p, 1, n) \in Path /\ Len(SubSeq(p, 1, n)) = n
         /\ \A i \in 1..n : SubSeq(p, 1, n)[i] = p[i]
<1>1. Len(p) \in Nat /\ n \in Int /\ 1 \in Int
  BY LenProperties DEF Path
<1>2. \A i \in 1..n : p[i] \in Name
  BY <1>1, ElementOfSeq DEF Path
<1> QED
  BY <1>1, <1>2, SubSeqProperties DEF Path

\* Below a folder, a plain path is that of its key, or its key is a folder above it.
LEMMA ChildAbove ==
  ASSUME NEW f \in Path, NEW p \in Path, Above(f, p), Plain(p)
  PROVE  /\ Len(p) = Len(f) + 1 => Child(f, p) = p
         /\ Len(p) > Len(f) + 1 => Above(Child(f, p), p)
<1> DEFINE c == Child(f, p)
<1>1. Len(f) \in Nat /\ Len(p) \in Nat /\ Len(f) < Len(p) /\ DOMAIN p = 1..Len(p)
  BY LenProperties DEF Path, Above
<1>2. c \in Path /\ Len(c) = Len(f) + 1
  BY <1>1, ChildType
<1>3. \A i \in 1..Len(f) + 1 : c[i] = p[i]
  <2> TAKE i \in 1..Len(f) + 1
  <2>1. CASE i <= Len(f)
    <3>1. i \in 1..Len(f)
      BY <1>1, <2>1
    <3>2. SubSeq(p, 1, Len(f))[i] = p[i]
      BY <1>1, <3>1, Prefix
    <3> QED
      BY <1>1, <3>1, <3>2, ChildType DEF Above
  <2>2. CASE i = Len(f) + 1
    <3>1. c[i] = Trimmed[p[i]]
      BY <1>1, <2>2, ChildType
    <3>2. i \in DOMAIN p
      BY <1>1, <2>2
    <3> QED
      BY <3>1, <3>2 DEF Plain
  <2> QED
    BY <1>1, <2>1, <2>2
<1>4. Len(p) = Len(f) + 1 => c = p
  BY <1>1, <1>2, <1>3, SeqEqual DEF Path
<1>5. ASSUME Len(p) > Len(f) + 1 PROVE Above(c, p)
  <2>1. Len(f) + 1 \in 0..Len(p)
    BY <1>1, <1>5
  <2>2. /\ SubSeq(p, 1, Len(c)) \in Path /\ Len(SubSeq(p, 1, Len(c))) = Len(c)
        /\ \A i \in 1..Len(c) : SubSeq(p, 1, Len(c))[i] = p[i]
    BY <1>2, <2>1, Prefix
  <2>3. SubSeq(p, 1, Len(c)) = c
    BY <1>1, <1>2, <1>3, <2>2, SeqEqual DEF Path
  <2> QED
    BY <1>2, <1>5, <2>3 DEF Above
<1> QED
  BY <1>4, <1>5

\* What lies beneath a normal folder has a normal key, and a secret's key is its normal path.
LEMMA ChildNormal ==
  ASSUME NEW f \in Path, NEW p \in Path, Above(f, p), Normal(f) = f
  PROVE  /\ Normal(Child(f, p)) = Child(f, p)
         /\ Len(p) = Len(f) + 1 => Normal(p) = Child(f, p)
<1> DEFINE c == Child(f, p)
<1>1. /\ Len(f) \in Nat /\ Len(p) \in Nat /\ Len(f) < Len(p)
      /\ DOMAIN p = 1..Len(p) /\ DOMAIN f = 1..Len(f)
      /\ \A i \in 1..Len(p) : p[i] \in Name
  BY LenProperties, ElementOfSeq DEF Path, Above
<1>2. /\ c \in Path /\ Len(c) = Len(f) + 1 /\ DOMAIN c = 1..Len(f) + 1
      /\ \A i \in 1..Len(f) : c[i] = f[i]
      /\ c[Len(f) + 1] = Trimmed[p[Len(f) + 1]]
  BY <1>1, ChildType, LenProperties DEF Path
<1>3. \A i \in 1..Len(f) : Trimmed[f[i]] = f[i] /\ p[i] = f[i]
  <2> TAKE i \in 1..Len(f)
  <2>1. Normal(f)[i] = Trimmed[f[i]]
    BY <1>1 DEF Normal
  <2>2. SubSeq(p, 1, Len(f))[i] = p[i]
    BY <1>1, Prefix
  <2> QED
    BY <2>1, <2>2 DEF Above
<1>4. \A i \in 1..Len(f) + 1 : Trimmed[c[i]] = c[i]
  <2> TAKE i \in 1..Len(f) + 1
  <2>1. CASE i \in 1..Len(f)
    BY <1>2, <1>3, <2>1
  <2>2. CASE i = Len(f) + 1
    <3>1. p[i] \in Name
      BY <1>1, <2>2
    <3> QED
      BY <1>2, <2>2, <3>1, VaultAssumption
  <2> QED
    BY <1>1, <2>1, <2>2
<1>5. c = [i \in 1..Len(f) + 1 |-> c[i]]
  BY <1>1, <1>2, LenProperties DEF Path
<1>6. Normal(c) = c
  BY <1>2, <1>4, <1>5 DEF Normal
<1>7. ASSUME Len(p) = Len(f) + 1 PROVE Normal(p) = c
  <2>1. \A i \in 1..Len(f) + 1 : Trimmed[p[i]] = c[i]
    <3> TAKE i \in 1..Len(f) + 1
    <3>1. CASE i \in 1..Len(f)
      BY <1>2, <1>3, <3>1
    <3>2. CASE i = Len(f) + 1
      BY <1>2, <3>2
    <3> QED
      BY <1>1, <3>1, <3>2
  <2> QED
    BY <1>1, <1>5, <1>7, <2>1 DEF Normal
<1> QED
  BY <1>6, <1>7

-------------------------------------------------------------------------------
(* Types. *)

\* The parts of TypeOK.  The walks find finitely many secrets, so that they can be counted.
OthersTyped ==
  /\ present \subseteq ever /\ ever \subseteq Stored /\ cancelled \in BOOLEAN
  /\ stage \in {"list", "namespaces", "mounts", "end"}
  /\ namespacePaths \subseteq Namespace /\ mountJobs \subseteq Walkable
  /\ stage = "list" => namespacePaths = {}
  /\ unsent \subseteq Jobs
  /\ outcome \in {"none", "ok", "failed"}
ResultsTyped == \A r \in results : r \in [job : Jobs, ok : BOOLEAN, found : SUBSET Item]
ReportTyped ==
  /\ inventory \in [namespaces : SUBSET namespacePaths, mounts : SUBSET mountJobs,
                    secrets : SUBSET (Mount \X Path)]
  /\ errors \in [namespaces : SUBSET namespacePaths, mounts : SUBSET mountJobs,
                 paths : SUBSET (Mount \X Path)]
  /\ progress \in [namespaces : Nat, mounts : Nat, secrets : Nat]
WorkersTyped ==
  /\ worker \in [Worker -> WorkerState]
  /\ \A w \in Worker : worker[w].at \in {"busy", "offer"} => worker[w].job \in Jobs
  /\ \A w \in Worker : IsFiniteSet(worker[w].found)

TypeInv == OthersTyped /\ WorkersTyped /\ ResultsTyped /\ ReportTyped

LEMMA Typed == TypeInv => TypeOK
  BY DEF TypeInv, TypeOK, OthersTyped, WorkersTyped, ResultsTyped, ReportTyped

LEMMA WorkerChange ==
  ASSUME WorkersTyped, UNCHANGED <<stage, jobs>>, NEW w \in Worker, NEW s \in WorkerState,
         s.at \in {"busy", "offer"} => s.job \in Jobs, IsFiniteSet(s.found), Becomes(w, s)
  PROVE  WorkersTyped'
  BY DEF WorkersTyped, Becomes, WorkerState, Item, Jobs, jobs

\* A pool that starts has idle workers, who hold nothing.
LEMMA PoolStarts ==
  ASSUME NEW s, NEW S, StartPool(s, S)
  PROVE  WorkersTyped' /\ results' = {} /\ unsent' = S /\ stage' = s
         /\ \A w \in Worker : worker'[w].found = {} /\ worker'[w].at = "idle"
<1>1. Root \in Namespace /\ IsFiniteSet({})
  BY VaultAssumption, FS_EmptySet
<1> QED
  BY <1>1 DEF StartPool, WorkersTyped, WorkerState, Waiting

\* The secrets shown by a listing are paths, finitely many.
LEMMA ListingType ==
  ASSUME present \subseteq Stored, NEW m \in Mount, NEW v, NEW f \in Path
  PROVE  LET shown == Beneath(m, v, f)
         IN  /\ shown \subseteq Path /\ \A p \in shown : Above(f, p) /\ <<m, p>> \in present
             /\ Leaves(shown, f) \subseteq Path /\ IsFiniteSet(Leaves(shown, f))
             /\ Folders(shown, f) \subseteq Path
<1> DEFINE shown == Beneath(m, v, f)
           key == [t \in present |-> Child(f, t[2])]
<1>1. \A t \in present : t = <<t[1], t[2]>> /\ t[2] \in Path
  <2>1. Stored \subseteq Mount \X (Path \ {<<>>})
    BY VaultAssumption
  <2> QED
    BY <2>1
<1>2. \A p \in shown : /\ p \in Path /\ <<m, p>> \in present
                       /\ Len(p) > Len(f) /\ SubSeq(p, 1, Len(f)) = f
  <2> TAKE p \in shown
  <2>1. PICK t \in present : t[1] = m /\ t[2] = p
    BY DEF Beneath
  <2>2. Len(p) > Len(f) /\ SubSeq(p, 1, Len(f)) = f
    BY DEF Beneath
  <2> QED
    BY <1>1, <2>1, <2>2
<1>3. \A p \in shown : Above(f, p) /\ Child(f, p) \in Path
  <2> TAKE p \in shown
  <2>1. p \in Path /\ Len(p) \in Nat /\ Len(f) \in Nat /\ Len(f) < Len(p)
    BY <1>2, LenProperties DEF Path
  <2> QED
    BY <1>2, <2>1, ChildType DEF Above
<1>4. IsFiniteSet(Leaves(shown, f))
  <2>1. IsFiniteSet(present)
    BY FS_Subset, VaultAssumption
  <2>2. key \in Surjection(present, Range(key))
    <3> DEFINE T == {Child(f, t[2]) : t \in present}
    <3>1. key \in [present -> T]
      OBVIOUS
    <3> HIDE DEF key, T
    <3> QED
      BY <3>1, Fun_RangeProperties
  <2>3. IsFiniteSet(Range(key))
    BY <2>1, <2>2, FS_Surjection
  <2>4. Leaves(shown, f) \subseteq Range(key)
    <3> SUFFICES ASSUME NEW p \in shown PROVE Child(f, p) \in Range(key)
      BY DEF Leaves
    <3>1. <<m, p>> \in present /\ key[<<m, p>>] = Child(f, p)
      BY <1>2
    <3> QED
      BY <3>1 DEF Range
  <2> QED
    BY <2>3, <2>4, FS_Subset
<1> QED
  BY <1>2, <1>3, <1>4 DEF Leaves, Folders

LEMMA InitType == Init => TypeInv
<1> SUFFICES ASSUME Init PROVE TypeInv
  OBVIOUS
<1>1. Root \in Namespace /\ IsFiniteSet({}) /\ ever = present /\ present \subseteq Stored
  BY VaultAssumption, FS_EmptySet DEF Init
<1>2. WorkersTyped
  BY <1>1 DEF Init, WorkersTyped, WorkerState, Gone, Waiting
<1> QED
  BY <1>1, <1>2 DEF Init, TypeInv, OthersTyped, ResultsTyped, ReportTyped, Jobs

\* A worker's own step.
LEMMA WorkerType ==
  ASSUME TypeInv, NEW w \in Worker, WorkerStep(w)
  PROVE  TypeInv'
<1> USE DEF TypeInv
<1>1. OthersTyped /\ WorkersTyped /\ ResultsTyped /\ ReportTyped
  OBVIOUS
<1>2. /\ worker[w] \in WorkerState /\ IsFiniteSet(worker[w].found)
      /\ worker[w].at \in {"busy", "offer"} => worker[w].job \in Jobs
  BY <1>1 DEF WorkersTyped
<1>3. Root \in Namespace /\ IsFiniteSet({})
  BY VaultAssumption, FS_EmptySet
<1>4. ASSUME NEW ok \in BOOLEAN, NEW S \in SUBSET Item, IsFiniteSet(S),
             worker[w].at = "busy", Offer(w, ok, S), UNCHANGED <<stage, jobs>>
      PROVE  WorkersTyped'
  <2> DEFINE s == [worker[w] EXCEPT !.at = "offer", !.todo = {}, !.found = S, !.ok = ok]
  <2>1. s \in WorkerState /\ IsFiniteSet(s.found) /\ s.job \in Jobs
    BY <1>2, <1>4 DEF WorkerState
  <2> QED
    BY <1>1, <1>4, <2>1, WorkerChange DEF Offer
<1>5. CASE ListMounts(w)
  <2>1. KVMounts(worker[w].job) \in SUBSET Walkable /\ Item = Walkable
    BY <1>5 DEF KVMounts, Walkable, ListMounts, Item
  <2>2. IsFiniteSet(KVMounts(worker[w].job))
    BY FS_Subset, VaultAssumption DEF KVMounts
  <2>3. WorkersTyped'
    BY <1>3, <1>4, <1>5, <2>1, <2>2 DEF ListMounts
  <2> QED
    BY <1>1, <1>5, <2>3 DEF ListMounts, OthersTyped, ResultsTyped, ReportTyped, vault, jobs,
                           report, Jobs, Item
<1>6. ASSUME NEW f \in worker[w].todo, ListFolder(w, f) PROVE TypeInv'
  <2> DEFINE m == worker[w].job
             shown == Beneath(m, getKVVersion(m), f)
  <2>1. f \in Path /\ m \in Mount /\ m \in mountJobs /\ Item = Path
    BY <1>1, <1>2, <1>6 DEF ListFolder, WorkerState, OthersTyped, Jobs, Item, Walkable
  <2>2. /\ Leaves(shown, f) \subseteq Path /\ IsFiniteSet(Leaves(shown, f))
        /\ Folders(shown, f) \subseteq Path
    BY <1>1, <2>1, ListingType DEF OthersTyped
  <2>3. UNCHANGED <<stage, jobs, unsent, results, vault, cancelled, outcome>>
        /\ UNCHANGED <<inventory, progress>>
    BY <1>6 DEF ListFolder
  <2>4. WorkersTyped'
    <3>1. CASE Offer(w, FALSE, {})
      BY <1>3, <1>4, <1>6, <2>3, <3>1 DEF ListFolder
    <3>2. ASSUME NEW T \in SUBSET Path, NEW S \in SUBSET Path, IsFiniteSet(S),
                 Becomes(w, [worker[w] EXCEPT !.todo = T, !.found = S])
          PROVE  WorkersTyped'
      <4> DEFINE s == [worker[w] EXCEPT !.todo = T, !.found = S]
      <4>1. s \in WorkerState /\ IsFiniteSet(s.found)
            /\ (s.at \in {"busy", "offer"} => s.job \in Jobs)
        BY <1>2, <2>1, <3>2 DEF WorkerState
      <4> QED
        BY <1>1, <2>3, <3>2, <4>1, WorkerChange
    <3>3. CASE Becomes(w, [worker[w] EXCEPT !.todo = (@ \ {f}) \cup Folders(shown, f),
                                            !.found = @ \cup Leaves(shown, f)])
      <4> DEFINE T == (worker[w].todo \ {f}) \cup Folders(shown, f)
                 S == worker[w].found \cup Leaves(shown, f)
      <4>1. T \in SUBSET Path /\ S \in SUBSET Path
        BY <1>2, <2>1, <2>2 DEF WorkerState
      <4>2. IsFiniteSet(S)
        BY <1>2, <2>2, FS_Union
      <4> HIDE DEF shown
      <4> QED
        BY <3>2, <3>3, <4>1, <4>2
    <3>4. CASE Becomes(w, [worker[w] EXCEPT !.todo = @ \ {f}])
      <4>1. [worker[w] EXCEPT !.todo = @ \ {f}]
              = [worker[w] EXCEPT !.todo = worker[w].todo \ {f}, !.found = worker[w].found]
        BY <1>2 DEF WorkerState
      <4>2. worker[w].todo \ {f} \in SUBSET Path /\ worker[w].found \in SUBSET Path
        BY <1>2, <2>1 DEF WorkerState
      <4> QED
        BY <1>2, <3>2, <3>4, <4>1, <4>2
    <3> QED
      BY <1>6, <3>1, <3>3, <3>4 DEF ListFolder
  <2>5. ReportTyped'
    <3>1. errors' = errors \/ errors' = [errors EXCEPT !.paths = @ \cup {<<m, f>>}]
      BY <1>6 DEF ListFolder
    <3>2. <<m, f>> \in Mount \X Path
      BY <2>1
    <3> QED
      BY <1>1, <2>3, <3>1, <3>2 DEF ReportTyped, jobs
  <2> QED
    BY <1>1, <2>3, <2>4, <2>5 DEF OthersTyped, ResultsTyped, vault, jobs, Jobs, Item
<1>7. CASE FinishWalk(w)
  <2>1. worker[w].found \in SUBSET Item /\ Cardinality(worker[w].found) \in Nat
    BY <1>2, FS_CardinalityType DEF WorkerState
  <2>2. WorkersTyped'
    BY <1>2, <1>4, <1>7, <2>1 DEF FinishWalk
  <2>3. ReportTyped'
    BY <1>1, <1>7, <2>1 DEF FinishWalk, ReportTyped, jobs
  <2> QED
    BY <1>1, <1>7, <2>2, <2>3 DEF FinishWalk, OthersTyped, ResultsTyped, vault, jobs, Jobs, Item
<1>8. CASE Send(w)
  <2>1. WorkersTyped'
    BY <1>1, <1>3, <1>8, WorkerChange DEF Send, Waiting, WorkerState
  <2>2. ResultsTyped'
    BY <1>1, <1>2, <1>8 DEF Send, ResultsTyped, WorkerState, jobs, Jobs, Item
  <2> QED
    BY <1>1, <1>8, <2>1, <2>2 DEF Send, OthersTyped, ReportTyped, vault, jobs, report, Jobs
<1>9. CASE Leave(w)
  <2>1. WorkersTyped'
    BY <1>1, <1>3, <1>9, WorkerChange DEF Leave, Gone, Waiting, WorkerState
  <2> QED
    BY <1>1, <1>9, <2>1 DEF Leave, OthersTyped, ResultsTyped, ReportTyped, vault, jobs,
                           report, Jobs, Item
<1> QED
  BY <1>5, <1>6, <1>7, <1>8, <1>9 DEF WorkerStep

\* A step of the main goroutine.
LEMMA MainType ==
  ASSUME TypeInv, Main
  PROVE  TypeInv'
<1> USE DEF TypeInv
<1>1. OthersTyped /\ WorkersTyped /\ ResultsTyped /\ ReportTyped
  OBVIOUS
<1>2. Root \in Namespace /\ IsFiniteSet({})
  BY VaultAssumption, FS_EmptySet
<1>3. CASE ListNamespaces
  <2>1. CASE cancelled
    <3>1. /\ UNCHANGED <<namespacePaths, mountJobs, unsent, worker, results, vault, cancelled,
                         report>>
          /\ stage = "list" /\ stage' = "end" /\ outcome' = "failed"
      BY <1>3, <2>1 DEF ListNamespaces, pool
    <3> QED
      BY <1>1, <3>1 DEF OthersTyped, WorkersTyped, ResultsTyped, ReportTyped, WorkerState,
                       vault, report, Jobs, Item
  <2>2. CASE ~cancelled
    <3>1. /\ namespacePaths' \subseteq Namespace /\ namespacePaths = namespacePaths
          /\ StartPool("namespaces", namespacePaths')
          /\ UNCHANGED <<vault, cancelled, mountJobs, report, outcome>>
      BY <1>2, <1>3, <2>2 DEF ListNamespaces, Children
    <3>2. WorkersTyped' /\ results' = {} /\ unsent' = namespacePaths' /\ stage' = "namespaces"
      BY <3>1, PoolStarts
    <3>3. namespacePaths \subseteq namespacePaths'
      BY <1>1, <1>3 DEF ListNamespaces, OthersTyped
    <3> QED
      BY <1>1, <3>1, <3>2, <3>3 DEF OthersTyped, ResultsTyped, ReportTyped, vault, report, Jobs
  <2> QED
    BY <2>1, <2>2
<1>4. ASSUME NEW w \in Worker, NEW job \in unsent, Hand(w, job) PROVE TypeInv'
  <2> DEFINE T == IF stage = "mounts" THEN {<<>>} ELSE {}
             s == [Waiting EXCEPT !.at = "busy", !.job = job, !.todo = T]
  <2>1. job \in Jobs /\ Jobs \subseteq Namespace \cup Mount /\ T \subseteq Path
    <3>1. <<>> \in Path
      BY EmptySeq DEF Path
    <3> QED
      BY <1>1, <3>1 DEF OthersTyped, Jobs, Walkable
  <2>2. s \in WorkerState /\ IsFiniteSet(s.found) /\ s.job \in Jobs
    BY <1>2, <2>1 DEF WorkerState, Waiting
  <2>3. WorkersTyped'
    BY <1>1, <1>4, <2>2, WorkerChange DEF Hand
  <2> QED
    BY <1>1, <1>4, <2>3 DEF Hand, OthersTyped, ResultsTyped, ReportTyped, vault, jobs, report,
                           Jobs, Item
<1>5. ASSUME NEW r \in results, Collect(r) PROVE TypeInv'
  <2>1. /\ r \in [job : Jobs, ok : BOOLEAN, found : SUBSET Item]
        /\ results' \subseteq results
        /\ UNCHANGED <<present, ever, cancelled, stage, namespacePaths, unsent, worker, outcome>>
        /\ unsent = {}
    BY <1>1, <1>5 DEF Collect, ResultsTyped, vault
  <2>2. CASE stage = "namespaces"
    <3>1. r.job \in namespacePaths /\ r.found \subseteq Walkable
      BY <2>1, <2>2 DEF Jobs, Item
    <3>2. NoteNamespace(r)
      BY <1>5, <2>2 DEF Collect
    <3>3. mountJobs \subseteq mountJobs' /\ mountJobs' \subseteq Walkable
      BY <1>1, <3>1, <3>2 DEF NoteNamespace, OthersTyped
    <3>4. ReportTyped'
      BY <1>1, <2>1, <3>1, <3>2, <3>3 DEF NoteNamespace, ReportTyped
    <3> QED
      BY <1>1, <2>1, <2>2, <3>3, <3>4 DEF OthersTyped, WorkersTyped, ResultsTyped, WorkerState,
                                         Jobs, Item
  <2>3. CASE stage # "namespaces"
    <3>1. r.job \in mountJobs /\ r.job \in Mount /\ r.found \subseteq Path
      BY <1>1, <2>1, <2>3 DEF Jobs, Item, OthersTyped, Walkable
    <3>2. NoteMount(r)
      BY <1>5, <2>3 DEF Collect
    <3> DEFINE S == {<<r.job, p>> : p \in r.found}
    <3>3. S \subseteq Mount \X Path
      BY <3>1
    <3>4. /\ mountJobs' = mountJobs
          /\ \/ /\ inventory' = [inventory EXCEPT !.mounts = @ \cup {r.job},
                                                  !.secrets = @ \cup S]
                /\ progress' = [progress EXCEPT !.mounts = @ + 1] /\ errors' = errors
             \/ /\ errors' = [errors EXCEPT !.mounts = @ \cup {r.job}]
                /\ inventory' = inventory /\ progress' = progress
      BY <3>2 DEF NoteMount
    <3> HIDE DEF S
    <3>5. inventory' \in [namespaces : SUBSET namespacePaths, mounts : SUBSET mountJobs,
                          secrets : SUBSET (Mount \X Path)]
      <4>1. inventory \in [namespaces : SUBSET namespacePaths, mounts : SUBSET mountJobs,
                           secrets : SUBSET (Mount \X Path)]
        BY <1>1 DEF ReportTyped
      <4>2. inventory.mounts \cup {r.job} \in SUBSET mountJobs
        BY <3>1, <4>1
      <4>3. inventory.secrets \cup S \in SUBSET (Mount \X Path)
        BY <3>3, <4>1
      <4> QED
        BY <3>4, <4>1, <4>2, <4>3
    <3>6. /\ errors' \in [namespaces : SUBSET namespacePaths, mounts : SUBSET mountJobs,
                           paths : SUBSET (Mount \X Path)]
          /\ progress' \in [namespaces : Nat, mounts : Nat, secrets : Nat]
      BY <1>1, <3>1, <3>4 DEF ReportTyped
    <3>7. ReportTyped'
      BY <2>1, <3>4, <3>5, <3>6 DEF ReportTyped
    <3> QED
      BY <1>1, <2>1, <2>3, <3>4, <3>7 DEF OthersTyped, WorkersTyped, ResultsTyped, WorkerState,
                                         Jobs, Item
  <2> QED
    BY <2>2, <2>3
<1>6. CASE EndNamespaces
  <2>1. /\ StartPool("mounts", mountJobs)
        /\ UNCHANGED <<present, ever, cancelled, namespacePaths, mountJobs, inventory, errors,
                       progress, outcome>>
    BY <1>6 DEF EndNamespaces, vault, jobs, report
  <2>2. WorkersTyped' /\ results' = {} /\ unsent' = mountJobs /\ stage' = "mounts"
    BY <2>1, PoolStarts
  <2> QED
    BY <1>1, <2>1, <2>2 DEF OthersTyped, ResultsTyped, ReportTyped, Jobs
<1>7. CASE EndMounts
  <2>1. /\ stage = "mounts" /\ stage' = "end" /\ outcome' = "ok"
        /\ UNCHANGED <<present, ever, cancelled, namespacePaths, mountJobs, inventory, errors,
                       progress, unsent, worker, results>>
    BY <1>7 DEF EndMounts, vault, jobs, report, pool
  <2> QED
    BY <1>1, <2>1 DEF OthersTyped, WorkersTyped, ResultsTyped, ReportTyped, WorkerState, Jobs,
                     Item
<1> QED
  BY <1>3, <1>4, <1>5, <1>6, <1>7 DEF Main

\* The owners of the secrets and the operator change nothing of the run.
Outside == Cancel \/ Owners \/ UNCHANGED vars

LEMMA OutsideFrame ==
  ASSUME TypeInv, Outside
  PROVE  /\ UNCHANGED <<stage, jobs, pool, report, outcome>>
         /\ ever \subseteq ever' /\ present' \subseteq ever' /\ ever' \subseteq Stored
         /\ present' \ Volatile \subseteq present \ Volatile /\ cancelled' \in BOOLEAN
<1>1. Volatile \subseteq Stored /\ present \subseteq ever /\ ever \subseteq Stored
      /\ cancelled \in BOOLEAN
  BY VaultAssumption DEF TypeInv, OthersTyped
<1>2. CASE Cancel \/ UNCHANGED vars
  BY <1>1, <1>2 DEF Cancel, vars, vault
<1>3. CASE Owners
  <2>1. PICK s \in Volatile : Create(s) \/ Remove(s)
    BY <1>3 DEF Owners
  <2> QED
    BY <1>1, <2>1 DEF Create, Remove
<1> QED
  BY <1>2, <1>3 DEF Outside

LEMMA Steps == [Next]_vars <=> Main \/ Outside \/ \E w \in Worker : WorkerStep(w)
  BY DEF Next, Outside

LEMMA NextType == TypeInv /\ [Next]_vars => TypeInv'
<1> SUFFICES ASSUME TypeInv, [Next]_vars PROVE TypeInv'
  OBVIOUS
<1>1. CASE Outside
  BY <1>1, OutsideFrame DEF TypeInv, OthersTyped, WorkersTyped, ResultsTyped, ReportTyped,
                            WorkerState, Jobs, Item, jobs, pool, report
<1> QED
  BY <1>1, MainType, WorkerType, Steps

\* Every variable keeps its type, and the pools work on their own jobs only.
THEOREM TypeCorrect == Spec => []TypeOK
<1>1. Spec => []TypeInv
  BY InitType, NextType, PTL DEF Spec
<1> QED
  BY <1>1, Typed, PTL

-------------------------------------------------------------------------------
(* The inventory is true: so is every finding on its way to it. *)

Held(m, p) == \E t \in ever : t[1] = m /\ Normal(t[2]) = p

FoundTrue(job, found) ==
  IF stage = "namespaces" THEN found \subseteq KVMounts(job) ELSE \A p \in found : Held(job, p)

Answering(w) == worker[w].at \in {"busy", "offer"}

WorkersTrue ==
  \A w \in Worker : /\ Answering(w) => FoundTrue(worker[w].job, worker[w].found)
                    /\ worker[w].at = "busy" => \A f \in worker[w].todo : Normal(f) = f
ResultsTrue == \A r \in results : FoundTrue(r.job, r.found)
MountsTrue == \A m \in mountJobs : isKVMount(m) /\ NamespaceOf[m] \in inventory.namespaces
SecretsTrue == \A s \in inventory.secrets : s[1] \in inventory.mounts /\ Held(s[1], s[2])

Truthful == WorkersTrue /\ ResultsTrue /\ MountsTrue /\ SecretsTrue

LEMMA InventoryFromTruth == TypeInv /\ Truthful => InventoryIsTrue
<1> SUFFICES ASSUME TypeInv, Truthful, NEW s \in inventory.secrets
             PROVE  /\ s[1] \in inventory.mounts /\ NamespaceOf[s[1]] \in inventory.namespaces
                    /\ isKVMount(s[1])
                    /\ \E t \in ever : t[1] = s[1] /\ Normal(t[2]) = s[2]
  BY DEF InventoryIsTrue
<1>1. inventory.mounts \subseteq mountJobs
  BY DEF TypeInv, ReportTyped
<1>2. s[1] \in inventory.mounts /\ Held(s[1], s[2])
  BY DEF Truthful, SecretsTrue
<1> QED
  BY <1>1, <1>2 DEF Truthful, MountsTrue, Held

LEMMA InitTrue == Init => Truthful
  BY DEF Init, Truthful, WorkersTrue, ResultsTrue, MountsTrue, SecretsTrue, Answering, Gone,
         Waiting

\* What was found stays true.
LEMMA FoundStaysTrue ==
  ASSUME stage' = stage, ever \subseteq ever', NEW job, NEW S, FoundTrue(job, S)
  PROVE  FoundTrue(job, S)'
  BY DEF FoundTrue, Held, KVMounts

LEMMA WorkerTrue ==
  ASSUME TypeInv, Truthful, NEW w \in Worker, WorkerStep(w)
  PROVE  Truthful'
<1>1. /\ WorkersTrue /\ ResultsTrue /\ MountsTrue /\ SecretsTrue
      /\ worker \in [Worker -> WorkerState] /\ worker[w] \in WorkerState
  BY DEF Truthful, TypeInv, WorkersTyped
<1>2. /\ UNCHANGED <<stage, present, ever, mountJobs, inventory>>
      /\ \A v \in Worker \ {w} : worker'[v] = worker[v]
  <2>1. ASSUME NEW s, Becomes(w, s) PROVE \A v \in Worker \ {w} : worker'[v] = worker[v]
    BY <1>1, <2>1 DEF Becomes
  <2>2. UNCHANGED <<stage, present, ever, mountJobs, inventory>>
    BY DEF WorkerStep, ListMounts, ListFolder, FinishWalk, Send, Leave, vault, jobs, report
  <2>3. \E s : Becomes(w, s)
    BY DEF WorkerStep, ListMounts, ListFolder, FinishWalk, Send, Leave, Offer
  <2> QED
    BY <2>1, <2>2, <2>3
<1>3. MountsTrue' /\ SecretsTrue'
  BY <1>1, <1>2 DEF MountsTrue, SecretsTrue, isKVMount, Held
<1>4. ResultsTrue'
  <2>1. CASE Send(w)
    <3>1. FoundTrue(worker[w].job, worker[w].found)
      BY <1>1, <2>1 DEF Send, WorkersTrue, Answering
    <3> QED
      BY <1>1, <1>2, <2>1, <3>1 DEF Send, ResultsTrue, FoundTrue, Held, KVMounts, isKVMount
  <2>2. CASE results' = results
    BY <1>1, <1>2, <2>2 DEF ResultsTrue, FoundTrue, Held, KVMounts, isKVMount
  <2> QED
    BY <2>1, <2>2 DEF WorkerStep, ListMounts, ListFolder, FinishWalk, Leave
<1>5. SUFFICES \/ worker'[w].at \notin {"busy", "offer"}
               \/ /\ FoundTrue(worker'[w].job, worker'[w].found)
                  /\ worker'[w].at = "busy" => \A f \in worker'[w].todo : Normal(f) = f
  <2>1. ASSUME \/ worker'[w].at \notin {"busy", "offer"}
               \/ /\ FoundTrue(worker'[w].job, worker'[w].found)
                  /\ worker'[w].at = "busy" => \A f \in worker'[w].todo : Normal(f) = f
        PROVE  WorkersTrue'
    BY <1>1, <1>2, <2>1 DEF WorkersTrue, Answering, FoundTrue, Held, KVMounts, isKVMount
  <2> QED
    BY <1>3, <1>4, <2>1 DEF Truthful
<1>6. ASSUME NEW ok, NEW S, Offer(w, ok, S)
      PROVE  worker'[w].at = "offer" /\ worker'[w].job = worker[w].job /\ worker'[w].found = S
  BY <1>1, <1>6 DEF Offer, Becomes, WorkerState
<1>7. CASE ListMounts(w)
  <2>1. stage = "namespaces" /\ worker'[w].job = worker[w].job /\ worker'[w].at = "offer"
        /\ worker'[w].found \subseteq KVMounts(worker[w].job)
    <3>1. stage = "namespaces"
          /\ (Offer(w, TRUE, KVMounts(worker[w].job)) \/ Offer(w, FALSE, {}))
      BY <1>7 DEF ListMounts
    <3>2. CASE Offer(w, TRUE, KVMounts(worker[w].job))
      BY <1>6, <3>1, <3>2
    <3>3. CASE Offer(w, FALSE, {})
      <4>1. worker'[w].at = "offer" /\ worker'[w].job = worker[w].job /\ worker'[w].found = {}
        BY <1>6, <3>3
      <4> QED
        BY <3>1, <4>1
    <3> QED
      BY <3>1, <3>2, <3>3
  <2> QED
    BY <2>1 DEF FoundTrue
<1>8. ASSUME NEW f \in worker[w].todo, ListFolder(w, f)
      PROVE  worker'[w].job = worker[w].job /\ FoundTrue(worker[w].job, worker'[w].found)
             /\ (worker'[w].at = "busy" => \A g \in worker'[w].todo : Normal(g) = g)
  <2> DEFINE m == worker[w].job
             shown == Beneath(m, getKVVersion(m), f)
  <2>1. /\ f \in Path /\ Normal(f) = f /\ m \in Mount /\ stage = "mounts"
        /\ \A g \in worker[w].todo : Normal(g) = g
        /\ \A p \in worker[w].found : Held(m, p)
    BY <1>1, <1>8 DEF ListFolder, WorkerState, TypeInv, OthersTyped, WorkersTyped, Jobs, Walkable,
                      WorkersTrue, Answering, FoundTrue
  <2>2. present \subseteq Stored /\ present \subseteq ever
    BY DEF TypeInv, OthersTyped
  <2>3. /\ shown \subseteq Path
        /\ \A p \in shown : Above(f, p) /\ <<m, p>> \in present
    BY <2>1, <2>2, ListingType
  <2>4. \A p \in shown : /\ Normal(Child(f, p)) = Child(f, p)
                         /\ Len(p) = Len(f) + 1 => Held(m, Child(f, p))
    <3> TAKE p \in shown
    <3>1. p \in Path /\ Above(f, p) /\ <<m, p>> \in ever
      BY <2>2, <2>3
    <3>2. /\ Normal(Child(f, p)) = Child(f, p)
          /\ Len(p) = Len(f) + 1 => Normal(p) = Child(f, p)
      BY <2>1, <3>1, ChildNormal
    <3> QED
      BY <3>1, <3>2 DEF Held
  <2>5. (\A g \in Folders(shown, f) : Normal(g) = g) /\ (\A p \in Leaves(shown, f) : Held(m, p))
    BY <2>4 DEF Folders, Leaves
  <2>6. CASE Offer(w, FALSE, {})
    <3>1. worker'[w].at = "offer" /\ worker'[w].job = m /\ worker'[w].found = {}
      BY <1>6, <2>6
    <3> QED
      BY <2>1, <3>1 DEF FoundTrue
  <2>7. CASE Becomes(w, [worker[w] EXCEPT !.todo = (@ \ {f}) \cup Folders(shown, f),
                                          !.found = @ \cup Leaves(shown, f)])
    <3> HIDE DEF shown
    <3>1. /\ worker'[w].todo = (worker[w].todo \ {f}) \cup Folders(shown, f)
          /\ worker'[w].found = worker[w].found \cup Leaves(shown, f)
          /\ worker'[w].job = worker[w].job
      BY <1>1, <2>7 DEF Becomes, WorkerState
    <3> QED
      BY <2>1, <2>5, <3>1 DEF FoundTrue
  <2>8. CASE Becomes(w, [worker[w] EXCEPT !.todo = @ \ {f}])
    <3>1. /\ worker'[w].todo = worker[w].todo \ {f}
          /\ worker'[w].found = worker[w].found /\ worker'[w].job = worker[w].job
      BY <1>1, <2>8 DEF Becomes, WorkerState
    <3> QED
      BY <2>1, <3>1 DEF FoundTrue
  <2> QED
    BY <1>8, <2>6, <2>7, <2>8 DEF ListFolder
<1>9. CASE FinishWalk(w)
  BY <1>1, <1>6, <1>9 DEF FinishWalk, WorkersTrue, Answering
<1>10. CASE Send(w) \/ Leave(w)
  BY <1>1, <1>10 DEF Send, Leave, Becomes, Gone, Waiting
<1> QED
  BY <1>7, <1>8, <1>9, <1>10 DEF WorkerStep

LEMMA MainTrue ==
  ASSUME TypeInv, Truthful, Main
  PROVE  Truthful'
<1>1. /\ WorkersTrue /\ ResultsTrue /\ MountsTrue /\ SecretsTrue
      /\ worker \in [Worker -> WorkerState]
  BY DEF Truthful, TypeInv, WorkersTyped
<1>2. CASE ListNamespaces
  <2>1. UNCHANGED <<ever, mountJobs, inventory>> /\ stage = "list"
    BY <1>2 DEF ListNamespaces, vault, report
  <2>2. MountsTrue' /\ SecretsTrue'
    BY <1>1, <2>1 DEF MountsTrue, SecretsTrue, isKVMount, Held
  <2>3. CASE cancelled
    <3>1. UNCHANGED <<worker, results, ever>> /\ stage' = "end" /\ stage = "list"
      BY <1>2, <2>1, <2>3 DEF ListNamespaces, pool
    <3> QED
      BY <1>1, <2>2, <3>1 DEF Truthful, WorkersTrue, ResultsTrue, FoundTrue, Answering, Held
  <2>4. CASE ~cancelled
    <3>1. results' = {} /\ \A w \in Worker : worker'[w].at = "idle"
      BY <1>2, <2>4 DEF ListNamespaces, StartPool, Waiting
    <3> QED
      BY <2>2, <3>1 DEF Truthful, WorkersTrue, ResultsTrue, Answering
  <2> QED
    BY <2>3, <2>4
<1>3. ASSUME NEW w \in Worker, NEW job \in unsent, Hand(w, job) PROVE Truthful'
  <2>1. UNCHANGED <<stage, ever, mountJobs, inventory, results>>
    BY <1>3 DEF Hand, vault, jobs, report
  <2>2. /\ worker'[w].found = {} /\ worker'[w].todo \subseteq {<<>>}
        /\ \A v \in Worker \ {w} : worker'[v] = worker[v]
    BY <1>1, <1>3 DEF Hand, Becomes, Waiting
  <2>3. Normal(<<>>) = <<>>
    BY DEF Normal
  <2> QED
    BY <1>1, <2>1, <2>2, <2>3 DEF Truthful, WorkersTrue, ResultsTrue, MountsTrue, SecretsTrue,
         FoundTrue, Answering, Held, KVMounts, isKVMount
<1>4. ASSUME NEW r \in results, Collect(r) PROVE Truthful'
  <2>1. /\ UNCHANGED <<stage, ever, worker>> /\ results' \subseteq results
        /\ r.job \in Jobs /\ FoundTrue(r.job, r.found)
    BY <1>1, <1>4 DEF Collect, vault, ResultsTrue, TypeInv, ResultsTyped
  <2>2. WorkersTrue' /\ ResultsTrue'
    BY <1>1, <2>1 DEF WorkersTrue, ResultsTrue, FoundTrue, Answering, Held, KVMounts, isKVMount
  <2>3. CASE stage = "namespaces"
    <3>1. NoteNamespace(r) /\ r.found \subseteq KVMounts(r.job)
      BY <1>4, <2>1, <2>3 DEF Collect, FoundTrue
    <3>2. /\ inventory'.namespaces = IF r.ok THEN inventory.namespaces \cup {r.job}
                                             ELSE inventory.namespaces
          /\ inventory'.mounts = inventory.mounts /\ inventory'.secrets = inventory.secrets
          /\ mountJobs' = IF r.ok THEN mountJobs \cup r.found ELSE mountJobs
      BY <3>1 DEF NoteNamespace, TypeInv, ReportTyped
    <3>3. MountsTrue'
      BY <1>1, <3>1, <3>2 DEF MountsTrue, KVMounts, isKVMount
    <3>4. SecretsTrue'
      BY <1>1, <2>1, <3>2 DEF SecretsTrue, Held
    <3> QED
      BY <2>2, <3>3, <3>4 DEF Truthful
  <2>4. CASE stage # "namespaces"
    <3> DEFINE S == {<<r.job, p>> : p \in r.found}
    <3>1. NoteMount(r) /\ \A s \in S : s[1] = r.job /\ Held(s[1], s[2])
      BY <1>4, <2>1, <2>4 DEF Collect, FoundTrue
    <3>2. /\ mountJobs' = mountJobs
          /\ \/ inventory' = inventory
             \/ inventory' = [inventory EXCEPT !.mounts = @ \cup {r.job}, !.secrets = @ \cup S]
      BY <3>1 DEF NoteMount
    <3> HIDE DEF S
    <3>3. /\ inventory'.namespaces = inventory.namespaces
          /\ \/ inventory' = inventory
             \/ /\ inventory'.mounts = inventory.mounts \cup {r.job}
                /\ inventory'.secrets = inventory.secrets \cup S
      BY <3>2 DEF TypeInv, ReportTyped
    <3>4. MountsTrue'
      BY <1>1, <3>2, <3>3 DEF MountsTrue, isKVMount
    <3>5. SecretsTrue'
      BY <1>1, <2>1, <3>1, <3>3 DEF SecretsTrue, Held
    <3> QED
      BY <2>2, <3>4, <3>5 DEF Truthful
  <2> QED
    BY <2>3, <2>4
<1>5. CASE EndNamespaces
  <2>1. /\ results' = {} /\ \A w \in Worker : worker'[w].at = "idle"
        /\ UNCHANGED <<ever, mountJobs, inventory>>
    BY <1>5 DEF EndNamespaces, StartPool, Waiting, vault, jobs, report
  <2> QED
    BY <1>1, <2>1 DEF Truthful, WorkersTrue, ResultsTrue, MountsTrue, SecretsTrue, Answering,
                      Held, isKVMount
<1>6. CASE EndMounts
  <2>1. /\ UNCHANGED <<ever, mountJobs, inventory, worker, results>>
        /\ stage # "namespaces" /\ stage' # "namespaces"
    BY <1>6 DEF EndMounts, vault, jobs, report, pool
  <2> QED
    BY <1>1, <2>1 DEF Truthful, WorkersTrue, ResultsTrue, MountsTrue, SecretsTrue, Answering,
                      FoundTrue, Held, isKVMount
<1> QED
  BY <1>2, <1>3, <1>4, <1>5, <1>6 DEF Main

LEMMA NextTrue == TypeInv /\ Truthful /\ [Next]_vars => Truthful'
<1> SUFFICES ASSUME TypeInv, Truthful, [Next]_vars PROVE Truthful'
  OBVIOUS
<1>1. CASE Outside
  <2>1. UNCHANGED <<stage, mountJobs, results, worker, inventory>> /\ ever \subseteq ever'
    BY <1>1, OutsideFrame DEF jobs, pool, report
  <2> QED
    BY <2>1 DEF Truthful, WorkersTrue, ResultsTrue, MountsTrue, SecretsTrue, Answering, FoundTrue,
                Held, KVMounts, isKVMount
<1> QED
  BY <1>1, MainTrue, WorkerTrue, Steps

\* Whatever the owners write and remove meanwhile, the inventory names a secret only if Vault
\* held it during the run, in a KV mount of a namespace that the inventory lists.
THEOREM InventoryTrue == Spec => []InventoryIsTrue
<1>1. TypeInv /\ Truthful /\ [Next]_vars => (TypeInv /\ Truthful)'
  BY NextType, NextTrue
<1>2. Spec => [](TypeInv /\ Truthful)
  BY <1>1, InitType, InitTrue, PTL DEF Spec
<1> QED
  BY <1>2, InventoryFromTruth, PTL

-------------------------------------------------------------------------------
(* The inventory is complete: until then, each item is owed by a job, a worker or a result. *)

Owes(w, item) ==
  \/ worker[w].at = "busy" /\ \/ stage = "namespaces" \/ item \in worker[w].found
                              \/ \E f \in worker[w].todo : Above(f, item)
  \/ worker[w].at = "offer" /\ (worker[w].ok => item \in worker[w].found)

Pending(job, item) ==
  \/ job \in unsent
  \/ \E w \in Worker : worker[w].job = job /\ Owes(w, item)
  \/ \E r \in results : r.job = job /\ (r.ok => item \in r.found)

MountsCovered ==
  \A m \in Mount : isKVMount(m) /\ NamespaceOf[m] \in namespacePaths =>
    \/ m \in mountJobs \/ NamespaceOf[m] \in errors.namespaces
    \/ stage = "namespaces" /\ Pending(NamespaceOf[m], m)

SecretsCovered ==
  stage = "mounts" \/ outcome = "ok" =>
    \A s \in Stored \ Volatile : s[1] \in mountJobs /\ Plain(s[2]) =>
      \/ s \in inventory.secrets \/ Logged(s)
      \/ stage = "mounts" /\ Pending(s[1], s[2])

Covered ==
  /\ Stored \ Volatile \subseteq present
  /\ outcome = "ok" => stage = "end"
  /\ MountsCovered /\ SecretsCovered

LEMMA StoredType == \A s \in Stored : /\ s = <<s[1], s[2]>> /\ s[1] \in Mount
                                      /\ s[2] \in Path /\ s[2] # <<>> /\ Len(s[2]) \in Nat
<1> TAKE s \in Stored
<1>1. s \in Mount \X (Path \ {<<>>})
  BY VaultAssumption
<1> QED
  BY <1>1, LenProperties DEF Path

LEMMA CompleteFromCover == TypeInv /\ Covered => DiscoveryIsComplete
<1> SUFFICES ASSUME TypeInv, Covered, outcome = "ok", NEW s \in present \ Volatile,
                    NamespaceOf[s[1]] \in namespacePaths, isKVMount(s[1]), Plain(s[2])
             PROVE  s \in inventory.secrets \/ Logged(s)
  BY DEF DiscoveryIsComplete, isKVMount
<1>1. s \in Stored \ Volatile /\ s[1] \in Mount
  BY StoredType DEF TypeInv, OthersTyped
<1>2. stage = "end" /\ MountsCovered /\ SecretsCovered
  BY DEF Covered
<1>3. s[1] \in mountJobs \/ NamespaceOf[s[1]] \in errors.namespaces
  BY <1>1, <1>2 DEF MountsCovered
<1> QED
  BY <1>1, <1>2, <1>3 DEF SecretsCovered, Logged

LEMMA InitCovered == Init => Covered
  BY DEF Init, Covered, MountsCovered, SecretsCovered

\* A worker forgets nothing that Vault holds: it keeps what it owes, hands it on, or logs a
\* folder above it.
LEMMA WorkerKeeps ==
  ASSUME TypeInv, NEW w \in Worker, WorkerStep(w), NEW job, NEW item,
         \/ stage = "namespaces" /\ item \in KVMounts(job)
         \/ stage = "mounts" /\ <<job, item>> \in present /\ item \in Path /\ Plain(item),
         Pending(job, item)
  PROVE  \/ Pending(job, item)'
         \/ /\ stage = "mounts"
            /\ \E f \in Path : f # <<>> /\ Above(f, item) /\ <<job, f>> \in errors'.paths
<1>1. /\ worker \in [Worker -> WorkerState] /\ worker[w] \in WorkerState
      /\ errors.paths \subseteq Mount \X Path /\ stage \in {"namespaces", "mounts"}
      /\ errors = [errors EXCEPT !.paths = errors.paths]
  BY DEF TypeInv, WorkersTyped, ReportTyped
<1>2. UNCHANGED <<stage, present, unsent>> /\ results \subseteq results'
      /\ \A v \in Worker \ {w} : worker'[v] = worker[v]
  <2>1. ASSUME NEW s, Becomes(w, s) PROVE \A v \in Worker \ {w} : worker'[v] = worker[v]
    BY <1>1, <2>1 DEF Becomes
  <2>2. UNCHANGED <<stage, present, unsent>> /\ results \subseteq results'
    BY DEF WorkerStep, ListMounts, ListFolder, FinishWalk, Send, Leave, vault
  <2>3. \E s : Becomes(w, s)
    BY DEF WorkerStep, ListMounts, ListFolder, FinishWalk, Send, Leave, Offer
  <2> QED
    BY <2>1, <2>2, <2>3
<1>3. CASE ~(worker[w].job = job /\ Owes(w, item))
  <2>1. CASE \E v \in Worker : worker[v].job = job /\ Owes(v, item)
    <3>1. PICK v \in Worker \ {w} : worker[v].job = job /\ Owes(v, item)
      BY <1>3, <2>1
    <3>2. worker'[v].job = job /\ Owes(v, item)'
      BY <1>2, <3>1 DEF Owes, Above
    <3> QED
      BY <3>2 DEF Pending
  <2> QED
    BY <1>2, <2>1 DEF Pending
<1>4. SUFFICES ASSUME worker[w].job = job, Owes(w, item)
               PROVE  \/ worker'[w].job = job /\ Owes(w, item)'
                      \/ \E r \in results' : r.job = job /\ (r.ok => item \in r.found)
                      \/ /\ stage = "mounts"
                         /\ \E f \in Path : /\ f # <<>> /\ Above(f, item)
                                            /\ <<job, f>> \in errors'.paths
  BY <1>3 DEF Pending
<1>5. ASSUME NEW ok \in BOOLEAN, NEW S, Offer(w, ok, S), ok => item \in S
      PROVE  worker'[w].job = job /\ Owes(w, item)'
  <2>1. /\ worker'[w].at = "offer" /\ worker'[w].job = worker[w].job /\ worker'[w].found = S
        /\ worker'[w].ok = ok
    BY <1>1, <1>5 DEF Offer, Becomes, WorkerState
  <2> QED
    BY <1>4, <1>5, <2>1 DEF Owes
<1>6. CASE ListMounts(w)
  <2>1. item \in KVMounts(worker[w].job)
    BY <1>4, <1>6 DEF ListMounts
  <2>2. CASE Offer(w, TRUE, KVMounts(worker[w].job))
    BY <1>5, <2>1, <2>2
  <2>3. CASE Offer(w, FALSE, {})
    BY <1>5, <2>3
  <2> QED
    BY <1>6, <2>2, <2>3 DEF ListMounts
<1>7. ASSUME NEW f \in worker[w].todo, ListFolder(w, f)
      PROVE  \/ worker'[w].job = job /\ Owes(w, item)'
             \/ stage = "mounts" /\ \E g \in Path : g # <<>> /\ Above(g, item) /\ <<job, g>> \in errors'.paths
  <2> DEFINE m == worker[w].job
             shown == Beneath(m, getKVVersion(m), f)
  <2>1. /\ f \in Path /\ m = job /\ stage = "mounts" /\ worker[w].at = "busy"
        /\ <<job, item>> \in present /\ item \in Path /\ Plain(item)
    BY <1>1, <1>4, <1>7 DEF ListFolder, WorkerState
  <2>2. item \in worker[w].found \/ \E g \in worker[w].todo : Above(g, item)
    BY <1>4, <2>1 DEF Owes
  <2>3. CASE Offer(w, FALSE, {})
    BY <1>5, <2>3
  <2>4. CASE Becomes(w, [worker[w] EXCEPT !.todo = (@ \ {f}) \cup Folders(shown, f),
                                          !.found = @ \cup Leaves(shown, f)])
    <3> HIDE DEF shown
    <3>1. /\ worker'[w].todo = (worker[w].todo \ {f}) \cup Folders(shown, f)
          /\ worker'[w].found = worker[w].found \cup Leaves(shown, f)
          /\ worker'[w].job = worker[w].job /\ worker'[w].at = worker[w].at
      BY <1>1, <2>4 DEF Becomes, WorkerState
    <3>2. ASSUME Above(f, item)
          PROVE  item \in Leaves(shown, f) \/ \E g \in Folders(shown, f) : Above(g, item)
      <4>1. Len(f) \in Nat /\ Len(item) \in Nat /\ Len(item) > Len(f)
            /\ SubSeq(item, 1, Len(f)) = f
        BY <2>1, <3>2, LenProperties DEF Path, Above
      <4>2. item \in shown
        <5>1. (getKVVersion(m) = 2) = (Option[m] = "2")
          BY DEF getKVVersion
        <5>2. item \in {s[2] : s \in {t \in present : t[1] = m}}
          BY <2>1
        <5> QED
          BY <4>1, <5>1, <5>2 DEF shown, Beneath
      <4>3. /\ Len(item) = Len(f) + 1 => Child(f, item) = item
            /\ Len(item) > Len(f) + 1 => Above(Child(f, item), item)
        BY <2>1, <3>2, ChildAbove
      <4>4. CASE Len(item) = Len(f) + 1
        BY <4>2, <4>3, <4>4 DEF Leaves
      <4>5. CASE Len(item) > Len(f) + 1
        BY <4>2, <4>3, <4>5 DEF Folders
      <4> QED
        BY <4>1, <4>4, <4>5
    <3>3. item \in worker'[w].found \/ \E g \in worker'[w].todo : Above(g, item)
      BY <2>2, <3>1, <3>2
    <3> QED
      BY <2>1, <3>1, <3>3 DEF Owes, Above
  <2>5. CASE /\ f # <<>> /\ Becomes(w, [worker[w] EXCEPT !.todo = @ \ {f}])
             /\ errors' = [errors EXCEPT !.paths = @ \cup {<<m, f>>}]
    <3>1. /\ worker'[w].todo = worker[w].todo \ {f} /\ worker'[w].at = worker[w].at
          /\ worker'[w].found = worker[w].found /\ worker'[w].job = worker[w].job
      BY <1>1, <2>5 DEF Becomes, WorkerState
    <3>2. <<job, f>> \in errors'.paths
      <4>1. errors \in [namespaces : SUBSET namespacePaths, mounts : SUBSET mountJobs,
                        paths : SUBSET (Mount \X Path)]
        BY DEF TypeInv, ReportTyped
      <4> QED
        BY <2>1, <2>5, <4>1
    <3>3. CASE Above(f, item)
      BY <2>1, <2>5, <3>2, <3>3
    <3>4. CASE ~Above(f, item)
      BY <2>1, <2>2, <3>1, <3>4 DEF Owes, Above
    <3> QED
      BY <3>3, <3>4
  <2> QED
    BY <1>7, <2>3, <2>4, <2>5 DEF ListFolder
<1>8. CASE FinishWalk(w)
  <2>1. item \in worker[w].found
    BY <1>4, <1>8 DEF FinishWalk, Owes
  <2> QED
    BY <1>5, <1>8, <2>1 DEF FinishWalk
<1>9. CASE Send(w)
  <2> DEFINE r == [job |-> worker[w].job, ok |-> worker[w].ok, found |-> worker[w].found]
  <2>1. r \in results' /\ worker[w].at = "offer"
    BY <1>9 DEF Send
  <2>2. r.job = job /\ (r.ok => item \in r.found)
    BY <1>4, <2>1 DEF Owes
  <2> QED
    BY <2>1, <2>2
<1>10. CASE Leave(w)
  BY <1>4, <1>10 DEF Leave, Owes
<1> QED
  BY <1>6, <1>7, <1>8, <1>9, <1>10 DEF WorkerStep

\* What is in the inventory or among the errors stays there.
ReportGrows ==
  /\ inventory.secrets \subseteq inventory'.secrets
  /\ errors.namespaces \subseteq errors'.namespaces /\ errors.mounts \subseteq errors'.mounts
  /\ errors.paths \subseteq errors'.paths

LEMMA LoggedGrows ==
  ASSUME ReportGrows, NEW s, Logged(s)
  PROVE  Logged(s)'
  BY DEF ReportGrows, Logged

\* A folder above a secret that could not be listed accounts for it.
LEMMA FolderLogged ==
  ASSUME NEW s \in Stored, NEW f \in Path, f # <<>>, Above(f, s[2]), <<s[1], f>> \in errors'.paths
  PROVE  Logged(s)'
<1>1. Len(f) \in Nat /\ Len(s[2]) \in Nat /\ Len(f) < Len(s[2]) /\ SubSeq(s[2], 1, Len(f)) = f
  BY StoredType, LenProperties DEF Path, Above
<1>2. Len(f) # 0
  BY EmptySeq DEF Path
<1>3. Len(f) \in 1..Len(s[2]) - 1
  BY <1>1, <1>2
<1> QED
  BY <1>1, <1>3 DEF Logged

LEMMA WorkerCovered ==
  ASSUME TypeInv, Covered, NEW w \in Worker, WorkerStep(w)
  PROVE  Covered'
<1>1. /\ Stored \ Volatile \subseteq present /\ (outcome = "ok" => stage = "end")
      /\ MountsCovered /\ SecretsCovered
      /\ errors \in [namespaces : SUBSET namespacePaths, mounts : SUBSET mountJobs,
                     paths : SUBSET (Mount \X Path)]
  BY DEF Covered, TypeInv, ReportTyped
<1>2. /\ UNCHANGED <<stage, present, namespacePaths, mountJobs, inventory, outcome>>
      /\ errors' = errors \/ \E x : errors' = [errors EXCEPT !.paths = @ \cup {x}]
  BY DEF WorkerStep, ListMounts, ListFolder, FinishWalk, Send, Leave, vault, jobs, report
<1>3. ReportGrows /\ errors'.namespaces = errors.namespaces
  BY <1>1, <1>2 DEF ReportGrows
<1>4. MountsCovered'
  <2> SUFFICES ASSUME NEW m \in Mount, isKVMount(m), NamespaceOf[m] \in namespacePaths
               PROVE  \/ m \in mountJobs \/ NamespaceOf[m] \in errors.namespaces
                      \/ stage = "namespaces" /\ Pending(NamespaceOf[m], m)'
    BY <1>2, <1>3 DEF MountsCovered, isKVMount
  <2>1. CASE stage = "namespaces" /\ Pending(NamespaceOf[m], m)
    <3>1. m \in KVMounts(NamespaceOf[m])
      BY DEF KVMounts
    <3> QED
      BY <2>1, <3>1, WorkerKeeps
  <2> QED
    BY <1>1, <2>1 DEF MountsCovered
<1>5. SecretsCovered'
  <2> SUFFICES ASSUME stage = "mounts" \/ outcome = "ok", NEW s \in Stored \ Volatile,
                      s[1] \in mountJobs, Plain(s[2])
               PROVE  \/ s \in inventory.secrets \/ Logged(s)'
                      \/ stage = "mounts" /\ Pending(s[1], s[2])'
    BY <1>2 DEF SecretsCovered, Plain
  <2>1. CASE stage = "mounts" /\ Pending(s[1], s[2])
    <3>1. <<s[1], s[2]>> \in present /\ s[2] \in Path
      BY <1>1, StoredType
    <3>2. \/ Pending(s[1], s[2])'
          \/ \E f \in Path : f # <<>> /\ Above(f, s[2]) /\ <<s[1], f>> \in errors'.paths
      BY <2>1, <3>1, WorkerKeeps
    <3> QED
      BY <2>1, <3>2, FolderLogged
  <2>2. s \in inventory.secrets \/ Logged(s) \/ (stage = "mounts" /\ Pending(s[1], s[2]))
    BY <1>1 DEF SecretsCovered
  <2> QED
    BY <1>3, <2>1, <2>2, LoggedGrows
<1> QED
  BY <1>1, <1>2, <1>4, <1>5 DEF Covered

\* The main goroutine owes what it has sent, and takes a result for what it holds.
LEMMA HandKeeps ==
  ASSUME TypeInv, NEW w \in Worker, NEW j \in unsent, Hand(w, j), NEW job, NEW item,
         stage = "namespaces" \/ (stage = "mounts" /\ item \in Path /\ item # <<>>),
         Pending(job, item)
  PROVE  Pending(job, item)'
<1>1. /\ stage' = stage /\ results' = results /\ unsent' = unsent \ {j} /\ worker[w].at = "idle"
      /\ worker'[w] = [Waiting EXCEPT !.at = "busy", !.job = j,
                                      !.todo = IF stage = "mounts" THEN {<<>>} ELSE {}]
      /\ \A v \in Worker \ {w} : worker'[v] = worker[v]
  BY DEF Hand, Becomes, TypeInv, WorkersTyped
<1>2. CASE job = j
  <2>1. worker'[w].job = job /\ worker'[w].at = "busy"
        /\ (stage = "mounts" => worker'[w].todo = {<<>>})
    BY <1>1, <1>2 DEF Waiting
  <2>2. stage = "mounts" => Above(<<>>, item)
    <3> SUFFICES ASSUME stage = "mounts" PROVE Above(<<>>, item)
      OBVIOUS
    <3>1. item \in Path /\ Len(item) \in Nat /\ Len(item) # 0 /\ Len(<<>>) = 0
      BY EmptySeq, LenProperties DEF Path
    <3>2. 0 \in 0..Len(item)
      BY <3>1
    <3>3. SubSeq(item, 1, 0) \in Path /\ Len(SubSeq(item, 1, 0)) = 0
      BY <3>1, <3>2, Prefix
    <3>4. SubSeq(item, 1, 0) = <<>>
      BY <3>3, EmptySeq DEF Path
    <3> QED
      BY <3>1, <3>4 DEF Above
  <2>3. Owes(w, item)'
    BY <1>1, <2>1, <2>2 DEF Owes, Above
  <2> QED
    BY <2>1, <2>3 DEF Pending
<1>3. CASE job # j
  <2>1. CASE \E v \in Worker : worker[v].job = job /\ Owes(v, item)
    <3>1. PICK v \in Worker : worker[v].job = job /\ Owes(v, item)
      BY <2>1
    <3>2. v # w
      BY <1>1, <3>1 DEF Owes
    <3>3. worker'[v].job = job /\ Owes(v, item)'
      BY <1>1, <3>1, <3>2 DEF Owes, Above
    <3> QED
      BY <3>3 DEF Pending
  <2> QED
    BY <1>1, <1>3, <2>1 DEF Pending
<1> QED
  BY <1>2, <1>3

LEMMA CollectKeeps ==
  ASSUME NEW r \in results, Collect(r), NEW job, NEW item, Pending(job, item)
  PROVE  Pending(job, item)' \/ (r.job = job /\ (r.ok => item \in r.found))
<1>1. UNCHANGED <<stage, unsent, worker>> /\ results' = results \ {r}
  BY DEF Collect
<1>2. ASSUME NEW v \in Worker, Owes(v, item) PROVE Owes(v, item)'
  BY <1>1, <1>2 DEF Owes, Above
<1> QED
  BY <1>1, <1>2 DEF Pending

LEMMA CollectCovered ==
  ASSUME TypeInv, Covered, NEW r \in results, Collect(r)
  PROVE  Covered'
<1>1. /\ Stored \ Volatile \subseteq present /\ (outcome = "ok" => stage = "end")
      /\ MountsCovered /\ SecretsCovered /\ ReportTyped
  BY DEF Covered, TypeInv
<1>2. UNCHANGED <<stage, present, namespacePaths, outcome>>
  BY DEF Collect, vault
<1>3. CASE stage = "namespaces"
  <2>1. NoteNamespace(r) /\ outcome # "ok"
    BY <1>1, <1>3 DEF Collect
  <2>2. \/ r.ok /\ mountJobs' = mountJobs \cup r.found /\ errors' = errors
        \/ /\ ~r.ok /\ mountJobs' = mountJobs
           /\ errors'.namespaces = errors.namespaces \cup {r.job}
    BY <1>1, <2>1 DEF NoteNamespace, ReportTyped
  <2>3. MountsCovered'
    <3> SUFFICES ASSUME NEW m \in Mount, isKVMount(m), NamespaceOf[m] \in namespacePaths
                 PROVE  \/ m \in mountJobs' \/ NamespaceOf[m] \in errors'.namespaces
                        \/ Pending(NamespaceOf[m], m)'
      BY <1>2, <1>3 DEF MountsCovered, isKVMount
    <3>1. m \in mountJobs \/ NamespaceOf[m] \in errors.namespaces \/ Pending(NamespaceOf[m], m)
      BY <1>1 DEF MountsCovered
    <3>2. CASE m \in mountJobs \/ NamespaceOf[m] \in errors.namespaces
      BY <2>2, <3>2
    <3>3. CASE Pending(NamespaceOf[m], m)
      <4>1. Pending(NamespaceOf[m], m)' \/ (r.job = NamespaceOf[m] /\ (r.ok => m \in r.found))
        BY <3>3, CollectKeeps
      <4> QED
        BY <2>2, <4>1
    <3> QED
      BY <3>1, <3>2, <3>3
  <2> QED
    BY <1>1, <1>2, <1>3, <2>1, <2>3 DEF Covered, SecretsCovered
<1>4. CASE stage # "namespaces"
  <2> DEFINE S == {<<r.job, p>> : p \in r.found}
  <2>1. /\ mountJobs' = mountJobs
        /\ \/ /\ r.ok /\ errors' = errors
              /\ inventory' = [inventory EXCEPT !.mounts = @ \cup {r.job},
                                                !.secrets = @ \cup S]
           \/ /\ ~r.ok /\ inventory' = inventory
              /\ errors' = [errors EXCEPT !.mounts = @ \cup {r.job}]
    BY <1>4 DEF Collect, NoteMount
  <2>2. \A p \in r.found : <<r.job, p>> \in S
    OBVIOUS
  <2> HIDE DEF S
  <2>3. /\ ReportGrows
        /\ \/ r.ok /\ errors' = errors /\ S \subseteq inventory'.secrets
           \/ ~r.ok /\ r.job \in errors'.mounts /\ errors'.namespaces = errors.namespaces
    BY <1>1, <2>1 DEF ReportTyped, ReportGrows
  <2>4. MountsCovered'
    BY <1>1, <1>2, <1>4, <2>1, <2>3 DEF MountsCovered, isKVMount
  <2>5. SecretsCovered'
    <3> SUFFICES ASSUME stage = "mounts" \/ outcome = "ok", NEW s \in Stored \ Volatile,
                        s[1] \in mountJobs, Plain(s[2])
                 PROVE  \/ s \in inventory'.secrets \/ Logged(s)'
                        \/ stage = "mounts" /\ Pending(s[1], s[2])'
      BY <1>2, <2>1 DEF SecretsCovered, Plain
    <3>1. s \in inventory.secrets \/ Logged(s) \/ (stage = "mounts" /\ Pending(s[1], s[2]))
      BY <1>1 DEF SecretsCovered
    <3>2. CASE s \in inventory.secrets
      BY <2>3, <3>2 DEF ReportGrows
    <3>3. CASE Logged(s)
      BY <2>3, <3>3, LoggedGrows
    <3>4. CASE stage = "mounts" /\ Pending(s[1], s[2])
      <4>1. CASE r.job = s[1] /\ (r.ok => s[2] \in r.found)
        <5>1. CASE r.ok
          <6>1. <<s[1], s[2]>> \in S
            BY <2>2, <4>1, <5>1
          <6> QED
            BY <2>3, <5>1, <6>1, StoredType
        <5>2. CASE ~r.ok
          BY <2>3, <4>1, <5>2 DEF Logged
        <5> QED
          BY <5>1, <5>2
      <4> QED
        BY <3>4, <4>1, CollectKeeps
    <3> QED
      BY <3>1, <3>2, <3>3, <3>4
  <2> QED
    BY <1>1, <1>2, <2>4, <2>5 DEF Covered
<1> QED
  BY <1>3, <1>4

\* A pool ends only when nothing is owed any more.
LEMMA NothingOwed ==
  ASSUME Drained
  PROVE  \A job, item : ~Pending(job, item)
  BY DEF Drained, Pending, Owes

LEMMA MainCovered ==
  ASSUME TypeInv, Covered, Main
  PROVE  Covered'
<1>1. /\ Stored \ Volatile \subseteq present /\ (outcome = "ok" => stage = "end")
      /\ MountsCovered /\ SecretsCovered
  BY DEF Covered
<1>2. CASE ListNamespaces
  <2>1. /\ stage = "list" /\ outcome # "ok" /\ outcome' # "ok" /\ present' = present
        /\ stage' \in {"namespaces", "end"} /\ namespacePaths = {}
    BY <1>1, <1>2 DEF ListNamespaces, StartPool, vault, TypeInv, OthersTyped
  <2>2. CASE cancelled
    <3>1. namespacePaths' = {}
      BY <1>2, <2>1, <2>2 DEF ListNamespaces
    <3> QED
      BY <1>1, <2>1, <3>1 DEF Covered, MountsCovered, SecretsCovered
  <2>3. CASE ~cancelled
    <3>1. unsent' = namespacePaths' /\ stage' = "namespaces"
      BY <1>2, <2>3 DEF ListNamespaces, StartPool
    <3> QED
      BY <1>1, <2>1, <3>1 DEF Covered, MountsCovered, SecretsCovered, Pending
  <2> QED
    BY <2>2, <2>3
<1>3. ASSUME NEW w \in Worker, NEW j \in unsent, Hand(w, j) PROVE Covered'
  <2>1. UNCHANGED <<present, stage, namespacePaths, mountJobs, inventory, errors, outcome>>
    BY <1>3 DEF Hand, vault, jobs, report
  <2>2. MountsCovered'
    BY <1>1, <1>3, <2>1, HandKeeps DEF MountsCovered, isKVMount
  <2>3. SecretsCovered'
    BY <1>1, <1>3, <2>1, HandKeeps, StoredType DEF SecretsCovered, Logged, Plain
  <2> QED
    BY <1>1, <2>1, <2>2, <2>3 DEF Covered
<1>4. CASE EndNamespaces
  <2>1. /\ UNCHANGED <<present, namespacePaths, mountJobs, inventory, errors, outcome>>
        /\ stage = "namespaces" /\ stage' = "mounts" /\ unsent' = mountJobs
        /\ \A job, item : ~Pending(job, item)
    BY <1>4, NothingOwed DEF EndNamespaces, StartPool, vault, jobs, report
  <2>2. MountsCovered'
    BY <1>1, <2>1 DEF MountsCovered, isKVMount
  <2>3. SecretsCovered'
    BY <2>1 DEF SecretsCovered, Pending
  <2> QED
    BY <1>1, <2>1, <2>2, <2>3 DEF Covered
<1>5. CASE EndMounts
  <2>1. /\ UNCHANGED <<present, namespacePaths, mountJobs, inventory, errors>>
        /\ stage = "mounts" /\ stage' = "end" /\ \A job, item : ~Pending(job, item)
    BY <1>5, NothingOwed DEF EndMounts, vault, jobs, report
  <2>2. MountsCovered'
    BY <1>1, <2>1 DEF MountsCovered, isKVMount
  <2>3. SecretsCovered'
    BY <1>1, <2>1 DEF SecretsCovered, Logged, Plain
  <2> QED
    BY <1>1, <2>1, <2>2, <2>3 DEF Covered
<1> QED
  BY <1>2, <1>3, <1>4, <1>5, CollectCovered DEF Main

LEMMA NextCovered == TypeInv /\ Covered /\ [Next]_vars => Covered'
<1> SUFFICES ASSUME TypeInv, Covered, [Next]_vars PROVE Covered'
  OBVIOUS
<1>1. CASE Outside
  <2>1. /\ UNCHANGED <<stage, namespacePaths, mountJobs, unsent, worker, results, inventory,
                       errors, outcome>>
        /\ Stored \ Volatile \subseteq present'
    <3>1. CASE Owners
      <4>1. PICK s \in Volatile : Create(s) \/ Remove(s)
        BY <3>1 DEF Owners
      <4> QED
        BY <1>1, <4>1, OutsideFrame DEF Create, Remove, Covered, jobs, pool, report
    <3>2. CASE ~Owners
      BY <1>1, <3>2, OutsideFrame DEF Outside, Cancel, vars, vault, Covered, jobs, pool, report
    <3> QED
      BY <3>1, <3>2
  <2>2. \A job, item : Pending(job, item) => Pending(job, item)'
    BY <2>1 DEF Pending, Owes, Above
  <2>3. MountsCovered'
    BY <2>1, <2>2 DEF Covered, MountsCovered, isKVMount
  <2>4. SecretsCovered'
    BY <2>1, <2>2 DEF Covered, SecretsCovered, Logged, Plain
  <2> QED
    BY <2>1, <2>3, <2>4 DEF Covered
<1> QED
  BY <1>1, MainCovered, WorkerCovered, Steps

\* An inventory that Discover returns lacks a secret of a KV mount in a listed namespace, there
\* during the whole run, only if an error names its namespace, its mount or a folder above it.
THEOREM Complete == Spec => []DiscoveryIsComplete
<1>1. TypeInv /\ Covered /\ [Next]_vars => (TypeInv /\ Covered)'
  BY NextType, NextCovered
<1>2. Spec => [](TypeInv /\ Covered)
  BY <1>1, InitType, InitCovered, PTL DEF Spec
<1> QED
  BY <1>2, CompleteFromCover, PTL
===============================================================================
