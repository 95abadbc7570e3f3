------------------------------- MODULE Discovery -------------------------------
(***************************************************************************)
(* The discover command (internal/discovery, runDiscover in internal/cli/  *)
(* discover.go): one pool of workers lists the mounts of every namespace,  *)
(* a second one walks over the folders of every KV mount, while the owners *)
(* of the secrets go on writing and removing them.  A listing that fails   *)
(* is logged and left out of the inventory.                                *)
(*                                                                         *)
(* A secret is a pair of its mount and its path, the sequence of the       *)
(* names; a folder is the path of what lies beneath it.                    *)
(***************************************************************************)
EXTENDS Integers, Sequences, FiniteSets

CONSTANTS
  Namespace, Root, \* the namespaces of Vault; Root is the one with the empty path
  Parent,          \* the namespace in which each other one lies
  NamespaceOf,     \* the namespace of each mount, a function of the mounts
  Type, Option,    \* the type of each mount, and its option "version" or ""
  Trimmed,         \* strings.TrimSpace, a function of the names
  Stored,          \* the secrets that Vault may hold
  Volatile,        \* those that their owners create and remove during the run
  Worker           \* the worker goroutines of a pool

Mount == DOMAIN NamespaceOf
Name == DOMAIN Trimmed
Path == Seq(Name)

ASSUME VaultAssumption ==
  /\ IsFiniteSet(Namespace) /\ Root \in Namespace
  /\ Parent \in [Namespace \ {Root} -> Namespace]
  /\ NamespaceOf \in [Mount -> Namespace] /\ IsFiniteSet(Mount)
  /\ Type \in [Mount -> STRING] /\ Option \in [Mount -> {"", "1", "2"}]
  /\ Trimmed \in [Name -> Name] /\ \A n \in Name : Trimmed[Trimmed[n]] = Trimmed[n]
  /\ Stored \subseteq Mount \X (Path \ {<<>>}) /\ IsFiniteSet(Stored)
  /\ Volatile \subseteq Stored

ASSUME PoolAssumption == IsFiniteSet(Worker) /\ Worker # {}

VARIABLES
  present,    \* the secrets in Vault
  ever,       \* history: and those it held at some moment of the run
  cancelled,  \* the context is done: SIGINT or SIGTERM
  stage,      \* "list", then the pools "namespaces" and "mounts", then "end"
  namespacePaths, mountJobs,  \* the jobs of the two pools
  unsent,     \* the jobs that the producer has yet to send
  worker, results,            \* the workers and the buffered channel
  inventory,
  errors,     \* what ProgressTracker.errors names: namespaces, mounts and folders
  progress,   \* the other counters of the ProgressTracker
  outcome     \* what Discover returned

vault == <<present, ever>>
jobs == <<namespacePaths, mountJobs>>
pool == <<unsent, worker, results>>
report == <<inventory, errors, progress>>
vars == <<vault, cancelled, stage, jobs, pool, report, outcome>>

Waiting == [at |-> "idle", job |-> Root, todo |-> {}, found |-> {}, ok |-> TRUE]
Gone == [Waiting EXCEPT !.at = "gone"]

Init ==
  /\ present \in {S \in SUBSET Stored : Stored \ Volatile \subseteq S} /\ ever = present
  /\ cancelled = FALSE /\ stage = "list"
  /\ namespacePaths = {} /\ mountJobs = {}
  /\ unsent = {} /\ worker = [w \in Worker |-> Gone] /\ results = {}
  /\ inventory = [namespaces |-> {}, mounts |-> {}, secrets |-> {}]
  /\ errors = [namespaces |-> {}, mounts |-> {}, paths |-> {}]
  /\ progress = [namespaces |-> 0, mounts |-> 0, secrets |-> 0]
  /\ outcome = "none"

-------------------------------------------------------------------------------
(* The owners of the secrets, and the operator. *)

Create(s) ==
  /\ s \notin present
  /\ present' = present \cup {s} /\ ever' = ever \cup {s}
  /\ UNCHANGED <<cancelled, stage, jobs, pool, report, outcome>>

Remove(s) ==
  /\ s \in present
  /\ present' = present \ {s}
  /\ UNCHANGED <<ever, cancelled, stage, jobs, pool, report, outcome>>

Cancel ==
  /\ ~cancelled /\ outcome = "none"
  /\ cancelled' = TRUE
  /\ UNCHANGED <<vault, stage, jobs, pool, report, outcome>>

-------------------------------------------------------------------------------
(* The namespaces. *)

\* sys/namespaces shows the namespaces directly below the one of the token.
Children == {ns \in Namespace \ {Root} : Parent[ns] = Root}

\* Either pool: the channels are made and the workers start.  (The code starts no more
\* workers than there are jobs; here those too many leave at once.)
StartPool(s, all) ==
  /\ stage' = s /\ unsent' = all
  /\ worker' = [w \in Worker |-> Waiting] /\ results' = {}

\* Only the rate limiter's error is returned; when the listing fails there are no children.
ListNamespaces ==
  /\ stage = "list"
  /\ \/ /\ cancelled
        /\ stage' = "end" /\ outcome' = "failed"
        /\ UNCHANGED <<namespacePaths, pool>>
     \/ /\ ~cancelled
        /\ \E childPaths \in {Children, {}} : namespacePaths' = {Root} \cup childPaths
        /\ StartPool("namespaces", namespacePaths')
        /\ UNCHANGED outcome
  /\ UNCHANGED <<vault, cancelled, mountJobs, report>>

-------------------------------------------------------------------------------
(* The pools: the producer sends every job on an unbuffered channel and then receives;  *)
(* the results have a channel with room for all of them.                                *)

Jobs == IF stage = "namespaces" THEN namespacePaths ELSE mountJobs
Becomes(w, state) == worker' = [worker EXCEPT ![w] = state]
Offer(w, ok, found) ==
  Becomes(w, [worker[w] EXCEPT !.at = "offer", !.todo = {}, !.found = found, !.ok = ok])

\* Every job comes from one set, in any order (the mounts of a namespace are a Go map).
Hand(w, job) ==
  /\ job \in unsent /\ worker[w].at = "idle"
  /\ unsent' = unsent \ {job}
  /\ Becomes(w, [Waiting EXCEPT !.at = "busy", !.job = job,
                                !.todo = IF stage = "mounts" THEN {<<>>} ELSE {}])
  /\ UNCHANGED <<vault, cancelled, stage, jobs, results, report, outcome>>

\* Mutant: the channel of results has room for one result only.
CapacityOne == 1

\* make(chan ..., len(namespacePaths)), make(chan ..., len(jobs)).
Capacity == Cardinality(Jobs)

Send(w) ==
  /\ worker[w].at = "offer" /\ Cardinality(results) < Capacity
  /\ results' = results \cup
                  {[job |-> worker[w].job, ok |-> worker[w].ok, found |-> worker[w].found]}
  /\ Becomes(w, Waiting)
  /\ UNCHANGED <<vault, cancelled, stage, jobs, unsent, report, outcome>>

\* The channel is closed when the last job was sent.
Leave(w) ==
  /\ worker[w].at = "idle" /\ unsent = {}
  /\ Becomes(w, Gone)
  /\ UNCHANGED <<vault, cancelled, stage, jobs, unsent, results, report, outcome>>

-------------------------------------------------------------------------------
(* discoverNamespaceMounts. *)

isKVMount(m) == Type[m] \in {"kv", "generic"}

getKVVersion(m) == IF Option[m] = "2" THEN 2 ELSE 1

\* Mutant: every mount is walked.
AllMounts(ns) == {m \in Mount : NamespaceOf[m] = ns}

KVMounts(ns) == {m \in Mount : NamespaceOf[m] = ns /\ isKVMount(m)}

\* The rate limiter lets no request through once the context is done.
ListMounts(w) ==
  /\ stage = "namespaces" /\ worker[w].at = "busy"
  /\ \/ ~cancelled /\ Offer(w, TRUE, KVMounts(worker[w].job))
     \/ Offer(w, FALSE, {})
  /\ UNCHANGED <<vault, cancelled, stage, jobs, unsent, results, report, outcome>>

-------------------------------------------------------------------------------
(* discoverSecrets and listSecretsRecursive.  The folders still to list are a set:      *)
(* the code goes depth first, and lists a folder once whatever number of keys name it.  *)

\* What Vault holds beneath a folder.  It answers under metadata/ if the mount has
\* version 2 and only then.
Beneath(m, version, folder) ==
  {p \in {s[2] : s \in {t \in present : t[1] = m}} :
     /\ (version = 2) = (Option[m] = "2")
     /\ Len(p) > Len(folder) /\ SubSeq(p, 1, Len(folder)) = folder}

\* Mutant: the key is not joined to the folder.
ChildUnjoined(folder, p) == <<Trimmed[p[Len(folder) + 1]]>>

\* The key of p in the listing of a folder, as a path: trimmed and joined.
Child(folder, p) == Append(folder, Trimmed[p[Len(folder) + 1]])

\* Mutant: a key without slash hides the folder of the same name.
FoldersUnlessSecret(shown, folder) ==
  {Child(folder, p) : p \in {q \in shown : Len(q) > Len(folder) + 1 /\ Child(folder, q) \notin shown}}

\* Mutant: the walk goes down into the folder it has just listed.
FoldersUnjoined(shown, folder) == {folder : p \in {q \in shown : Len(q) > Len(folder) + 1}}

Folders(shown, folder) == {Child(folder, p) : p \in {q \in shown : Len(q) > Len(folder) + 1}}
Leaves(shown, folder) == {Child(folder, p) : p \in {q \in shown : Len(q) = Len(folder) + 1}}

\* A folder that cannot be listed is logged, and the mount fails if it is the first one.
ListFolder(w, folder) ==
  /\ stage = "mounts" /\ worker[w].at = "busy" /\ folder \in worker[w].todo
  /\ LET m == worker[w].job
         shown == Beneath(m, getKVVersion(m), folder)
         rest == worker[w].todo \ {folder}
     IN  \/ /\ ~cancelled
            /\ Becomes(w, [worker[w] EXCEPT !.todo = rest \cup Folders(shown, folder),
                                            !.found = @ \cup Leaves(shown, folder)])
            /\ UNCHANGED errors
         \/ /\ folder = <<>>
            /\ Offer(w, FALSE, {})
            /\ UNCHANGED errors
         \/ /\ folder # <<>>
            /\ Becomes(w, [worker[w] EXCEPT !.todo = rest])
            /\ errors' = [errors EXCEPT !.paths = @ \cup {<<m, folder>>}]
  /\ UNCHANGED <<vault, cancelled, stage, jobs, unsent, results, inventory, progress, outcome>>

\* AddSecrets, by the worker itself.
FinishWalk(w) ==
  /\ stage = "mounts" /\ worker[w].at = "busy" /\ worker[w].todo = {}
  /\ progress' = [progress EXCEPT !.secrets = @ + Cardinality(worker[w].found)]
  /\ Offer(w, TRUE, worker[w].found)
  /\ UNCHANGED <<vault, cancelled, stage, jobs, unsent, results, inventory, errors, outcome>>

-------------------------------------------------------------------------------
(* The collector. *)

NoteNamespace(r) ==
  IF r.ok
  THEN /\ inventory' = [inventory EXCEPT !.namespaces = @ \cup {r.job}]
       /\ mountJobs' = mountJobs \cup r.found
       /\ progress' = [progress EXCEPT !.namespaces = @ + 1]
       /\ UNCHANGED errors
  ELSE /\ errors' = [errors EXCEPT !.namespaces = @ \cup {r.job}]
       /\ UNCHANGED <<inventory, mountJobs, progress>>

\* Mutant: a mount that fails is left out without a word.
NoteMountSilent(r) ==
  /\ IF r.ok
     THEN /\ inventory' = [inventory EXCEPT !.mounts = @ \cup {r.job},
                                            !.secrets = @ \cup {<<r.job, p>> : p \in r.found}]
          /\ progress' = [progress EXCEPT !.mounts = @ + 1]
     ELSE UNCHANGED <<inventory, progress>>
  /\ UNCHANGED <<mountJobs, errors>>

NoteMount(r) ==
  /\ IF r.ok
     THEN /\ inventory' = [inventory EXCEPT !.mounts = @ \cup {r.job},
                                            !.secrets = @ \cup {<<r.job, p>> : p \in r.found}]
          /\ progress' = [progress EXCEPT !.mounts = @ + 1]
          /\ UNCHANGED errors
     ELSE /\ errors' = [errors EXCEPT !.mounts = @ \cup {r.job}]
          /\ UNCHANGED <<inventory, progress>>
  /\ UNCHANGED mountJobs

\* The main goroutine sends every job before it receives a result.
Collect(r) ==
  /\ unsent = {} /\ r \in results
  /\ results' = results \ {r}
  /\ IF stage = "namespaces" THEN NoteNamespace(r) ELSE NoteMount(r)
  /\ UNCHANGED <<vault, cancelled, stage, namespacePaths, unsent, worker, outcome>>

\* Mutant: the channel counts as closed when it is empty.
DrainedWhenEmpty == unsent = {} /\ results = {}

\* The channel is closed when the last worker has left, and then empty.
Drained == unsent = {} /\ results = {} /\ \A w \in Worker : worker[w].at = "gone"

EndNamespaces ==
  /\ stage = "namespaces" /\ Drained
  /\ StartPool("mounts", mountJobs)
  /\ UNCHANGED <<vault, cancelled, jobs, report, outcome>>

EndMounts ==
  /\ stage = "mounts" /\ Drained
  /\ stage' = "end" /\ outcome' = "ok"
  /\ UNCHANGED <<vault, cancelled, jobs, pool, report>>

-------------------------------------------------------------------------------
WorkerStep(w) ==
  \/ ListMounts(w) \/ FinishWalk(w) \/ Send(w) \/ Leave(w)
  \/ \E folder \in worker[w].todo : ListFolder(w, folder)

Main ==
  \/ ListNamespaces \/ EndNamespaces \/ EndMounts
  \/ \E w \in Worker, job \in unsent : Hand(w, job)
  \/ \E r \in results : Collect(r)

Owners == \E s \in Volatile : Create(s) \/ Remove(s)

Next == Cancel \/ Main \/ Owners \/ \E w \in Worker : WorkerStep(w)

Spec == Init /\ [][Next]_vars

(* Goroutines that can run do, and every request to Vault ends. *)
FairSpec == Spec /\ WF_vars(Main) /\ \A w \in Worker : WF_vars(WorkerStep(w))

-------------------------------------------------------------------------------
(* Properties. *)

\* The mounts that hold secrets.  Workers find them in the first pool, and secrets in the
\* second.
Walkable == {m \in Mount : isKVMount(m)}
Item == IF stage = "namespaces" THEN Walkable ELSE Path
WorkerState == [at : {"idle", "busy", "offer", "gone"}, job : Namespace \cup Mount,
                todo : SUBSET Path, found : SUBSET Item, ok : BOOLEAN]

\* Every variable has its type; only KV mounts are found and walked (identity, sys and the
\* like are mounts too), a worker has only jobs of the pool that runs, and the inventory and
\* the errors name nothing else.
TypeOK ==
  /\ present \subseteq Stored /\ ever \subseteq Stored /\ cancelled \in BOOLEAN
  /\ stage \in {"list", "namespaces", "mounts", "end"}
  /\ namespacePaths \subseteq Namespace /\ mountJobs \subseteq Walkable
  /\ unsent \subseteq Jobs
  /\ worker \in [Worker -> WorkerState]
  /\ \A w \in Worker : worker[w].at \in {"busy", "offer"} => worker[w].job \in Jobs
  /\ \A r \in results : r \in [job : Jobs, ok : BOOLEAN, found : SUBSET Item]
  /\ inventory \in [namespaces : SUBSET namespacePaths, mounts : SUBSET mountJobs,
                    secrets : SUBSET (Mount \X Path)]
  /\ errors \in [namespaces : SUBSET namespacePaths, mounts : SUBSET mountJobs,
                 paths : SUBSET (Mount \X Path)]
  /\ progress \in [namespaces : Nat, mounts : Nat, secrets : Nat]
  /\ outcome \in {"none", "ok", "failed"}

Plain(path) == \A i \in DOMAIN path : Trimmed[path[i]] = path[i]
Normal(path) == [i \in DOMAIN path |-> Trimmed[path[i]]]

\* The folders that a walk may list, and the order of folders.
Within(f, g) == Len(f) <= Len(g) /\ SubSeq(g, 1, Len(f)) = f
Folder == (Mount \X {<<>>})
          \cup UNION {{<<s[1], SubSeq(Normal(s[2]), 1, n)>> : n \in 1..Len(s[2]) - 1} : s \in Stored}

\* Whatever is written and removed during the walk, the inventory lists a secret only if
\* Vault held it at some moment of the run, in a KV mount and a namespace of the inventory
\* (up to the trimming of names: a padded name appears under its trimmed form).
InventoryIsTrue ==
  \A s \in inventory.secrets :
    /\ s[1] \in inventory.mounts /\ NamespaceOf[s[1]] \in inventory.namespaces
    /\ isKVMount(s[1])
    /\ \E t \in ever : t[1] = s[1] /\ Normal(t[2]) = s[2]

\* The errors that account for a secret missing from the inventory.
Logged(s) ==
  \/ NamespaceOf[s[1]] \in errors.namespaces
  \/ s[1] \in errors.mounts
  \/ \E n \in 1..Len(s[2]) - 1 : <<s[1], SubSeq(s[2], 1, n)>> \in errors.paths

\* FR-1.1.3 "Recursively list all secret paths within each KV mount": when Discover returns
\* an inventory, every secret that was there all the time in a KV mount of a listed
\* namespace is in it, or an error was logged for the namespace, the mount or one of the
\* folders above the secret; cancellation and failures in the middle leave no other gap.
DiscoveryIsComplete ==
  outcome = "ok" =>
    \A s \in present \ Volatile :
      /\ NamespaceOf[s[1]] \in namespacePaths
      /\ Type[s[1]] \in {"kv", "generic"}
      /\ Plain(s[2])
      => s \in inventory.secrets \/ Logged(s)

\* When Discover returns an inventory, each job of either pool is in the inventory or among
\* the errors, and not in both: no result was lost in a channel or taken twice.
EveryJobIsAnswered ==
  outcome = "ok" =>
    /\ inventory.namespaces \cup errors.namespaces = namespacePaths
    /\ inventory.namespaces \cap errors.namespaces = {}
    /\ inventory.mounts \cup errors.mounts = mountJobs
    /\ inventory.mounts \cap errors.mounts = {}
    /\ mountJobs = UNION {KVMounts(ns) : ns \in inventory.namespaces}

\* calculateStats.
Stats == [namespaces |-> Cardinality(inventory.namespaces),
          mounts |-> Cardinality(inventory.mounts),
          secrets |-> Cardinality(inventory.secrets)]

\* The counters shown to the operator, kept by workers and collector, agree in the end with
\* the statistics in the inventory file.
CountersAgree == outcome = "ok" => progress = Stats

\* The channel of results never blocks a worker, who would otherwise wait for the main
\* goroutine while that waits for it to take a job: with each result on offer there is room.
OfferFindsRoom == \A w \in Worker : worker[w].at = "offer" => Cardinality(results) < Capacity

\* The jobs of the running pool without an answer, and what Vault has held so far, by the
\* paths under which the inventory lists it.
Unanswered ==
  IF stage = "namespaces" THEN namespacePaths \ (inventory.namespaces \cup errors.namespaces)
  ELSE IF stage = "mounts" THEN mountJobs \ (inventory.mounts \cup errors.mounts)
  ELSE {}
Shown == {<<s[1], Normal(s[2])>> : s \in ever}

Promise == INSTANCE InventoryPromise
  WITH phase <- stage, open <- Unanswered, held <- Shown,
       missing <- [namespaces |-> errors.namespaces, mounts |-> errors.mounts],
       MountsIn <- [ns \in Namespace |-> KVMounts(ns)]

\* Workers, channels and failures add up to the abstract promise: every job of either pool
\* is answered once and for good, the second pool has exactly the mounts that the first one
\* found, and the secrets of a mount enter with its answer, true ones only.
ImplementsPromise == Promise!Spec

\* What a run has ahead of it.  Of a job: to be handed over (1), requested (2), sent (3) and
\* collected (4); of a mount: the folders that may still be listed, whatever their owners
\* put into them; of a worker: to leave each of the pools.
Before(s) == stage = "list" \/ (s = "mounts" /\ stage = "namespaces")
StepAhead(s, job, n) ==
  \/ Before(s)
  \/ stage = s /\ \/ job \in unsent
                  \/ \E w \in Worker : /\ worker[w].job = job
                                      /\ \/ worker[w].at = "busy" /\ n > 1
                                         \/ worker[w].at = "offer" /\ n > 2
                  \/ n = 4 /\ \E r \in results : r.job = job
FolderAhead(m, folder) ==
  \/ Before("mounts")
  \/ stage = "mounts" /\ \/ m \in unsent
                         \/ \E w \in Worker : /\ worker[w].job = m /\ worker[w].at = "busy"
                                             /\ \E f \in worker[w].todo : Within(f, folder)

JobsLeft ==
  {x \in ({"namespaces"} \X Namespace \X (1..4)) \cup ({"mounts"} \X Mount \X (1..4)) :
     StepAhead(x[1], x[2], x[3])}
FoldersLeft == {x \in Folder : FolderAhead(x[1], x[2])}
LeavesLeft == {x \in {"namespaces", "mounts"} \X Worker :
                 Before(x[1]) \/ (stage = x[1] /\ worker[x[2]].at # "gone")}
StagesLeft == {s \in {"list", "namespaces", "mounts"} : stage = s \/ Before(s)}
AllLeft == <<JobsLeft, FoldersLeft, LeavesLeft, StagesLeft, cancelled>>

\* A run cannot go on for ever, whatever the owners do to Vault meanwhile: no step adds to
\* what is ahead, and none but theirs leaves as much of it as there was.
RunIsBounded ==
  [][/\ JobsLeft' \subseteq JobsLeft /\ FoldersLeft' \subseteq FoldersLeft
     /\ LeavesLeft' \subseteq LeavesLeft /\ StagesLeft' \subseteq StagesLeft
     /\ cancelled => cancelled'
     /\ Owners \/ AllLeft' # AllLeft]_vars

\* Discover returns: no worker waits for ever to hand over a result while the main goroutine
\* still sends jobs, whatever fails and whenever the operator interrupts.
Terminates == <>(outcome # "none")

\* FR-1.1.1 "Handle permission boundaries gracefully (skip inaccessible namespaces with
\* warning)": a namespace missing from the inventory is named by an error.
NamespacesAreCovered ==
  outcome = "ok" => Namespace = inventory.namespaces \cup errors.namespaces
===============================================================================
