------------------------- MODULE DiscoveryReportProofs -------------------------
(***************************************************************************)
(* What Discovery reports: no job is lost or answered twice, the counters  *)
(* end where the statistics of the inventory do; that its run is bounded   *)
(* and never stuck; and that it implements InventoryPromise.               *)
(***************************************************************************)
EXTENDS DiscoveryProofs

-------------------------------------------------------------------------------
(* The jobs. *)

\* The jobs of the running pool that were answered.
Answered == IF stage = "namespaces" THEN inventory.namespaces \cup errors.namespaces
                                    ELSE inventory.mounts \cup errors.mounts

\* No job is in two places: unsent, with a worker, in the channel of results, answered.
Once ==
  /\ \A v, w \in Worker :
       Answering(v) /\ Answering(w) /\ worker[v].job = worker[w].job => v = w
  /\ \A w \in Worker :
       Answering(w) => /\ worker[w].job \notin unsent \cup Answered
                       /\ \A r \in results : r.job # worker[w].job
  /\ \A r, q \in results : r.job = q.job => r = q
  /\ \A r \in results : r.job \notin unsent \cup Answered
  /\ unsent \cap Answered = {}

\* And every job is in one.
Somewhere ==
  stage \in {"namespaces", "mounts"} =>
    \A j \in Jobs : \/ j \in unsent \cup Answered
                    \/ \E w \in Worker : Answering(w) /\ worker[w].job = j
                    \/ \E r \in results : r.job = j

Apart == /\ inventory.namespaces \cap errors.namespaces = {}
         /\ inventory.mounts \cap errors.mounts = {}

\* What is settled before and after each pool.
Settled ==
  /\ stage = "list" => inventory.namespaces = {} /\ errors.namespaces = {}
  /\ stage \in {"list", "namespaces"} => inventory.mounts = {} /\ errors.mounts = {}
  /\ stage \in {"list", "end"} =>
       unsent = {} /\ results = {} /\ \A w \in Worker : worker[w].at = "gone"
  /\ stage = "mounts" \/ outcome = "ok" =>
       inventory.namespaces \cup errors.namespaces = namespacePaths
  /\ outcome = "ok" => stage = "end" /\ inventory.mounts \cup errors.mounts = mountJobs

\* The jobs of the second pool are what the first one found.
Handed ==
  /\ stage = "namespaces" =>
       /\ \A w \in Worker : worker[w].at = "offer" /\ worker[w].ok
                              => worker[w].found = KVMounts(worker[w].job)
       /\ \A r \in results : r.ok => r.found = KVMounts(r.job)
  /\ mountJobs = UNION {KVMounts(ns) : ns \in inventory.namespaces}

JobsInv == Once /\ Somewhere /\ Apart /\ Settled /\ Handed

LEMMA AnsweredFromJobs == JobsInv => EveryJobIsAnswered
  BY DEF JobsInv, Apart, Settled, Handed, EveryJobIsAnswered

LEMMA InitJobs == Init => JobsInv
<1> SUFFICES ASSUME Init PROVE JobsInv
  OBVIOUS
<1>1. \A w \in Worker : worker[w].at = "gone"
  BY DEF Init, Gone, Waiting
<1>2. mountJobs = UNION {KVMounts(ns) : ns \in inventory.namespaces}
  BY DEF Init
<1> QED
  BY <1>1, <1>2 DEF Init, JobsInv, Once, Somewhere, Apart, Settled, Handed, Answering, Answered

\* What the request of a worker leaves alone, and what it may offer.
LEMMA Working ==
  ASSUME TypeInv, NEW w \in Worker,
         ListMounts(w) \/ FinishWalk(w) \/ \E f \in worker[w].todo : ListFolder(w, f)
  PROVE  /\ UNCHANGED <<stage, jobs, unsent, results, inventory, outcome>>
         /\ errors'.namespaces = errors.namespaces /\ errors'.mounts = errors.mounts
         /\ worker[w].at = "busy" /\ stage \in {"namespaces", "mounts"}
         /\ \A v \in Worker \ {w} : worker'[v] = worker[v]
         /\ worker'[w].job = worker[w].job
         /\ \/ worker'[w].at = "busy" /\ progress' = progress
            \/ worker'[w].at = "offer" /\ ~worker'[w].ok /\ progress' = progress
            \/ /\ worker'[w].at = "offer" /\ stage = "namespaces" /\ progress' = progress
               /\ worker'[w].found = KVMounts(worker[w].job)
            \/ /\ worker'[w].at = "offer" /\ stage = "mounts" /\ worker'[w].ok
               /\ worker'[w].found = worker[w].found
               /\ progress' = [progress EXCEPT !.secrets = @ + Cardinality(worker[w].found)]
<1>1. worker \in [Worker -> WorkerState] /\ worker[w] \in WorkerState /\ ReportTyped
  BY DEF TypeInv, WorkersTyped
<1>2. ASSUME NEW s, Becomes(w, s)
      PROVE  worker'[w] = s /\ \A v \in Worker \ {w} : worker'[v] = worker[v]
  BY <1>1, <1>2 DEF Becomes
<1>3. ASSUME NEW ok, NEW S, Offer(w, ok, S)
      PROVE  /\ worker'[w].at = "offer" /\ worker'[w].ok = ok /\ worker'[w].found = S
             /\ worker'[w].job = worker[w].job
             /\ \A v \in Worker \ {w} : worker'[v] = worker[v]
  <2> DEFINE s == [worker[w] EXCEPT !.at = "offer", !.todo = {}, !.found = S, !.ok = ok]
  <2>1. s.at = "offer" /\ s.ok = ok /\ s.found = S /\ s.job = worker[w].job
    BY <1>1 DEF WorkerState
  <2> QED
    BY <1>2, <1>3, <2>1 DEF Offer
<1>4. CASE ListMounts(w)
  BY <1>3, <1>4 DEF ListMounts, report
<1>5. ASSUME NEW f \in worker[w].todo, ListFolder(w, f)
      PROVE  /\ errors'.namespaces = errors.namespaces /\ errors'.mounts = errors.mounts
             /\ \A v \in Worker \ {w} : worker'[v] = worker[v]
             /\ worker'[w].job = worker[w].job
             /\ worker'[w].at = "busy" \/ (worker'[w].at = "offer" /\ ~worker'[w].ok)
  <2>1. CASE Offer(w, FALSE, {}) /\ UNCHANGED errors
    BY <1>3, <2>1
  <2>2. ASSUME NEW T, NEW S, Becomes(w, [worker[w] EXCEPT !.todo = T, !.found = S])
        PROVE  /\ \A v \in Worker \ {w} : worker'[v] = worker[v]
               /\ worker'[w].job = worker[w].job /\ worker'[w].at = worker[w].at
    <3> DEFINE s == [worker[w] EXCEPT !.todo = T, !.found = S]
    <3>1. s.at = worker[w].at /\ s.job = worker[w].job
      BY <1>1 DEF WorkerState
    <3> QED
      BY <1>2, <2>2, <3>1
  <2>3. ASSUME NEW T, Becomes(w, [worker[w] EXCEPT !.todo = T])
        PROVE  /\ \A v \in Worker \ {w} : worker'[v] = worker[v]
               /\ worker'[w].job = worker[w].job /\ worker'[w].at = worker[w].at
    <3> DEFINE s == [worker[w] EXCEPT !.todo = T]
    <3>1. s.at = worker[w].at /\ s.job = worker[w].job
      BY <1>1 DEF WorkerState
    <3> QED
      BY <1>2, <2>3, <3>1
  <2> DEFINE rest == worker[w].todo \ {f}
             shown == Beneath(worker[w].job, getKVVersion(worker[w].job), f)
  <2>4. /\ worker[w].at = "busy"
        /\ \/ /\ Becomes(w, [worker[w] EXCEPT !.todo = rest \cup Folders(shown, f),
                                            !.found = @ \cup Leaves(shown, f)])
              /\ UNCHANGED errors
           \/ Offer(w, FALSE, {}) /\ UNCHANGED errors
           \/ /\ Becomes(w, [worker[w] EXCEPT !.todo = rest])
              /\ errors' = [errors EXCEPT !.paths = @ \cup {<<worker[w].job, f>>}]
    BY <1>5 DEF ListFolder
  <2> HIDE DEF rest, shown
  <2>5. CASE /\ Becomes(w, [worker[w] EXCEPT !.todo = rest \cup Folders(shown, f),
                                            !.found = @ \cup Leaves(shown, f)])
             /\ UNCHANGED errors
    BY <2>2, <2>4, <2>5
  <2>6. CASE /\ Becomes(w, [worker[w] EXCEPT !.todo = rest])
             /\ errors' = [errors EXCEPT !.paths = @ \cup {<<worker[w].job, f>>}]
    <3>1. errors'.namespaces = errors.namespaces /\ errors'.mounts = errors.mounts
      BY <1>1, <2>6 DEF ReportTyped
    <3> QED
      BY <2>3, <2>4, <2>6, <3>1
  <2> QED
    BY <2>1, <2>4, <2>5, <2>6
<1>6. ASSUME NEW f \in worker[w].todo, ListFolder(w, f)
      PROVE  /\ UNCHANGED <<stage, jobs, unsent, results, inventory, outcome, progress>>
             /\ worker[w].at = "busy" /\ stage = "mounts"
  BY <1>6 DEF ListFolder
<1>7. CASE FinishWalk(w)
  BY <1>3, <1>7 DEF FinishWalk
<1> QED
  BY <1>4, <1>5, <1>6, <1>7

LEMMA WorkingJobs ==
  ASSUME TypeInv, JobsInv, NEW w \in Worker,
         ListMounts(w) \/ FinishWalk(w) \/ \E f \in worker[w].todo : ListFolder(w, f)
  PROVE  JobsInv'
<1>1. /\ UNCHANGED <<stage, jobs, unsent, results, inventory, outcome>>
      /\ errors'.namespaces = errors.namespaces /\ errors'.mounts = errors.mounts
      /\ worker[w].at = "busy" /\ stage \in {"namespaces", "mounts"}
      /\ \A v \in Worker \ {w} : worker'[v] = worker[v]
      /\ worker'[w].job = worker[w].job
      /\ worker'[w].at \in {"busy", "offer"}
      /\ stage = "namespaces" /\ worker'[w].at = "offer" /\ worker'[w].ok
           => worker'[w].found = KVMounts(worker[w].job)
  BY Working
<1>2. \A v \in Worker : (Answering(v)' <=> Answering(v)) /\ worker'[v].job = worker[v].job
  BY <1>1 DEF Answering
<1>3. Answered' = Answered /\ Jobs' = Jobs
  BY <1>1 DEF Answered, Jobs, jobs
<1>4. Once'
  BY <1>1, <1>2, <1>3 DEF JobsInv, Once
<1>5. Somewhere'
  BY <1>1, <1>2, <1>3 DEF JobsInv, Somewhere
<1>6. Apart' /\ Settled'
  BY <1>1 DEF JobsInv, Apart, Settled, jobs
<1>7. Handed'
  BY <1>1 DEF JobsInv, Handed, jobs, KVMounts, isKVMount
<1> QED
  BY <1>4, <1>5, <1>6, <1>7 DEF JobsInv

LEMMA SendJobs ==
  ASSUME TypeInv, JobsInv, NEW w \in Worker, Send(w)
  PROVE  JobsInv'
<1> DEFINE new == [job |-> worker[w].job, ok |-> worker[w].ok, found |-> worker[w].found]
<1>1. /\ UNCHANGED <<stage, namespacePaths, mountJobs, unsent, inventory, errors, outcome>>
      /\ worker[w].at = "offer" /\ results' = results \cup {new}
      /\ worker'[w].at = "idle" /\ \A v \in Worker \ {w} : worker'[v] = worker[v]
  BY DEF Send, Becomes, Waiting, jobs, report, TypeInv, WorkersTyped
<1>2. new.job = worker[w].job /\ new.ok = worker[w].ok /\ new.found = worker[w].found
  OBVIOUS
<1> HIDE DEF new
<1>3. /\ ~Answering(w)' /\ Answering(w)
      /\ \A v \in Worker \ {w} : Answering(v)' <=> Answering(v)
  BY <1>1 DEF Answering
<1>4. Answered' = Answered /\ Jobs' = Jobs
  BY <1>1 DEF Answered, Jobs
<1>5. Once'
  BY <1>1, <1>2, <1>3, <1>4 DEF JobsInv, Once
<1>6. Somewhere'
  <2> SUFFICES ASSUME stage \in {"namespaces", "mounts"}, NEW j \in Jobs
               PROVE  \/ j \in unsent' \cup Answered'
                      \/ \E v \in Worker : Answering(v)' /\ worker'[v].job = j
                      \/ \E r \in results' : r.job = j
    BY <1>1, <1>4 DEF Somewhere
  <2>1. \/ j \in unsent \cup Answered
        \/ \E v \in Worker : Answering(v) /\ worker[v].job = j
        \/ \E r \in results : r.job = j
    BY DEF JobsInv, Somewhere
  <2> QED
    BY <1>1, <1>2, <1>3, <1>4, <2>1
<1>7. Apart' /\ Settled'
  BY <1>1 DEF JobsInv, Apart, Settled
<1>8. Handed'
  BY <1>1, <1>2 DEF JobsInv, Handed, KVMounts, isKVMount
<1> QED
  BY <1>5, <1>6, <1>7, <1>8 DEF JobsInv

LEMMA LeaveJobs ==
  ASSUME TypeInv, JobsInv, NEW w \in Worker, Leave(w)
  PROVE  JobsInv'
<1>1. /\ UNCHANGED <<stage, namespacePaths, mountJobs, unsent, results, inventory, errors, outcome>>
      /\ worker[w].at = "idle" /\ worker'[w].at = "gone"
      /\ \A v \in Worker \ {w} : worker'[v] = worker[v]
  BY DEF Leave, Becomes, Gone, Waiting, jobs, report, TypeInv, WorkersTyped
<1>2. \A v \in Worker : /\ Answering(v)' <=> Answering(v)
                        /\ Answering(v) => worker'[v] = worker[v]
  BY <1>1 DEF Answering
<1>3. Answered' = Answered /\ Jobs' = Jobs
  BY <1>1 DEF Answered, Jobs
<1>4. Once'
  BY <1>1, <1>2, <1>3 DEF JobsInv, Once
<1>5. Somewhere'
  BY <1>1, <1>2, <1>3 DEF JobsInv, Somewhere
<1>6. Apart' /\ Settled'
  BY <1>1 DEF JobsInv, Apart, Settled
<1>7. Handed'
  BY <1>1 DEF JobsInv, Handed, KVMounts, isKVMount
<1> QED
  BY <1>4, <1>5, <1>6, <1>7 DEF JobsInv

LEMMA HandJobs ==
  ASSUME TypeInv, JobsInv, NEW w \in Worker, NEW job \in unsent, Hand(w, job)
  PROVE  JobsInv'
<1>1. /\ UNCHANGED <<stage, namespacePaths, mountJobs, results, inventory, errors, outcome>>
      /\ unsent' = unsent \ {job} /\ worker[w].at = "idle"
      /\ worker'[w].at = "busy" /\ worker'[w].job = job
      /\ \A v \in Worker \ {w} : worker'[v] = worker[v]
  BY DEF Hand, Becomes, Waiting, jobs, report, TypeInv, WorkersTyped
<1>2. /\ Answering(w)' /\ ~Answering(w)
      /\ \A v \in Worker \ {w} : Answering(v)' <=> Answering(v)
  BY <1>1 DEF Answering
<1>3. Answered' = Answered /\ Jobs' = Jobs /\ job \notin Answered
  BY <1>1 DEF Answered, Jobs, JobsInv, Once
<1>4. Once'
  BY <1>1, <1>2, <1>3 DEF JobsInv, Once
<1>5. Somewhere'
  <2> SUFFICES ASSUME stage \in {"namespaces", "mounts"}, NEW j \in Jobs
               PROVE  \/ j \in unsent' \cup Answered'
                      \/ \E v \in Worker : Answering(v)' /\ worker'[v].job = j
                      \/ \E r \in results' : r.job = j
    BY <1>1, <1>3 DEF Somewhere
  <2>1. \/ j \in unsent \cup Answered
        \/ \E v \in Worker : Answering(v) /\ worker[v].job = j
        \/ \E r \in results : r.job = j
    BY DEF JobsInv, Somewhere
  <2> QED
    BY <1>1, <1>2, <1>3, <2>1
<1>6. Apart' /\ Settled'
  BY <1>1 DEF JobsInv, Apart, Settled
<1>7. Handed'
  BY <1>1 DEF JobsInv, Handed, KVMounts, isKVMount
<1> QED
  BY <1>4, <1>5, <1>6, <1>7 DEF JobsInv

\* A result that is collected answers its job, whether it was found or failed.
LEMMA CollectReport ==
  ASSUME TypeInv, NEW r \in results, Collect(r)
  PROVE  /\ UNCHANGED <<stage, namespacePaths, unsent, worker, outcome>>
         /\ results' = results \ {r} /\ unsent = {} /\ r.job \in Jobs
         /\ Answered' = Answered \cup {r.job}
         /\ IF stage = "namespaces"
            THEN /\ inventory'.mounts = inventory.mounts /\ errors'.mounts = errors.mounts
                 /\ inventory'.secrets = inventory.secrets
                 /\ \/ /\ r.ok /\ errors'.namespaces = errors.namespaces
                       /\ inventory'.namespaces = inventory.namespaces \cup {r.job}
                       /\ mountJobs' = mountJobs \cup r.found
                       /\ progress' = [progress EXCEPT !.namespaces = @ + 1]
                    \/ /\ errors'.namespaces = errors.namespaces \cup {r.job}
                       /\ UNCHANGED <<inventory, mountJobs, progress>>
            ELSE /\ inventory'.namespaces = inventory.namespaces
                 /\ errors'.namespaces = errors.namespaces /\ mountJobs' = mountJobs
                 /\ \/ /\ r.ok /\ errors'.mounts = errors.mounts
                       /\ inventory'.mounts = inventory.mounts \cup {r.job}
                       /\ inventory'.secrets = inventory.secrets \cup {<<r.job, p>> : p \in r.found}
                       /\ progress' = [progress EXCEPT !.mounts = @ + 1]
                    \/ /\ ~r.ok /\ errors'.mounts = errors.mounts \cup {r.job}
                       /\ UNCHANGED <<inventory, progress>>
<1>1. ReportTyped /\ r.job \in Jobs
  BY DEF TypeInv, ResultsTyped
<1>2. /\ UNCHANGED <<stage, namespacePaths, unsent, worker, outcome>>
      /\ results' = results \ {r} /\ unsent = {}
  BY DEF Collect
<1>3. CASE stage = "namespaces"
  <2>1. NoteNamespace(r)
    BY <1>3 DEF Collect
  <2>2. /\ inventory'.mounts = inventory.mounts /\ errors'.mounts = errors.mounts
        /\ inventory'.secrets = inventory.secrets
        /\ \/ /\ r.ok /\ errors'.namespaces = errors.namespaces
              /\ inventory'.namespaces = inventory.namespaces \cup {r.job}
              /\ mountJobs' = mountJobs \cup r.found
              /\ progress' = [progress EXCEPT !.namespaces = @ + 1]
           \/ /\ errors'.namespaces = errors.namespaces \cup {r.job}
              /\ UNCHANGED <<inventory, mountJobs, progress>>
    BY <1>1, <2>1 DEF NoteNamespace, ReportTyped
  <2> QED
    BY <1>1, <1>2, <1>3, <2>2 DEF Answered
<1>4. CASE stage # "namespaces"
  <2> DEFINE S == {<<r.job, p>> : p \in r.found}
  <2>1. /\ mountJobs' = mountJobs
        /\ \/ /\ r.ok /\ errors' = errors
              /\ inventory' = [inventory EXCEPT !.mounts = @ \cup {r.job},
                                                !.secrets = @ \cup S]
              /\ progress' = [progress EXCEPT !.mounts = @ + 1]
           \/ /\ ~r.ok /\ UNCHANGED <<inventory, progress>>
              /\ errors' = [errors EXCEPT !.mounts = @ \cup {r.job}]
    BY <1>4 DEF Collect, NoteMount
  <2> HIDE DEF S
  <2>2. /\ inventory'.namespaces = inventory.namespaces
        /\ errors'.namespaces = errors.namespaces
        /\ \/ /\ r.ok /\ errors'.mounts = errors.mounts
              /\ inventory'.mounts = inventory.mounts \cup {r.job}
              /\ inventory'.secrets = inventory.secrets \cup S
              /\ progress' = [progress EXCEPT !.mounts = @ + 1]
           \/ /\ ~r.ok /\ errors'.mounts = errors.mounts \cup {r.job}
              /\ UNCHANGED <<inventory, progress>>
    BY <1>1, <2>1 DEF ReportTyped
  <2>3. Answered' = Answered \cup {r.job}
    BY <1>2, <1>4, <2>2 DEF Answered
  <2> USE DEF S
  <2> QED
    BY <1>1, <1>2, <1>4, <2>1, <2>2, <2>3
<1> QED
  BY <1>3, <1>4

LEMMA CollectJobs ==
  ASSUME TypeInv, JobsInv, NEW r \in results, Collect(r)
  PROVE  JobsInv'
<1>1. /\ UNCHANGED <<stage, namespacePaths, unsent, worker, outcome>>
      /\ results' = results \ {r} /\ unsent = {} /\ r.job \in Jobs
      /\ Answered' = Answered \cup {r.job}
  BY CollectReport
<1>2. r.job \notin Answered /\ Once /\ Somewhere /\ Apart /\ Settled /\ Handed
  BY DEF JobsInv, Once
<1>3. stage \in {"namespaces", "mounts"} /\ outcome # "ok"
  BY <1>2 DEF TypeInv, OthersTyped, Settled
<1>4. Once'
  BY <1>1, <1>2 DEF Once, Answering
<1>5. CASE stage = "namespaces"
  <2>1. /\ inventory'.mounts = inventory.mounts /\ errors'.mounts = errors.mounts
        /\ \/ /\ r.ok /\ errors'.namespaces = errors.namespaces
              /\ inventory'.namespaces = inventory.namespaces \cup {r.job}
              /\ mountJobs' = mountJobs \cup r.found
           \/ /\ errors'.namespaces = errors.namespaces \cup {r.job}
              /\ UNCHANGED <<inventory, mountJobs>>
    BY <1>5, CollectReport
  <2>2. r.job \notin inventory.namespaces \cup errors.namespaces
    BY <1>2, <1>5 DEF Answered
  <2>3. Apart' /\ Settled'
    BY <1>1, <1>2, <1>3, <1>5, <2>1, <2>2 DEF Apart, Settled
  <2>4. Jobs' = Jobs
    BY <1>1, <1>5 DEF Jobs
  <2>5. Somewhere'
    BY <1>1, <1>2, <2>4 DEF Somewhere, Answering
  <2>6. r.ok => r.found = KVMounts(r.job)
    BY <1>2, <1>5 DEF Handed
  <2>7. mountJobs' = UNION {KVMounts(ns) : ns \in inventory'.namespaces}
    <3>1. CASE UNCHANGED <<inventory, mountJobs>>
      BY <1>2, <3>1 DEF Handed
    <3>2. CASE /\ inventory'.namespaces = inventory.namespaces \cup {r.job}
               /\ mountJobs' = mountJobs \cup KVMounts(r.job)
      BY <1>2, <3>2 DEF Handed
    <3> QED
      BY <2>1, <2>6, <3>1, <3>2
  <2>8. Handed'
    BY <1>1, <1>2, <2>7 DEF Handed, KVMounts, isKVMount
  <2> QED
    BY <1>4, <2>3, <2>5, <2>8 DEF JobsInv
<1>6. CASE stage # "namespaces"
  <2>1. /\ inventory'.namespaces = inventory.namespaces
        /\ errors'.namespaces = errors.namespaces /\ mountJobs' = mountJobs
        /\ \/ /\ errors'.mounts = errors.mounts
              /\ inventory'.mounts = inventory.mounts \cup {r.job}
           \/ /\ errors'.mounts = errors.mounts \cup {r.job}
              /\ inventory'.mounts = inventory.mounts
    BY <1>6, CollectReport
  <2>2. r.job \notin inventory.mounts \cup errors.mounts
    BY <1>2, <1>6 DEF Answered
  <2>3. Apart' /\ Settled'
    BY <1>1, <1>2, <1>3, <1>6, <2>1, <2>2 DEF Apart, Settled
  <2>4. Jobs' = Jobs
    BY <1>1, <2>1 DEF Jobs
  <2>5. Somewhere'
    BY <1>1, <1>2, <2>4 DEF Somewhere, Answering
  <2>6. Handed'
    BY <1>1, <1>2, <1>6, <2>1 DEF Handed, KVMounts, isKVMount
  <2> QED
    BY <1>4, <2>3, <2>5, <2>6 DEF JobsInv
<1> QED
  BY <1>5, <1>6

\* Between the pools and around them nothing is under way.
LEMMA StageJobs ==
  ASSUME TypeInv, JobsInv, ListNamespaces \/ EndNamespaces \/ EndMounts
  PROVE  JobsInv'
<1>1. Once /\ Somewhere /\ Apart /\ Settled /\ Handed
  BY DEF JobsInv
<1>2. CASE ListNamespaces /\ cancelled
  <2>1. /\ UNCHANGED <<namespacePaths, mountJobs, unsent, worker, results, inventory, errors>>
        /\ stage = "list" /\ stage' = "end" /\ outcome' = "failed"
    BY <1>2 DEF ListNamespaces, pool, report
  <2>2. Answered' = Answered
    BY <2>1 DEF Answered
  <2>3. Once'
    BY <1>1, <2>1, <2>2 DEF Once, Answering
  <2>4. Handed' /\ Somewhere' /\ Apart' /\ Settled'
    BY <1>1, <2>1 DEF Handed, Somewhere, Apart, Settled, KVMounts, isKVMount
  <2> QED
    BY <2>3, <2>4 DEF JobsInv
<1>3. CASE ListNamespaces /\ ~cancelled
  <2>1. /\ UNCHANGED <<mountJobs, inventory, errors, outcome>>
        /\ stage = "list" /\ stage' = "namespaces" /\ results' = {} /\ unsent' = namespacePaths'
        /\ \A w \in Worker : worker'[w].at = "idle"
    BY <1>3, PoolStarts DEF ListNamespaces, report
  <2>2. /\ \A w \in Worker : ~Answering(w)'
        /\ outcome # "ok" /\ Answered' = {} /\ Jobs' = namespacePaths'
    BY <1>1, <2>1 DEF Settled, Answering, Answered, Jobs
  <2>3. Once' /\ Somewhere'
    BY <2>1, <2>2 DEF Once, Somewhere
  <2>4. Apart' /\ Settled'
    BY <1>1, <2>1, <2>2 DEF Apart, Settled
  <2>5. Handed'
    BY <1>1, <2>1 DEF Handed, KVMounts, isKVMount
  <2> QED
    BY <2>3, <2>4, <2>5 DEF JobsInv
<1>4. CASE EndNamespaces
  <2>1. /\ UNCHANGED <<namespacePaths, mountJobs, inventory, errors, outcome>>
        /\ stage = "namespaces" /\ stage' = "mounts" /\ results' = {} /\ unsent' = mountJobs
        /\ \A w \in Worker : worker'[w].at = "idle"
        /\ unsent = {} /\ results = {} /\ \A w \in Worker : ~Answering(w)
    BY <1>4, PoolStarts DEF EndNamespaces, report, jobs, Drained, Answering
  <2>2. /\ \A w \in Worker : ~Answering(w)'
        /\ outcome # "ok" /\ Answered' = {} /\ Jobs' = mountJobs
    BY <1>1, <2>1 DEF Settled, Answering, Answered, Jobs
  <2>3. Once' /\ Somewhere'
    BY <2>1, <2>2 DEF Once, Somewhere
  <2>4. namespacePaths \subseteq inventory.namespaces \cup errors.namespaces
    BY <1>1, <2>1 DEF Somewhere, Jobs, Answered
  <2>5. inventory.namespaces \cup errors.namespaces \subseteq namespacePaths
    BY DEF TypeInv, ReportTyped
  <2>6. Apart' /\ Settled'
    BY <1>1, <2>1, <2>2, <2>4, <2>5 DEF Apart, Settled
  <2>7. Handed'
    BY <1>1, <2>1 DEF Handed, KVMounts, isKVMount
  <2> QED
    BY <2>3, <2>6, <2>7 DEF JobsInv
<1>5. CASE EndMounts
  <2>1. /\ UNCHANGED <<namespacePaths, mountJobs, unsent, worker, results, inventory, errors>>
        /\ stage = "mounts" /\ stage' = "end" /\ outcome' = "ok"
        /\ unsent = {} /\ results = {} /\ \A w \in Worker : worker[w].at = "gone"
    BY <1>5 DEF EndMounts, pool, report, jobs, Drained
  <2>2. Answered' = Answered /\ \A w \in Worker : ~Answering(w) /\ ~Answering(w)'
    BY <2>1 DEF Answered, Answering
  <2>3. Once' /\ Somewhere'
    BY <1>1, <2>1, <2>2 DEF Once, Somewhere
  <2>4. mountJobs \subseteq inventory.mounts \cup errors.mounts
    BY <1>1, <2>1, <2>2 DEF Somewhere, Jobs, Answered
  <2>5. inventory.mounts \cup errors.mounts \subseteq mountJobs
    BY DEF TypeInv, ReportTyped
  <2>6. Apart' /\ Settled'
    BY <1>1, <2>1, <2>4, <2>5 DEF Apart, Settled
  <2>7. Handed'
    BY <1>1, <2>1 DEF Handed, KVMounts, isKVMount
  <2> QED
    BY <2>3, <2>6, <2>7 DEF JobsInv
<1> QED
  BY <1>2, <1>3, <1>4, <1>5

LEMMA NextJobs == TypeInv /\ JobsInv /\ [Next]_vars => JobsInv'
<1> SUFFICES ASSUME TypeInv, JobsInv, [Next]_vars PROVE JobsInv'
  OBVIOUS
<1>1. CASE Outside
  <2>1. UNCHANGED <<stage, namespacePaths, mountJobs, unsent, worker, results, inventory, errors,
                    outcome>>
    BY <1>1, OutsideFrame DEF jobs, pool, report
  <2>2. Answered' = Answered /\ Jobs' = Jobs
    BY <2>1 DEF Answered, Jobs
  <2>3. Once' /\ Somewhere'
    BY <2>1, <2>2 DEF JobsInv, Once, Somewhere, Answering
  <2>4. Apart' /\ Settled' /\ Handed'
    BY <2>1 DEF JobsInv, Apart, Settled, Handed, KVMounts, isKVMount
  <2> QED
    BY <2>3, <2>4 DEF JobsInv
<1>2. ASSUME NEW w \in Worker, WorkerStep(w) PROVE JobsInv'
  BY <1>2, WorkingJobs, SendJobs, LeaveJobs DEF WorkerStep
<1>3. CASE Main
  BY <1>3, HandJobs, CollectJobs, StageJobs DEF Main
<1> QED
  BY <1>1, <1>2, <1>3, Steps

\* When Discover returns an inventory, every namespace and every mount listed is in it or
\* among the errors, and not in both, in whatever order workers and collector ran.
THEOREM JobsAnswered == Spec => []EveryJobIsAnswered
<1>1. TypeInv /\ JobsInv /\ [Next]_vars => (TypeInv /\ JobsInv)'
  BY NextType, NextJobs
<1> QED
  BY <1>1, InitType, InitJobs, AnsweredFromJobs, PTL DEF Spec

-------------------------------------------------------------------------------
(* The counters. *)

Pairs(m, S) == {<<m, p>> : p \in S}

\* A mount has as many secrets as paths were found.
LEMMA PairsCount ==
  ASSUME NEW m, NEW S, IsFiniteSet(S)
  PROVE  IsFiniteSet(Pairs(m, S)) /\ Cardinality(Pairs(m, S)) = Cardinality(S)
<1> DEFINE F == [p \in S |-> <<m, p>>]
<1>1. /\ F \in [S -> Pairs(m, S)] /\ \A p, q \in S : F[p] = F[q] => p = q
      /\ \A x \in Pairs(m, S) : \E p \in S : F[p] = x
  BY DEF Pairs
<1> HIDE DEF F
<1>2. F \in Bijection(S, Pairs(m, S))
  BY <1>1, Fun_IsBij
<1> QED
  BY <1>2, FS_Bijection DEF ExistsBijection

\* The secrets that a worker has counted and the collector has not seen.
OnTheWay ==
  {x \in Mount \X Path :
     \/ \E w \in Worker : /\ worker[w].at = "offer" /\ worker[w].ok
                          /\ x[1] = worker[w].job /\ x[2] \in worker[w].found
     \/ \E r \in results : r.ok /\ x[1] = r.job /\ x[2] \in r.found}
Counted == inventory.secrets \cup (IF stage = "mounts" THEN OnTheWay ELSE {})

CountInv ==
  /\ progress.namespaces = Cardinality(inventory.namespaces)
  /\ progress.mounts = Cardinality(inventory.mounts)
  /\ IsFiniteSet(Counted) /\ progress.secrets = Cardinality(Counted)

LEMMA CountersFromCount == TypeInv /\ JobsInv /\ CountInv => CountersAgree
<1> SUFFICES ASSUME TypeInv, JobsInv, CountInv, outcome = "ok" PROVE progress = Stats
  BY DEF CountersAgree
<1>1. Counted = inventory.secrets
  BY DEF JobsInv, Settled, Counted
<1> QED
  BY <1>1 DEF CountInv, Stats, TypeInv, ReportTyped

LEMMA InitCount == Init => CountInv
  BY FS_EmptySet DEF Init, CountInv, Counted

\* The jobs of both pools are finitely many.
LEMMA ReportFinite ==
  ASSUME TypeInv
  PROVE  IsFiniteSet(inventory.namespaces) /\ IsFiniteSet(inventory.mounts)
<1>1. inventory.namespaces \subseteq Namespace /\ inventory.mounts \subseteq Mount
  BY DEF TypeInv, OthersTyped, ReportTyped, Walkable
<1> QED
  BY <1>1, FS_Subset, VaultAssumption

\* A step that moves nothing between worker, channel and inventory.
LEMMA CountKept ==
  ASSUME CountInv, UNCHANGED <<inventory, progress>>, Counted' = Counted
  PROVE  CountInv'
  BY DEF CountInv

LEMMA WorkingCount ==
  ASSUME TypeInv, Truthful, JobsInv, CountInv, NEW w \in Worker,
         ListMounts(w) \/ FinishWalk(w) \/ \E f \in worker[w].todo : ListFolder(w, f)
  PROVE  CountInv'
<1> DEFINE m == worker[w].job
<1>1. /\ UNCHANGED <<stage, results, inventory>> /\ worker[w].at = "busy"
      /\ \A v \in Worker \ {w} : worker'[v] = worker[v]
      /\ worker'[w].job = m
      /\ \/ progress' = progress
            /\ (stage = "mounts" => worker'[w].at = "busy" \/ ~worker'[w].ok)
         \/ /\ worker'[w].at = "offer" /\ stage = "mounts" /\ worker'[w].ok
            /\ worker'[w].found = worker[w].found
            /\ progress' = [progress EXCEPT !.secrets = @ + Cardinality(worker[w].found)]
  BY Working
<1>2. CASE progress' = progress /\ (stage = "mounts" => worker'[w].at = "busy" \/ ~worker'[w].ok)
  <2>1. stage = "mounts" => OnTheWay' = OnTheWay
    BY <1>1, <1>2 DEF OnTheWay
  <2> QED
    BY <1>1, <1>2, <2>1, CountKept DEF Counted
<1>3. CASE /\ worker'[w].at = "offer" /\ stage = "mounts" /\ worker'[w].ok
           /\ worker'[w].found = worker[w].found
           /\ progress' = [progress EXCEPT !.secrets = @ + Cardinality(worker[w].found)]
  <2> DEFINE S == worker[w].found
             new == Pairs(m, S)
  <2>1. S \subseteq Path /\ IsFiniteSet(S) /\ m \in Mount
    BY <1>1, <1>3 DEF TypeInv, OthersTyped, WorkersTyped, WorkerState, Item, Jobs, Walkable
  <2>2. IsFiniteSet(new) /\ Cardinality(new) = Cardinality(S)
    BY <2>1, PairsCount
  <2>3. \A x \in Mount \X Path : x \in new <=> x[1] = m /\ x[2] \in S
    BY DEF Pairs
  <2>4. new \subseteq Mount \X Path
    BY <2>1 DEF Pairs
  <2>5. OnTheWay' = OnTheWay \cup new
    <3> HIDE DEF m, S, new
    <3>1. \A x \in Mount \X Path : x \in OnTheWay' <=> x \in OnTheWay \/ x \in new
      <4> TAKE x \in Mount \X Path
      <4>1. x \in OnTheWay' <=> \/ \E v \in Worker : /\ worker'[v].at = "offer" /\ worker'[v].ok
                                       /\ x[1] = worker'[v].job /\ x[2] \in worker'[v].found
                                \/ \E r \in results : r.ok /\ x[1] = r.job /\ x[2] \in r.found
        BY <1>1 DEF OnTheWay
      <4>2. x \in OnTheWay <=> \/ \E v \in Worker : /\ worker[v].at = "offer" /\ worker[v].ok
                                       /\ x[1] = worker[v].job /\ x[2] \in worker[v].found
                               \/ \E r \in results : r.ok /\ x[1] = r.job /\ x[2] \in r.found
        BY DEF OnTheWay
      <4> USE DEF m, S
      <4> QED
        BY <1>1, <1>3, <2>3, <4>1, <4>2
    <3> QED
      BY <2>4, <3>1 DEF OnTheWay
  <2>6. Counted' = Counted \cup new
    BY <1>1, <1>3, <2>5 DEF Counted
  <2>7. Counted \cap new = {}
    <3> SUFFICES ASSUME NEW x \in Counted, x \in new PROVE FALSE
      OBVIOUS
    <3>1. x[1] = m
      BY <2>3, <2>4
    <3>2. Answering(w) /\ m \notin Answered /\ \A r \in results : r.job # m
      BY <1>1 DEF JobsInv, Once, Answering
    <3>3. x \notin inventory.secrets
      BY <1>3, <3>1, <3>2 DEF Truthful, SecretsTrue, Answered
    <3>4. \A v \in Worker : worker[v].at = "offer" => worker[v].job # m
      BY <1>1, <3>2 DEF JobsInv, Once, Answering
    <3> QED
      BY <3>1, <3>2, <3>3, <3>4 DEF Counted, OnTheWay
  <2>8. /\ progress'.namespaces = progress.namespaces /\ progress'.mounts = progress.mounts
        /\ progress'.secrets = progress.secrets + Cardinality(S)
    BY <1>3 DEF TypeInv, ReportTyped
  <2> HIDE DEF S, new, m
  <2>9. /\ IsFiniteSet(Counted') /\ Cardinality(Counted') = Cardinality(Counted) + Cardinality(S)
    <3>1. IsFiniteSet(Counted)
      BY DEF CountInv
    <3>2. /\ IsFiniteSet(Counted \cup new)
          /\ Cardinality(Counted \cup new)
               = Cardinality(Counted) + Cardinality(new) - Cardinality(Counted \cap new)
      BY <2>2, <3>1, FS_Union
    <3>3. Cardinality(Counted) \in Nat /\ Cardinality(new) \in Nat /\ Cardinality({}) = 0
      BY <2>2, <3>1, FS_CardinalityType, FS_EmptySet
    <3>4. Cardinality(Counted \cap new) = 0
      BY <2>7, <3>3
    <3>5. Cardinality(Counted \cup new) = Cardinality(Counted) + Cardinality(S)
      BY <2>2, <3>2, <3>3, <3>4
    <3> QED
      BY <2>6, <3>2, <3>5
  <2> QED
    BY <1>1, <2>8, <2>9 DEF CountInv
<1> QED
  BY <1>1, <1>2, <1>3

LEMMA SendCount ==
  ASSUME TypeInv, CountInv, NEW w \in Worker, Send(w)
  PROVE  CountInv'
<1> DEFINE new == [job |-> worker[w].job, ok |-> worker[w].ok, found |-> worker[w].found]
<1>1. /\ UNCHANGED <<stage, inventory, progress>>
      /\ worker[w].at = "offer" /\ results' = results \cup {new}
      /\ worker'[w].at = "idle" /\ \A v \in Worker \ {w} : worker'[v] = worker[v]
  BY DEF Send, Becomes, Waiting, report, TypeInv, WorkersTyped
<1>2. new.job = worker[w].job /\ new.ok = worker[w].ok /\ new.found = worker[w].found
  OBVIOUS
<1> HIDE DEF new
<1>3. OnTheWay' = OnTheWay
  <2>1. \A x \in Mount \X Path : x \in OnTheWay' <=> x \in OnTheWay
    BY <1>1, <1>2 DEF OnTheWay
  <2> QED
    BY <2>1 DEF OnTheWay
<1> QED
  BY <1>1, <1>3, CountKept DEF Counted

\* Handing out a job, and leaving, concerns no worker with an offer.
LEMMA IdleCount ==
  ASSUME TypeInv, CountInv, NEW w \in Worker, Leave(w) \/ \E job \in unsent : Hand(w, job)
  PROVE  CountInv'
<1>1. /\ UNCHANGED <<stage, results, inventory, progress>>
      /\ worker[w].at # "offer" /\ worker'[w].at # "offer"
      /\ \A v \in Worker \ {w} : worker'[v] = worker[v]
  BY DEF Leave, Hand, Becomes, Gone, Waiting, report, TypeInv, WorkersTyped
<1>2. OnTheWay' = OnTheWay
  BY <1>1 DEF OnTheWay
<1> QED
  BY <1>1, <1>2, CountKept DEF Counted

LEMMA CollectCount ==
  ASSUME TypeInv, JobsInv, CountInv, NEW r \in results, Collect(r)
  PROVE  CountInv'
<1>1. /\ UNCHANGED <<stage, worker>> /\ results' = results \ {r}
      /\ r.job \notin Answered /\ stage \in {"namespaces", "mounts"}
  BY CollectReport DEF JobsInv, Once, Settled, TypeInv, OthersTyped
<1>2. progress \in [namespaces : Nat, mounts : Nat, secrets : Nat]
  BY DEF TypeInv, ReportTyped
<1>3. CASE stage = "namespaces"
  <2>1. Counted = inventory.secrets /\ Counted' = inventory'.secrets
    BY <1>1, <1>3 DEF Counted
  <2>2. /\ inventory'.mounts = inventory.mounts /\ inventory'.secrets = inventory.secrets
        /\ \/ /\ inventory'.namespaces = inventory.namespaces \cup {r.job}
              /\ progress' = [progress EXCEPT !.namespaces = @ + 1]
           \/ UNCHANGED <<inventory, progress>>
    BY <1>3, CollectReport
  <2>3. r.job \notin inventory.namespaces
    BY <1>1, <1>3 DEF Answered
  <2>4. Cardinality(inventory.namespaces \cup {r.job}) = Cardinality(inventory.namespaces) + 1
    BY <2>3, ReportFinite, FS_AddElement
  <2> QED
    BY <1>2, <2>1, <2>2, <2>4 DEF CountInv
<1>4. CASE stage = "mounts"
  <2>1. \/ /\ r.ok /\ inventory'.namespaces = inventory.namespaces
           /\ inventory'.mounts = inventory.mounts \cup {r.job}
           /\ inventory'.secrets = inventory.secrets \cup Pairs(r.job, r.found)
           /\ progress' = [progress EXCEPT !.mounts = @ + 1]
        \/ ~r.ok /\ UNCHANGED <<inventory, progress>>
    BY <1>4, CollectReport DEF Pairs
  <2>2. r.job \in Mount /\ r.found \subseteq Path
    BY <1>4 DEF TypeInv, OthersTyped, ResultsTyped, Item, Jobs, Walkable
  <2>3. /\ Pairs(r.job, r.found) \subseteq Mount \X Path
        /\ \A x \in Mount \X Path :
             x \in Pairs(r.job, r.found) <=> x[1] = r.job /\ x[2] \in r.found
    BY <2>2 DEF Pairs
  <2>4. OnTheWay = OnTheWay' \cup (IF r.ok THEN Pairs(r.job, r.found) ELSE {})
    <3> DEFINE P == Pairs(r.job, r.found)
    <3> HIDE DEF P
    <3>1. \A x \in Mount \X Path : x \in OnTheWay <=> x \in OnTheWay' \/ (r.ok /\ x \in P)
      BY <1>1, <2>3 DEF OnTheWay, P
    <3> QED
      BY <2>3, <3>1 DEF OnTheWay, P
  <2>5. Counted' = Counted
    BY <1>1, <1>4, <2>1, <2>4 DEF Counted
  <2>6. CASE r.ok
    <3>1. r.job \notin inventory.mounts
      BY <1>1, <1>4 DEF Answered
    <3>2. Cardinality(inventory.mounts \cup {r.job}) = Cardinality(inventory.mounts) + 1
      BY <3>1, ReportFinite, FS_AddElement
    <3>3. /\ progress'.namespaces = progress.namespaces
          /\ progress'.mounts = progress.mounts + 1 /\ progress'.secrets = progress.secrets
      BY <1>2, <2>1, <2>6
    <3> QED
      BY <2>1, <2>5, <2>6, <3>2, <3>3 DEF CountInv
  <2>7. CASE ~r.ok
    BY <2>1, <2>5, <2>7, CountKept
  <2> QED
    BY <2>6, <2>7
<1> QED
  BY <1>1, <1>3, <1>4

LEMMA StageCount ==
  ASSUME TypeInv, CountInv, ListNamespaces \/ EndNamespaces \/ EndMounts
  PROVE  CountInv'
<1>1. CASE ListNamespaces
  <2>1. UNCHANGED <<inventory, progress>> /\ stage # "mounts" /\ stage' # "mounts"
    BY <1>1 DEF ListNamespaces, StartPool, report
  <2> QED
    BY <2>1, CountKept DEF Counted
<1>2. CASE EndNamespaces
  <2>1. /\ UNCHANGED <<inventory, progress>> /\ stage # "mounts" /\ results' = {}
        /\ \A w \in Worker : worker'[w].at = "idle"
    BY <1>2, PoolStarts DEF EndNamespaces, report
  <2>2. OnTheWay' = {}
    BY <2>1 DEF OnTheWay
  <2> QED
    BY <2>1, <2>2, CountKept DEF Counted
<1>3. CASE EndMounts
  <2>1. /\ UNCHANGED <<inventory, progress>> /\ stage' # "mounts" /\ results = {}
        /\ \A w \in Worker : worker[w].at = "gone"
    BY <1>3 DEF EndMounts, report, Drained
  <2>2. OnTheWay = {}
    BY <2>1 DEF OnTheWay
  <2> QED
    BY <2>1, <2>2, CountKept DEF Counted
<1> QED
  BY <1>1, <1>2, <1>3

LEMMA NextCount == TypeInv /\ Truthful /\ JobsInv /\ CountInv /\ [Next]_vars => CountInv'
<1> SUFFICES ASSUME TypeInv, Truthful, JobsInv, CountInv, [Next]_vars PROVE CountInv'
  OBVIOUS
<1>1. CASE Outside
  <2>1. UNCHANGED <<stage, worker, results, inventory, progress>>
    BY <1>1, OutsideFrame DEF pool, report
  <2>2. Counted' = Counted
    BY <2>1 DEF Counted, OnTheWay
  <2> QED
    BY <2>1, <2>2, CountKept
<1>2. ASSUME NEW w \in Worker, WorkerStep(w) PROVE CountInv'
  BY <1>2, WorkingCount, SendCount, IdleCount DEF WorkerStep
<1>3. CASE Main
  BY <1>3, IdleCount, CollectCount, StageCount DEF Main
<1> QED
  BY <1>1, <1>2, <1>3, Steps

\* The counters shown to the operator, added to by workers and collector, are in the end the
\* statistics that the inventory file states.
THEOREM CountersExact == Spec => []CountersAgree
<1>1. TypeInv /\ Truthful /\ JobsInv /\ CountInv /\ [Next]_vars
        => (TypeInv /\ Truthful /\ JobsInv /\ CountInv)'
  BY NextType, NextTrue, NextJobs, NextCount
<1> QED
  BY <1>1, InitType, InitTrue, InitJobs, InitCount, CountersFromCount, PTL DEF Spec

-------------------------------------------------------------------------------
(* The channel of results. *)

\* Each result on its way is that of another job, and none is that of the one on offer.
LEMMA RoomFromOnce == TypeInv /\ JobsInv => OfferFindsRoom
<1> SUFFICES ASSUME TypeInv, JobsInv, NEW w \in Worker, worker[w].at = "offer"
             PROVE  Cardinality(results) < Cardinality(Jobs)
  BY DEF OfferFindsRoom, Capacity
<1> DEFINE j == worker[w].job
           f == [r \in results |-> r.job]
<1>1. j \in Jobs /\ IsFiniteSet(Jobs)
  <2>1. Jobs \subseteq Namespace \/ Jobs \subseteq Mount
    BY DEF TypeInv, OthersTyped, Jobs, Walkable
  <2>2. IsFiniteSet(Jobs)
    BY <2>1, VaultAssumption, FS_Subset
  <2> QED
    BY <2>2 DEF TypeInv, WorkersTyped
<1>2. IsFiniteSet(Jobs \ {j}) /\ Cardinality(Jobs \ {j}) = Cardinality(Jobs) - 1
  BY <1>1, FS_RemoveElement
<1>3. f \in Injection(results, Jobs \ {j})
  <2>1. \A r \in results : r.job \in Jobs \ {j}
    BY DEF JobsInv, Once, Answering, TypeInv, ResultsTyped
  <2>2. \A r, q \in results : r.job = q.job => r = q
    BY DEF JobsInv, Once
  <2> QED
    BY <2>1, <2>2 DEF Injection, IsInjective
<1> HIDE DEF f
<1>4. Cardinality(results) <= Cardinality(Jobs \ {j}) /\ IsFiniteSet(results)
  BY <1>2, <1>3, FS_Injection
<1>5. Cardinality(results) \in Nat /\ Cardinality(Jobs) \in Nat
  BY <1>1, <1>4, FS_CardinalityType
<1> HIDE DEF j
<1> QED
  BY <1>2, <1>4, <1>5

\* A worker that offers a result finds room for it at once.
THEOREM OffersFindRoom == Spec => []OfferFindsRoom
<1>1. TypeInv /\ JobsInv /\ [Next]_vars => (TypeInv /\ JobsInv)'
  BY NextType, NextJobs
<1>2. Spec => [](TypeInv /\ JobsInv)
  BY <1>1, InitType, InitJobs, PTL DEF Spec
<1> QED
  BY <1>2, RoomFromOnce, PTL

-------------------------------------------------------------------------------
(* Folders. *)

\* Path by path: two of one length and with the same names are one.
LEMMA WithinNames ==
  ASSUME NEW f \in Path, NEW g \in Path
  PROVE  /\ Len(f) \in Nat /\ Len(g) \in Nat
         /\ Within(f, g) <=> Len(f) <= Len(g) /\ \A i \in 1..Len(f) : f[i] = g[i]
         /\ Len(f) = Len(g) /\ (\A i \in 1..Len(f) : f[i] = g[i]) => f = g
<1>1. Len(f) \in Nat /\ Len(g) \in Nat
  BY LenProperties DEF Path
<1>2. Len(f) = Len(g) /\ (\A i \in 1..Len(f) : f[i] = g[i]) => f = g
  BY <1>1, SeqEqual DEF Path
<1>3. ASSUME Len(f) <= Len(g)
      PROVE  SubSeq(g, 1, Len(f)) = f <=> \A i \in 1..Len(f) : f[i] = g[i]
  <2>1. Len(f) \in 0..Len(g)
    BY <1>1, <1>3
  <2>2. /\ SubSeq(g, 1, Len(f)) \in Path /\ Len(SubSeq(g, 1, Len(f))) = Len(f)
        /\ \A i \in 1..Len(f) : SubSeq(g, 1, Len(f))[i] = g[i]
    BY <2>1, Prefix
  <2>3. (\A i \in 1..Len(f) : f[i] = g[i]) => SubSeq(g, 1, Len(f)) = f
    BY <2>2, SeqEqual DEF Path
  <2> QED
    BY <2>2, <2>3
<1> QED
  BY <1>1, <1>2, <1>3 DEF Within

\* The folders shown in the listing of a normal folder lie directly in it, and are folders
\* of the normal paths of what Vault holds.
LEMMA FoldersBelow ==
  ASSUME present \subseteq Stored, NEW m \in Mount, NEW v, NEW f \in Path, Normal(f) = f,
         NEW c \in Folders(Beneath(m, v, f), f)
  PROVE  /\ c \in Path /\ Len(c) = Len(f) + 1 /\ Within(f, c) /\ <<m, c>> \in Folder
<1>1. PICK p \in Beneath(m, v, f) : Len(p) > Len(f) + 1 /\ c = Child(f, p)
  BY DEF Folders
<1>2. p \in Path /\ Above(f, p) /\ <<m, p>> \in Stored
  BY <1>1, ListingType
<1>3. /\ Len(f) \in Nat /\ Len(p) \in Nat /\ DOMAIN p = 1..Len(p) /\ DOMAIN f = 1..Len(f)
      /\ \A i \in 1..Len(p) : p[i] \in Name
  BY <1>2, LenProperties, ElementOfSeq DEF Path
<1>4. /\ c \in Path /\ Len(c) = Len(f) + 1 /\ (\A i \in 1..Len(f) : c[i] = f[i])
      /\ c[Len(f) + 1] = Trimmed[p[Len(f) + 1]]
  BY <1>1, <1>2, <1>3, ChildType DEF Above
<1>5. Within(f, c)
  BY <1>3, <1>4, WithinNames
<1>6. /\ Normal(p) \in Path /\ Len(Normal(p)) = Len(p)
      /\ \A i \in 1..Len(p) : Normal(p)[i] = Trimmed[p[i]]
  <2>1. Normal(p) = [i \in 1..Len(p) |-> Trimmed[p[i]]]
    BY <1>3 DEF Normal
  <2>2. \A i \in 1..Len(p) : Trimmed[p[i]] \in Name
    BY <1>3, VaultAssumption DEF Name
  <2> QED
    BY <1>3, <2>1, <2>2, LenProperties DEF Path
<1>7. \A i \in 1..Len(f) : c[i] = Trimmed[p[i]]
  <2> TAKE i \in 1..Len(f)
  <2>1. SubSeq(p, 1, Len(f))[i] = p[i]
    BY <1>2, <1>3, Prefix DEF Above
  <2>2. p[i] = f[i] /\ Normal(f)[i] = Trimmed[f[i]]
    BY <1>2, <1>3, <2>1 DEF Above, Normal
  <2> QED
    BY <1>4, <2>2
<1>8. c = SubSeq(Normal(p), 1, Len(f) + 1)
  <2> DEFINE q == SubSeq(Normal(p), 1, Len(f) + 1)
  <2>1. Len(f) + 1 \in 0..Len(Normal(p))
    BY <1>1, <1>3, <1>6
  <2>2. /\ q \in Path /\ Len(q) = Len(f) + 1
        /\ \A i \in 1..Len(f) + 1 : q[i] = Normal(p)[i]
    BY <1>6, <2>1, Prefix
  <2>3. \A i \in 1..Len(f) + 1 : c[i] = Trimmed[p[i]]
    BY <1>3, <1>4, <1>7
  <2>4. \A i \in 1..Len(f) + 1 : i \in 1..Len(p)
    BY <1>1, <1>3
  <2> HIDE DEF q
  <2> QED
    BY <1>4, <1>6, <2>2, <2>3, <2>4, SeqEqual DEF Path, q
<1>9. <<m, c>> \in Folder
  <2>1. Len(f) + 1 \in 1..Len(p) - 1
    BY <1>1, <1>3
  <2> DEFINE s == <<m, p>>
  <2>2. <<s[1], SubSeq(Normal(s[2]), 1, Len(f) + 1)>> \in
          {<<s[1], SubSeq(Normal(s[2]), 1, n)>> : n \in 1..Len(s[2]) - 1}
    BY <2>1
  <2> QED
    BY <1>2, <1>8, <2>2 DEF Folder
<1> QED
  BY <1>4, <1>5, <1>9

-------------------------------------------------------------------------------
(* A run is bounded. *)

\* The folders a walk has still to list are none above another.
Apiece(todo) == \A f, g \in todo : Within(f, g) => f = g

Frontier ==
  stage = "mounts" => \A w \in Worker : worker[w].at = "busy" =>
    /\ Apiece(worker[w].todo)
    /\ \A f \in worker[w].todo : <<worker[w].job, f>> \in Folder

\* Listing a folder replaces it by those directly in it.
LEMMA ListingApiece ==
  ASSUME present \subseteq Stored, NEW m \in Mount, NEW v, NEW todo \in SUBSET Path,
         NEW f \in todo, Normal(f) = f, Apiece(todo)
  PROVE  LET below == Folders(Beneath(m, v, f), f)
         IN  /\ Apiece(todo \ {f}) /\ Apiece((todo \ {f}) \cup below)
             /\ \A g \in (todo \ {f}) \cup below : ~Within(g, f)
<1> DEFINE below == Folders(Beneath(m, v, f), f)
<1>0. f \in Path
  OBVIOUS
<1>1. \A c \in below : c \in Path /\ Len(c) = Len(f) + 1 /\ Within(f, c)
  BY <1>0, FoldersBelow
<1> HIDE DEF below
<1>2. Apiece(todo \ {f})
  BY DEF Apiece
<1>3. \A g \in (todo \ {f}) \cup below : ~Within(g, f)
  <2>1. \A g \in below : Len(g) \in Nat /\ Len(f) \in Nat /\ Len(g) > Len(f)
    BY <1>0, <1>1, WithinNames
  <2>2. \A g \in below : ~Within(g, f)
    BY <2>1 DEF Within
  <2> QED
    BY <2>2 DEF Apiece
<1>4. ASSUME NEW a \in (todo \ {f}) \cup below, NEW b \in (todo \ {f}) \cup below, Within(a, b)
      PROVE  a = b
  <2>1. a \in Path /\ b \in Path
    BY <1>1
  <2>2. /\ Len(a) \in Nat /\ Len(b) \in Nat /\ Len(f) \in Nat /\ Len(a) <= Len(b)
        /\ \A i \in 1..Len(a) : a[i] = b[i]
    BY <1>0, <1>4, <2>1, WithinNames
  <2>3. CASE a \in todo /\ b \in todo
    BY <1>4, <2>3 DEF Apiece
  <2>4. CASE a \in below /\ b \in below
    <3>1. Len(a) = Len(b)
      BY <1>1, <2>4
    <3> QED
      BY <2>1, <2>2, <3>1, WithinNames
  <2>5. CASE a \in below /\ b \in todo \ {f}
    <3>1. \A i \in 1..Len(f) : f[i] = a[i] /\ i \in 1..Len(a)
      <4>1. Within(f, a) /\ Len(a) = Len(f) + 1
        BY <1>1, <2>5
      <4>2. \A i \in 1..Len(f) : f[i] = a[i]
        BY <1>0, <2>1, <4>1, WithinNames
      <4> QED
        BY <2>2, <4>1, <4>2
    <3>2. Len(f) <= Len(b)
      BY <1>1, <2>2, <2>5
    <3>3. \A i \in 1..Len(f) : f[i] = b[i]
      BY <2>2, <3>1
    <3>4. Within(f, b)
      BY <1>0, <2>1, <3>2, <3>3, WithinNames
    <3> QED
      BY <2>5, <3>4 DEF Apiece
  <2>6. CASE a \in todo \ {f} /\ b \in below
    <3>1. Len(b) = Len(f) + 1 /\ Within(f, b)
      BY <1>1, <2>6
    <3>2. \A i \in 1..Len(f) : f[i] = b[i]
      BY <1>0, <2>1, <3>1, WithinNames
    <3>3. CASE Len(a) = Len(b)
      BY <2>1, <2>2, <3>3, WithinNames
    <3>4. CASE Len(a) # Len(b)
      <4>1. Len(a) <= Len(f)
        BY <2>2, <3>1, <3>4
      <4>2. \A i \in 1..Len(a) : i \in 1..Len(f) /\ a[i] = f[i]
        BY <2>2, <3>2, <4>1
      <4>3. Within(a, f)
        BY <1>0, <2>1, <4>1, <4>2, WithinNames
      <4> QED
        BY <1>3, <4>3
    <3> QED
      BY <3>3, <3>4
  <2> QED
    BY <2>3, <2>4, <2>5, <2>6
<1>5. Apiece((todo \ {f}) \cup below)
  BY <1>4 DEF Apiece
<1> QED
  BY <1>2, <1>3, <1>5 DEF below

\* What the listing of a folder, or its failure, leaves a walk to do.
LEMMA ListFolderEffect ==
  ASSUME TypeInv, Truthful, Frontier, NEW w \in Worker, NEW f \in worker[w].todo, ListFolder(w, f)
  PROVE  \/ worker'[w].at = "offer"
         \/ /\ worker'[w].at = "busy" /\ worker'[w].todo \subseteq Path /\ Apiece(worker'[w].todo)
            /\ \A g \in worker'[w].todo :
                 /\ ~Within(g, f) /\ <<worker[w].job, g>> \in Folder
                 /\ g \in worker[w].todo \/ Within(f, g)
<1> DEFINE m == worker[w].job
           todo == worker[w].todo
           rest == todo \ {f}
           shown == Beneath(m, getKVVersion(m), f)
<1>1. stage = "mounts" /\ worker[w].at = "busy" /\ worker[w] \in WorkerState
  BY DEF ListFolder, TypeInv, WorkersTyped
<1>2. todo \in SUBSET Path /\ m \in Mount /\ present \subseteq Stored
  BY <1>1 DEF WorkerState, TypeInv, WorkersTyped, OthersTyped, Jobs, Walkable
<1>3. Normal(f) = f /\ Apiece(todo) /\ \A g \in todo : <<m, g>> \in Folder
  BY <1>1 DEF Frontier, Truthful, WorkersTrue
<1>4. /\ Apiece(rest) /\ Apiece(rest \cup Folders(shown, f))
      /\ \A g \in rest \cup Folders(shown, f) : ~Within(g, f)
  BY <1>2, <1>3, ListingApiece
<1>5. \A g \in Folders(shown, f) : g \in Path /\ Within(f, g) /\ <<m, g>> \in Folder
  BY <1>2, <1>3, FoldersBelow
<1>6. worker'[w].at = "offer" \/ (worker'[w].at = "busy" /\ worker'[w].todo \in {rest, rest \cup Folders(shown, f)})
  <2>1. ASSUME NEW T, NEW S, Becomes(w, [worker[w] EXCEPT !.todo = T, !.found = S])
        PROVE  worker'[w].at = "busy" /\ worker'[w].todo = T
    <3>1. worker'[w] = [worker[w] EXCEPT !.todo = T, !.found = S]
      BY <2>1 DEF Becomes, TypeInv, WorkersTyped
    <3> QED
      BY <1>1, <3>1 DEF WorkerState
  <2>2. ASSUME NEW T, Becomes(w, [worker[w] EXCEPT !.todo = T])
        PROVE  worker'[w].at = "busy" /\ worker'[w].todo = T
    <3>1. worker'[w] = [worker[w] EXCEPT !.todo = T]
      BY <2>2 DEF Becomes, TypeInv, WorkersTyped
    <3> QED
      BY <1>1, <3>1 DEF WorkerState
  <2>3. ASSUME Offer(w, FALSE, {}) PROVE worker'[w].at = "offer"
    BY <1>1, <2>3 DEF Offer, Becomes, TypeInv, WorkersTyped, WorkerState
  <2>4. \/ Becomes(w, [worker[w] EXCEPT !.todo = rest \cup Folders(shown, f),
                                        !.found = @ \cup Leaves(shown, f)])
        \/ Offer(w, FALSE, {})
        \/ Becomes(w, [worker[w] EXCEPT !.todo = rest])
    BY DEF ListFolder
  <2> HIDE DEF rest, shown
  <2> QED
    BY <2>1, <2>2, <2>3, <2>4
<1> HIDE DEF shown
<1>7. CASE worker'[w].at = "busy" /\ worker'[w].todo = rest
  BY <1>2, <1>3, <1>4, <1>7
<1>8. CASE worker'[w].at = "busy" /\ worker'[w].todo = rest \cup Folders(shown, f)
  BY <1>2, <1>3, <1>4, <1>5, <1>8
<1> QED
  BY <1>6, <1>7, <1>8

\* A worker leaves when the jobs have all been sent, and Discover returns at the end.
Ordered ==
  /\ stage \in {"namespaces", "mounts"} /\ unsent # {} => \A w \in Worker : worker[w].at # "gone"
  /\ stage = "end" <=> outcome # "none"

LEMMA FrontierStep ==
  TypeInv /\ Truthful /\ Frontier /\ Ordered /\ [Next]_vars => Frontier' /\ Ordered'
<1> SUFFICES ASSUME TypeInv, Truthful, Frontier, Ordered, [Next]_vars PROVE Frontier' /\ Ordered'
  OBVIOUS
<1>0. /\ worker \in [Worker -> WorkerState] /\ outcome \in {"none", "ok", "failed"}
      /\ stage \in {"list", "namespaces", "mounts", "end"}
  BY DEF TypeInv, WorkersTyped, OthersTyped
<1>1. CASE Outside
  <2>1. UNCHANGED <<stage, unsent, worker, outcome>>
    BY <1>1, OutsideFrame DEF pool
  <2> QED
    BY <2>1 DEF Frontier, Ordered, Apiece
<1>2. CASE ListNamespaces \/ EndMounts
  <2>1. CASE stage' = "end"
    BY <1>2, <2>1 DEF ListNamespaces, EndMounts, StartPool, Frontier, Ordered
  <2>2. CASE stage' # "end"
    <3>1. stage' = "namespaces" /\ UNCHANGED outcome /\ stage = "list"
          /\ StartPool("namespaces", namespacePaths')
      BY <1>2, <2>2 DEF ListNamespaces, EndMounts, StartPool
    <3>2. \A w \in Worker : worker'[w].at = "idle"
      BY <3>1, PoolStarts
    <3> QED
      BY <3>1, <3>2 DEF Frontier, Ordered
  <2> QED
    BY <2>1, <2>2
<1>3. CASE EndNamespaces
  <2>1. /\ stage' = "mounts" /\ UNCHANGED outcome /\ stage = "namespaces"
        /\ \A w \in Worker : worker'[w].at = "idle"
    BY <1>3, PoolStarts DEF EndNamespaces
  <2> QED
    BY <2>1 DEF Frontier, Ordered
<1>4. ASSUME NEW w \in Worker, NEW j \in unsent, Hand(w, j) PROVE Frontier' /\ Ordered'
  <2>1. /\ UNCHANGED <<stage, outcome>> /\ unsent' \subseteq unsent
        /\ worker'[w] = [Waiting EXCEPT !.at = "busy", !.job = j,
                                        !.todo = IF stage = "mounts" THEN {<<>>} ELSE {}]
        /\ \A v \in Worker \ {w} : worker'[v] = worker[v]
    BY <1>0, <1>4 DEF Hand, Becomes
  <2>2. worker'[w].at = "busy" /\ worker'[w].job = j
        /\ (stage = "mounts" => worker'[w].todo = {<<>>})
    BY <2>1 DEF Waiting
  <2>3. stage = "mounts" => <<j, <<>>>> \in Folder
    BY DEF TypeInv, OthersTyped, Jobs, Folder, Walkable
  <2>4. stage = "mounts" => Apiece(worker'[w].todo)
    BY <2>2 DEF Apiece
  <2>5. Frontier'
    BY <2>1, <2>2, <2>3, <2>4 DEF Frontier, Apiece
  <2> QED
    BY <2>1, <2>2, <2>5 DEF Ordered
<1>5. ASSUME NEW r \in results, Collect(r) PROVE Frontier' /\ Ordered'
  BY <1>5 DEF Collect, Frontier, Ordered, Apiece
<1>6. ASSUME NEW w \in Worker,
             ListMounts(w) \/ FinishWalk(w) \/ \E f \in worker[w].todo : ListFolder(w, f)
      PROVE  Frontier' /\ Ordered'
  <2>1. /\ UNCHANGED <<stage, unsent, outcome>>
        /\ \A v \in Worker \ {w} : worker'[v] = worker[v]
        /\ worker'[w].job = worker[w].job /\ worker'[w].at \in {"busy", "offer"}
    BY <1>6, Working
  <2>2. Ordered'
    BY <2>1 DEF Ordered
  <2>3. ASSUME stage = "mounts", worker'[w].at = "busy"
        PROVE  /\ Apiece(worker'[w].todo)
               /\ \A g \in worker'[w].todo : <<worker'[w].job, g>> \in Folder
    <3>1. CASE ListMounts(w) \/ FinishWalk(w)
      <4>1. \E ok, S : Offer(w, ok, S)
        BY <3>1 DEF ListMounts, FinishWalk
      <4>2. PICK ok, S : Offer(w, ok, S)
        BY <4>1
      <4>3. worker'[w] = [worker[w] EXCEPT !.at = "offer", !.todo = {}, !.found = S, !.ok = ok]
        BY <1>0, <4>2 DEF Offer, Becomes
      <4> QED
        BY <1>0, <2>3, <4>3 DEF WorkerState
    <3>2. CASE \E f \in worker[w].todo : ListFolder(w, f)
      BY <2>1, <2>3, <3>2, ListFolderEffect
    <3> QED
      BY <1>6, <3>1, <3>2
  <2> QED
    BY <2>1, <2>2, <2>3 DEF Frontier, Apiece
<1>7. ASSUME NEW w \in Worker, Send(w) \/ Leave(w) PROVE Frontier' /\ Ordered'
  <2>1. /\ UNCHANGED <<stage, unsent, outcome>>
        /\ \A v \in Worker \ {w} : worker'[v] = worker[v]
        /\ worker'[w].at \in {"idle", "gone"} /\ (worker'[w].at = "gone" => unsent = {})
    BY <1>0, <1>7 DEF Send, Leave, Becomes, Gone, Waiting
  <2> QED
    BY <2>1 DEF Frontier, Ordered, Apiece
<1> QED
  BY <1>1, <1>2, <1>3, <1>4, <1>5, <1>6, <1>7, Steps DEF Main, WorkerStep

\* What the invariants of the report say, and the two of the walks.
RunInv == TypeInv /\ Truthful /\ JobsInv /\ Frontier /\ Ordered

LEMMA RunInvHolds == Spec => []RunInv
<1>1. Init => Frontier /\ Ordered
  BY DEF Init, Frontier, Ordered
<1>2. RunInv /\ [Next]_vars => RunInv'
  BY NextType, NextTrue, NextJobs, FrontierStep DEF RunInv
<1>3. Init => RunInv
  BY <1>1, InitType, InitTrue, InitJobs DEF RunInv
<1> QED
  BY <1>2, <1>3, PTL DEF Spec

\* Where the steps of a job, and the listing of a folder, are still ahead in the pool that runs.
Placed(job, n) ==
  \/ job \in unsent
  \/ \E w \in Worker : /\ worker[w].job = job
                        /\ \/ worker[w].at = "busy" /\ n > 1
                           \/ worker[w].at = "offer" /\ n > 2
  \/ n = 4 /\ \E r \in results : r.job = job
Reached(m, folder) ==
  \/ m \in unsent
  \/ \E w \in Worker : /\ worker[w].job = m /\ worker[w].at = "busy"
                        /\ \E f \in worker[w].todo : Within(f, folder)

Shrinks == /\ JobsLeft' \subseteq JobsLeft /\ FoldersLeft' \subseteq FoldersLeft
           /\ LeavesLeft' \subseteq LeavesLeft /\ StagesLeft' \subseteq StagesLeft
           /\ (cancelled => cancelled')

\* Within a pool nothing comes back that was behind.
LEMMA ShrinkInPool ==
  ASSUME UNCHANGED <<stage, cancelled>>,
         \A w \in Worker : worker'[w].at # "gone" => worker[w].at # "gone",
         \A job : \A n \in 1..4 : Placed(job, n)' => Placed(job, n),
         \A x \in Folder : stage = "mounts" /\ Reached(x[1], x[2])' => Reached(x[1], x[2])
  PROVE  Shrinks
<1>1. \A s : Before(s)' <=> Before(s)
  BY DEF Before
<1>2. \A s, job : \A n \in 1..4 : StepAhead(s, job, n)' => StepAhead(s, job, n)
  BY <1>1 DEF StepAhead, Placed
<1>3. \A x \in Folder : FolderAhead(x[1], x[2])' => FolderAhead(x[1], x[2])
  BY <1>1 DEF FolderAhead, Reached
<1>4. JobsLeft' \subseteq JobsLeft
  BY <1>2 DEF JobsLeft
<1>5. FoldersLeft' \subseteq FoldersLeft
  BY <1>3 DEF FoldersLeft
<1>6. LeavesLeft' \subseteq LeavesLeft
  BY <1>1 DEF LeavesLeft
<1>7. StagesLeft' \subseteq StagesLeft
  BY <1>1 DEF StagesLeft
<1> QED
  BY <1>4, <1>5, <1>6, <1>7 DEF Shrinks

\* It is enough that a job of the pool is past one of its steps.
LEMMA JobAdvances ==
  ASSUME TypeInv, stage \in {"namespaces", "mounts"}, stage' = stage,
         NEW job \in Jobs, NEW n \in 1..4, Placed(job, n), ~Placed(job, n)'
  PROVE  AllLeft' # AllLeft
<1> DEFINE x == <<stage, job, n>>
<1>1. x \in ({"namespaces"} \X Namespace \X (1..4)) \cup ({"mounts"} \X Mount \X (1..4))
  BY DEF TypeInv, OthersTyped, Jobs, Walkable
<1>2. StepAhead(stage, job, n)
  BY DEF StepAhead, Placed
<1>3. ~StepAhead(stage, job, n)'
  BY DEF StepAhead, Placed, Before
<1>4. x \in JobsLeft
  BY <1>1, <1>2 DEF JobsLeft
<1>5. x \notin JobsLeft'
  BY <1>3 DEF JobsLeft
<1> QED
  BY <1>4, <1>5 DEF AllLeft

\* Each stage begins once.
LEMMA StageShrinks ==
  ASSUME TypeInv, ListNamespaces \/ EndNamespaces \/ EndMounts
  PROVE  Shrinks /\ AllLeft' # AllLeft
<1>1. /\ stage \in {"list", "namespaces", "mounts"} /\ cancelled' = cancelled
      /\ stage = "list" => stage' \in {"namespaces", "end"}
      /\ stage = "namespaces" => stage' = "mounts"
      /\ stage = "mounts" => stage' = "end"
  BY DEF ListNamespaces, EndNamespaces, EndMounts, StartPool
<1>2. \A s \in {"namespaces", "mounts"} : Before(s)' \/ stage' = s => Before(s)
  BY <1>1 DEF Before
<1>3. \A s \in {"namespaces", "mounts"} : \A job, n : StepAhead(s, job, n)' => StepAhead(s, job, n)
  BY <1>2 DEF StepAhead
<1>4. \A m, f : FolderAhead(m, f)' => FolderAhead(m, f)
  BY <1>2 DEF FolderAhead
<1>5. JobsLeft' \subseteq JobsLeft
  BY <1>3 DEF JobsLeft
<1>6. FoldersLeft' \subseteq FoldersLeft
  BY <1>4 DEF FoldersLeft
<1>7. LeavesLeft' \subseteq LeavesLeft
  BY <1>2 DEF LeavesLeft
<1>8. StagesLeft' \subseteq StagesLeft /\ stage \in StagesLeft /\ stage \notin StagesLeft'
  BY <1>1 DEF StagesLeft, Before
<1> QED
  BY <1>1, <1>5, <1>6, <1>7, <1>8 DEF Shrinks, AllLeft

LEMMA HandShrinks ==
  ASSUME TypeInv, NEW w \in Worker, NEW job \in unsent, stage \in {"namespaces", "mounts"},
         Hand(w, job)
  PROVE  Shrinks /\ AllLeft' # AllLeft
<1>1. /\ UNCHANGED <<stage, cancelled, results>> /\ unsent' = unsent \ {job}
      /\ \A v \in Worker \ {w} : worker'[v] = worker[v]
      /\ worker[w].at = "idle" /\ worker'[w].at = "busy" /\ worker'[w].job = job
  BY DEF Hand, Becomes, TypeInv, WorkersTyped, Waiting
<1>2. \A k : \A n \in 1..4 : Placed(k, n)' => Placed(k, n)
  BY <1>1 DEF Placed
<1>3. \A x \in Folder : Reached(x[1], x[2])' => Reached(x[1], x[2])
  BY <1>1 DEF Reached
<1>4. Shrinks
  BY <1>1, <1>2, <1>3, ShrinkInPool
<1>5. Placed(job, 1) /\ ~Placed(job, 1)'
  BY <1>1 DEF Placed
<1>6. job \in Jobs
  BY DEF TypeInv, OthersTyped
<1> QED
  BY <1>1, <1>4, <1>5, <1>6, JobAdvances

LEMMA SendShrinks ==
  ASSUME TypeInv, JobsInv, NEW w \in Worker, Send(w), stage \in {"namespaces", "mounts"}
  PROVE  Shrinks /\ AllLeft' # AllLeft
<1> DEFINE new == [job |-> worker[w].job, ok |-> worker[w].ok, found |-> worker[w].found]
<1>0. PICK job : job = worker[w].job
  OBVIOUS
<1>1. /\ UNCHANGED <<stage, cancelled, unsent>> /\ results' = results \cup {new}
      /\ \A v \in Worker \ {w} : worker'[v] = worker[v]
      /\ worker[w].at = "offer" /\ worker'[w].at = "idle" /\ new.job = job
  BY <1>0 DEF Send, Becomes, TypeInv, WorkersTyped, Waiting
<1> HIDE DEF new
<1>2. \A k : \A n \in 1..4 : Placed(k, n)' => Placed(k, n)
  <2> SUFFICES ASSUME NEW k, NEW n \in 1..4, Placed(k, n)' PROVE Placed(k, n)
    OBVIOUS
  <2>1. CASE n = 4 /\ k = job
    BY <1>0, <1>1, <2>1 DEF Placed
  <2>2. CASE ~(n = 4 /\ k = job)
    BY <1>0, <1>1, <2>2 DEF Placed
  <2> QED
    BY <2>1, <2>2
<1>3. \A x \in Folder : Reached(x[1], x[2])' => Reached(x[1], x[2])
  BY <1>1 DEF Reached
<1>4. Shrinks
  BY <1>1, <1>2, <1>3, ShrinkInPool
<1>5. Placed(job, 3)
  BY <1>0, <1>1 DEF Placed
<1>6. /\ job \notin unsent
      /\ \A v \in Worker \ {w} : worker[v].at \in {"busy", "offer"} => worker[v].job # job
  BY <1>0, <1>1 DEF JobsInv, Once, Answering
<1>7. ~Placed(job, 3)'
  BY <1>1, <1>6 DEF Placed
<1>8. job \in Jobs
  BY <1>0, <1>1 DEF TypeInv, WorkersTyped
<1> QED
  BY <1>1, <1>4, <1>5, <1>7, <1>8, JobAdvances

LEMMA CollectShrinks ==
  ASSUME TypeInv, JobsInv, NEW r \in results, Collect(r), stage \in {"namespaces", "mounts"}
  PROVE  Shrinks /\ AllLeft' # AllLeft
<1>1. /\ UNCHANGED <<stage, cancelled, unsent, worker>> /\ results' = results \ {r}
      /\ unsent = {}
  BY DEF Collect
<1>2. \A k : \A n \in 1..4 : Placed(k, n)' => Placed(k, n)
  BY <1>1 DEF Placed
<1>3. \A x \in Folder : Reached(x[1], x[2])' => Reached(x[1], x[2])
  BY <1>1 DEF Reached
<1>4. Shrinks
  BY <1>1, <1>2, <1>3, ShrinkInPool
<1>5. Placed(r.job, 4)
  BY DEF Placed
<1>6. /\ \A v \in Worker : worker[v].at \in {"busy", "offer"} => worker[v].job # r.job
      /\ \A q \in results : q.job = r.job => q = r
  BY DEF JobsInv, Once, Answering
<1>7. ~Placed(r.job, 4)'
  BY <1>1, <1>6 DEF Placed
<1>8. r.job \in Jobs
  BY DEF TypeInv, ResultsTyped
<1> QED
  BY <1>1, <1>4, <1>5, <1>7, <1>8, JobAdvances

LEMMA LeaveShrinks ==
  ASSUME TypeInv, NEW w \in Worker, Leave(w), stage \in {"namespaces", "mounts"}
  PROVE  Shrinks /\ AllLeft' # AllLeft
<1>1. /\ UNCHANGED <<stage, cancelled, unsent, results>>
      /\ \A v \in Worker \ {w} : worker'[v] = worker[v]
      /\ worker[w].at = "idle" /\ worker'[w].at = "gone"
  BY DEF Leave, Becomes, TypeInv, WorkersTyped, Gone, Waiting
<1>2. \A k : \A n \in 1..4 : Placed(k, n)' => Placed(k, n)
  BY <1>1 DEF Placed
<1>3. \A x \in Folder : Reached(x[1], x[2])' => Reached(x[1], x[2])
  BY <1>1 DEF Reached
<1>4. Shrinks
  BY <1>1, <1>2, <1>3, ShrinkInPool
<1> DEFINE x == <<stage, w>>
<1>5. x \in {"namespaces", "mounts"} \X Worker
  OBVIOUS
<1>6. x \in LeavesLeft /\ x \notin LeavesLeft'
  BY <1>1, <1>5 DEF LeavesLeft, Before
<1> QED
  BY <1>4, <1>6 DEF AllLeft

\* What lies beneath a folder lies beneath those above it.
LEMMA WithinTrans ==
  ASSUME NEW f \in Path, NEW g \in Path, NEW h \in Path, Within(f, g), Within(g, h)
  PROVE  Within(f, h)
<1>1. /\ Len(f) \in Nat /\ Len(g) \in Nat /\ Len(h) \in Nat
      /\ Len(f) <= Len(g) /\ Len(g) <= Len(h)
      /\ \A i \in 1..Len(f) : f[i] = g[i]
      /\ \A i \in 1..Len(g) : g[i] = h[i]
  BY WithinNames
<1>2. \A i \in 1..Len(f) : f[i] = h[i]
  BY <1>1
<1>3. Len(f) <= Len(h)
  BY <1>1
<1> QED
  BY <1>2, <1>3, WithinNames

LEMMA FolderPath == ASSUME NEW x \in Folder PROVE x[2] \in Path /\ Within(x[2], x[2])
<1>1. x[2] \in Path
  <2>1. CASE x \in Mount \X {<<>>}
    <3>1. x[2] = <<>> /\ <<>> \in Seq(Name)
      BY <2>1
    <3> QED
      BY <3>1 DEF Path
  <2>2. CASE x \notin Mount \X {<<>>}
    <3>1. PICK s \in Stored :
            x \in {<<s[1], SubSeq(Normal(s[2]), 1, n)>> : n \in 1..Len(s[2]) - 1}
      BY <2>2 DEF Folder
    <3>2. s[2] \in Path
      BY VaultAssumption
    <3>3. PICK n \in 1..Len(s[2]) - 1 : x = <<s[1], SubSeq(Normal(s[2]), 1, n)>>
      BY <3>1
    <3>4. Len(s[2]) \in Nat /\ \A i \in 1..Len(s[2]) : s[2][i] \in Name
      BY <3>2, LenProperties DEF Path
    <3>5. DOMAIN s[2] = 1..Len(s[2])
      BY <3>2, LenProperties DEF Path
    <3>6. Normal(s[2]) \in [1..Len(s[2]) -> Name]
      BY <3>4, <3>5, VaultAssumption DEF Normal
    <3>7. Normal(s[2]) \in Path /\ Len(Normal(s[2])) = Len(s[2])
      BY <3>4, <3>6 DEF Path
    <3>8. n \in 0..Len(Normal(s[2]))
      BY <3>4, <3>7
    <3> QED
      BY <3>3, <3>7, <3>8, Prefix
  <2> QED
    BY <2>1, <2>2
<1> QED
  BY <1>1, WithinNames

\* A request takes its job past the second step, or a folder off those to list.
LEMMA RequestShrinks ==
  ASSUME RunInv, NEW w \in Worker,
         ListMounts(w) \/ FinishWalk(w) \/ \E f \in worker[w].todo : ListFolder(w, f)
  PROVE  Shrinks /\ AllLeft' # AllLeft
<1>0. PICK job : job = worker[w].job
  OBVIOUS
<1>1. /\ UNCHANGED <<stage, unsent, results, cancelled>> /\ stage \in {"namespaces", "mounts"}
      /\ \A v \in Worker \ {w} : worker'[v] = worker[v]
      /\ worker[w].at = "busy" /\ worker'[w].at \in {"busy", "offer"} /\ worker'[w].job = job
  BY <1>0, Working DEF RunInv, ListMounts, FinishWalk, ListFolder
<1>2. \A k : \A n \in 1..4 : Placed(k, n)' => Placed(k, n)
  BY <1>0, <1>1 DEF Placed
<1>3. job \in Jobs /\ job \notin unsent
      /\ \A v \in Worker \ {w} : worker[v].at \in {"busy", "offer"} => worker[v].job # job
  BY <1>0, <1>1 DEF RunInv, TypeInv, WorkersTyped, JobsInv, Once, Answering
<1>4. CASE worker'[w].at = "offer"
  <2>1. \A x \in Folder : Reached(x[1], x[2])' => Reached(x[1], x[2])
    BY <1>1, <1>4 DEF Reached
  <2>2. Placed(job, 2) /\ ~Placed(job, 2)'
    BY <1>0, <1>1, <1>3, <1>4 DEF Placed
  <2>3. Shrinks
    BY <1>1, <1>2, <2>1, <1>4, ShrinkInPool
  <2> QED
    BY <1>1, <1>3, <2>2, <2>3, JobAdvances DEF RunInv
<1>5. CASE worker'[w].at = "busy"
  <2>1. PICK f \in worker[w].todo : ListFolder(w, f)
    <3>1. ASSUME NEW ok, NEW S, Offer(w, ok, S) PROVE worker'[w].at = "offer"
      <4>1. worker'[w] = [worker[w] EXCEPT !.at = "offer", !.todo = {}, !.found = S, !.ok = ok]
        BY <3>1 DEF Offer, Becomes, RunInv, TypeInv, WorkersTyped
      <4>2. worker[w] \in WorkerState
        BY DEF RunInv, TypeInv, WorkersTyped
      <4> QED
        BY <4>1, <4>2 DEF WorkerState
    <3> QED
      BY <1>5, <3>1 DEF ListMounts, FinishWalk
  <2>2. /\ worker'[w].todo \subseteq Path
        /\ \A g \in worker'[w].todo : ~Within(g, f) /\ (g \in worker[w].todo \/ Within(f, g))
    BY <1>5, <2>1, ListFolderEffect DEF RunInv
  <2>3. stage = "mounts" /\ f \in Path /\ <<job, f>> \in Folder
    BY <1>0, <1>1, <2>1 DEF ListFolder, RunInv, Frontier, TypeInv, WorkersTyped, WorkerState
  <2>4. ASSUME NEW x \in Folder, Reached(x[1], x[2])' PROVE Reached(x[1], x[2])
    <3>1. CASE x[1] \in unsent \/ \E v \in Worker \ {w} : /\ worker[v].job = x[1]
                                                       /\ worker[v].at = "busy"
                                                       /\ \E g \in worker[v].todo : Within(g, x[2])
      BY <3>1 DEF Reached
    <3>2. CASE x[1] = job /\ \E g \in worker'[w].todo : Within(g, x[2])
      <4>1. PICK g \in worker'[w].todo : Within(g, x[2])
        BY <3>2
      <4>2. g \in worker[w].todo \/ Within(f, x[2])
        BY <2>2, <2>3, <4>1, WithinTrans, FolderPath
      <4> QED
        BY <1>0, <1>1, <2>1, <3>2, <4>1, <4>2 DEF Reached
    <3> QED
      BY <1>1, <2>4, <3>1, <3>2 DEF Reached
  <2>5. Shrinks
    BY <1>1, <1>2, <2>4, ShrinkInPool
  <2>6. Reached(job, f)
    BY <1>0, <1>1, <2>1, <2>3, FolderPath DEF Reached
  <2>7. ~Reached(job, f)'
    BY <1>1, <1>3, <2>2 DEF Reached
  <2> DEFINE x == <<job, f>>
  <2>8. x \in FoldersLeft
    BY <2>3, <2>6 DEF FoldersLeft, FolderAhead, Reached
  <2>9. x \notin FoldersLeft'
    BY <1>1, <2>3, <2>7 DEF FoldersLeft, FolderAhead, Reached, Before
  <2> QED
    BY <2>5, <2>8, <2>9 DEF AllLeft
<1> QED
  BY <1>1, <1>4, <1>5

\* What a run has ahead of it is finite, so that it bounds the run.
Finite ==
  IsFiniteSet(JobsLeft) /\ IsFiniteSet(FoldersLeft) /\ IsFiniteSet(LeavesLeft) /\ IsFiniteSet(StagesLeft)

LEMMA FiniteLeft == Finite
<1>0. /\ IsFiniteSet(Namespace) /\ IsFiniteSet(Mount) /\ IsFiniteSet(Stored) /\ IsFiniteSet(Worker)
      /\ Stored \subseteq Mount \X (Path \ {<<>>})
  BY VaultAssumption, PoolAssumption
<1>1. /\ IsFiniteSet({"namespaces"}) /\ IsFiniteSet({"mounts"}) /\ IsFiniteSet({"list"})
      /\ IsFiniteSet({<<>>}) /\ IsFiniteSet(1..4)
  <2>1. \A a, b \in Int : IsFiniteSet(a..b)
    BY FS_Interval
  <2>2. \A x : IsFiniteSet({x})
    BY FS_Singleton
  <2>3. 1 \in Int /\ 4 \in Int
    OBVIOUS
  <2>4. IsFiniteSet(1..4)
    BY <2>1, <2>3, Zenon
  <2> QED
    BY <2>2, <2>4
<1>2. IsFiniteSet(JobsLeft)
  <2> DEFINE A == {"namespaces"} \X Namespace \X (1..4)
             B == {"mounts"} \X Mount \X (1..4)
             a == ({"namespaces"} \X Namespace) \X (1..4)
             b == ({"mounts"} \X Mount) \X (1..4)
             F == [x \in a |-> <<x[1][1], x[1][2], x[2]>>]
             G == [x \in b |-> <<x[1][1], x[1][2], x[2]>>]
  <2>1. IsFiniteSet({"namespaces"} \X Namespace) /\ IsFiniteSet({"mounts"} \X Mount)
    BY <1>0, <1>1, FS_Product
  <2>2. IsFiniteSet(a) /\ IsFiniteSet(b)
    BY <1>1, <2>1, FS_Product
  <2>3. F \in Surjection(a, A)
    <3>1. F \in [a -> A]
      OBVIOUS
    <3>2. ASSUME NEW y \in A PROVE \E x \in a : F[x] = y
      <4> DEFINE x == <<<<y[1], y[2]>>, y[3]>>
      <4>1. x \in a /\ F[x] = y
        OBVIOUS
      <4> QED
        BY <4>1
    <3> QED
      BY <3>1, <3>2 DEF Surjection
  <2>4. G \in Surjection(b, B)
    <3>1. G \in [b -> B]
      OBVIOUS
    <3>2. ASSUME NEW y \in B PROVE \E x \in b : G[x] = y
      <4> DEFINE x == <<<<y[1], y[2]>>, y[3]>>
      <4>1. x \in b /\ G[x] = y
        OBVIOUS
      <4> QED
        BY <4>1
    <3> QED
      BY <3>1, <3>2 DEF Surjection
  <2>5. IsFiniteSet(A) /\ IsFiniteSet(B)
    <3> HIDE DEF a, b, A, B, F, G
    <3> QED
      BY <2>2, <2>3, <2>4, FS_Surjection
  <2>6. IsFiniteSet(A \cup B)
    BY <2>5, FS_Union
  <2>7. JobsLeft \subseteq A \cup B
    BY DEF JobsLeft
  <2> HIDE DEF A, B
  <2> QED
    BY <2>6, <2>7, FS_Subset
<1>3. IsFiniteSet(FoldersLeft)
  <2> DEFINE Prefixes(s) == {<<s[1], SubSeq(Normal(s[2]), 1, n)>> : n \in 1..Len(s[2]) - 1}
             All == {Prefixes(s) : s \in Stored}
  <2>1. IsFiniteSet(Mount \X {<<>>})
    BY <1>0, <1>1, FS_Product
  <2>2. ASSUME NEW s \in Stored PROVE IsFiniteSet(Prefixes(s))
    <3> DEFINE D == 1..Len(s[2]) - 1
               F == [n \in D |-> <<s[1], SubSeq(Normal(s[2]), 1, n)>>]
    <3>1. IsFiniteSet(D)
      <4>1. s[2] \in Seq(Name)
        BY <1>0 DEF Path
      <4> QED
        BY <4>1, FS_Interval
    <3>2. F \in Surjection(D, Prefixes(s))
      BY DEF Surjection
    <3> HIDE DEF D, F, Prefixes
    <3> QED
      BY <3>1, <3>2, FS_Surjection
  <2>3. IsFiniteSet(All)
    <3> DEFINE F == [s \in Stored |-> Prefixes(s)]
    <3>1. F \in Surjection(Stored, All)
      BY DEF Surjection
    <3> HIDE DEF F, All
    <3> QED
      BY <1>0, <3>1, FS_Surjection
  <2>4. IsFiniteSet(UNION All)
    BY <2>2, <2>3, FS_UNION
  <2>5. IsFiniteSet(Folder)
    <3>1. Folder = (Mount \X {<<>>}) \cup UNION All
      BY DEF Folder
    <3> HIDE DEF All
    <3> QED
      BY <2>1, <2>4, <3>1, FS_Union
  <2>6. FoldersLeft \subseteq Folder
    BY DEF FoldersLeft
  <2> QED
    BY <2>5, <2>6, FS_Subset
<1>4. IsFiniteSet(LeavesLeft)
  <2>1. IsFiniteSet({"namespaces"} \cup {"mounts"})
    BY <1>1, FS_Union
  <2>2. IsFiniteSet(({"namespaces"} \cup {"mounts"}) \X Worker)
    BY <1>0, <2>1, FS_Product
  <2>3. LeavesLeft \subseteq ({"namespaces"} \cup {"mounts"}) \X Worker
    BY DEF LeavesLeft
  <2> QED
    BY <2>2, <2>3, FS_Subset
<1>5. IsFiniteSet(StagesLeft)
  <2>1. IsFiniteSet({"list"} \cup {"namespaces"} \cup {"mounts"})
    BY <1>1, FS_Union
  <2>2. StagesLeft \subseteq {"list"} \cup {"namespaces"} \cup {"mounts"}
    BY DEF StagesLeft
  <2> QED
    BY <2>1, <2>2, FS_Subset
<1> QED
  BY <1>2, <1>3, <1>4, <1>5 DEF Finite

\* A run of discover takes finitely many steps, whatever its requests answer and whenever
\* the owners of the secrets write: each step leaves less of what was
\* finite at its start.
THEOREM BoundedRun == Spec => []Finite /\ RunIsBounded
<1>1. ASSUME RunInv, [Next]_vars, ~Owners PROVE UNCHANGED vars \/ (Shrinks /\ AllLeft' # AllLeft)
  <2>1. CASE Cancel
    <3>1. UNCHANGED <<stage, unsent, worker, results>> /\ ~cancelled /\ cancelled'
      BY <2>1 DEF Cancel, pool
    <3>2. \A s : Before(s)' <=> Before(s)
      BY <3>1 DEF Before
    <3>3. \A s, job, n : StepAhead(s, job, n)' => StepAhead(s, job, n)
      BY <3>1, <3>2 DEF StepAhead
    <3>4. \A m, f : FolderAhead(m, f)' => FolderAhead(m, f)
      BY <3>1, <3>2 DEF FolderAhead
    <3>5. JobsLeft' \subseteq JobsLeft
      BY <3>3 DEF JobsLeft
    <3>6. FoldersLeft' \subseteq FoldersLeft
      BY <3>4 DEF FoldersLeft
    <3>7. LeavesLeft' \subseteq LeavesLeft /\ StagesLeft' \subseteq StagesLeft
      BY <3>1, <3>2 DEF LeavesLeft, StagesLeft
    <3>8. cancelled' # cancelled
      BY <3>1
    <3> QED
      BY <3>1, <3>5, <3>6, <3>7, <3>8 DEF Shrinks, AllLeft
  <2>2. CASE UNCHANGED vars
    BY <2>2
  <2>3. CASE ListNamespaces \/ EndNamespaces \/ EndMounts
    BY <1>1, <2>3, StageShrinks DEF RunInv
  <2>4. stage \notin {"namespaces", "mounts"} =>
          unsent = {} /\ results = {} /\ \A w \in Worker : worker[w].at = "gone"
    BY <1>1 DEF RunInv, JobsInv, Settled, TypeInv, OthersTyped
  <2>5. ASSUME NEW w \in Worker, NEW job \in unsent, Hand(w, job)
        PROVE  Shrinks /\ AllLeft' # AllLeft
    BY <1>1, <2>4, <2>5, HandShrinks DEF RunInv
  <2>6. ASSUME NEW r \in results, Collect(r) PROVE Shrinks /\ AllLeft' # AllLeft
    BY <1>1, <2>4, <2>6, CollectShrinks DEF RunInv
  <2>7. ASSUME NEW w \in Worker, Send(w) PROVE Shrinks /\ AllLeft' # AllLeft
    <3>1. stage \in {"namespaces", "mounts"}
      BY <2>4, <2>7 DEF Send
    <3> QED
      BY <1>1, <2>7, <3>1, SendShrinks DEF RunInv
  <2>8. ASSUME NEW w \in Worker, Leave(w) PROVE Shrinks /\ AllLeft' # AllLeft
    <3>1. stage \in {"namespaces", "mounts"}
      BY <2>4, <2>8 DEF Leave
    <3> QED
      BY <1>1, <2>8, <3>1, LeaveShrinks DEF RunInv
  <2>9. ASSUME NEW w \in Worker,
               ListMounts(w) \/ FinishWalk(w) \/ \E f \in worker[w].todo : ListFolder(w, f)
        PROVE  Shrinks /\ AllLeft' # AllLeft
    BY <1>1, <2>9, RequestShrinks
  <2> QED
    BY <1>1, <2>1, <2>2, <2>3, <2>5, <2>6, <2>7, <2>8, <2>9 DEF Next, Main, WorkerStep
<1>2. ASSUME RunInv, Owners PROVE Shrinks
  <2>1. UNCHANGED <<stage, unsent, worker, results, cancelled>>
    <3>1. PICK s \in Volatile : Create(s) \/ Remove(s)
      BY <1>2 DEF Owners
    <3> QED
      BY <3>1 DEF Create, Remove, pool
  <2>2. \A s : Before(s)' <=> Before(s)
    BY <2>1 DEF Before
  <2>3. \A s, job, n : StepAhead(s, job, n)' => StepAhead(s, job, n)
    BY <2>1, <2>2 DEF StepAhead
  <2>4. \A m, f : FolderAhead(m, f)' => FolderAhead(m, f)
    BY <2>1, <2>2 DEF FolderAhead
  <2>5. JobsLeft' \subseteq JobsLeft
    BY <2>3 DEF JobsLeft
  <2>6. FoldersLeft' \subseteq FoldersLeft
    BY <2>4 DEF FoldersLeft
  <2>7. LeavesLeft' \subseteq LeavesLeft /\ StagesLeft' \subseteq StagesLeft
    BY <2>1, <2>2 DEF LeavesLeft, StagesLeft
  <2> QED
    BY <2>1, <2>5, <2>6, <2>7 DEF Shrinks
<1>3. RunInv /\ [Next]_vars =>
        [/\ JobsLeft' \subseteq JobsLeft /\ FoldersLeft' \subseteq FoldersLeft
         /\ LeavesLeft' \subseteq LeavesLeft /\ StagesLeft' \subseteq StagesLeft
         /\ cancelled => cancelled'
         /\ Owners \/ AllLeft' # AllLeft]_vars
  BY <1>1, <1>2 DEF Shrinks
<1> QED
  BY <1>3, RunInvHolds, FiniteLeft, PTL DEF Spec, RunIsBounded

\* The guards of the main goroutine and of a worker, but for what the context and the
\* requests decide: with either outcome there is a step to take.
MainReady ==
  \/ stage = "list"
  \/ \E w \in Worker : worker[w].at = "idle" /\ unsent # {}
  \/ unsent = {} /\ results # {}
  \/ stage \in {"namespaces", "mounts"} /\ Drained
WorkerReady(w) ==
  \/ worker[w].at = "busy"
  \/ worker[w].at = "offer" /\ Cardinality(results) < Capacity
  \/ worker[w].at = "idle" /\ unsent = {}

\* In no state of a run does everyone wait for someone else: the main goroutine for a worker
\* to take a job or hand over a result, the workers for a job or for room in the channel.
\* With BoundedRun this leaves of Terminates only the scheduling: that a goroutine which
\* can run does.
NeverStuck == outcome = "none" => MainReady \/ \E w \in Worker : WorkerReady(w)

\* A run of discover can always go on, whatever failed in it and whether it was interrupted.
THEOREM RunGoesOn == Spec => []NeverStuck
<1>1. RunInv => NeverStuck
  <2> SUFFICES ASSUME RunInv, outcome = "none", \A w \in Worker : ~WorkerReady(w) PROVE MainReady
    BY DEF NeverStuck
  <2>1. stage # "end"
    BY DEF RunInv, Ordered
  <2>2. CASE stage = "list"
    BY <2>2 DEF MainReady
  <2>3. CASE stage \in {"namespaces", "mounts"}
    <3>1. \A w \in Worker : worker[w].at \in {"idle", "gone"} /\ (worker[w].at = "idle" => unsent # {})
      BY RoomFromOnce DEF RunInv, TypeInv, WorkersTyped, WorkerState, WorkerReady, OfferFindsRoom
    <3>2. CASE unsent # {}
      <4>1. PICK w \in Worker : TRUE
        BY PoolAssumption
      <4>2. worker[w].at = "idle"
        BY <2>3, <3>1, <3>2 DEF RunInv, Ordered
      <4> QED
        BY <3>2, <4>2 DEF MainReady
    <3>3. CASE unsent = {}
      BY <2>3, <3>1, <3>3 DEF MainReady, Drained
    <3> QED
      BY <3>2, <3>3
  <2> QED
    BY <2>1, <2>2, <2>3 DEF RunInv, TypeInv, OthersTyped
<1> QED
  BY <1>1, RunInvHolds, PTL

-------------------------------------------------------------------------------
(* Discovery implements InventoryPromise. *)

Answers == [namespaces |-> errors.namespaces, mounts |-> errors.mounts]

\* A step that answers no job, ends no stage and lists nothing is not seen in the promise,
\* but for what the owners add to Vault.
LEMMA QuietStep ==
  ASSUME UNCHANGED <<stage, jobs, inventory>>, ever \subseteq ever',
         errors'.namespaces = errors.namespaces, errors'.mounts = errors.mounts
  PROVE  Promise!Appear
<1>1. Unanswered' = Unanswered
  BY DEF Unanswered, jobs
<1>2. Shown \subseteq Shown'
  BY DEF Shown, Normal
<1> QED
  BY <1>1, <1>2 DEF Promise!Appear

LEMMA CollectRefines ==
  ASSUME TypeInv, Truthful, JobsInv, NEW r \in results, Collect(r)
  PROVE  Promise!Next
<1>1. /\ UNCHANGED <<stage, namespacePaths>> /\ r.job \in Jobs
  BY CollectReport
<1>2. ever' = ever /\ Shown' = Shown
  BY DEF Collect, vault, Shown, Normal
<1>3. r.job \notin Answered /\ stage \in {"namespaces", "mounts"}
  BY DEF JobsInv, Once, Settled, TypeInv, OthersTyped
<1>4. FoundTrue(r.job, r.found) /\ ReportTyped
  BY DEF Truthful, ResultsTrue, TypeInv
<1>5. CASE stage = "namespaces"
  <2>1. NoteNamespace(r) /\ r.job \in Unanswered /\ UNCHANGED stage
    BY <1>1, <1>3, <1>5 DEF Collect, Answered, Unanswered, Jobs
  <2>2. CASE r.ok
    <3>1. /\ inventory' = [inventory EXCEPT !.namespaces = @ \cup {r.job}] /\ errors' = errors
          /\ inventory'.namespaces = inventory.namespaces \cup {r.job}
      BY <1>4, <2>1, <2>2 DEF NoteNamespace, ReportTyped
    <3>2. Unanswered' = Unanswered \ {r.job}
      BY <1>1, <1>5, <3>1 DEF Unanswered
    <3>3. Promise!NamespaceListed(r.job)
      BY <1>2, <1>5, <2>1, <3>1, <3>2 DEF Promise!NamespaceListed, Promise!Answer
    <3> QED
      BY <2>1, <3>3 DEF Promise!Next
  <2>3. CASE ~r.ok
    <3>1. /\ errors' = [errors EXCEPT !.namespaces = @ \cup {r.job}] /\ inventory' = inventory
      BY <2>1, <2>3 DEF NoteNamespace
    <3>2. /\ errors'.namespaces = errors.namespaces \cup {r.job}
          /\ errors'.mounts = errors.mounts
      BY <1>4, <3>1 DEF ReportTyped
    <3>3. Unanswered' = Unanswered \ {r.job}
      BY <1>1, <1>5, <3>1, <3>2 DEF Unanswered
    <3>4. Answers' = [Answers EXCEPT !.namespaces = @ \cup {r.job}]
      BY <3>2 DEF Answers
    <3>5. Promise!NamespaceFails(r.job)
      BY <1>2, <1>5, <2>1, <3>1, <3>3, <3>4 DEF Promise!NamespaceFails, Promise!Answer, Answers
    <3> QED
      BY <2>1, <3>5 DEF Promise!Next
  <2> QED
    BY <2>2, <2>3
<1>6. CASE stage = "mounts"
  <2>1. NoteMount(r) /\ r.job \in Unanswered /\ UNCHANGED <<stage, mountJobs>>
    BY <1>1, <1>3, <1>6 DEF Collect, NoteMount, Answered, Unanswered, Jobs
  <2> DEFINE S == {<<r.job, p>> : p \in r.found}
  <2>2. CASE r.ok
    <3>1. /\ inventory' = [inventory EXCEPT !.mounts = @ \cup {r.job}, !.secrets = @ \cup S]
          /\ errors' = errors
      BY <2>1, <2>2 DEF NoteMount
    <3>2. \A s \in S : s[1] = r.job /\ s \in Shown
      <4> SUFFICES ASSUME NEW p \in r.found PROVE <<r.job, p>> \in Shown
        OBVIOUS
      <4>1. PICK t \in ever : t[1] = r.job /\ Normal(t[2]) = p
        BY <1>4, <1>6 DEF FoundTrue, Held
      <4> QED
        BY <4>1 DEF Shown
    <3> HIDE DEF S
    <3>3. inventory'.mounts = inventory.mounts \cup {r.job}
      BY <1>4, <3>1 DEF ReportTyped
    <3>4. Unanswered' = Unanswered \ {r.job}
      BY <1>6, <2>1, <3>1, <3>3 DEF Unanswered
    <3>5. Promise!MountListed(r.job, S)
      BY <1>2, <1>6, <2>1, <3>1, <3>2, <3>4 DEF Promise!MountListed, Promise!Answer
    <3> QED
      BY <2>1, <3>2, <3>5 DEF Promise!Next
  <2>3. CASE ~r.ok
    <3>1. /\ errors' = [errors EXCEPT !.mounts = @ \cup {r.job}] /\ inventory' = inventory
      BY <2>1, <2>3 DEF NoteMount
    <3>2. /\ errors'.mounts = errors.mounts \cup {r.job}
          /\ errors'.namespaces = errors.namespaces
      BY <1>4, <3>1 DEF ReportTyped
    <3>3. Unanswered' = Unanswered \ {r.job}
      BY <1>6, <2>1, <3>1, <3>2 DEF Unanswered
    <3>4. Answers' = [Answers EXCEPT !.mounts = @ \cup {r.job}]
      BY <3>2 DEF Answers
    <3>5. Promise!MountFails(r.job)
      BY <1>2, <1>6, <2>1, <3>1, <3>3, <3>4 DEF Promise!MountFails, Promise!Answer, Answers
    <3> QED
      BY <2>1, <3>5 DEF Promise!Next
  <2> QED
    BY <2>2, <2>3
<1> QED
  BY <1>3, <1>5, <1>6

\* A drained pool has answered all its jobs.
LEMMA DrainedAnswered ==
  ASSUME JobsInv, stage \in {"namespaces", "mounts"}, Drained
  PROVE  Unanswered = {}
<1>1. \A j \in Jobs : j \in Answered
  BY DEF JobsInv, Somewhere, Drained, Answering
<1> QED
  BY <1>1 DEF Unanswered, Jobs, Answered

LEMMA StageRefines ==
  ASSUME TypeInv, JobsInv, ListNamespaces \/ EndNamespaces \/ EndMounts
  PROVE  Promise!Next
<1>1. UNCHANGED <<ever, inventory, errors>> /\ Shown' = Shown /\ Settled
  BY DEF ListNamespaces, EndNamespaces, EndMounts, vault, report, Shown, Normal, JobsInv
<1>2. CASE ListNamespaces /\ cancelled
  <2>1. stage = "list" /\ stage' = "end"
    BY <1>2 DEF ListNamespaces
  <2>2. Unanswered = {} /\ Unanswered' = {}
    BY <2>1 DEF Unanswered
  <2> QED
    BY <1>1, <2>1, <2>2 DEF Promise!GiveUp, Promise!Next
<1>3. CASE ListNamespaces /\ ~cancelled
  <2>1. PICK childPaths \in {Children, {}} : namespacePaths' = {Root} \cup childPaths
    BY <1>3 DEF ListNamespaces
  <2>2. stage = "list" /\ stage' = "namespaces"
    BY <1>3 DEF ListNamespaces, StartPool
  <2>3. Unanswered' = namespacePaths'
    BY <1>1, <2>2 DEF Unanswered, Settled
  <2>4. Root \in Unanswered' /\ Unanswered' \in SUBSET Namespace
    BY <2>1, <2>3, VaultAssumption DEF Children
  <2>5. Promise!Begin
    BY <1>1, <2>2, <2>4 DEF Promise!Begin
  <2> QED
    BY <2>5 DEF Promise!Next
<1>4. CASE EndNamespaces
  <2>1. /\ stage = "namespaces" /\ stage' = "mounts" /\ mountJobs' = mountJobs
        /\ Unanswered = {}
    BY <1>4, DrainedAnswered DEF EndNamespaces, StartPool, jobs
  <2>2. Unanswered' = mountJobs
    BY <1>1, <2>1 DEF Unanswered, Settled
  <2>3. inventory.namespaces \subseteq Namespace
    BY DEF TypeInv, OthersTyped, ReportTyped
  <2>4. mountJobs = UNION {[ns \in Namespace |-> KVMounts(ns)][n] : n \in inventory.namespaces}
    BY <2>3 DEF JobsInv, Handed
  <2>5. Promise!NamespacesDone
    BY <1>1, <2>1, <2>2, <2>4 DEF Promise!NamespacesDone
  <2> QED
    BY <2>5 DEF Promise!Next
<1>5. CASE EndMounts
  <2>1. stage = "mounts" /\ stage' = "end" /\ Unanswered = {}
    BY <1>5, DrainedAnswered DEF EndMounts
  <2>2. Unanswered' = {}
    BY <2>1 DEF Unanswered
  <2> QED
    BY <1>1, <2>1, <2>2 DEF Promise!MountsDone, Promise!Next
<1> QED
  BY <1>2, <1>3, <1>4, <1>5

LEMMA StepRefines == RunInv /\ [Next]_vars => Promise!Next
<1> SUFFICES ASSUME RunInv, [Next]_vars PROVE Promise!Next
  OBVIOUS
<1> USE DEF RunInv
<1>1. CASE Outside
  <2>1. Promise!Appear
    BY <1>1, OutsideFrame, QuietStep DEF report
  <2> QED
    BY <2>1 DEF Promise!Next
<1>2. ASSUME NEW w \in Worker,
             ListMounts(w) \/ FinishWalk(w) \/ \E f \in worker[w].todo : ListFolder(w, f)
      PROVE  Promise!Next
  <2>1. ever' = ever
    BY <1>2 DEF ListMounts, FinishWalk, ListFolder, vault
  <2>2. /\ UNCHANGED <<stage, jobs, inventory>>
        /\ errors'.namespaces = errors.namespaces /\ errors'.mounts = errors.mounts
    BY <1>2, Working
  <2>3. Promise!Appear
    BY <2>1, <2>2, QuietStep
  <2> QED
    BY <2>3 DEF Promise!Next
<1>3. ASSUME NEW w \in Worker, Send(w) \/ Leave(w) \/ \E job \in unsent : Hand(w, job)
      PROVE  Promise!Next
  <2>1. UNCHANGED <<stage, jobs, inventory, errors, ever>>
    BY <1>3 DEF Send, Leave, Hand, report, vault
  <2>2. Promise!Appear
    BY <2>1, QuietStep
  <2> QED
    BY <2>2 DEF Promise!Next
<1>4. CASE ListNamespaces \/ EndNamespaces \/ EndMounts
  BY <1>4, StageRefines
<1>5. CASE \E r \in results : Collect(r)
  BY <1>5, CollectRefines
<1> QED
  BY <1>1, <1>2, <1>3, <1>4, <1>5, Steps DEF Main, WorkerStep

\* For every Vault and pool, discover implements the abstract promise of an inventory:
\* whatever the interleaving of workers, channels and owners, each namespace and mount gets
\* one final answer, no stage is left with a job unanswered, and nothing is listed that
\* Vault has not held.
THEOREM Refinement == Spec => ImplementsPromise
<1>1. Init => Promise!Init
  BY DEF Init, Promise!Init, Unanswered
<1>2. RunInv /\ [Next]_vars => [Promise!Next]_(Promise!avars)
  BY StepRefines
<1> QED
  BY <1>1, <1>2, RunInvHolds, PTL DEF Spec, ImplementsPromise, Promise!Spec
===============================================================================
