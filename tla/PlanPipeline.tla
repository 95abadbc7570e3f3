----------------------------- MODULE PlanPipeline -----------------------------
(***************************************************************************)
(* From the accesses of the secrets to the plan that condemns some of      *)
(* them: the analyze and import commands (internal/cli/analyze.go,         *)
(* import.go, internal/audit), the correlation engine and the planner      *)
(* (internal/correlation, internal/planning, internal/cli/plan.go), run in *)
(* any order and any number of times while the users of Vault read, write  *)
(* and move their secrets, and what a deletion of the plan destroys.       *)
(*                                                                         *)
(* A mount is known by its accessor, which never changes; its namespace    *)
(* and its path may.  Inventory, access data and plan are files between    *)
(* the commands, written in place and so whole or in part.  Time is        *)
(* counted in the unit of the staleness periods.                           *)
(***************************************************************************)
EXTENDS AccessRecords, FiniteSets

CONSTANTS
  Accessor,        \* the KV mounts
  Version,         \* the KV version of each
  Home,            \* where each is mounted at first
  Moves,           \* where each may be moved to
  Holds,           \* the paths of its secrets
  Operation,       \* the operations the users of each make
  Sources,         \* "audit" (analyze) and "external" (import)
  AccessorKnown,   \* whether imported records name the accessor
  Strategies,      \* --matching-strategy
  DefaultPeriod,   \* staleness.default_period
  NamespacePolicy, \* staleness.namespaces without wildcard: a function of namespaces
  PatternPolicy,   \* and with: a set of [covers, period]
  Exclusion,       \* exclusions: a set of [of, wellFormed, covers]
  MaxTime, MaxLog, MaxPlans \* bounds: of the clock, of the lines and of the plans made

Path == Seq(STRING)
Location == [namespace : STRING, mount : Path \ {<<>>}]
Categories == {"stale", "unknown", "active", "excluded"}

ASSUME MountAssumption ==
  /\ Accessor \subseteq STRING \ {""}
  /\ Version \in [Accessor -> {1, 2}]
  /\ Home \in [Accessor -> Location]
  /\ \A a, b \in Accessor : Home[a] = Home[b] => a = b
  /\ \A a \in Accessor : Moves[a] \subseteq Location /\ Holds[a] \subseteq Path \ {<<>>}

ASSUME PolicyAssumption ==
  /\ Sources \subseteq {"audit", "external"} /\ AccessorKnown \in BOOLEAN
  /\ Strategies \subseteq {"accessor", "path-based"}
  /\ DefaultPeriod \in Nat
  /\ \A ns \in DOMAIN NamespacePolicy : NamespacePolicy[ns] \in Nat
  /\ \A p \in PatternPolicy : p.period \in Nat
  /\ MaxTime \in Nat /\ MaxLog \in Nat /\ MaxPlans \in Nat

\* True of TLA+'s strings; the provers do not know it of a literal.
ASSUME StringAssumption == {"", "data"} \subseteq STRING

VARIABLES
  clock,
  at,         \* the location of each mount
  log,        \* the lines the audit device has written
  reading,    \* the source the running analyze or import reads, "none" if none runs
  taken,      \* the lines it was given
  unread,     \* those it has yet to read
  records,    \* the aggregator's map
  access,     \* the access data file, and the lines it was made from (history)
  inventory,  \* the inventory file; {} before the first discovery
  plan,       \* the plan file, and what it was made from (history)
  destroyed   \* history: what the last step deleted in Vault

world == <<clock, at, log>>
scan == <<reading, taken, unread, records>>
vars == <<world, scan, access, inventory, plan, destroyed>>

NoRecords == [k \in {} |-> {}]
NoAccess == [made |-> FALSE, records |-> {}, lines |-> {}, whole |-> TRUE]
NoPlan == [number |-> 0, time |-> 0, strategy |-> "none", lines |-> {}, whole |-> TRUE,
           category |-> NoRecords]

Init ==
  /\ clock = 0 /\ at = Home /\ log = {}
  /\ reading = "none" /\ taken = {} /\ unread = {} /\ records = NoRecords
  /\ access = NoAccess /\ inventory = {} /\ plan = NoPlan /\ destroyed = {}

-------------------------------------------------------------------------------
(* Vault, its users and its administrators. *)

\* The request path of an operation on a secret.
ApiPath(a, mount, secret) ==
  mount \o (IF Version[a] = 2 THEN <<"data">> ELSE <<>>) \o secret

\* A response line of the audit log, and the secret that was meant (history).
Line(a, secret, operation) ==
  [namespace |-> at[a].namespace, accessor |-> a, mount |-> at[a].mount,
   path |-> ApiPath(a, at[a].mount, secret), operation |-> operation,
   time |-> clock, secret |-> secret]

Use(a, secret, operation) ==
  /\ Cardinality(log) < MaxLog
  /\ log' = log \cup {Line(a, secret, operation)}
  /\ UNCHANGED <<clock, at, scan, access, inventory, plan>>

\* sys/remount: the accessor stays, and no two mounts have one place.
Move(a, location) ==
  /\ \A b \in Accessor : at[b] # location
  /\ at' = [at EXCEPT ![a] = location]
  /\ UNCHANGED <<clock, log, scan, access, inventory, plan>>

Tick ==
  /\ clock < MaxTime
  /\ clock' = clock + 1
  /\ UNCHANGED <<at, log, scan, access, inventory, plan>>

-------------------------------------------------------------------------------
(* discover, analyze and import. *)

Item(a, secret) == [namespace |-> at[a].namespace, mount |-> at[a].mount,
                    accessor |-> a, secret |-> secret]

\* An inventory is what Discovery says of it: true, and with gaps where listings failed.
\* A truncated file has more of them.  (Nothing moves during a discovery.)
Discover ==
  /\ inventory' \in SUBSET UNION {{Item(a, s) : s \in Holds[a]} : a \in Accessor}
  /\ UNCHANGED <<world, scan, access, plan>>

\* The query of docs/queries selects the lines that are exported for import.
Exported(line) == line.operation \in {"create", "read", "update", "delete"}

\* The files that match --audit-log, or one export, hold some of the lines.
Open(source, lines) ==
  /\ reading = "none"
  /\ source = "external" => lines # {} /\ \A l \in lines : Exported(l)
  /\ reading' = source /\ taken' = lines /\ unread' = lines /\ records' = NoRecords
  /\ UNCHANGED <<world, access, inventory, plan>>

RecordOf(source, line) ==
  IF source = "audit" THEN Extract(line)
  ELSE Normalize(line, IF AccessorKnown THEN line.accessor ELSE "")

KeyOf(source, r) == IF source = "audit" THEN AuditKey(r) ELSE ImportKey(r)

Close == reading' = "none" /\ taken' = {} /\ unread' = {} /\ records' = NoRecords

\* The handler of one line.  Log files are read in the order of their names, which is
\* not the order of time.
Read(line) ==
  /\ line \in unread
  /\ \/ \E r \in RecordOf(reading, line) :
          records' = Merge(records, KeyOf(reading, r), r)
     \/ RecordOf(reading, line) = {} /\ reading = "audit" /\ UNCHANGED records
  /\ unread' = unread \ {line}
  /\ UNCHANGED <<world, reading, taken, access, inventory, plan>>

\* What a truncated file gives to its reader: the records before the cut, which have no
\* order, or an error, here as if there were no file.
Truncated(file) ==
  {NoAccess} \cup {[file EXCEPT !.records = some, !.whole = (some = file.records)] :
                     some \in SUBSET file.records}

\* The new file replaces the old one.  It is written in place: a crash or a full disk in
\* the middle leaves a part of it.
Save ==
  /\ reading # "none" /\ unread = {}
  /\ LET file == [made |-> TRUE, records |-> GetRecords(records), lines |-> taken,
                  whole |-> TRUE]
     IN  access' \in {file} \cup Truncated(file)
  /\ Close
  /\ UNCHANGED <<world, inventory, plan>>

\* An unreadable file, an interrupt, an invalid imported record: nothing is written.
Abort ==
  /\ reading # "none"
  /\ Close
  /\ UNCHANGED <<world, access, inventory, plan>>

-------------------------------------------------------------------------------
(* plan. *)

\* Mutant: the mount is not compared.
MatchSecretOnly(strategy, item, r) == item.secret = r.secret

Match(strategy, item, r) ==
  /\ item.secret = r.secret
  /\ IF strategy = "path-based"
     THEN item.namespace = r.namespace /\ item.mount = r.mount
     ELSE item.accessor = r.accessor

\* Correlate takes the first match, and the order of the records is arbitrary.  (Two
\* secrets with a match in common have all in common, so each may choose alone.)
Matches(strategy, item) == {r \in access.records : Match(strategy, item, r)}

\* The periods thresholdForNamespace may return: it ranges over a Go map.
ThresholdForNamespace(ns) ==
  LET matching == {p \in PatternPolicy : ns \in p.covers}
  IN  IF ns \in DOMAIN NamespacePolicy THEN {NamespacePolicy[ns]}
      ELSE IF matching # {} THEN {p.period : p \in matching}
      ELSE {DefaultPeriod}

\* Mutant: a secret used exactly one period ago is stale.
CalculateNotAfter(r, threshold) == IF clock - r.last >= threshold THEN "stale" ELSE "active"

Calculate(r, threshold) == IF clock - r.last > threshold THEN "stale" ELSE "active"

\* A malformed pattern matches nothing.
IsExcluded(item) ==
  \E e \in Exclusion :
    /\ e.wellFormed
    /\ CASE e.of = "namespace" -> item.namespace \in e.covers
         [] e.of = "path"      -> item.mount \o item.secret \in e.covers
         [] e.of = "mount"     -> item.mount \in e.covers

\* The categories GeneratePlan may give to a secret.
Outcomes(strategy, item) ==
  LET found == Matches(strategy, item)
  IN  IF IsExcluded(item) THEN {"excluded"}
      ELSE IF found = {} THEN {"unknown"}
      ELSE {Calculate(r, t) : r \in found, t \in ThresholdForNamespace(item.namespace)}

MakePlan(strategy) ==
  /\ access.made /\ inventory # {}
  /\ \E category \in [inventory -> UNION {Outcomes(strategy, i) : i \in inventory}] :
       /\ \A item \in inventory : category[item] \in Outcomes(strategy, item)
       /\ plan' = [number |-> plan.number + 1, time |-> clock, strategy |-> strategy,
                   lines |-> access.lines, whole |-> access.whole, category |-> category]
  /\ UNCHANGED <<world, scan, access, inventory>>

-------------------------------------------------------------------------------
(* execute: each deletion by itself, whenever it comes; DeletionEngine has the rest. *)

\* Mutant: the request goes to the wrong namespace.
LocatedAnywhere(item) == {a \in Accessor : at[a].mount = item.mount}

\* The mount that a path leads to now, whatever mount was there when the plan was made.
Located(item) ==
  {a \in Accessor : at[a] = [namespace |-> item.namespace, mount |-> item.mount]}

Delete(item) ==
  /\ plan.category[item] \in {"stale", "unknown"}
  /\ \E a \in Located(item) : /\ item.secret \in Holds[a]
                             /\ destroyed' = {[accessor |-> a, item |-> item]}
  /\ UNCHANGED <<world, scan, access, inventory, plan>>

-------------------------------------------------------------------------------
\* MaxPlans bounds the commands: after the last plan no other file is made.
Command ==
  /\ plan.number < MaxPlans
  /\ \/ Discover \/ Save \/ Abort
     \/ \E source \in Sources, lines \in SUBSET log : Open(source, lines)
     \/ \E line \in unread : Read(line)
     \/ \E strategy \in Strategies : MakePlan(strategy)

User ==
  \E a \in Accessor :
    \/ \E s \in Holds[a], op \in Operation[a] : Use(a, s, op)
    \/ \E location \in Moves[a] : Move(a, location)

Next ==
  \/ (Tick \/ User \/ Command) /\ destroyed' = {}
  \/ \E item \in DOMAIN plan.category : Delete(item)

Spec == Init /\ [][Next]_vars

-------------------------------------------------------------------------------
(* Properties. *)

\* A record names a mount and a secret, whatever the request looked like.
RecordType == [namespace : STRING, accessor : STRING, mount : Path \ {<<>>},
               secret : Path \ {<<>>}, last : 0..clock]
LineType == [namespace : STRING, accessor : Accessor, mount : Path, path : Path,
             operation : UNION {Operation[a] : a \in Accessor}, time : 0..clock, secret : Path]
ItemType == [namespace : STRING, mount : Path, accessor : Accessor, secret : Path]

\* Every variable has its type, and no command sees a line before it is written.
TypeOK ==
  /\ clock \in 0..MaxTime /\ at \in [Accessor -> Location]
  /\ \A l \in log : l \in LineType
  /\ reading \in Sources \cup {"none"}
  /\ unread \subseteq taken /\ taken \subseteq log
  /\ \A k \in DOMAIN records : records[k] \in RecordType
  /\ access.made \in BOOLEAN /\ access.lines \subseteq log
  /\ \A r \in access.records : r \in RecordType
  /\ \A i \in inventory : i \in ItemType
  /\ plan.number \in 0..MaxPlans /\ plan.time \in 0..clock /\ plan.lines \subseteq log
  /\ \A i \in DOMAIN plan.category : i \in ItemType /\ plan.category[i] \in Categories
  /\ \A d \in destroyed : d.accessor \in Accessor /\ d.item \in DOMAIN plan.category

\* Whatever the order of the lines, there is a record for every key that was read, its time
\* is that of a line with this key, and no line with this key is later (Aggregator.Add,
\* aggregateImportedRecords).
RecordsAreLatest ==
  \A l \in taken \ unread : \A r \in RecordOf(reading, l) :
    LET key == KeyOf(reading, r)
    IN  /\ key \in DOMAIN records
        /\ r.last <= records[key].last
        /\ \E m \in taken \ unread : \E q \in RecordOf(reading, m) :
             KeyOf(reading, q) = key /\ q.last = records[key].last

\* What the analysed lines say of a secret of the plan.
Uses(item) == {l \in plan.lines : /\ l.accessor = item.accessor /\ l.secret = item.secret
                                  /\ Exported(l)}
Planned(category) == {i \in DOMAIN plan.category : plan.category[i] = category}

\* Where a mount can be, and where one was when a secret in it was planned.
Locations(a) == {Home[a]} \cup Moves[a]
Place(item) == [namespace |-> item.namespace, mount |-> item.mount]

\* When accessors and paths tell every secret from every other: imports name the accessor,
\* a mount stays in its namespace, no mount path has an API segment in it, and a mount of
\* version 1 has a path of one segment and no secret with an API segment in its own.  The
\* properties that follow do not hold without it.
Orderly ==
  /\ AccessorKnown
  /\ \A a \in Accessor : \A location \in Moves[a] : location.namespace = Home[a].namespace
  /\ \A a \in Accessor : \A location \in Locations(a) :
       /\ \A i \in DOMAIN location.mount : location.mount[i] \notin ApiSegment
       /\ Version[a] = 1 =>
            /\ Len(location.mount) = 1
            /\ \A s \in Holds[a] : \A i \in DOMAIN s : s[i] \notin ApiSegment

\* Path-based matching confuses the mounts that come to one place after another...
Unshared(item) ==
  plan.strategy = "path-based" =>
    \A a \in Accessor \ {item.accessor} : Place(item) \notin Locations(a)

\* ... and finds a secret only where it was used.
Traceable(item) == plan.strategy = "path-based" => Moves[item.accessor] = {}

\* REQUIREMENTS.md:106-108: a secret that the analysed lines show in use within the
\* period of its namespace is not called stale.
UnusedBeforePlan(item) ==
  \A l \in Uses(item) :
    \E period \in ThresholdForNamespace(item.namespace) : plan.time - l.time > period

StaleIsUnused == \A item \in Planned("stale") : Unshared(item) => UnusedBeforePlan(item)

\* REQUIREMENTS.md:107: a secret the analysed lines show in use is not called unknown,
\* when the access data file was written whole.
UnknownIsUnseen ==
  plan.whole => \A item \in Planned("unknown") : Traceable(item) => Uses(item) = {}

\* REQUIREMENTS.md:127: secrets never seen in the logs need --include-unknown to be
\* deleted, so no such secret is called stale.
StaleIsSeen == \A item \in Planned("stale") : Unshared(item) => Uses(item) # {}

\* Whatever moved since the plan was made, a deletion destroys a secret of the mount that
\* was planned, one that the analysed lines do not show in use within the period of its
\* namespace; or the planned mount has left its place and another has come there, whose
\* secret of the same path is destroyed, in use or not: a plan names the mount by its path
\* (executor.go:78-125), and nothing compares accessors.
DestroyedAsPlanned ==
  \A d \in destroyed :
    IF d.accessor = d.item.accessor
    THEN /\ plan.category[d.item] = "stale" /\ Unshared(d.item) => UnusedBeforePlan(d.item)
         /\ plan.category[d.item] = "unknown" /\ plan.whole /\ Traceable(d.item) =>
              UnusedBeforePlan(d.item)
    ELSE at[d.item.accessor] # Place(d.item)
===============================================================================
