-------------------------- MODULE PlanPipelineProofs --------------------------
(* Theorems about PlanPipeline, for every Vault, configuration and bound. *)
EXTENDS PlanPipeline, SequenceTheorems, WellFoundedInduction, TLAPS

-------------------------------------------------------------------------------
(* Paths. *)

\* The first API segment is where KVv2APISegmentIndex says, if there is one.
LEMMA FirstSegment ==
  ASSUME NEW parts \in Path
  PROVE  /\ Len(parts) \in Nat /\ DOMAIN parts = 1..Len(parts)
         /\ KVv2APISegmentIndex(parts) \in 0..Len(parts)
         /\ (\A i \in DOMAIN parts : parts[i] \notin ApiSegment) => KVv2APISegmentIndex(parts) = 0
         /\ \A i \in DOMAIN parts :
              parts[i] \in ApiSegment /\ (\A j \in 1..(i - 1) : parts[j] \notin ApiSegment)
                => KVv2APISegmentIndex(parts) = i
<1> DEFINE hits == {i \in DOMAIN parts : parts[i] \in ApiSegment}
           least == CHOOSE i \in hits : \A j \in hits : i <= j
<1>1. Len(parts) \in Nat /\ DOMAIN parts = 1..Len(parts)
  BY LenProperties DEF Path
<1>2. KVv2APISegmentIndex(parts) = IF hits = {} THEN 0 ELSE least
  BY DEF KVv2APISegmentIndex
<1>3. ASSUME hits # {} PROVE least \in hits /\ \A j \in hits : least <= j
  <2>1. hits \subseteq Nat
    BY <1>1
  <2>2. PICK m \in hits : \A j \in hits : <<j, m>> \notin OpToRel(<, Nat)
    <3> HIDE DEF hits
    <3> QED
      BY <1>3, <2>1, NatLessThanWellFounded, WFMin
  <2>3. \A j \in hits : m <= j
    <3> SUFFICES ASSUME NEW j \in hits, j < m PROVE FALSE
      BY <2>1
    <3>1. j \in Nat /\ m \in Nat
      BY <2>1
    <3> HIDE DEF hits
    <3> QED
      BY <2>2, <3>1 DEF OpToRel
  <2> HIDE DEF hits
  <2> QED
    BY <2>3
<1>4. ASSUME NEW i \in DOMAIN parts, parts[i] \in ApiSegment,
             \A j \in 1..(i - 1) : parts[j] \notin ApiSegment
      PROVE  KVv2APISegmentIndex(parts) = i
  <2>1. i \in hits
    BY <1>4
  <2>2. least \in hits /\ least <= i
    BY <1>3, <2>1
  <2>3. ~(least < i)
    BY <1>1, <1>4, <2>2
  <2>4. least \in Nat /\ i \in Nat
    BY <1>1, <2>2
  <2> HIDE DEF least
  <2>5. least = i
    BY <2>2, <2>3, <2>4
  <2> QED
    BY <1>2, <2>1, <2>5
<1>5. KVv2APISegmentIndex(parts) \in 0..Len(parts)
  <2> HIDE DEF least
  <2> QED
    BY <1>1, <1>2, <1>3
<1>6. ASSUME \A i \in DOMAIN parts : parts[i] \notin ApiSegment
      PROVE  KVv2APISegmentIndex(parts) = 0
  BY <1>2, <1>6
<1> HIDE DEF hits, least
<1> QED
  BY <1>1, <1>4, <1>5, <1>6

\* The parts of a path are paths.
LEMMA SubPath ==
  ASSUME NEW p \in Path, NEW i \in 0..Len(p)
  PROVE  /\ SubSeq(p, 1, i) \in Path /\ Len(SubSeq(p, 1, i)) = i
         /\ After(p, i) \in Path /\ Len(After(p, i)) = Len(p) - i
         /\ \A j \in 1..i : SubSeq(p, 1, i)[j] = p[j]
         /\ \A j \in 1..(Len(p) - i) : After(p, i)[j] = p[i + j]
<1>1. Len(p) \in Nat /\ \A j \in 1..Len(p) : p[j] \in STRING
  BY ElementOfSeq, LenProperties DEF Path
<1>2. /\ SubSeq(p, 1, i) \in Seq(STRING) /\ Len(SubSeq(p, 1, i)) = IF 1 <= i THEN i - 1 + 1 ELSE 0
      /\ \A j \in 1..(i - 1 + 1) : SubSeq(p, 1, i)[j] = p[1 + j - 1]
  BY <1>1, SubSeqProperties
<1>3. /\ SubSeq(p, i + 1, Len(p)) \in Seq(STRING)
      /\ Len(SubSeq(p, i + 1, Len(p))) = IF i + 1 <= Len(p) THEN Len(p) - (i + 1) + 1 ELSE 0
      /\ \A j \in 1..(Len(p) - (i + 1) + 1) : SubSeq(p, i + 1, Len(p))[j] = p[(i + 1) + j - 1]
  BY <1>1, SubSeqProperties
<1> QED
  BY <1>1, <1>2, <1>3 DEF Path, After

LEMMA ApiPathType ==
  ASSUME NEW a \in Accessor, NEW mount \in Path, NEW secret \in Path
  PROVE  ApiPath(a, mount, secret) \in Path
<1>1. <<"data">> \in Path /\ <<>> \in Path
  <2>1. \A S : \A x \in S : <<x>> \in Seq(S)
    OBVIOUS
  <2>2. "data" \in STRING
    BY StringAssumption
  <2>3. <<"data">> \in Seq(STRING)
    BY <2>1, <2>2, Zenon
  <2>4. <<>> \in Seq(STRING)
    BY EmptySeq
  <2> QED
    BY <2>3, <2>4, Zenon DEF Path
<1>2. \A p, q \in Path : p \o q \in Path
  BY ConcatProperties DEF Path
<1>3. mount \o <<"data">> \in Path /\ mount \o <<>> \in Path
  BY <1>1, <1>2
<1> QED
  BY <1>2, <1>3 DEF ApiPath

LEMMA ExtractType ==
  ASSUME NEW parts \in Path, ExtractSecretPath(parts) # Nothing
  PROVE  /\ ExtractSecretPath(parts).mount \in Path \ {<<>>}
         /\ ExtractSecretPath(parts).secret \in Path \ {<<>>}
<1> DEFINE api == KVv2APISegmentIndex(parts)
<1>1. Len(parts) \in Nat /\ api \in 0..Len(parts)
  BY FirstSegment
<1>2. \A p \in Path : Len(p) >= 1 => p # <<>>
  BY EmptySeq DEF Path
<1> HIDE DEF api
<1>3. ~(Len(parts) < 2 \/ (api > 1 /\ api = Len(parts)))
  BY <1>1 DEF ExtractSecretPath, api
<1>4. CASE Len(parts) >= 2 /\ api > 1 /\ api < Len(parts)
  <2>1. ExtractSecretPath(parts) = [mount |-> SubSeq(parts, 1, api - 1), secret |-> After(parts, api)]
    BY <1>1, <1>4 DEF ExtractSecretPath, api
  <2>2. /\ api - 1 \in 0..Len(parts) /\ api \in 0..Len(parts)
        /\ api - 1 >= 1 /\ Len(parts) - api >= 1
    BY <1>1, <1>4
  <2>3. /\ SubSeq(parts, 1, api - 1) \in Path /\ Len(SubSeq(parts, 1, api - 1)) = api - 1
        /\ After(parts, api) \in Path /\ Len(After(parts, api)) = Len(parts) - api
    BY <2>2, SubPath
  <2> QED
    BY <1>2, <2>1, <2>2, <2>3
<1>5. CASE Len(parts) >= 2 /\ ~(api > 1)
  <2>1. ExtractSecretPath(parts) = [mount |-> SubSeq(parts, 1, 1), secret |-> After(parts, 1)]
    BY <1>1, <1>5 DEF ExtractSecretPath, api
  <2>2. 1 \in 0..Len(parts) /\ Len(parts) - 1 >= 1
    BY <1>1, <1>5
  <2>3. /\ SubSeq(parts, 1, 1) \in Path /\ Len(SubSeq(parts, 1, 1)) = 1
        /\ After(parts, 1) \in Path /\ Len(After(parts, 1)) = Len(parts) - 1
    BY <2>2, SubPath
  <2> QED
    BY <1>2, <2>1, <2>2, <2>3
<1> QED
  BY <1>1, <1>3, <1>4, <1>5

LEMMA NormalizeType ==
  ASSUME NEW mount \in Path, NEW path \in Path
  PROVE  NormalizeSecretPath(mount, path) \in Path
<1> DEFINE repeats == Len(path) > Len(mount) /\ SubSeq(path, 1, Len(mount)) = mount
           rest == IF repeats THEN After(path, Len(mount)) ELSE path
<1>1. Len(path) \in Nat /\ Len(mount) \in Nat
  BY LenProperties DEF Path
<1>2. rest \in Path
  <2>1. CASE repeats
    <3>1. Len(mount) \in 0..Len(path)
      BY <1>1, <2>1
    <3> QED
      BY <2>1, <3>1, SubPath
  <2>2. CASE ~repeats
    BY <2>2
  <2> QED
    BY <2>1, <2>2
<1> HIDE DEF rest
<1>3. KVv2APISegmentIndex(rest) \in 0..Len(rest)
  BY <1>2, FirstSegment
<1>4. After(rest, KVv2APISegmentIndex(rest)) \in Path
  BY <1>2, <1>3, SubPath
<1> QED
  BY <1>4 DEF NormalizeSecretPath, rest

-------------------------------------------------------------------------------
(* Types. *)

\* The lines say where their mount was and what was meant.
LineInv ==
  \A l \in log :
    /\ l \in [namespace : STRING, accessor : Accessor, mount : Path \ {<<>>}, path : Path,
             operation : UNION {Operation[x] : x \in Accessor}, time : 0..clock, secret : Path \ {<<>>}]
    /\ [namespace |-> l.namespace, mount |-> l.mount] \in Locations(l.accessor)
    /\ l.secret \in Holds[l.accessor]
    /\ l.path = ApiPath(l.accessor, l.mount, l.secret)

\* The record of a line keeps the namespace, the time and, unless it was imported without
\* it, the accessor.
LEMMA RecordOfType ==
  ASSUME LineInv, NEW l \in log, NEW source, NEW r \in RecordOf(source, l)
  PROVE  /\ r = [namespace |-> l.namespace, accessor |-> r.accessor, mount |-> r.mount,
                 secret |-> r.secret, last |-> l.time]
         /\ r.accessor \in {l.accessor, ""}
         /\ r.mount \in Path \ {<<>>} /\ r.secret \in Path \ {<<>>}
         /\ RecordOf(source, l) = {r}
<1> l.path \in Path /\ l.mount \in Path \ {<<>>}
  BY DEF LineInv
<1>1. CASE source = "audit"
  <2>1. RecordOf(source, l) = Extract(l)
    BY <1>1 DEF RecordOf
  <2>2. /\ Extract(l) = {r} /\ ExtractSecretPath(l.path) # Nothing
        /\ r = [namespace |-> l.namespace, accessor |-> l.accessor,
                mount |-> ExtractSecretPath(l.path).mount,
                secret |-> ExtractSecretPath(l.path).secret, last |-> l.time]
    BY <2>1 DEF Extract
  <2> QED
    BY <2>1, <2>2, ExtractType
<1>2. CASE source # "audit"
  <2> DEFINE a == IF AccessorKnown THEN l.accessor ELSE ""
  <2>1. RecordOf(source, l) = Normalize(l, a)
    BY <1>2 DEF RecordOf
  <2> HIDE DEF a
  <2>2. /\ Normalize(l, a) = {r} /\ NormalizeSecretPath(l.mount, l.path) # <<>>
        /\ r = [namespace |-> l.namespace, accessor |-> a, mount |-> l.mount,
                secret |-> NormalizeSecretPath(l.mount, l.path), last |-> l.time]
    BY <2>1 DEF Normalize
  <2>3. a \in {l.accessor, ""}
    BY DEF a
  <2> QED
    BY <2>1, <2>2, <2>3, NormalizeType
<1> QED
  BY <1>1, <1>2

TypeInv == TypeOK /\ LineInv /\ \A a \in Accessor : at[a] \in Locations(a)

LEMMA InitType == Init => TypeInv
<1> SUFFICES ASSUME Init PROVE TypeInv
  OBVIOUS
<1>a. MaxTime \in Nat /\ MaxPlans \in Nat
  BY PolicyAssumption
<1>1. clock = 0 /\ clock \in 0..MaxTime /\ 0 \in 0..clock /\ 0 \in 0..MaxPlans
  <2>1. clock = 0
    BY DEF Init
  <2> QED
    BY <1>a, <2>1
<1>2. at = Home /\ at \in [Accessor -> Location] /\ log = {}
  BY MountAssumption DEF Init
<1>3. reading = "none" /\ taken = {} /\ unread = {} /\ DOMAIN records = {}
  BY DEF Init, NoRecords
<1>4. access.made = FALSE /\ access.records = {} /\ access.lines = {} /\ inventory = {}
  BY DEF Init, NoAccess
<1>5. /\ plan.number = 0 /\ plan.time = 0 /\ plan.lines = {} /\ DOMAIN plan.category = {}
      /\ destroyed = {}
  BY DEF Init, NoPlan, NoRecords
<1>6. TypeOK
  BY <1>1, <1>2, <1>3, <1>4, <1>5 DEF TypeOK
<1> QED
  BY <1>2, <1>6 DEF TypeInv, LineInv, Locations

LEMMA ItemTyped ==
  ASSUME NEW a \in Accessor, at[a] \in Location, NEW s \in Path
  PROVE  Item(a, s) \in ItemType
<1>1. at[a].namespace \in STRING /\ at[a].mount \in Path /\ a \in STRING
  BY MountAssumption DEF Location
<1> QED
  BY <1>1 DEF Item, ItemType

\* The categories the planner gives are those of the plan.
LEMMA OutcomeType ==
  ASSUME NEW strategy, NEW item
  PROVE  Outcomes(strategy, item) \subseteq Categories
  BY DEF Outcomes, Calculate, Categories

\* The order of two times does not matter to what a merge makes of them.
LEMMA MergeType ==
  ASSUME NEW R, NEW key, NEW r \in RecordType,
         \A k \in DOMAIN R : R[k] \in RecordType
  PROVE  /\ DOMAIN Merge(R, key, r) = DOMAIN R \cup {key}
         /\ \A k \in DOMAIN Merge(R, key, r) : Merge(R, key, r)[k] \in RecordType
<1>1. /\ DOMAIN Merge(R, key, r) = DOMAIN R \cup {key}
      /\ \A k \in DOMAIN R : k # key => Merge(R, key, r)[k] = R[k]
      /\ Merge(R, key, r)[key] \in {r, R[key], [R[key] EXCEPT !.last = r.last]}
      /\ key \notin DOMAIN R => Merge(R, key, r)[key] = r
  BY DEF Merge
<1>2. key \in DOMAIN R => [R[key] EXCEPT !.last = r.last] \in RecordType
  BY DEF RecordType
<1>3. Merge(R, key, r)[key] \in RecordType
  BY <1>1, <1>2
<1> QED
  BY <1>1, <1>3

\* A truncated file holds fewer records and is otherwise the file, or none at all.
LEMMA TruncatedFile ==
  ASSUME NEW file \in [made : {TRUE}, records : SUBSET RecordType, lines : SUBSET log,
                       whole : {TRUE}],
         NEW f \in {file} \cup Truncated(file)
  PROVE  \/ f = NoAccess
         \/ /\ f.made = file.made /\ f.lines = file.lines
            /\ f.records \subseteq file.records
            /\ f.whole => f.records = file.records
<1>1. CASE f = file
  BY <1>1
<1>2. CASE f \in Truncated(file) /\ f # NoAccess
  <2>1. PICK some \in SUBSET file.records :
          f = [file EXCEPT !.records = some, !.whole = (some = file.records)]
    BY <1>2 DEF Truncated
  <2>2. f.made = file.made /\ f.lines = file.lines /\ f.records = some
    BY <2>1
  <2>3. f.whole = (some = file.records)
    BY <2>1
  <2> QED
    BY <2>2, <2>3
<1> QED
  BY <1>1, <1>2

LEMMA UserType ==
  ASSUME TypeInv, Tick \/ User, destroyed' = {}
  PROVE  TypeInv'
<1> TypeOK /\ LineInv /\ \A a \in Accessor : at[a] \in Locations(a)
  BY DEF TypeInv
<1> USE DEF scan
<1>1. CASE Tick
  <2>1. clock \in Nat /\ clock' = clock + 1 /\ clock' \in 0..MaxTime
    <3>1. clock \in 0..MaxTime /\ MaxTime \in Nat /\ clock < MaxTime /\ clock' = clock + 1
      BY <1>1, PolicyAssumption DEF Tick, TypeOK
    <3> QED
      BY <3>1
  <2>2. UNCHANGED <<at, log, scan, access, inventory, plan>>
    BY <1>1 DEF Tick
  <2>3. 0..clock \subseteq 0..clock'
    BY <2>1
  <2>4. RecordType \subseteq RecordType' /\ LineType \subseteq LineType' /\ ItemType' = ItemType
    <3> HIDE <2>1
    <3> QED
      BY <2>3 DEF RecordType, LineType, ItemType
  <2>5. TypeOK'
    <3>1. plan.time \in 0..clock'
      BY <2>3 DEF TypeOK
    <3> QED
      BY <2>1, <2>2, <2>4, <3>1 DEF TypeOK
  <2>6. LineInv'
    <3>1. \A l \in log : l.time \in 0..clock'
      BY <2>3 DEF LineInv
    <3> QED
      BY <2>2, <3>1 DEF LineInv, Locations
  <2> QED
    BY <2>2, <2>5, <2>6 DEF TypeInv, Locations
<1>2. ASSUME NEW a \in Accessor, NEW s \in Holds[a], NEW op \in Operation[a], Use(a, s, op)
      PROVE  TypeInv'
  <2> DEFINE l == Line(a, s, op)
  <2>1. log' = log \cup {l} /\ UNCHANGED <<clock, at, scan, access, inventory, plan>>
    BY <1>2 DEF Use
  <2>2. /\ s \in Path \ {<<>>} /\ at[a].namespace \in STRING /\ at[a].mount \in Path \ {<<>>}
        /\ a \in STRING
    BY MountAssumption DEF TypeOK, Location
  <2>3. ApiPath(a, at[a].mount, s) \in Path
    BY <2>2, ApiPathType
  <2>4. clock \in 0..clock
    BY PolicyAssumption DEF TypeOK
  <2>5. /\ l.namespace = at[a].namespace /\ l.accessor = a /\ l.mount = at[a].mount
        /\ l.path = ApiPath(a, at[a].mount, s) /\ l.secret = s
        /\ l \in [namespace : STRING, accessor : Accessor, mount : Path \ {<<>>}, path : Path,
                 operation : UNION {Operation[x] : x \in Accessor}, time : 0..clock, secret : Path \ {<<>>}]
    BY <2>2, <2>3, <2>4 DEF Line
  <2>6. [namespace |-> l.namespace, mount |-> l.mount] \in Locations(a)
    <3>1. at[a] = [namespace |-> at[a].namespace, mount |-> at[a].mount]
      BY DEF TypeOK, Location
    <3> QED
      BY <2>5, <3>1
  <2>7. l \in LineType
    BY <2>2, <2>3, <2>4 DEF Line, LineType
  <2> HIDE DEF l
  <2>8. RecordType' = RecordType /\ LineType' = LineType /\ ItemType' = ItemType
    BY <2>1 DEF RecordType, LineType, ItemType
  <2>9. TypeOK'
    BY <1>2, <2>1, <2>7, <2>8 DEF TypeOK
  <2>10. LineInv'
    BY <2>1, <2>5, <2>6 DEF LineInv, Locations
  <2> QED
    BY <2>1, <2>9, <2>10 DEF TypeInv, Locations
<1>3. ASSUME NEW a \in Accessor, NEW location \in Moves[a], Move(a, location)
      PROVE  TypeInv'
  <2>1. /\ at' = [at EXCEPT ![a] = location]
        /\ UNCHANGED <<clock, log, scan, access, inventory, plan>>
    BY <1>3 DEF Move
  <2>2. location \in Location /\ location \in Locations(a)
    BY MountAssumption DEF Locations
  <2>3. at' \in [Accessor -> Location] /\ \A b \in Accessor : at'[b] \in Locations(b)
    BY <2>1, <2>2 DEF TypeOK
  <2>4. RecordType' = RecordType /\ LineType' = LineType /\ ItemType' = ItemType
    BY <2>1 DEF RecordType, LineType, ItemType
  <2>5. TypeOK'
    BY <1>3, <2>1, <2>3, <2>4 DEF TypeOK
  <2> QED
    BY <2>1, <2>3, <2>5 DEF TypeInv, LineInv, Locations
<1> QED
  BY <1>1, <1>2, <1>3 DEF User

\* A command changes the scan, the files and nothing else.
LEMMA CommandType ==
  ASSUME TypeInv, Command, destroyed' = {}
  PROVE  TypeInv'
<1> TypeOK /\ LineInv /\ \A a \in Accessor : at[a] \in Locations(a)
  BY DEF TypeInv
<1> USE DEF world, scan
<1>a. ASSUME UNCHANGED world,
             reading' \in Sources \cup {"none"}, unread' \subseteq taken', taken' \subseteq log,
             \A k \in DOMAIN records' : records'[k] \in RecordType,
             access'.made \in BOOLEAN, access'.lines \subseteq log,
             \A r \in access'.records : r \in RecordType,
             \A i \in inventory' : i \in ItemType,
             plan'.number \in 0..MaxPlans, plan'.time \in 0..clock, plan'.lines \subseteq log,
             \A i \in DOMAIN plan'.category : i \in ItemType /\ plan'.category[i] \in Categories
      PROVE  TypeInv'
  <2>1. RecordType' = RecordType /\ LineType' = LineType /\ ItemType' = ItemType
    BY <1>a DEF RecordType, LineType, ItemType
  <2>2. TypeOK'
    BY <1>a, <2>1 DEF TypeOK
  <2> QED
    BY <1>a, <2>2 DEF TypeInv, LineInv, Locations
<1>1. CASE Discover
  <2>1. \A i \in inventory' : i \in ItemType
    <3> TAKE i \in inventory'
    <3>1. PICK a \in Accessor : i \in {Item(a, s) : s \in Holds[a]}
      BY <1>1 DEF Discover
    <3>2. PICK s \in Holds[a] : i = Item(a, s)
      BY <3>1
    <3>3. s \in Path /\ at[a] \in Location
      BY MountAssumption DEF TypeOK
    <3> QED
      BY <3>2, <3>3, ItemTyped
  <2> QED
    BY <1>1, <1>a, <2>1 DEF Discover, TypeOK
<1>2. ASSUME NEW source \in Sources, NEW lines \in SUBSET log, Open(source, lines)
      PROVE  TypeInv'
  <2>1. DOMAIN records' = {}
    BY <1>2 DEF Open, NoRecords
  <2> QED
    BY <1>2, <1>a, <2>1 DEF Open, TypeOK
<1>3. ASSUME NEW line \in unread, Read(line) PROVE TypeInv'
  <2>1. \A k \in DOMAIN records' : records'[k] \in RecordType
    <3>1. CASE UNCHANGED records
      BY <3>1 DEF TypeOK
    <3>2. ASSUME NEW r \in RecordOf(reading, line),
                 records' = Merge(records, KeyOf(reading, r), r)
          PROVE  \A k \in DOMAIN records' : records'[k] \in RecordType
      <4>1. line \in log
        BY DEF TypeOK
      <4>2. /\ r = [namespace |-> line.namespace, accessor |-> r.accessor, mount |-> r.mount,
                    secret |-> r.secret, last |-> line.time]
            /\ r.accessor \in {line.accessor, ""}
            /\ r.mount \in Path \ {<<>>} /\ r.secret \in Path \ {<<>>}
        BY <4>1, RecordOfType
      <4>3. line.namespace \in STRING /\ line.accessor \in STRING /\ line.time \in 0..clock
        BY <4>1, MountAssumption DEF LineInv
      <4>4. r.accessor \in STRING
        <5>1. "" \in STRING
          BY StringAssumption
        <5> QED
          BY <4>2, <4>3, <5>1
      <4>5. [namespace |-> line.namespace, accessor |-> r.accessor, mount |-> r.mount,
             secret |-> r.secret, last |-> line.time] \in RecordType
        BY <4>2, <4>3, <4>4 DEF RecordType
      <4>6. r \in RecordType
        BY <4>2, <4>5
      <4> QED
        BY <3>2, <4>6, MergeType DEF TypeOK
    <3> QED
      BY <1>3, <3>1, <3>2 DEF Read
  <2> QED
    BY <1>3, <1>a, <2>1 DEF Read, TypeOK
<1>4. ASSUME Close PROVE /\ reading' = "none" /\ taken' = {} /\ unread' = {}
                         /\ \A k \in DOMAIN records' : records'[k] \in RecordType
  BY <1>4 DEF Close, NoRecords
<1>5. CASE Save
  <2> DEFINE file == [made |-> TRUE, records |-> GetRecords(records), lines |-> taken,
                      whole |-> TRUE]
  <2>1. /\ access' \in {file} \cup Truncated(file) /\ Close /\ reading # "none"
        /\ UNCHANGED <<world, inventory, plan>>
    BY <1>5 DEF Save
  <2>2. GetRecords(records) \subseteq RecordType
    BY DEF GetRecords, TypeOK
  <2>3. file \in [made : {TRUE}, records : SUBSET RecordType, lines : SUBSET log, whole : {TRUE}]
    BY <2>1, <2>2 DEF TypeOK
  <2>4. \/ access' = NoAccess
        \/ /\ access'.made = file.made /\ access'.lines = file.lines
           /\ access'.records \subseteq file.records
    BY <2>1, <2>3, TruncatedFile
  <2>5. /\ access'.made \in BOOLEAN /\ access'.lines \subseteq log
        /\ access'.records \subseteq RecordType
    <3>1. CASE access' = NoAccess
      BY <3>1 DEF NoAccess
    <3>2. CASE access' # NoAccess
      <4>1. file.made = TRUE /\ file.lines \subseteq log /\ file.records \subseteq RecordType
        BY <2>3
      <4>2. access'.made = TRUE
        BY <2>4, <3>2, <4>1
      <4> HIDE DEF file
      <4> QED
        BY <2>4, <3>2, <4>1, <4>2
    <3> QED
      BY <3>1, <3>2
  <2> HIDE DEF file
  <2> QED
    BY <1>4, <1>a, <2>1, <2>5 DEF TypeOK
<1>6. CASE Abort
  BY <1>4, <1>6, <1>a DEF Abort, TypeOK
<1>7. ASSUME NEW strategy \in Strategies, MakePlan(strategy), plan.number < MaxPlans
      PROVE  TypeInv'
  <2>1. PICK category \in [inventory -> UNION {Outcomes(strategy, i) : i \in inventory}] :
          plan' = [number |-> plan.number + 1, time |-> clock, strategy |-> strategy,
                   lines |-> access.lines, whole |-> access.whole, category |-> category]
    BY <1>7 DEF MakePlan
  <2>2. \A i \in DOMAIN plan'.category : i \in ItemType /\ plan'.category[i] \in Categories
    <3>1. plan'.category = category /\ DOMAIN category = inventory
      BY <2>1
    <3>2. \A i \in inventory : category[i] \in Categories
      BY OutcomeType
    <3> QED
      BY <3>1, <3>2 DEF TypeOK
  <2>3. plan'.number \in 0..MaxPlans /\ plan'.time \in 0..clock /\ plan'.lines \subseteq log
    <3>1. plan.number \in 0..MaxPlans /\ MaxPlans \in Nat /\ clock \in 0..clock
      BY PolicyAssumption DEF TypeOK
    <3> QED
      BY <1>7, <2>1, <3>1 DEF TypeOK
  <2> QED
    BY <1>7, <1>a, <2>2, <2>3 DEF MakePlan, TypeOK
<1> QED
  BY <1>1, <1>2, <1>3, <1>5, <1>6, <1>7 DEF Command

LEMMA NextType == TypeInv /\ [Next]_vars => TypeInv'
<1> SUFFICES ASSUME TypeInv, [Next]_vars PROVE TypeInv'
  OBVIOUS
<1> TypeOK
  BY DEF TypeInv
<1> USE DEF world, scan
<1>1. CASE (Tick \/ User \/ Command) /\ destroyed' = {}
  BY <1>1, UserType, CommandType
<1>2. ASSUME UNCHANGED <<world, scan, access, inventory, plan>>,
             \A d \in destroyed' : d.accessor \in Accessor /\ d.item \in DOMAIN plan.category
      PROVE  TypeInv'
  <2>1. RecordType' = RecordType /\ LineType' = LineType /\ ItemType' = ItemType
    BY <1>2 DEF RecordType, LineType, ItemType
  <2>2. TypeOK'
    BY <1>2, <2>1 DEF TypeOK
  <2> QED
    BY <1>2, <2>2 DEF TypeInv, LineInv, Locations
<1>3. ASSUME NEW item \in DOMAIN plan.category, Delete(item) PROVE TypeInv'
  <2>1. PICK a \in Located(item) : destroyed' = {[accessor |-> a, item |-> item]}
    BY <1>3 DEF Delete
  <2>2. a \in Accessor
    BY DEF Located
  <2>3. \A d \in destroyed' : d.accessor \in Accessor /\ d.item \in DOMAIN plan.category
    BY <2>1, <2>2
  <2>4. UNCHANGED <<world, scan, access, inventory, plan>>
    BY <1>3 DEF Delete
  <2> QED
    BY <1>2, <2>3, <2>4
<1>4. CASE UNCHANGED vars
  BY <1>2, <1>4 DEF vars, TypeOK
<1> QED
  BY <1>1, <1>3, <1>4 DEF Next

\* Every variable keeps its type, and no command sees a line before it is written.
THEOREM TypeCorrect == Spec => []TypeOK
<1>1. TypeInv => TypeOK
  BY DEF TypeInv
<1> QED
  BY <1>1, InitType, NextType, PTL DEF Spec

-------------------------------------------------------------------------------
(* The aggregator. *)

\* A record is that of a line that was read, with the time of another perhaps.
Origin ==
  \A k \in DOMAIN records : \E m \in taken \ unread : \E r \in RecordOf(reading, m) :
    k = KeyOf(reading, r) /\ records[k] = [r EXCEPT !.last = records[k].last]

ScanInv == RecordsAreLatest /\ Origin

LEMMA ScanStep == TypeInv /\ ScanInv /\ [Next]_vars => ScanInv'
<1> SUFFICES ASSUME TypeInv, ScanInv, [Next]_vars PROVE ScanInv'
  OBVIOUS
<1> TypeOK /\ LineInv /\ RecordsAreLatest /\ Origin
  BY DEF TypeInv, ScanInv
<1> USE DEF world, scan
<1>1. CASE UNCHANGED scan
  BY <1>1 DEF ScanInv, RecordsAreLatest, Origin, RecordOf, KeyOf
<1>2. CASE taken' = {} /\ DOMAIN records' = {}
  BY <1>2 DEF ScanInv, RecordsAreLatest, Origin
<1>3. ASSUME NEW source, NEW lines, Open(source, lines) PROVE ScanInv'
  <2>1. taken' \ unread' = {} /\ DOMAIN records' = {}
    BY <1>3 DEF Open, NoRecords
  <2> QED
    BY <2>1 DEF ScanInv, RecordsAreLatest, Origin
<1>4. ASSUME NEW line \in unread, Read(line) PROVE ScanInv'
  <2> DEFINE done == taken \ unread
  <2>1. /\ reading' = reading /\ taken' = taken /\ unread' = unread \ {line}
        /\ line \in log /\ done \subseteq log /\ taken' \ unread' = done \cup {line}
    BY <1>4 DEF Read, TypeOK
  <2> HIDE DEF done
  <2>a. \A l : RecordOf(reading', l) = RecordOf(reading, l)
    BY <2>1
  <2>b. \A r : KeyOf(reading', r) = KeyOf(reading, r)
    BY <2>1
  <2>2. CASE RecordOf(reading, line) = {} /\ UNCHANGED records
    <3>1. RecordsAreLatest'
      <4> SUFFICES ASSUME NEW l \in done \cup {line}, NEW r \in RecordOf(reading, l)
                   PROVE  /\ KeyOf(reading, r) \in DOMAIN records
                          /\ r.last <= records[KeyOf(reading, r)].last
                          /\ \E m \in done \cup {line} : \E q \in RecordOf(reading, m) :
                               /\ KeyOf(reading, q) = KeyOf(reading, r)
                               /\ q.last = records[KeyOf(reading, r)].last
        BY <2>1, <2>2 DEF RecordsAreLatest
      <4> QED
        BY <2>2 DEF RecordsAreLatest, done
    <3>2. Origin'
      BY <2>1, <2>2 DEF Origin, done
    <3> QED
      BY <3>1, <3>2 DEF ScanInv
  <2>3. ASSUME NEW r \in RecordOf(reading, line),
               records' = Merge(records, KeyOf(reading, r), r)
        PROVE  ScanInv'
    <3> DEFINE key == KeyOf(reading, r)
    <3>1. r.last = line.time /\ RecordOf(reading, line) = {r} /\ line.time \in Int
      <4>1. line.time \in 0..clock
        BY <2>1 DEF LineInv
      <4>2. clock \in Int
        BY PolicyAssumption DEF TypeOK
      <4>3. /\ r = [namespace |-> line.namespace, accessor |-> r.accessor, mount |-> r.mount,
                     secret |-> r.secret, last |-> line.time]
            /\ RecordOf(reading, line) = {r}
        BY <2>1, RecordOfType
      <4> QED
        BY <4>1, <4>2, <4>3
    <3>2. \A k \in DOMAIN records : records[k].last \in Int
      <4>1. \A k \in DOMAIN records : records[k].last \in 0..clock
        BY DEF TypeOK, RecordType
      <4> QED
        BY <4>1
    <3>3. /\ DOMAIN records' = DOMAIN records \cup {key}
          /\ \A k \in DOMAIN records : k # key => records'[k] = records[k]
          /\ key \notin DOMAIN records => records'[key] = r
          /\ key \in DOMAIN records =>
               records'[key] = IF r.last <= records[key].last THEN records[key]
                               ELSE [records[key] EXCEPT !.last = r.last]
      BY <2>3 DEF Merge
    <3> HIDE DEF key
    <3>4. key \in DOMAIN records =>
            /\ records[key].last <= records'[key].last /\ r.last <= records'[key].last
            /\ records'[key].last \in {records[key].last, r.last}
            /\ records'[key] = [records[key] EXCEPT !.last = records'[key].last]
      <4> SUFFICES ASSUME key \in DOMAIN records
                   PROVE  /\ records[key].last <= records'[key].last /\ r.last <= records'[key].last
                          /\ records'[key].last \in {records[key].last, r.last}
                          /\ records'[key] = [records[key] EXCEPT !.last = records'[key].last]
        OBVIOUS
      <4>1. records[key] \in RecordType
        BY DEF TypeOK
      <4>2. CASE r.last <= records[key].last
        <5>1. records'[key] = records[key]
          BY <3>3, <4>2
        <5>2. records[key] = [records[key] EXCEPT !.last = records[key].last]
          BY <4>1 DEF RecordType
        <5> QED
          BY <3>2, <4>2, <5>1, <5>2
      <4>3. CASE ~(r.last <= records[key].last)
        <5>1. records'[key] = [records[key] EXCEPT !.last = r.last]
          BY <3>3, <4>3
        <5>2. records'[key].last = r.last
          BY <4>1, <5>1 DEF RecordType
        <5> QED
          BY <3>1, <3>2, <4>3, <5>1, <5>2
      <4> QED
        BY <4>2, <4>3
    <3>5. RecordsAreLatest'
\* Some line with the key has the time of the record that was there before.
      <4>o. ASSUME key \in DOMAIN records
            PROVE  \E m \in done : \E q \in RecordOf(reading, m) :
                     KeyOf(reading, q) = key /\ q.last = records[key].last
        <5>1. PICK m \in done : \E q \in RecordOf(reading, m) : key = KeyOf(reading, q)
          BY <4>o DEF Origin, done
        <5>2. PICK q \in RecordOf(reading, m) : key = KeyOf(reading, q)
          BY <5>1
        <5> QED
          BY <5>2 DEF RecordsAreLatest, done
      <4>k. key \in DOMAIN records' /\ key = KeyOf(reading, r)
        BY <3>3 DEF key
\* With the new line, one has the time of the record that is there now.
      <4>n. /\ r.last <= records'[key].last
            /\ \E m \in done \cup {line} : \E q \in RecordOf(reading, m) :
                 KeyOf(reading, q) = key /\ q.last = records'[key].last
        <5>1. CASE key \notin DOMAIN records
          BY <3>1, <3>3, <4>k, <5>1
        <5>2. CASE key \in DOMAIN records
          <6>1. CASE records'[key].last = r.last
            BY <3>4, <4>k, <5>2, <6>1
          <6>2. CASE records'[key].last = records[key].last
            BY <3>4, <4>o, <5>2, <6>2
          <6> QED
            BY <3>4, <5>2, <6>1, <6>2
        <5> QED
          BY <5>1, <5>2
      <4> SUFFICES ASSUME NEW l \in done \cup {line}, NEW p \in RecordOf(reading, l)
                   PROVE  /\ KeyOf(reading, p) \in DOMAIN records'
                          /\ p.last <= records'[KeyOf(reading, p)].last
                          /\ \E m \in done \cup {line} : \E q \in RecordOf(reading, m) :
                               /\ KeyOf(reading, q) = KeyOf(reading, p)
                               /\ q.last = records'[KeyOf(reading, p)].last
        BY <2>1 DEF RecordsAreLatest
      <4> DEFINE k == KeyOf(reading, p)
      <4>1. CASE l \in done
        <5>1. /\ k \in DOMAIN records /\ p.last <= records[k].last
              /\ \E m \in done : \E q \in RecordOf(reading, m) :
                   KeyOf(reading, q) = k /\ q.last = records[k].last
          BY <4>1 DEF RecordsAreLatest, done
        <5>2. p.last \in Int
          <6>1. l \in log /\ l.time \in 0..clock
            BY <2>1, <4>1 DEF LineInv
          <6>2. p = [namespace |-> l.namespace, accessor |-> p.accessor, mount |-> p.mount,
                     secret |-> p.secret, last |-> l.time]
            BY <6>1, RecordOfType
          <6>3. p.last = l.time
            BY <6>2
          <6> QED
            BY <6>1, <6>3
        <5> HIDE DEF k
        <5>3. CASE k = key
          <6>1. p.last <= records'[key].last
            BY <3>1, <3>2, <3>4, <5>1, <5>2, <5>3
          <6> QED
            BY <4>k, <4>n, <5>3, <6>1 DEF k
        <5>4. CASE k # key
          <6>1. k \in DOMAIN records' /\ records'[k] = records[k]
            BY <3>3, <5>1, <5>4
          <6> QED
            BY <5>1, <6>1 DEF k
        <5> QED
          BY <5>3, <5>4
      <4>2. CASE l = line
        <5>1. p = r /\ k = key
          BY <3>1, <4>2, <4>k
        <5> QED
          BY <4>k, <4>n, <5>1
      <4> QED
        BY <4>1, <4>2
    <3>6. Origin'
      <4> SUFFICES ASSUME NEW k \in DOMAIN records'
                   PROVE  \E m \in done \cup {line} : \E q \in RecordOf(reading, m) :
                            k = KeyOf(reading, q) /\ records'[k] = [q EXCEPT !.last = records'[k].last]
        BY <2>1 DEF Origin
      <4>1. CASE k \in DOMAIN records /\ k # key
        BY <3>3, <4>1 DEF Origin, done
      <4>2. CASE k = key /\ key \notin DOMAIN records
        <5>1. r = [r EXCEPT !.last = r.last]
          <6>1. r = [namespace |-> line.namespace, accessor |-> r.accessor, mount |-> r.mount,
                     secret |-> r.secret, last |-> line.time]
            BY <2>1, RecordOfType
          <6> QED
            BY <6>1
        <5> QED
          BY <3>3, <4>2, <5>1 DEF key
      <4>3. CASE k = key /\ key \in DOMAIN records
        <5>1. PICK m \in done : \E q \in RecordOf(reading, m) :
                key = KeyOf(reading, q) /\ records[key] = [q EXCEPT !.last = records[key].last]
          BY <4>3 DEF Origin, done
        <5>q. PICK q \in RecordOf(reading, m) :
                key = KeyOf(reading, q) /\ records[key] = [q EXCEPT !.last = records[key].last]
          BY <5>1
        <5>2. records'[key] = [records[key] EXCEPT !.last = records'[key].last]
          BY <3>4, <4>3
        <5>3. records'[key] = [q EXCEPT !.last = records'[key].last]
          BY <5>q, <5>2
        <5> QED
          BY <4>3, <5>q, <5>3
      <4> QED
        BY <3>3, <4>1, <4>2, <4>3
    <3> QED
      BY <3>5, <3>6 DEF ScanInv
  <2> QED
    BY <1>4, <2>2, <2>3 DEF Read
<1>5. CASE Command
  <2>1. CASE Discover \/ \E strategy \in Strategies : MakePlan(strategy)
    BY <1>1, <2>1 DEF Discover, MakePlan
  <2>2. CASE Save \/ Abort
    BY <1>2, <2>2 DEF Save, Abort, Close, NoRecords
  <2> QED
    BY <1>3, <1>4, <1>5, <2>1, <2>2 DEF Command
<1>6. CASE Tick \/ User \/ UNCHANGED vars
  BY <1>1, <1>6 DEF Tick, User, Use, Move, vars
<1>7. ASSUME NEW item, Delete(item) PROVE ScanInv'
  BY <1>1, <1>7 DEF Delete
<1> QED
  BY <1>5, <1>6, <1>7 DEF Next

LEMMA ScanHolds == Spec => [](TypeInv /\ ScanInv)
<1>1. Init => ScanInv
  BY DEF Init, NoRecords, ScanInv, RecordsAreLatest, Origin
<1> QED
  BY <1>1, InitType, NextType, ScanStep, PTL DEF Spec

\* Whatever the order of the lines, a record says when its key was last used.
THEOREM LatestRecords == Spec => []RecordsAreLatest
<1>1. ScanInv => RecordsAreLatest
  BY DEF ScanInv
<1> QED
  BY <1>1, ScanHolds, PTL

================================================================================
