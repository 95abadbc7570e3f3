--------------------------- MODULE PlanOutcomeProofs ---------------------------
(* Theorems about what the planner decides and what a deletion destroys, for every *)
(* Vault where accessors and paths tell every secret from every other (Orderly).   *)
EXTENDS PlanPipelineProofs

-------------------------------------------------------------------------------
(* What a line becomes. *)

\* The segments of two paths put together.
LEMMA Joined ==
  ASSUME NEW p \in Path, NEW q \in Path
  PROVE  /\ Len(p) \in Nat /\ Len(q) \in Nat /\ p \o q \in Path
         /\ Len(p \o q) = Len(p) + Len(q)
         /\ \A i \in 1..Len(p) : (p \o q)[i] = p[i]
         /\ \A i \in 1..Len(q) : (p \o q)[Len(p) + i] = q[i]
<1>1. Len(p) \in Nat /\ Len(q) \in Nat
  BY LenProperties DEF Path
<1>2. /\ p \o q \in Path /\ Len(p \o q) = Len(p) + Len(q)
      /\ \A i \in 1..(Len(p) + Len(q)) :
           (p \o q)[i] = IF i <= Len(p) THEN p[i] ELSE q[i - Len(p)]
  BY ConcatProperties DEF Path
<1>3. ASSUME NEW i \in 1..Len(p) PROVE (p \o q)[i] = p[i]
  <2>1. i \in 1..(Len(p) + Len(q)) /\ i <= Len(p)
    BY <1>1
  <2> QED
    BY <1>2, <2>1
<1>4. ASSUME NEW i \in 1..Len(q) PROVE (p \o q)[Len(p) + i] = q[i]
  <2>1. /\ Len(p) + i \in 1..(Len(p) + Len(q)) /\ ~(Len(p) + i <= Len(p))
        /\ (Len(p) + i) - Len(p) = i
    BY <1>1
  <2> QED
    BY <1>2, <2>1
<1> QED
  BY <1>1, <1>2, <1>3, <1>4

LEMMA DataSegment == /\ <<"data">> \in Path /\ Len(<<"data">>) = 1 /\ <<"data">>[1] = "data"
                     /\ <<>> \in Path /\ Len(<<>>) = 0
<1>1. \A S : \A x \in S : <<x>> \in Seq(S)
  OBVIOUS
<1>2. "data" \in STRING
  BY StringAssumption
<1>3. <<"data">> \in Seq(STRING)
  BY <1>1, <1>2, Zenon
<1>4. Len(<<"data">>) = 1 /\ <<"data">>[1] = "data"
  OBVIOUS
<1> QED
  BY <1>3, <1>4, EmptySeq DEF Path

\* The path of a request is the mount, the API segment of version 2, and the secret.
LEMMA ApiPathShape ==
  ASSUME NEW a \in Accessor, NEW mount \in Path, NEW secret \in Path,
         NEW d \in {0, 1}, d = 1 <=> Version[a] = 2
  PROVE  /\ ApiPath(a, mount, secret) \in Path
         /\ Len(ApiPath(a, mount, secret)) = Len(mount) + d + Len(secret)
         /\ \A i \in 1..Len(mount) : ApiPath(a, mount, secret)[i] = mount[i]
         /\ d = 1 => ApiPath(a, mount, secret)[Len(mount) + 1] = "data"
         /\ \A i \in 1..Len(secret) : ApiPath(a, mount, secret)[Len(mount) + d + i] = secret[i]
<1> DEFINE mid == IF Version[a] = 2 THEN <<"data">> ELSE <<>>
           head == mount \o mid
           p == ApiPath(a, mount, secret)
<1>1. mid \in Path /\ Len(mid) = d /\ (d = 1 => mid[1] = "data")
  <2>1. CASE d = 1
    <3>1. mid = <<"data">>
      BY <2>1
    <3> HIDE DEF mid
    <3> QED
      BY <2>1, <3>1, DataSegment
  <2>2. CASE d = 0
    <3>1. mid = <<>>
      BY <2>2
    <3> HIDE DEF mid
    <3> QED
      BY <2>2, <3>1, DataSegment
  <2> QED
    BY <2>1, <2>2
<1>2. p = head \o secret
  BY DEF ApiPath
<1> HIDE DEF mid, p
<1>3. /\ head \in Path /\ Len(mount) \in Nat /\ Len(head) = Len(mount) + d
      /\ \A i \in 1..Len(mount) : head[i] = mount[i]
      /\ \A i \in 1..d : head[Len(mount) + i] = mid[i]
  BY <1>1, Joined
<1> HIDE DEF head
<1>4. /\ p \in Path /\ Len(secret) \in Nat /\ Len(p) = Len(head) + Len(secret)
      /\ \A i \in 1..Len(head) : p[i] = head[i]
      /\ \A i \in 1..Len(secret) : p[Len(head) + i] = secret[i]
  <2>1. /\ head \o secret \in Path /\ Len(secret) \in Nat
        /\ Len(head \o secret) = Len(head) + Len(secret)
        /\ \A i \in 1..Len(head) : (head \o secret)[i] = head[i]
        /\ \A i \in 1..Len(secret) : (head \o secret)[Len(head) + i] = secret[i]
    BY <1>3, Joined
  <2> QED
    BY <1>2, <2>1
<1>5. \A i \in 1..Len(mount) : p[i] = mount[i]
  <2>1. \A i \in 1..Len(mount) : i \in 1..Len(head)
    BY <1>3
  <2> QED
    BY <1>3, <1>4, <2>1
<1>6. d = 1 => p[Len(mount) + 1] = "data"
  <2> SUFFICES ASSUME d = 1 PROVE p[Len(mount) + 1] = "data"
    OBVIOUS
  <2>1. 1 \in 1..d /\ Len(mount) + 1 \in 1..Len(head)
    BY <1>3
  <2> QED
    BY <1>1, <1>3, <1>4, <2>1
<1> QED
  BY <1>3, <1>4, <1>5, <1>6 DEF p

\* Two paths are equal when they have one length and the same segments.
LEMMA SameSegments ==
  ASSUME NEW p \in Path, NEW q \in Path, Len(p) = Len(q), \A i \in 1..Len(q) : p[i] = q[i]
  PROVE  p = q
  BY SeqEqual DEF Path

\* A mount and a secret that the records tell from others.
Plain(a, mount, secret) ==
  /\ mount \in Path \ {<<>>} /\ secret \in Path \ {<<>>}
  /\ \A i \in DOMAIN mount : mount[i] \notin ApiSegment
  /\ Version[a] = 1 => Len(mount) = 1 /\ \A i \in DOMAIN secret : secret[i] \notin ApiSegment

LEMMA Lengths ==
  ASSUME NEW p \in Path \ {<<>>}
  PROVE  Len(p) \in Nat /\ Len(p) >= 1 /\ DOMAIN p = 1..Len(p)
  BY LenProperties, EmptySeq DEF Path

\* The analyzer finds them in the path of the request.
LEMMA ExtractRecovers ==
  ASSUME NEW a \in Accessor, NEW mount, NEW secret, Plain(a, mount, secret)
  PROVE  ExtractSecretPath(ApiPath(a, mount, secret)) = [mount |-> mount, secret |-> secret]
<1> DEFINE n == Len(mount)
           k == Len(secret)
           p == ApiPath(a, mount, secret)
<1>1. /\ mount \in Path /\ secret \in Path /\ n \in Nat /\ n >= 1 /\ k \in Nat /\ k >= 1
      /\ DOMAIN mount = 1..n /\ DOMAIN secret = 1..k
  BY Lengths DEF Plain
<1>v. Version[a] \in {1, 2}
  BY MountAssumption
<1>2. CASE Version[a] = 2
  <2>d. 1 \in {0, 1} /\ (1 = 1 <=> Version[a] = 2)
    BY <1>2
  <2>1. /\ p \in Path /\ Len(p) = n + 1 + k /\ p[n + 1] = "data"
        /\ \A i \in 1..n : p[i] = mount[i]
        /\ \A i \in 1..k : p[n + 1 + i] = secret[i]
    BY <1>1, <2>d, ApiPathShape
  <2> HIDE DEF p
  <2>2. KVv2APISegmentIndex(p) = n + 1
    <3>1. n + 1 \in DOMAIN p /\ p[n + 1] \in ApiSegment
      BY <1>1, <2>1, FirstSegment DEF ApiSegment
    <3>2. \A j \in 1..((n + 1) - 1) : p[j] \notin ApiSegment
      <4>1. (n + 1) - 1 = n
        BY <1>1
      <4>2. \A j \in 1..n : mount[j] \notin ApiSegment
        BY <1>1 DEF Plain
      <4> QED
        BY <2>1, <4>1, <4>2
    <3> QED
      BY <2>1, <3>1, <3>2, FirstSegment
  <2> HIDE DEF n, k
  <2>3. ExtractSecretPath(p) = [mount |-> SubSeq(p, 1, (n + 1) - 1), secret |-> After(p, n + 1)]
    <3>1. Len(p) >= 2 /\ n + 1 > 1 /\ n + 1 < Len(p) /\ ~(n + 1 = Len(p)) /\ ~(Len(p) < 2)
      BY <1>1, <2>1
    <3> QED
      BY <2>2, <3>1 DEF ExtractSecretPath
  <2>4. (n + 1) - 1 = n /\ n \in 0..Len(p) /\ n + 1 \in 0..Len(p) /\ Len(p) - (n + 1) = k
    BY <1>1, <2>1
  <2>5. SubSeq(p, 1, n) = mount
    <3>1. SubSeq(p, 1, n) \in Path /\ Len(SubSeq(p, 1, n)) = n /\ \A j \in 1..n : SubSeq(p, 1, n)[j] = p[j]
      BY <2>1, <2>4, SubPath
    <3> QED
      BY <1>1, <2>1, <3>1, SameSegments DEF n
  <2>6. After(p, n + 1) = secret
    <3>1. After(p, n + 1) \in Path /\ Len(After(p, n + 1)) = k /\ \A j \in 1..k : After(p, n + 1)[j] = p[n + 1 + j]
      BY <2>1, <2>4, SubPath
    <3> QED
      BY <1>1, <2>1, <3>1, SameSegments DEF k
  <2> QED
    BY <2>3, <2>4, <2>5, <2>6 DEF p
<1>3. CASE Version[a] = 1
  <2>d. 0 \in {0, 1} /\ (0 = 1 <=> Version[a] = 2) /\ Len(mount) = 1
    BY <1>3 DEF Plain
  <2>0. /\ p \in Path /\ Len(p) = n + 0 + k
        /\ \A i \in 1..n : p[i] = mount[i]
        /\ \A i \in 1..k : p[n + 0 + i] = secret[i]
    BY <1>1, <2>d, ApiPathShape
  <2>1. /\ p \in Path /\ Len(p) = n + k /\ n = 1
        /\ \A i \in 1..n : p[i] = mount[i]
        /\ \A i \in 1..k : p[n + i] = secret[i]
    BY <1>1, <2>d, <2>0
  <2> HIDE DEF p
  <2>2. KVv2APISegmentIndex(p) = 0
    <3>1. ASSUME NEW i \in DOMAIN p PROVE p[i] \notin ApiSegment
      <4>1. i \in 1..(n + k)
        BY <2>1, FirstSegment
      <4>2. CASE i = 1
        BY <1>1, <2>1, <4>2 DEF Plain
      <4>3. CASE i # 1
        <5>1. i - 1 \in 1..k /\ n + (i - 1) = i
          BY <1>1, <2>1, <4>1, <4>3
        <5>2. p[i] = secret[i - 1]
          BY <2>1, <5>1
        <5> QED
          BY <1>1, <1>3, <5>1, <5>2 DEF Plain
      <4> QED
        BY <4>2, <4>3
    <3> QED
      BY <2>1, <3>1, FirstSegment
  <2> HIDE DEF n, k
  <2>3. ExtractSecretPath(p) = [mount |-> SubSeq(p, 1, 1), secret |-> After(p, 1)]
    <3>1. ~(Len(p) < 2) /\ ~(0 > 1)
      BY <1>1, <2>1
    <3> QED
      BY <2>2, <3>1 DEF ExtractSecretPath
  <2>4. 1 \in 0..Len(p) /\ Len(p) - 1 = k
    BY <1>1, <2>1
  <2>5. SubSeq(p, 1, 1) = mount
    <3>1. SubSeq(p, 1, 1) \in Path /\ Len(SubSeq(p, 1, 1)) = 1 /\ \A j \in 1..1 : SubSeq(p, 1, 1)[j] = p[j]
      BY <2>1, <2>4, SubPath
    <3> QED
      BY <1>1, <2>1, <3>1, SameSegments DEF n
  <2>6. After(p, 1) = secret
    <3>1. After(p, 1) \in Path /\ Len(After(p, 1)) = k /\ \A j \in 1..k : After(p, 1)[j] = p[1 + j]
      BY <2>1, <2>4, SubPath
    <3> QED
      BY <1>1, <2>1, <3>1, SameSegments DEF k
  <2> QED
    BY <2>3, <2>5, <2>6 DEF p
<1> QED
  BY <1>v, <1>2, <1>3

\* So does the import, which is given the mount.
LEMMA NormalizeRecovers ==
  ASSUME NEW a \in Accessor, NEW mount, NEW secret, Plain(a, mount, secret)
  PROVE  NormalizeSecretPath(mount, ApiPath(a, mount, secret)) = secret
<1> DEFINE n == Len(mount)
           k == Len(secret)
           d == IF Version[a] = 2 THEN 1 ELSE 0
           p == ApiPath(a, mount, secret)
           rest == After(p, n)
<1>1. /\ mount \in Path /\ secret \in Path /\ n \in Nat /\ n >= 1 /\ k \in Nat /\ k >= 1
      /\ DOMAIN mount = 1..n /\ DOMAIN secret = 1..k
  BY Lengths DEF Plain
<1>v. Version[a] \in {1, 2}
  BY MountAssumption
<1>d. d \in {0, 1} /\ (d = 1 <=> Version[a] = 2)
  OBVIOUS
<1>2. /\ p \in Path /\ Len(p) = n + d + k /\ (d = 1 => p[n + 1] = "data")
      /\ \A i \in 1..n : p[i] = mount[i]
      /\ \A i \in 1..k : p[n + d + i] = secret[i]
  BY <1>1, <1>d, ApiPathShape
<1> HIDE DEF p, n, k, d
<1>3. n \in 0..Len(p) /\ Len(p) - n = d + k
  BY <1>1, <1>2, <1>d
<1>4. SubSeq(p, 1, n) = mount
  <2>1. SubSeq(p, 1, n) \in Path /\ Len(SubSeq(p, 1, n)) = n /\ \A j \in 1..n : SubSeq(p, 1, n)[j] = p[j]
    BY <1>2, <1>3, SubPath
  <2> QED
    BY <1>1, <1>2, <2>1, SameSegments DEF n
<1>5. NormalizeSecretPath(mount, p) = After(rest, KVv2APISegmentIndex(rest))
  <2>1. Len(p) > n
    BY <1>1, <1>2, <1>d
  <2> QED
    BY <1>4, <2>1 DEF NormalizeSecretPath, n
<1>6. /\ rest \in Path /\ Len(rest) = d + k /\ \A j \in 1..(d + k) : rest[j] = p[n + j]
  BY <1>2, <1>3, SubPath
<1> HIDE DEF rest
<1>7. CASE Version[a] = 2
  <2>1. d = 1
    BY <1>7 DEF d
  <2>2. rest[1] = "data" /\ 1 \in DOMAIN rest /\ \A j \in 1..k : rest[1 + j] = secret[j]
    <3>1. 1 \in 1..(d + k) /\ \A j \in 1..k : 1 + j \in 1..(d + k) /\ n + (1 + j) = n + d + j
      BY <1>1, <2>1
    <3>2. DOMAIN rest = 1..(d + k)
      BY <1>6, FirstSegment
    <3> QED
      BY <1>2, <1>6, <2>1, <3>1, <3>2
  <2>3. KVv2APISegmentIndex(rest) = 1
    <3>1. \A j \in 1..(1 - 1) : rest[j] \notin ApiSegment
      OBVIOUS
    <3> QED
      BY <1>6, <2>2, <3>1, FirstSegment DEF ApiSegment
  <2>4. 1 \in 0..Len(rest) /\ Len(rest) - 1 = k
    BY <1>1, <1>6, <2>1
  <2>5. After(rest, 1) \in Path /\ Len(After(rest, 1)) = k /\ \A j \in 1..k : After(rest, 1)[j] = rest[1 + j]
    BY <1>6, <2>4, SubPath
  <2>6. After(rest, 1) = secret
    BY <1>1, <2>2, <2>5, SameSegments DEF k
  <2> QED
    BY <1>5, <2>3, <2>6 DEF p
<1>8. CASE Version[a] = 1
  <2>1. d = 0
    BY <1>8 DEF d
  <2>2. \A j \in 1..k : rest[j] = secret[j]
    <3>1. \A j \in 1..k : j \in 1..(d + k) /\ n + j = n + d + j
      BY <1>1, <2>1
    <3> QED
      BY <1>2, <1>6, <3>1
  <2>3. Len(rest) = k
    BY <1>1, <1>6, <2>1
  <2>4. rest = secret
    BY <1>1, <1>6, <2>2, <2>3, SameSegments DEF k
  <2>5. KVv2APISegmentIndex(rest) = 0
    BY <1>1, <1>8, <2>4, FirstSegment DEF Plain
  <2>6. 0 \in 0..Len(secret) /\ Len(secret) - 0 = k
    BY <1>1 DEF k
  <2>7. After(secret, 0) \in Path /\ Len(After(secret, 0)) = k /\ \A j \in 1..k : After(secret, 0)[j] = secret[0 + j]
    BY <1>1, <2>6, SubPath
  <2>8. \A j \in 1..k : After(secret, 0)[j] = secret[j]
    BY <1>1, <2>7
  <2>9. After(secret, 0) = secret
    BY <1>1, <2>7, <2>8, SameSegments DEF k
  <2> QED
    BY <1>5, <2>4, <2>5, <2>9 DEF p
<1> QED
  BY <1>v, <1>7, <1>8

-------------------------------------------------------------------------------
(* Lines and records. *)

\* The record of a line that says what was meant.
Own(l) == [namespace |-> l.namespace, accessor |-> l.accessor, mount |-> l.mount,
           secret |-> l.secret, last |-> l.time]

\* Both sources make that record of a line that is an access, and the analyzer none of
\* another.
LEMMA Recovered ==
  ASSUME Orderly, LineInv, NEW l \in log, NEW source
  PROVE  RecordOf(source, l) = IF source = "audit" /\ ~Exported(l) THEN {} ELSE {Own(l)}
<1>1. /\ l.accessor \in Accessor /\ l.mount \in Path \ {<<>>} /\ l.secret \in Path \ {<<>>}
      /\ [namespace |-> l.namespace, mount |-> l.mount] \in Locations(l.accessor)
      /\ l.secret \in Holds[l.accessor]
      /\ l.path = ApiPath(l.accessor, l.mount, l.secret)
  BY DEF LineInv
<1>2. Plain(l.accessor, l.mount, l.secret)
  <2> DEFINE where == [namespace |-> l.namespace, mount |-> l.mount]
  <2>1. where \in Locations(l.accessor) /\ where.mount = l.mount
    BY <1>1
  <2>2. /\ \A i \in DOMAIN where.mount : where.mount[i] \notin ApiSegment
        /\ Version[l.accessor] = 1 =>
             /\ Len(where.mount) = 1
             /\ \A s \in Holds[l.accessor] : \A i \in DOMAIN s : s[i] \notin ApiSegment
    BY <1>1, <2>1 DEF Orderly
  <2> HIDE DEF where
  <2> QED
    BY <1>1, <2>1, <2>2 DEF Plain
<1>3. CASE source = "audit"
  <2>1. ExtractSecretPath(l.path) = [mount |-> l.mount, secret |-> l.secret]
    BY <1>1, <1>2, ExtractRecovers
  <2>2. ExtractSecretPath(l.path) # Nothing
    BY <1>1, <2>1 DEF Nothing
  <2>3. IsAccess(l.operation) <=> Exported(l)
    BY DEF IsAccess, Exported
  <2>4. Extract(l) = IF ~Exported(l) THEN {} ELSE {Own(l)}
    BY <2>1, <2>2, <2>3 DEF Extract, Own
  <2> QED
    BY <1>3, <2>4 DEF RecordOf
<1>4. CASE source # "audit"
  <2>1. NormalizeSecretPath(l.mount, l.path) = l.secret
    BY <1>1, <1>2, NormalizeRecovers
  <2>2. AccessorKnown
    BY DEF Orderly
  <2>3. Normalize(l, l.accessor) = {Own(l)}
    BY <1>1, <2>1 DEF Normalize, Own
  <2> QED
    BY <1>4, <2>2, <2>3 DEF RecordOf
<1> QED
  BY <1>3, <1>4

\* The lines of one mount agree on the namespace.
LEMMA OneNamespace ==
  ASSUME Orderly, LineInv, NEW l \in log, NEW m \in log, l.accessor = m.accessor
  PROVE  l.namespace = m.namespace
<1> DEFINE at1(x) == [namespace |-> x.namespace, mount |-> x.mount]
<1>1. l.accessor \in Accessor /\ at1(l) \in Locations(l.accessor) /\ at1(m) \in Locations(l.accessor)
  BY DEF LineInv
<1>2. at1(l).namespace = l.namespace /\ at1(m).namespace = m.namespace
  OBVIOUS
<1> HIDE DEF at1
<1>3. \A w \in Locations(l.accessor) : w.namespace = Home[l.accessor].namespace
  BY <1>1 DEF Locations, Orderly
<1> QED
  BY <1>1, <1>2, <1>3

-------------------------------------------------------------------------------
(* The files. *)

\* An external export holds accesses only.
TakenInv == reading = "external" => \A l \in taken : Exported(l)

\* Each record is that of an access in the lines, with the time of the last access to its
\* secret in them; and a file written whole has a record of every access.
FileInv ==
  /\ \A r \in access.records :
       /\ \E m \in access.lines : Exported(m) /\ r = [Own(m) EXCEPT !.last = r.last]
       /\ \A l \in access.lines :
            Exported(l) /\ l.accessor = r.accessor /\ l.secret = r.secret => l.time <= r.last
  /\ access.whole =>
       \A l \in access.lines : Exported(l) =>
         \E r \in access.records : r.accessor = l.accessor /\ r.secret = l.secret

\* An item of the inventory or of the plan is in a place its mount can have.
Placed(items) ==
  \A i \in items : /\ i.accessor \in Accessor
                   /\ [namespace |-> i.namespace, mount |-> i.mount] \in Locations(i.accessor)

PlanInv ==
  /\ Placed(DOMAIN plan.category)
  /\ StaleIsUnused /\ StaleIsSeen /\ UnknownIsUnseen

\* A deletion destroys in the mount that is where the planned one was.
DestroyedInv ==
  \A d \in destroyed :
    /\ d.accessor \in Accessor /\ at[d.accessor] = Place(d.item)
    /\ d.item \in DOMAIN plan.category /\ d.item.accessor \in Accessor
    /\ plan.category[d.item] \in {"stale", "unknown"}

\* There is one mount in a place.
Apart == \A a, b \in Accessor : at[a] = at[b] => a = b

OutcomeInv ==
  TakenInv /\ FileInv /\ Placed(inventory) /\ PlanInv /\ Apart /\ DestroyedInv

-------------------------------------------------------------------------------
(* What a command does to the files. *)

\* What is saved is what the lines say.
LEMMA SaveFile ==
  ASSUME Orderly, TypeInv, ScanInv, TakenInv, Save
  PROVE  FileInv'
<1> TypeOK /\ LineInv /\ RecordsAreLatest /\ Origin
  BY DEF TypeInv, ScanInv
<1> DEFINE file == [made |-> TRUE, records |-> GetRecords(records), lines |-> taken,
                    whole |-> TRUE]
<1>1. unread = {} /\ taken \ unread = taken /\ taken \subseteq log /\ reading # "none"
  BY DEF Save, TypeOK
<1>r. reading \in {"audit", "external"}
  BY <1>1, PolicyAssumption DEF TypeOK
\* Of the lines that were read, the accesses have the record that says what was meant.
<1>2. ASSUME NEW l \in taken, NEW r \in RecordOf(reading, l)
      PROVE  Exported(l) /\ r = Own(l)
  <2>1. RecordOf(reading, l) = IF reading = "audit" /\ ~Exported(l) THEN {} ELSE {Own(l)}
    BY <1>1, Recovered
  <2>2. CASE reading = "audit"
    BY <2>1, <2>2
  <2>3. CASE reading = "external"
    BY <2>1, <2>3 DEF TakenInv
  <2> QED
    BY <1>r, <2>2, <2>3
<1>3. ASSUME NEW l \in taken, Exported(l) PROVE Own(l) \in RecordOf(reading, l)
  <2>1. RecordOf(reading, l) = IF reading = "audit" /\ ~Exported(l) THEN {} ELSE {Own(l)}
    BY <1>1, Recovered
  <2> QED
    BY <1>3, <2>1
<1>4. ASSUME NEW r \in GetRecords(records)
      PROVE  /\ \E m \in taken : Exported(m) /\ r = [Own(m) EXCEPT !.last = r.last]
             /\ \A l \in taken : Exported(l) /\ l.accessor = r.accessor /\ l.secret = r.secret
                                   => l.time <= r.last
  <2>1. PICK k \in DOMAIN records : r = records[k]
    BY DEF GetRecords
  <2>2. PICK m \in taken : \E q \in RecordOf(reading, m) :
          k = KeyOf(reading, q) /\ records[k] = [q EXCEPT !.last = records[k].last]
    BY <1>1, <2>1 DEF Origin
  <2>3. Exported(m) /\ k = KeyOf(reading, Own(m)) /\ r = [Own(m) EXCEPT !.last = r.last]
    BY <1>2, <2>1, <2>2
  <2>4. r.accessor = m.accessor /\ r.secret = m.secret
    BY <2>3 DEF Own
  <2>5. ASSUME NEW l \in taken, Exported(l), l.accessor = r.accessor, l.secret = r.secret
        PROVE  l.time <= r.last
    <3>1. l.namespace = m.namespace
      BY <1>1, <2>4, <2>5, OneNamespace
    <3>2. KeyOf(reading, Own(l)) = k
      BY <2>3, <2>4, <2>5, <3>1 DEF KeyOf, AuditKey, ImportKey, Own
    <3>3. Own(l).last <= records[KeyOf(reading, Own(l))].last
      BY <1>1, <1>3, <2>5 DEF RecordsAreLatest
    <3> QED
      BY <2>1, <3>2, <3>3 DEF Own
  <2> QED
    BY <2>3, <2>5
<1>5. ASSUME NEW l \in taken, Exported(l)
      PROVE  \E r \in GetRecords(records) : r.accessor = l.accessor /\ r.secret = l.secret
  <2> DEFINE k == KeyOf(reading, Own(l))
  <2>1. k \in DOMAIN records
    BY <1>1, <1>3, <1>5 DEF RecordsAreLatest
  <2> HIDE DEF k
  <2>2. PICK m \in taken : \E q \in RecordOf(reading, m) :
          k = KeyOf(reading, q) /\ records[k] = [q EXCEPT !.last = records[k].last]
    BY <1>1, <2>1 DEF Origin
  <2>3. k = KeyOf(reading, Own(m)) /\ records[k] = [Own(m) EXCEPT !.last = records[k].last]
    BY <1>2, <2>2
  <2>4. Own(m).accessor = Own(l).accessor /\ Own(m).secret = Own(l).secret
    BY <1>r, <2>3 DEF k, KeyOf, AuditKey, ImportKey
  <2>5. records[k].accessor = l.accessor /\ records[k].secret = l.secret
    BY <2>3, <2>4 DEF Own
  <2> QED
    BY <2>1, <2>5 DEF GetRecords
<1>6. \/ access' = file
      \/ access' = NoAccess
      \/ \E some \in SUBSET file.records :
           access' = [file EXCEPT !.records = some, !.whole = (some = file.records)]
  BY DEF Save, Truncated
<1>7. file.records = GetRecords(records) /\ file.lines = taken
  OBVIOUS
<1>8. CASE access' = NoAccess
  BY <1>8 DEF FileInv, NoAccess
<1>9. ASSUME access'.lines = taken, access'.records \subseteq GetRecords(records),
             access'.whole => access'.records = GetRecords(records)
      PROVE  FileInv'
  BY <1>4, <1>5, <1>9 DEF FileInv
<1>10. CASE access' = file
  <2>1. access'.lines = taken /\ access'.records = GetRecords(records)
    BY <1>10
  <2> HIDE DEF file
  <2> QED
    BY <1>9, <2>1
<1>11. CASE \E some \in SUBSET file.records :
              access' = [file EXCEPT !.records = some, !.whole = (some = file.records)]
  <2>1. PICK some \in SUBSET file.records :
          access' = [file EXCEPT !.records = some, !.whole = (some = file.records)]
    BY <1>11
  <2>2. access'.lines = taken /\ access'.records = some
    BY <2>1
  <2>3. access'.whole = (some = file.records)
    BY <2>1
  <2> HIDE DEF file
  <2> QED
    BY <1>7, <1>9, <2>2, <2>3
<1> HIDE DEF file
<1> QED
  BY <1>6, <1>8, <1>10, <1>11

\* A record that the correlation engine gives to an item is of its secret, and all the
\* accesses to that secret came no later.
LEMMA MatchIsOwn ==
  ASSUME TypeInv, FileInv,
         NEW strategy, NEW item \in inventory, NEW r \in Matches(strategy, item),
         strategy = "path-based" =>
           \A a \in Accessor \ {item.accessor} : Place(item) \notin Locations(a)
  PROVE  /\ \E m \in access.lines : Exported(m) /\ m.accessor = item.accessor /\ m.secret = item.secret
         /\ \A l \in access.lines :
              Exported(l) /\ l.accessor = item.accessor /\ l.secret = item.secret => l.time <= r.last
<1> TypeOK /\ LineInv
  BY DEF TypeInv
<1>1. r \in access.records /\ Match(strategy, item, r)
  BY DEF Matches
<1>2. PICK m \in access.lines : Exported(m) /\ r = [Own(m) EXCEPT !.last = r.last]
  BY <1>1 DEF FileInv
<1>3. /\ r.accessor = m.accessor /\ r.secret = m.secret
      /\ r.namespace = m.namespace /\ r.mount = m.mount
  BY <1>2 DEF Own
<1>4. item.secret = r.secret
  BY <1>1 DEF Match
<1>5. m.accessor = item.accessor
  <2>1. CASE strategy = "path-based"
    <3>1. m \in log
      BY DEF TypeOK
    <3>2. /\ m.accessor \in Accessor
          /\ [namespace |-> m.namespace, mount |-> m.mount] \in Locations(m.accessor)
      BY <3>1 DEF LineInv
    <3>3. item.namespace = m.namespace /\ item.mount = m.mount
      BY <1>1, <1>3, <2>1 DEF Match
    <3>4. Place(item) \in Locations(m.accessor)
      BY <3>2, <3>3 DEF Place
    <3> QED
      BY <2>1, <3>2, <3>4
  <2>2. CASE strategy # "path-based"
    BY <1>1, <1>3, <2>2 DEF Match
  <2> QED
    BY <2>1, <2>2
<1> QED
  BY <1>1, <1>2, <1>3, <1>4, <1>5 DEF FileInv

LEMMA ThresholdType ==
  ASSUME NEW ns, NEW t \in ThresholdForNamespace(ns)
  PROVE  t \in Nat
  BY PolicyAssumption DEF ThresholdForNamespace

\* Why the planner gives a category.
LEMMA OutcomeReason ==
  ASSUME NEW strategy, NEW item
  PROVE  /\ "stale" \in Outcomes(strategy, item) =>
              \E r \in Matches(strategy, item) : \E t \in ThresholdForNamespace(item.namespace) :
                clock - r.last > t
         /\ "unknown" \in Outcomes(strategy, item) => Matches(strategy, item) = {}
  BY DEF Outcomes, Calculate

LEMMA PlanMade ==
  ASSUME Orderly, TypeInv, FileInv, Placed(inventory), NEW strategy, MakePlan(strategy)
  PROVE  PlanInv'
<1> TypeOK /\ LineInv
  BY DEF TypeInv
<1>1. PICK category \in [inventory -> UNION {Outcomes(strategy, i) : i \in inventory}] :
        /\ \A item \in inventory : category[item] \in Outcomes(strategy, item)
        /\ plan' = [number |-> plan.number + 1, time |-> clock, strategy |-> strategy,
                    lines |-> access.lines, whole |-> access.whole, category |-> category]
  BY DEF MakePlan
<1>2. /\ plan'.time = clock /\ plan'.strategy = strategy /\ plan'.lines = access.lines
      /\ plan'.whole = access.whole /\ plan'.category = category
      /\ DOMAIN plan'.category = inventory
  BY <1>1
<1>3. \A c : Planned(c)' = {i \in inventory : category[i] = c}
  BY <1>2 DEF Planned
<1>4. \A i : Uses(i)' = {l \in access.lines : /\ l.accessor = i.accessor /\ l.secret = i.secret
                                             /\ Exported(l)}
  BY <1>2 DEF Uses
<1>5. \A l \in access.lines : l.time \in Int
  <2>1. \A l \in access.lines : l.time \in 0..clock
    BY DEF TypeOK, LineInv
  <2> QED
    BY <2>1
<1>6. \A r \in access.records : r.last \in Int
  <2>1. \A r \in access.records : r.last \in 0..clock
    BY DEF TypeOK, RecordType
  <2> QED
    BY <2>1
<1>c. clock \in Int
  BY PolicyAssumption DEF TypeOK
<1>7. Placed(DOMAIN plan.category)'
  BY <1>2 DEF Placed
<1>8. ASSUME NEW item \in inventory, category[item] = "stale", Unshared(item)'
      PROVE  /\ Uses(item)' # {}
             /\ UnusedBeforePlan(item)'
  <2>1. PICK r \in Matches(strategy, item) : \E t \in ThresholdForNamespace(item.namespace) :
          clock - r.last > t
    BY <1>1, <1>8, OutcomeReason
  <2>2. PICK t \in ThresholdForNamespace(item.namespace) : clock - r.last > t
    BY <2>1
  <2>3. /\ \E m \in access.lines : Exported(m) /\ m.accessor = item.accessor /\ m.secret = item.secret
        /\ \A l \in access.lines :
             Exported(l) /\ l.accessor = item.accessor /\ l.secret = item.secret => l.time <= r.last
    <3>1. strategy = "path-based" =>
            \A a \in Accessor \ {item.accessor} : Place(item) \notin Locations(a)
      BY <1>2, <1>8 DEF Unshared
    <3> QED
      BY <3>1, MatchIsOwn
  <2>4. Uses(item)' # {}
    BY <1>4, <2>3
  <2>5. t \in Int /\ r.last \in Int
    <3>1. r \in access.records
      BY DEF Matches
    <3> QED
      BY <1>6, <3>1, ThresholdType
  <2>6. ASSUME NEW l \in Uses(item)' PROVE plan'.time - l.time > t
    <3>1. l \in access.lines /\ l.time <= r.last
      BY <1>4, <2>3
    <3>2. l.time \in Int
      BY <1>5, <3>1
    <3> QED
      BY <1>2, <1>c, <2>2, <2>5, <3>1, <3>2
  <2> QED
    BY <2>2, <2>4, <2>6 DEF UnusedBeforePlan
<1>9. StaleIsUnused' /\ StaleIsSeen'
  BY <1>3, <1>8 DEF StaleIsUnused, StaleIsSeen
<1>10. ASSUME access.whole, NEW item \in inventory, category[item] = "unknown", Traceable(item)',
              NEW l \in Uses(item)'
       PROVE  FALSE
  <2>1. Matches(strategy, item) = {}
    BY <1>1, <1>10, OutcomeReason
  <2>2. l \in access.lines /\ l.accessor = item.accessor /\ l.secret = item.secret /\ Exported(l)
    BY <1>4
  <2>3. PICK r \in access.records : r.accessor = l.accessor /\ r.secret = l.secret
    BY <1>10, <2>2 DEF FileInv
  <2>4. ~Match(strategy, item, r)
    BY <2>1 DEF Matches
  <2>5. strategy = "path-based" /\ ~(item.namespace = r.namespace /\ item.mount = r.mount)
    BY <2>2, <2>3, <2>4 DEF Match
  <2>6. Moves[item.accessor] = {}
    BY <1>2, <1>10, <2>5 DEF Traceable
  <2>7. PICK m \in access.lines : r = [Own(m) EXCEPT !.last = r.last]
    BY DEF FileInv
  <2>8. r.accessor = m.accessor /\ r.namespace = m.namespace /\ r.mount = m.mount
    BY <2>7 DEF Own
  <2>9. [namespace |-> m.namespace, mount |-> m.mount] = Home[item.accessor]
    <3>1. m \in log
      BY DEF TypeOK
    <3>2. m.accessor = item.accessor
      BY <2>2, <2>3, <2>8
    <3>3. [namespace |-> m.namespace, mount |-> m.mount] \in Locations(m.accessor)
      BY <3>1 DEF LineInv
    <3> QED
      BY <2>6, <3>2, <3>3 DEF Locations
  <2>10. [namespace |-> item.namespace, mount |-> item.mount] = Home[item.accessor]
    BY <2>6 DEF Placed, Locations
  <2>11. m.namespace = item.namespace /\ m.mount = item.mount
    BY <2>9, <2>10
  <2> QED
    BY <2>5, <2>8, <2>11
<1>11. UnknownIsUnseen'
  BY <1>2, <1>3, <1>10 DEF UnknownIsUnseen
<1> QED
  BY <1>7, <1>9, <1>11 DEF PlanInv

\* The inventory says where the mounts are.
LEMMA Discovered ==
  ASSUME TypeInv, Discover
  PROVE  Placed(inventory)'
<1> TypeOK /\ \A a \in Accessor : at[a] \in Locations(a)
  BY DEF TypeInv
<1>1. ASSUME NEW i \in inventory'
      PROVE  /\ i.accessor \in Accessor
             /\ [namespace |-> i.namespace, mount |-> i.mount] \in Locations(i.accessor)
  <2>1. PICK a \in Accessor : \E s \in Holds[a] : i = Item(a, s)
    BY DEF Discover
  <2>2. i.accessor = a /\ i.namespace = at[a].namespace /\ i.mount = at[a].mount
    BY <2>1 DEF Item
  <2>3. at[a] = [namespace |-> at[a].namespace, mount |-> at[a].mount]
    BY DEF TypeOK, Location
  <2> QED
    BY <2>2, <2>3
<1> QED
  BY <1>1 DEF Placed

LEMMA OutcomeStep ==
  ASSUME Orderly, TypeInv, ScanInv, OutcomeInv, [Next]_vars
  PROVE  OutcomeInv'
<1> TakenInv /\ FileInv /\ Placed(inventory) /\ PlanInv /\ Apart /\ DestroyedInv
  BY DEF OutcomeInv
<1> USE DEF world, scan
<1>1. ASSUME UNCHANGED access PROVE FileInv'
  BY <1>1 DEF FileInv
<1>2. ASSUME UNCHANGED inventory PROVE Placed(inventory)'
  BY <1>2 DEF Placed
<1>3. ASSUME UNCHANGED plan PROVE PlanInv'
  BY <1>3 DEF PlanInv, Placed, StaleIsUnused, StaleIsSeen, UnknownIsUnseen, Planned, Uses,
               UnusedBeforePlan, Traceable, Unshared
<1>4. ASSUME UNCHANGED scan PROVE TakenInv'
  BY <1>4 DEF TakenInv
<1>5. ASSUME destroyed' = {} PROVE DestroyedInv'
  BY <1>5 DEF DestroyedInv
<1>a. ASSUME UNCHANGED at PROVE Apart'
  BY <1>a DEF Apart
<1>6. CASE Command /\ destroyed' = {}
  <2>a. Apart'
    <3>1. UNCHANGED at
      BY <1>6 DEF Command, Discover, Open, Read, Save, Abort, MakePlan
    <3> QED
      BY <1>a, <3>1
  <2>1. CASE Discover
    BY <1>1, <1>3, <1>4, <1>5, <1>6, <2>a, <2>1, Discovered DEF Discover, OutcomeInv
  <2>2. CASE Save
    <3>1. FileInv'
      BY <2>2, SaveFile
    <3>2. TakenInv' /\ UNCHANGED <<inventory, plan>>
      BY <2>2 DEF Save, Close, TakenInv
    <3> QED
      BY <1>2, <1>3, <1>5, <1>6, <2>a, <3>1, <3>2 DEF OutcomeInv
  <2>3. CASE Abort
    <3>1. TakenInv' /\ UNCHANGED <<access, inventory, plan>>
      BY <2>3 DEF Abort, Close, TakenInv
    <3> QED
      BY <1>1, <1>2, <1>3, <1>5, <1>6, <2>a, <3>1 DEF OutcomeInv
  <2>4. ASSUME NEW source, NEW lines, Open(source, lines) PROVE OutcomeInv'
    <3>1. TakenInv' /\ UNCHANGED <<access, inventory, plan>>
      BY <2>4 DEF Open, TakenInv, Exported
    <3> QED
      BY <1>1, <1>2, <1>3, <1>5, <1>6, <2>a, <3>1 DEF OutcomeInv
  <2>5. ASSUME NEW line, Read(line) PROVE OutcomeInv'
    <3>1. TakenInv' /\ UNCHANGED <<access, inventory, plan>>
      BY <2>5 DEF Read, TakenInv
    <3> QED
      BY <1>1, <1>2, <1>3, <1>5, <1>6, <2>a, <3>1 DEF OutcomeInv
  <2>6. ASSUME NEW strategy, MakePlan(strategy) PROVE OutcomeInv'
    <3>1. PlanInv'
      BY <2>6, PlanMade
    <3>2. UNCHANGED <<scan, access, inventory>>
      BY <2>6 DEF MakePlan
    <3> QED
      BY <1>1, <1>2, <1>4, <1>5, <1>6, <2>a, <3>1, <3>2 DEF OutcomeInv
  <2> QED
    BY <1>6, <2>1, <2>2, <2>3, <2>4, <2>5, <2>6 DEF Command
<1>7. CASE (Tick \/ User) /\ destroyed' = {}
  <2>1. UNCHANGED <<scan, access, inventory, plan>>
    BY <1>7 DEF Tick, User, Use, Move
  <2>2. Apart'
    <3>1. CASE UNCHANGED at
      BY <1>a, <3>1
    <3>2. ASSUME NEW a \in Accessor, NEW location, Move(a, location) PROVE Apart'
      <4>1. /\ at' = [at EXCEPT ![a] = location] /\ \A b \in Accessor : at[b] # location
            /\ DOMAIN at = Accessor
        BY <3>2 DEF Move, TypeInv, TypeOK
      <4> QED
        BY <4>1 DEF Apart
    <3> QED
      BY <1>7, <3>1, <3>2 DEF Tick, User, Use
  <2> QED
    BY <1>1, <1>2, <1>3, <1>4, <1>5, <1>7, <2>1, <2>2 DEF OutcomeInv
<1>8. ASSUME NEW item \in DOMAIN plan.category, Delete(item) PROVE OutcomeInv'
  <2>1. PICK a \in Located(item) : destroyed' = {[accessor |-> a, item |-> item]}
    BY <1>8 DEF Delete
  <2>2. /\ UNCHANGED <<at, scan, access, inventory, plan>>
        /\ plan.category[item] \in {"stale", "unknown"}
    BY <1>8 DEF Delete
  <2>3. a \in Accessor /\ at[a] = Place(item) /\ item.accessor \in Accessor
    BY DEF Located, Place, PlanInv, Placed
  <2>4. \A d \in destroyed' : d.accessor = a /\ d.item = item
    BY <2>1
  <2>5. DestroyedInv'
    BY <2>2, <2>3, <2>4 DEF DestroyedInv
  <2> QED
    BY <1>1, <1>2, <1>3, <1>4, <1>a, <2>2, <2>5 DEF OutcomeInv
<1>9. CASE UNCHANGED vars
  <2>1. UNCHANGED <<at, scan, access, inventory, plan, destroyed>>
    BY <1>9 DEF vars
  <2>2. DestroyedInv'
    BY <2>1 DEF DestroyedInv
  <2> QED
    BY <1>1, <1>2, <1>3, <1>4, <1>a, <2>1, <2>2 DEF OutcomeInv
<1> QED
  BY <1>6, <1>7, <1>8, <1>9 DEF Next

LEMMA OutcomeInit == Init => OutcomeInv
<1> SUFFICES ASSUME Init PROVE OutcomeInv
  OBVIOUS
<1>1. /\ taken = {} /\ access.records = {} /\ access.lines = {} /\ inventory = {}
      /\ DOMAIN plan.category = {} /\ destroyed = {}
  BY DEF Init, NoAccess, NoPlan, NoRecords
<1>2. PlanInv
  BY <1>1 DEF PlanInv, Placed, StaleIsUnused, StaleIsSeen, UnknownIsUnseen, Planned
<1>3. Apart
  BY MountAssumption DEF Init, Apart
<1> QED
  BY <1>1, <1>2, <1>3 DEF OutcomeInv, TakenInv, FileInv, Placed, DestroyedInv

LEMMA OutcomeHolds == ASSUME Orderly PROVE Spec => []OutcomeInv
<1>1. TypeInv /\ ScanInv /\ OutcomeInv /\ [Next]_vars => OutcomeInv'
  BY OutcomeStep
<1> QED
  BY <1>1, OutcomeInit, ScanHolds, PTL DEF Spec

-------------------------------------------------------------------------------
(* What a plan says and what a deletion destroys. *)

\* A secret in use within the period of its namespace is not called stale, by path-based
\* matching only if no other mount can come to its place.
THEOREM StaleUnused == ASSUME Orderly PROVE Spec => []StaleIsUnused
<1>1. OutcomeInv => StaleIsUnused
  BY DEF OutcomeInv, PlanInv
<1> QED
  BY <1>1, OutcomeHolds, PTL

\* A secret that is called stale was seen in use, with the same restriction.
THEOREM StaleSeen == ASSUME Orderly PROVE Spec => []StaleIsSeen
<1>1. OutcomeInv => StaleIsSeen
  BY DEF OutcomeInv, PlanInv
<1> QED
  BY <1>1, OutcomeHolds, PTL

\* A secret that the lines show in use is not called unknown.
THEOREM UnknownUnseen == ASSUME Orderly PROVE Spec => []UnknownIsUnseen
<1>1. OutcomeInv => UnknownIsUnseen
  BY DEF OutcomeInv, PlanInv
<1> QED
  BY <1>1, OutcomeHolds, PTL

\* A deletion destroys a secret that the lines do not show in use, or it comes after the
\* planned mount has left its place to another.
THEOREM DeletesAsPlanned == ASSUME Orderly PROVE Spec => []DestroyedAsPlanned
<1>1. OutcomeInv => DestroyedAsPlanned
  <2> SUFFICES ASSUME OutcomeInv, NEW d \in destroyed
               PROVE  IF d.accessor = d.item.accessor
                      THEN /\ plan.category[d.item] = "stale" /\ Unshared(d.item) => UnusedBeforePlan(d.item)
                           /\ plan.category[d.item] = "unknown" /\ plan.whole /\ Traceable(d.item) =>
                                UnusedBeforePlan(d.item)
                      ELSE at[d.item.accessor] # Place(d.item)
    BY DEF DestroyedAsPlanned
  <2>1. /\ d.item \in DOMAIN plan.category
        /\ d.accessor \in Accessor /\ at[d.accessor] = Place(d.item) /\ d.item.accessor \in Accessor
    BY DEF OutcomeInv, DestroyedInv
  <2>2. ASSUME d.accessor # d.item.accessor PROVE at[d.item.accessor] # Place(d.item)
    BY <2>1, <2>2 DEF OutcomeInv, Apart
  <2>3. ASSUME plan.category[d.item] = "stale", Unshared(d.item) PROVE UnusedBeforePlan(d.item)
    BY <2>1, <2>3 DEF OutcomeInv, PlanInv, StaleIsUnused, Planned
  <2>4. ASSUME plan.category[d.item] = "unknown", plan.whole, Traceable(d.item)
        PROVE  UnusedBeforePlan(d.item)
    <3>1. Uses(d.item) = {}
      BY <2>1, <2>4 DEF OutcomeInv, PlanInv, UnknownIsUnseen, Planned
    <3> QED
      BY <3>1 DEF UnusedBeforePlan
  <2> QED
    BY <2>2, <2>3, <2>4
<1> QED
  BY <1>1, OutcomeHolds, PTL

================================================================================
