---------------------------- MODULE AccessRecords ----------------------------
(***************************************************************************)
(* How one line of an audit log, or one imported record, becomes an access *)
(* record, and how records are merged (internal/audit, internal/cli/       *)
(* import.go).  A path is the sequence of its segments; a time is a number *)
(* and the access type and the count, which nothing reads but the report,  *)
(* are left out.                                                           *)
(***************************************************************************)
EXTENDS Integers, Sequences

Nothing == [mount |-> <<>>, secret |-> <<>>]  \* no record comes of the line

ApiSegment == {"data", "metadata", "subkeys"}

\* The position of the first API segment of KV version 2, 0 if there is none.
KVv2APISegmentIndex(parts) ==
  LET hits == {i \in DOMAIN parts : parts[i] \in ApiSegment}
  IN  IF hits = {} THEN 0 ELSE CHOOSE i \in hits : \A j \in hits : i <= j

After(parts, i) == SubSeq(parts, i + 1, Len(parts))

\* Mutant: the mount loses its last segment with the API segment.
ExtractShortMount(parts) ==
  LET api == KVv2APISegmentIndex(parts)
  IN  CASE Len(parts) < 2 \/ (api > 1 /\ api = Len(parts)) -> Nothing
        [] Len(parts) >= 2 /\ api > 1 /\ api < Len(parts) ->
             [mount |-> SubSeq(parts, 1, api - 2), secret |-> After(parts, api)]
        [] OTHER -> [mount |-> SubSeq(parts, 1, 1), secret |-> After(parts, 1)]

\* The audit log does not say where the mount path ends: it is what precedes an API
\* segment, and the first segment when there is none.
ExtractSecretPath(parts) ==
  LET api == KVv2APISegmentIndex(parts)
  IN  CASE Len(parts) < 2 \/ (api > 1 /\ api = Len(parts)) -> Nothing
        [] Len(parts) >= 2 /\ api > 1 /\ api < Len(parts) ->
             [mount |-> SubSeq(parts, 1, api - 1), secret |-> After(parts, api)]
        [] OTHER -> [mount |-> SubSeq(parts, 1, 1), secret |-> After(parts, 1)]

\* An imported record names its mount; its secret path may repeat it and may keep the
\* API segment.
NormalizeSecretPath(mount, path) ==
  LET repeats == Len(path) > Len(mount) /\ SubSeq(path, 1, Len(mount)) = mount
      rest == IF repeats THEN After(path, Len(mount)) ELSE path
  IN  After(rest, KVv2APISegmentIndex(rest))

\* Mutant: writes are not accesses.
AccessTypesReadOnly(operation) == operation = "read"

\* determineAccessType knows the operation.
IsAccess(operation) == operation \in {"read", "create", "update", "delete"}

\* Extract: the record of a line, or none.  line.path is the path of the request.
Extract(line) ==
  LET found == ExtractSecretPath(line.path)
  IN  IF found = Nothing \/ ~IsAccess(line.operation) THEN {}
      ELSE {[namespace |-> line.namespace, accessor |-> line.accessor,
             mount |-> found.mount, secret |-> found.secret, last |-> line.time]}

\* normalizeImportedRecord, for an exporter that knows the mount of each access, and
\* its accessor or the empty one.  The mount_path of an exporter begins with the namespace,
\* which normalizeMountPath takes off again; here it does neither.  A record without a
\* secret path fails the import.
Normalize(line, accessor) ==
  LET secret == NormalizeSecretPath(line.mount, line.path)
  IN  IF secret = <<>> THEN {}
      ELSE {[namespace |-> line.namespace, accessor |-> accessor,
             mount |-> line.mount, secret |-> secret, last |-> line.time]}

\* makeKey of the aggregator, and the key of aggregateImportedRecords.
AuditKey(r) == <<r.namespace, r.accessor, r.secret>>
ImportKey(r) == <<r.accessor, r.secret>>

\* Mutant: the record merged last wins.
MergeLast(records, key, r) ==
  [k \in DOMAIN records \cup {key} |->
     IF k # key THEN records[k]
     ELSE IF key \in DOMAIN records THEN [records[key] EXCEPT !.last = r.last]
     ELSE r]

\* Add, and the loop body of aggregateImportedRecords: the first record of a key stays
\* and its time becomes the latest one.
Merge(records, key, r) ==
  [k \in DOMAIN records \cup {key} |->
     IF k # key THEN records[k]
     ELSE IF key \in DOMAIN records /\ r.last <= records[key].last THEN records[key]
     ELSE IF key \in DOMAIN records THEN [records[key] EXCEPT !.last = r.last]
     ELSE r]

\* GetRecords ranges over a Go map: the records come in no order.
GetRecords(records) == {records[k] : k \in DOMAIN records}
===============================================================================
