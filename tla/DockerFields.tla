----------------------------- MODULE DockerFields -----------------------------
(***************************************************************************)
(* Shorter forms of three Docker fields (docker_compaction.py), which the  *)
(* exporter writes and the reader of a marked record expands:              *)
(*                                                                         *)
(*   exec   the <<action, time>> pairs of an exec summary, as offsets,     *)
(*   stats  the I/O cells of a table, as rows without their keys,          *)
(*   state  the metadata of a container, in one dictionary of their own.   *)
(*                                                                         *)
(* Evidence is arbitrary, so a field may look like a shorter form that     *)
(* nobody wrote.  A JSON value is [dict |-> f], [list |-> s], [num |-> n]  *)
(* or [str |-> s].  Byte budgets are part of EvidenceCodec.                *)
(***************************************************************************)
EXTENDS Integers, Sequences, FiniteSets

CONSTANTS
  Width,         \* 2^64
  MaxPairs,      \* MAX_EXEC_PAIRS
  MaxIoRows,     \* MAX_IO_ROWS
  Worth,         \* from how many entries on the shorter form is shorter
  RejectedField  \* ValueError

ASSUME FieldsAssumption == {Width, MaxPairs, MaxIoRows, Worth} \subseteq Nat \ {0}

Dict(f) == [dict |-> f]
List(s) == [list |-> s]
Num(n) == [num |-> n]
Str(s) == [str |-> s]
IsDict(v) == "dict" \in DOMAIN v
IsList(v, n) == "list" \in DOMAIN v /\ Len(v.list) \in 1 .. n
IsNum(v) == "num" \in DOMAIN v
HasKeys(v, keys) == IsDict(v) /\ DOMAIN v.dict = keys

-----------------------------------------------------------------------------
(* pack_exec, _unpack_exec: action numbers and offsets from the first time *)

ExecActions == <<Str("exec_create"), Str("exec_start"), Str("exec_die")>>
InRange(n) == 0 < n /\ n < Width

IsPair(v) ==
  /\ IsList(v, 2) /\ Len(v.list) = 2
  /\ v.list[1] \in {ExecActions[a] : a \in 1 .. 3}
  /\ IsNum(v.list[2]) /\ InRange(v.list[2].num)

PackExec(v) ==
  IF IsList(v, MaxPairs) /\ Len(v.list) >= Worth /\ \A i \in DOMAIN v.list : IsPair(v.list[i])
  THEN LET base == v.list[1].list[2].num
           Packed(pair) == List(<<Num(CHOOSE a \in 1 .. 3 : ExecActions[a] = pair.list[1]),
                                  Num(pair.list[2].num - base)>>)
       IN Dict([encoding |-> Str("exec-ns-delta-v1"), base |-> Num(base),
                pairs |-> List([i \in DOMAIN v.list |-> Packed(v.list[i])])])
  ELSE v

\* A slip: the offset is checked, not the time that it gives.
OffsetInRange(base, v) == v.num < Width
TimeInRange(base, v) == InRange(base + v.num)

IsPackedPair(base, v) ==
  /\ IsList(v, 2) /\ Len(v.list) = 2 /\ IsNum(v.list[1]) /\ IsNum(v.list[2])
  /\ v.list[1].num \in 1 .. 3 /\ TimeInRange(base, v.list[2])

UnpackExec(v) ==
  IF /\ HasKeys(v, {"encoding", "base", "pairs"}) /\ v.dict.encoding = Str("exec-ns-delta-v1")
     /\ IsNum(v.dict.base) /\ InRange(v.dict.base.num) /\ IsList(v.dict.pairs, MaxPairs)
     /\ \A i \in DOMAIN v.dict.pairs.list : IsPackedPair(v.dict.base.num, v.dict.pairs.list[i])
  THEN LET Pair(p) == List(<<ExecActions[p[1].num], Num(v.dict.base.num + p[2].num)>>)
       IN List([i \in DOMAIN v.dict.pairs.list |-> Pair(v.dict.pairs.list[i].list)])
  ELSE RejectedField

-----------------------------------------------------------------------------
(* _pack_io, _unpack_io *)

IoKeys == <<"major", "minor", "op", "value">>
IoKeySet == {IoKeys[k] : k \in 1 .. 4}

PackRows(v) ==
  IF IsList(v, MaxIoRows) /\ Len(v.list) >= Worth /\ \A i \in DOMAIN v.list : HasKeys(v.list[i], IoKeySet)
  THEN Dict([encoding |-> Str("io-rows-v1"),
             rows |-> List([i \in DOMAIN v.list |-> List([k \in 1 .. 4 |-> v.list[i].dict[IoKeys[k]]])])])
  ELSE v

\* A slip: a dictionary is left as it is.
PackIoBare(v) == IF IsDict(v) THEN v ELSE PackRows(v)
PackIo(v) == IF IsDict(v) THEN Dict([literal |-> v]) ELSE PackRows(v)

UnpackIo(v) ==
  IF HasKeys(v, {"literal"})
  THEN IF IsDict(v.dict.literal) THEN v.dict.literal ELSE RejectedField
  ELSE IF /\ HasKeys(v, {"encoding", "rows"}) /\ v.dict.encoding = Str("io-rows-v1")
          /\ IsList(v.dict.rows, MaxIoRows)
          /\ \A i \in DOMAIN v.dict.rows.list :
               "list" \in DOMAIN v.dict.rows.list[i] /\ Len(v.dict.rows.list[i].list) = 4
  THEN LET Row(r) == Dict([key \in IoKeySet |-> r.list[CHOOSE k \in 1 .. 4 : IoKeys[k] = key]])
       IN List([i \in DOMAIN v.dict.rows.list |-> Row(v.dict.rows.list[i])])
  ELSE RejectedField

-----------------------------------------------------------------------------
(* A record: its kind and its data.  The data of a table are reduced to    *)
(* the sequence of its I/O cells.                                          *)

CONSTANTS MetadataKeys   \* METADATA_KEYS

\* A slip: a field that is named like the dictionary of metadata is no obstacle.
EligibleByKind(r) == r.kind = "exec" => "list" \in DOMAIN r.data["events"]
Eligible(r) ==
  /\ r.kind = "exec" => "list" \in DOMAIN r.data["events"]
  /\ r.kind = "state" => "_metadata" \notin DOMAIN r.data

\* The fields of a record after packing, if any changed.
PackedData(r) ==
  CASE r.kind = "exec" -> [r.data EXCEPT !["events"] = PackExec(@)]
    [] r.kind = "stats" -> [c \in DOMAIN r.data |-> PackIo(r.data[c])]
    [] r.kind = "state" ->
         LET keys == MetadataKeys \cap DOMAIN r.data
             metadata == Dict([key \in keys |-> r.data[key]])
         IN IF Cardinality(keys) < Worth THEN r.data
            ELSE [key \in (DOMAIN r.data \ keys) \cup {"_metadata"} |->
                    IF key = "_metadata" THEN metadata ELSE r.data[key]]

\* A record is marked exactly when it changed.
Exported(r) ==
  IF Eligible(r) /\ PackedData(r) # r.data
  THEN [kind |-> r.kind, data |-> PackedData(r), marked |-> TRUE]
  ELSE [kind |-> r.kind, data |-> r.data, marked |-> FALSE]

UnpackedData(r) ==
  CASE r.kind = "exec" ->
         IF IsDict(r.data["events"]) THEN [r.data EXCEPT !["events"] = UnpackExec(@)] ELSE r.data
    [] r.kind = "stats" ->
         [c \in DOMAIN r.data |-> IF IsDict(r.data[c]) THEN UnpackIo(r.data[c]) ELSE r.data[c]]
    [] r.kind = "state" ->
         IF "_metadata" \notin DOMAIN r.data THEN r.data
         ELSE LET m == r.data["_metadata"]
              IN IF IsDict(m) /\ DOMAIN m.dict # {} /\ DOMAIN m.dict \subseteq MetadataKeys \ DOMAIN r.data
                 THEN [key \in (DOMAIN r.data \ {"_metadata"}) \cup DOMAIN m.dict |->
                         IF key \in DOMAIN m.dict THEN m.dict[key] ELSE r.data[key]]
                 ELSE [r.data EXCEPT !["_metadata"] = RejectedField]

Imported(e) == IF e.marked THEN UnpackedData(e) ELSE e.data

-----------------------------------------------------------------------------
\* A record is read as it was collected, whatever its fields look like
\* (docker_compaction.py: "Lossless Docker field encodings").
FieldsRestore(r) == Imported(Exported(r)) = r.data

\* Whatever form of exec pairs is accepted, each pair is one that a summary may
\* hold: a known action at a time within its width.
ExecStaysInRange(v) ==
  LET pairs == UnpackExec(v)
  IN pairs # RejectedField => \A i \in DOMAIN pairs.list : IsPair(pairs.list[i])
=============================================================================
