----------------------------- MODULE StatsTables -----------------------------
(***************************************************************************)
(* Tables of Docker statistics (tables.py): the writer factors the keys of *)
(* the samples of one cycle out into columns, the reader of a bundle puts  *)
(* them back and rejects what does not say every sample exactly once.      *)
(*                                                                         *)
(* A sample is a function from the paths of its nodes to what is there: a  *)
(* dictionary, or a value that is none.  The limits of key lengths and     *)
(* bytes are left out: both sides apply them to the same table.  A cell of *)
(* a table is a value that the reader does not look into.                  *)
(***************************************************************************)
EXTENDS Sequences, SequencesExt, Sorting

CONSTANTS
  MaxRows, MaxColumns, MaxDepth,   \* MAX_ROWS, MAX_COLUMNS, MAX_DEPTH
  RejectedTable                    \* ValueError

ASSUME TablesAssumption == {MaxRows, MaxColumns, MaxDepth} \subseteq Nat \ {0}

Object == "{}"
\* The nodes from the root to one.
WayTo(path) == {SubSeq(path, 1, n) : n \in 0 .. Len(path)}

\* isinstance(value, dict) and value
IsNonempty(sample, path) ==
  sample[path] = Object /\ \E p \in DOMAIN sample : p # path /\ path \in WayTo(p)

\* _leaves: the paths to what is no nonempty dictionary.
Paths(sample) == {path \in DOMAIN sample : ~IsNonempty(sample, path)}
LeavesOf(sample) == {<<path, sample[path]>> : path \in Paths(sample)}

-----------------------------------------------------------------------------
(* pack_stats *)

\* A slip: only the reader limits the nesting.
FitsAnyDepth(sample) == IsNonempty(sample, <<>>) /\ Cardinality(Paths(sample)) <= MaxColumns
FitsTable(sample) ==
  /\ IsNonempty(sample, <<>>)
  /\ \A path \in Paths(sample) : Len(path) <= MaxDepth
  /\ Cardinality(Paths(sample)) <= MaxColumns

\* The samples of one set of columns, in their order.
Group(samples, paths) ==
  LET columns == SetToSeq(paths)
      indexes == InOrder({i \in DOMAIN samples : Paths(samples[i]) = paths},
                         {p \in (DOMAIN samples) \X (DOMAIN samples) : p[1] < p[2]})
  IN [columns |-> columns, indexes |-> [n \in DOMAIN indexes |-> indexes[n] - 1],
      rows |-> [n \in DOMAIN indexes |->
                  [c \in DOMAIN columns |-> samples[indexes[n]][columns[c]]]]]

PackStats(samples) ==
  IF Len(samples) \notin 1 .. MaxRows \/ \E i \in DOMAIN samples : ~FitsTable(samples[i])
  THEN RejectedTable
  ELSE LET shapes == SetToSeq({Paths(samples[i]) : i \in DOMAIN samples})
       IN [samples |-> Len(samples),
           tables |-> [n \in DOMAIN shapes |-> Group(samples, shapes[n])]]

-----------------------------------------------------------------------------
(* unpack_stats *)

\* A slip: one column may lie below another.
DuplicateColumns(columns) ==
  \E i, j \in DOMAIN columns : i # j /\ columns[i] = columns[j]
ConflictingColumns(columns) ==
  \E i, j \in DOMAIN columns : i # j /\ columns[i] \in WayTo(columns[j])

ValidColumns(columns) ==
  /\ Len(columns) \in 1 .. MaxColumns
  /\ \A i \in DOMAIN columns : Len(columns[i]) \in 1 .. MaxDepth
  /\ ~ConflictingColumns(columns)

ValidGroup(group, count) ==
  /\ ValidColumns(group.columns)
  /\ group.rows # <<>> /\ Len(group.indexes) = Len(group.rows)
  /\ \A n \in DOMAIN group.indexes : group.indexes[n] \in 0 .. count - 1
  /\ \A n \in DOMAIN group.rows : Len(group.rows[n]) = Len(group.columns)

\* The rows of the table: the group and the row's place in it.
RowsOf(data) == UNION {{<<t, n>> : n \in DOMAIN data.tables[t].rows} : t \in DOMAIN data.tables}
IndexOf(data, r) == data.tables[r[1]].indexes[r[2]]

\* Each index of 0 .. count - 1 has exactly one row.
EveryIndexOnce(data) ==
  /\ \A r, s \in RowsOf(data) : IndexOf(data, r) = IndexOf(data, s) => r = s
  /\ Cardinality(RowsOf(data)) = data.samples

\* parent.setdefault(key, {}) along the path, then the value in place of what
\* was there.
PutAt(sample, path, value) ==
  [p \in {q \in DOMAIN sample : path \notin WayTo(q)} \cup WayTo(path) |->
     IF p = path THEN value ELSE IF p \in WayTo(path) THEN Object ELSE sample[p]]

PutCell(sample, cell) == PutAt(sample, cell[1], cell[2])
Rebuild(columns, row) ==
  FoldLeft(PutCell, [path \in {<<>>} |-> Object], [c \in DOMAIN columns |-> <<columns[c], row[c]>>])

UnpackStats(data) ==
  IF \/ data.samples \notin 1 .. MaxRows \/ Len(data.tables) \notin 1 .. MaxRows
     \/ \E t \in DOMAIN data.tables : ~ValidGroup(data.tables[t], data.samples)
     \/ ~EveryIndexOnce(data)
  THEN RejectedTable
  ELSE [i \in 1 .. data.samples |->
          LET r == CHOOSE r \in RowsOf(data) : IndexOf(data, r) = i - 1
          IN Rebuild(data.tables[r[1]].columns, data.tables[r[1]].rows[r[2]])]

-----------------------------------------------------------------------------
\* What was packed is unpacked as it was, samples in their order and empty
\* dictionaries included (tables.py: "self-contained, lossless").
TableRestores(samples) ==
  LET packed == PackStats(samples)
  IN packed # RejectedTable => UnpackStats(packed) = samples

\* "never guess missing values or counts": whatever table is accepted, each
\* sample has one row, every cell of the row stands in the sample under its
\* column, and nothing else does.
NeverGuesses(data) ==
  LET samples == UnpackStats(data)
  IN samples # RejectedTable =>
       /\ Len(samples) = data.samples
       /\ \A i \in DOMAIN samples : Cardinality({r \in RowsOf(data) : IndexOf(data, r) = i - 1}) = 1
       /\ \A r \in RowsOf(data) :
            LET group == data.tables[r[1]]
            IN LeavesOf(samples[IndexOf(data, r) + 1])
                 = {<<group.columns[c], group.rows[r[2]][c]>> : c \in DOMAIN group.columns}
=============================================================================
