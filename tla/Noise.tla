-------------------------------- MODULE Noise --------------------------------
(***************************************************************************)
(* Summaries of repeated entries (noise.py): journal entries of two known  *)
(* kinds by message, routine exec events by container; and the form in     *)
(* which a marked record holds the occurrences of a journal summary        *)
(* (evidence.py, _pack_occurrences and _unpack_occurrences).               *)
(*                                                                         *)
(* A journal row is its identity, its time, whether the time is written    *)
(* without leading zeros, whether the row may be summarised (a known       *)
(* denial or suppression, not too severe, with boot and time), and its     *)
(* group: boot, priority and the message without its sequence number.  Two *)
(* rows of one identity are one row that was read twice.                   *)
(***************************************************************************)
EXTENDS DockerFields, SequencesExt, Sorting

CONSTANTS
  MaxGroups,      \* 128
  MaxOccurrences  \* MAX_OCCURRENCES

ASSUME NoiseAssumption == {MaxGroups, MaxOccurrences} \subseteq Nat \ {0}

-----------------------------------------------------------------------------
(* compact_journal *)

NoRows == [seen |-> {}, duplicates |-> 0, kept |-> <<>>, groups |-> <<>>]

NoRoomForGroup(a, row) == row.group \notin DOMAIN a.groups /\ Cardinality(DOMAIN a.groups) >= MaxGroups

WithRow(groups, row) ==
  [g \in DOMAIN groups \cup {row.group} |->
     IF g # row.group THEN groups[g]
     ELSE IF g \in DOMAIN groups THEN Append(groups[g], row) ELSE <<row>>]

AddRow(a, row) ==
  IF row.id \in a.seen THEN [a EXCEPT !.duplicates = @ + 1]
  ELSE IF ~row.eligible \/ NoRoomForGroup(a, row)
  THEN [a EXCEPT !.seen = @ \cup {row.id}, !.kept = Append(@, row)]
  ELSE [a EXCEPT !.seen = @ \cup {row.id}, !.groups = WithRow(@, row)]

\* list.sort() by time and identity, which keeps the order of equal ones.
Earlier(r, s) == r.at < s.at \/ (r.at = s.at /\ r.id < s.id)
SortedRows(s) ==
  LET before == {p \in (DOMAIN s) \X (DOMAIN s) :
                   \/ Earlier(s[p[1]], s[p[2]])
                   \/ ~Earlier(s[p[2]], s[p[1]]) /\ p[1] < p[2]}
      order == InOrder(DOMAIN s, before)
  IN [n \in DOMAIN s |-> s[order[n]]]

\* A slip: the only row of its group stands for itself, and is not kept.
SinglesForgotten(groups) == <<>>
\* A group of one row is no summary: the row is kept as it is.
Singles(groups) == SetToSeq({groups[g][1] : g \in {h \in DOMAIN groups : Len(groups[h]) = 1}})

CompactJournal(rows) ==
  LET a == FoldLeft(AddRow, NoRows, rows)
      repeated == {g \in DOMAIN a.groups : Len(a.groups[g]) > 1}
  IN [kept |-> a.kept \o Singles(a.groups), duplicates |-> a.duplicates,
      summaries |-> [g \in repeated |-> SortedRows(a.groups[g])]]

-----------------------------------------------------------------------------
(* The occurrences of a summary: offsets from the first time.  A time      *)
(* with leading zeros could not be given back, so its summary stays.       *)

Occurrence(row) == [id |-> row.id, at |-> row.at, plain |-> row.plain]

\* A slip: whatever int() accepts is a time.
IsAnyOccurrence(o) == o.at < Width
IsOccurrence(o) == o.plain /\ o.at < Width

PackOccurrences(s) ==
  IF /\ Len(s) \in 1 .. MaxOccurrences /\ Len(s) >= Worth
     /\ \A i \in DOMAIN s : IsOccurrence(s[i])
  THEN [form |-> "packed", base |-> s[1].at,
        pairs |-> [i \in DOMAIN s |-> <<s[i].id, s[i].at - s[1].at>>]]
  ELSE [form |-> "list", list |-> s]

UnpackOccurrences(v) ==
  IF v.form = "list" THEN v.list
  ELSE IF /\ v.base < Width /\ Len(v.pairs) \in 1 .. MaxOccurrences
          /\ \A i \in DOMAIN v.pairs : v.base + v.pairs[i][2] \in 0 .. Width - 1
  THEN [i \in DOMAIN v.pairs |-> [id |-> v.pairs[i][1], at |-> v.base + v.pairs[i][2], plain |-> TRUE]]
  ELSE RejectedField

-----------------------------------------------------------------------------
(* routine_exec, compact_exec: an event is its container, its action (a    *)
(* number of ExecActions, or another), its time and its exit status.       *)

\* A slip: the status of a process that ended does not matter.
IsRoutineByAction(e) == e.action \in 1 .. 3 /\ e.time > 0
IsRoutine(e) == e.action \in 1 .. 3 /\ (e.action = 3 => e.code = 0) /\ e.time > 0

\* Pairs are sorted by time, then by the name of the action.
PairBefore(p, q) ==
  \/ p[2] < q[2]
  \/ p[2] = q[2] /\ p[1] # q[1] /\ (p[1] = 1 \/ (p[1] = 3 /\ q[1] = 2))

\* The pairs of each container, without repetition.
CompactExec(events) ==
  [c \in {e.container : e \in events} |->
     LET pairs == {<<e.action, e.time>> : e \in {f \in events : f.container = c}}
     IN InOrder(pairs, {p \in pairs \X pairs : PairBefore(p[1], p[2])})]

\* The field of the record that the event thread writes for a container.
ExecField(pairs) == List([i \in DOMAIN pairs |-> List(<<ExecActions[pairs[i][1]], Num(pairs[i][2])>>)])

-----------------------------------------------------------------------------
Ids(s) == {s[i].id : i \in DOMAIN s}

\* No entry is lost or counted twice by a summary: every row that was read is
\* kept exactly once, or stands exactly once, in order, among the occurrences
\* of its own group; a row that is not known noise is always kept; repeated
\* reading is counted; and an importer reads the same occurrences ("retaining
\* identities and original timestamps", noise.py:1).
JournalKeeps(rows) ==
  LET c == CompactJournal(rows)
      all == Ids(rows)
      groups == DOMAIN c.summaries
  IN /\ Len(c.kept) = Cardinality(Ids(c.kept))
     /\ all = Ids(c.kept) \cup UNION {Ids(c.summaries[g]) : g \in groups}
     /\ c.duplicates = Len(rows) - Cardinality(all)
     /\ \A i \in DOMAIN rows : ~rows[i].eligible => rows[i].id \in Ids(c.kept)
     /\ \A g \in groups :
          LET s == c.summaries[g]
              occurrences == [i \in DOMAIN s |-> Occurrence(s[i])]
          IN /\ Ids(s) \cap Ids(c.kept) = {} /\ Len(s) > 1
             /\ \A i \in DOMAIN s : s[i].group = g
             /\ \A i, j \in DOMAIN s : i < j => s[i].id # s[j].id /\ s[i].at <= s[j].at
             /\ UnpackOccurrences(PackOccurrences(occurrences)) = occurrences
     /\ Cardinality(groups) <= MaxGroups

\* A routine event is found, once, in the summary of its own container at its
\* own time, and no summary holds an event that nobody reported or one that
\* ended badly; packing for export changes nothing of that ("retain every
\* action/timeNano pair", noise.py:80).
ExecKeeps(events) ==
  LET groups == CompactExec({e \in ToSet(events) : IsRoutine(e)})
      Read(c) == Imported(Exported([kind |-> "exec", data |-> [events |-> ExecField(groups[c])]]))["events"].list
      Ended(e) == e.action \in {1, 2} \/ (e.action = 3 /\ e.code = 0)
      told == {e \in ToSet(events) : Ended(e) /\ e.time > 0}
  IN /\ {e.container : e \in told} = DOMAIN groups
     /\ \A c \in DOMAIN groups :
          /\ ToSet(Read(c)) = {List(<<ExecActions[e.action], Num(e.time)>>) : e \in {f \in told : f.container = c}}
          /\ IsInjective(Read(c))
=============================================================================
