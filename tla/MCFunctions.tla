----------------------------- MODULE MCFunctions -----------------------------
(***************************************************************************)
(* The functions of the project that keep no state, each evaluated for     *)
(* every input of a small set.                                             *)
(***************************************************************************)
EXTENDS Subjects, TLC

-----------------------------------------------------------------------------
(* Samples: two of any shape up to two levels, or three of a few shapes, or *)
(* one that is nested too deep or has too many columns.                     *)

Leaf(v) == [path \in {<<>>} |-> v]
Node(f) ==
  [path \in {<<>>} \cup UNION {{<<key>> \o p : p \in DOMAIN f[key]} : key \in DOMAIN f} |->
     IF path = <<>> THEN Object ELSE f[Head(path)][Tail(path)]]
NodesOver(keys, values) == {Node(f) : f \in UNION {[K -> values] : K \in SUBSET keys \ {{}}}}
Leaves == {Leaf("x"), Leaf(Object)}
FlatSamples == NodesOver({"a", "b"}, {Leaf("x"), Leaf("y")})
DeepSamples == NodesOver({"a", "b"}, Leaves \cup NodesOver({"a", "b"}, Leaves))
Nest(v) == Node([k \in {"a"} |-> v])
SampleLists ==
  {<<s, t>> : s, t \in DeepSamples} \cup {<<s, t, u>> : s, t, u \in FlatSamples}
    \cup {<<Nest(Nest(Nest(Leaf("x"))))>>, <<Leaf("x")>>}

\* Tables that nobody packed: one group of any form, or two small ones.
Columns == {<<"a">>, <<"b">>, <<"a", "b">>, <<"a", "b", "a">>}
ColumnLists == TupleOf(Columns, 1) \cup TupleOf(Columns, 2)
RowLists(n) == LET rows == TupleOf({"x", "y"}, n) IN TupleOf(rows, 1) \cup TupleOf(rows, 2)
Groups ==
  UNION {{[columns |-> c, rows |-> r, indexes |-> i] :
            c \in ColumnLists, r \in RowLists(n), i \in TupleOf(0 .. 1, 1) \cup TupleOf(0 .. 2, 2)} : n \in 1 .. 2}
SmallGroups ==
  {[columns |-> c, rows |-> <<[j \in DOMAIN c |-> "x"]>>, indexes |-> <<i>>] :
     c \in ColumnLists, i \in 0 .. 2}
Tables ==
  {[samples |-> n, tables |-> <<g>>] : n \in 0 .. 2, g \in Groups}
    \cup {[samples |-> n, tables |-> <<g, h>>] : n \in 1 .. 3, g, h \in SmallGroups}

-----------------------------------------------------------------------------
(* Records whose fields look like what the exporter writes, or nearly.      *)

x == Str("x")
IoRow(n) == Dict([k \in IoKeySet |-> Num(n)])
IoLists == {List(<<>>), List(<<IoRow(1)>>), List(<<IoRow(1), IoRow(2)>>), List(<<IoRow(1), x>>)}
IoCells ==
  IoLists \cup {x, Dict(<<>>), PackRows(List(<<IoRow(1), IoRow(2)>>))}
    \cup {Dict([literal |-> v]) : v \in {x, Dict(<<>>), Dict([literal |-> x])}}
    \cup {Dict([encoding |-> Str("io-rows-v1"), rows |-> v]) : v \in IoLists}
Pairs == {List(<<a, t>>) : a \in {ExecActions[1], ExecActions[3], x}, t \in {Num(n) : n \in 0 .. Width}}
ExecLists == UNION {{List(s) : s \in TupleOf(Pairs, n)} : n \in 0 .. 2}
PackedPairs == {List(<<Num(a), Num(t)>>) : a \in 0 .. 4, t \in -Width .. Width}
PackedExecs ==
  {Dict([encoding |-> Str("exec-ns-delta-v1"), base |-> Num(b), pairs |-> List(s)]) :
     b \in 0 .. Width, s \in TupleOf(PackedPairs, 1) \cup TupleOf(PackedPairs, 2)}
StateData ==
  UNION {[K -> {x, Dict([id |-> x])}] : K \in SUBSET {"id", "name", "image", "state", "_metadata"}}
DockerRecords ==
  {[kind |-> "exec", data |-> [events |-> v]] : v \in ExecLists \cup {x} \cup {PackExec(v) : v \in ExecLists}}
    \cup {[kind |-> "stats", data |-> cells] : cells \in TupleOf(IoCells, 2)}
    \cup {[kind |-> "state", data |-> d] : d \in StateData}

-----------------------------------------------------------------------------
(* Journals in which a row may be read again, and exec events.              *)

RowContents ==
  [group : {"g"}, at : {1, 2}, plain : BOOLEAN, eligible : {TRUE}]
    \cup {[group |-> "g", at |-> Width, plain |-> TRUE, eligible |-> TRUE],
          [group |-> "h", at |-> 1, plain |-> TRUE, eligible |-> TRUE],
          [group |-> "g", at |-> 1, plain |-> TRUE, eligible |-> FALSE]}
Row(id, c) == [id |-> id, group |-> c.group, at |-> c.at, plain |-> c.plain, eligible |-> c.eligible]
Journals ==
  {[i \in DOMAIN s |-> Row(s[i], c[s[i]])] :
     c \in [1 .. 3 -> RowContents], s \in TupleOf(1 .. 3, 3) \cup TupleOf(1 .. 3, 4)}
ExecEvents == [container : {"c", "d"}, action : 1 .. 4, time : 0 .. 2, code : {0, 1}]
ExecHistories == UNION {TupleOf(ExecEvents, n) : n \in 1 .. 2}

-----------------------------------------------------------------------------
(* Sources of a bundle, and archives that no writer made.                   *)

SourceLists ==
  UNION {TupleOf([name : {"a", "b", "c"}, bytes : 0 .. MemberMax + 1, body : {"u"}], n) : n \in 0 .. 3}
ArchiveMembers ==
  [name : {"a", "b", "../a", Manifest}, plain : {TRUE}, bytes : {1}, body : {"u", "v"}]
    \cup {[name |-> "a", plain |-> FALSE, bytes |-> 1, body |-> "u"]}
ListedFiles == [name : {"a", "b", Manifest}, bytes : {1, 2}, body : {"u"}]
Archives ==
  {[members |-> m, listed |-> l] :
     m \in UNION {TupleOf(ArchiveMembers, n) : n \in 1 .. 3}, l \in UNION {TupleOf(ListedFiles, n) : n \in 0 .. 2}}

-----------------------------------------------------------------------------
(* Archives of up to one byte more than the parts can hold, and restorations *)
(* from and into any files; the reader takes the first of two archives and   *)
(* refuses the second for the size of its member.                            *)

\* Every "1" is two bytes of the only file; an archive without any is no archive.
MCContents(bytes) ==
  LET size == 2 * Cardinality({i \in DOMAIN bytes : bytes[i] = "1"})
  IN IF size = 0 THEN [members |-> <<>>, listed |-> <<>>]
     ELSE Archive({[name |-> "a", bytes |-> size, body |-> "u"]})

ArchiveBytes == UNION {TupleOf({"0", "1"}, n) : n \in 1 .. 5}
Uploads == {[source |-> s, marker |-> Marker(t)] : s, t \in ArchiveBytes}
First == UploadTransport(<<"0", "1", "0">>, Marker(<<"0", "1", "0">>), 1)
Second == UploadTransport(<<"0", "1", "1">>, Marker(<<"0", "1", "1">>), 1)
TextFiles == {First.parts[n].text : n \in 1 .. 2} \cup {Second.parts[n].text : n \in 1 .. 2} \cup {Missing}
Indexes ==
  {First, Second} \cup {[First EXCEPT !.parts = <<@[i], @[j]>>] : i, j \in 1 .. 2}
    \cup {[First EXCEPT !.parts[n].text = t] : n \in 1 .. 2, t \in TextFiles \ {Missing}}
Restorations ==
  [index : Indexes, files : [1 .. 2 -> TextFiles], id : {1, 2}, moves : 0 .. 2,
   dest : [archive : {Missing, First.marker.sha, Second.marker.sha},
           marker : {Missing, First.marker, Second.marker}]]

-----------------------------------------------------------------------------
(* Two intervals of a host's life, and records of two windows that overlap. *)

HostEvents ==
  [seconds : 1 .. 3, jump : -2 .. 2, bytes : 0 .. 2, reboot : BOOLEAN, reset : BOOLEAN]
Entries == {<<"i1", 1>>, <<"i2", 3>>, <<"i3", 2>>}
EvidenceRecords ==
  {[kind |-> "event", id |-> <<"e", t>>, key |-> "die", severity |-> "info", at |-> t] : t \in 1 .. 2}
    \cup {[kind |-> "summary", key |-> "denials", entries |-> s] :
             s \in {<<e>> : e \in Entries} \cup {<<e, f>> : e, f \in Entries}}
    \cup {[kind |-> "check", key |-> "disk", severity |-> s, at |-> t] :
             s \in {"warning", "critical"}, t \in 1 .. 2}
EvidenceLists == UNION {TupleOf(EvidenceRecords, n) : n \in 1 .. 3}

-----------------------------------------------------------------------------
Init ==
  \/ \E p \in Programs : subject = [name |-> "command", input |-> p]
  \/ \E s \in SampleLists : subject = [name |-> "samples", input |-> s]
  \/ \E t \in Tables : subject = [name |-> "table", input |-> t]
  \/ \E r \in DockerRecords : subject = [name |-> "record", input |-> r]
  \/ \E v \in PackedExecs : subject = [name |-> "exec", input |-> v]
  \/ \E j \in Journals : subject = [name |-> "journal", input |-> j]
  \/ \E e \in ExecHistories : subject = [name |-> "events", input |-> e]
  \/ \E s \in SourceLists : subject = [name |-> "sources", input |-> s]
  \/ \E a \in Archives : subject = [name |-> "archive", input |-> a]
  \/ \E u \in Uploads : subject = [name |-> "upload", input |-> u]
  \/ \E c \in Restorations : subject = [name |-> "restoration", input |-> c]
  \/ \E e \in TupleOf(HostEvents, 2) : subject = [name |-> "host", input |-> e]
  \/ \E e \in EvidenceLists : subject = [name |-> "evidence", input |-> e]

Next == UNCHANGED subject
Spec == Init /\ [][Next]_subject

=============================================================================
