------------------------------ MODULE BundleFile ------------------------------
(***************************************************************************)
(* What BundleWriter puts into an archive and what read_verified_bundle    *)
(* accepts of one (bundle.py).  A member is a name, whether it is a plain  *)
(* file, a size and contents; a hash is the contents themselves.  The      *)
(* archive's size and digest are compared with the marker by Transport;    *)
(* the fields that manifest and marker have in common and the headers of   *)
(* the tar stream are left out.                                            *)
(***************************************************************************)
EXTENDS Integers, Sequences, FiniteSets, SequencesExt

CONSTANTS
  PayloadMax,      \* max_bytes of the writer, bundle_mib
  ExpandedMax,     \* max_expanded of the reader
  MemberMax,       \* 16 MiB
  MembersMax,      \* 512
  UnsafeNames,     \* absolute, with "..", or not as written
  RejectedBundle   \* ValueError

ASSUME BundleFileAssumption ==
  /\ {PayloadMax, ExpandedMax, MemberMax, MembersMax} \subseteq Nat \ {0}
  /\ PayloadMax + MembersMax <= ExpandedMax     \* room for the manifest

Manifest == "manifest.json"
NamesOf(files) == {f.name : f \in files}

-----------------------------------------------------------------------------
(* BundleWriter: add, finish *)

\* A slip: every member has the whole budget.
AddAlone(w, s) ==
  IF s.bytes > PayloadMax THEN [w EXCEPT !.issues = @ \cup {s.name}]
  ELSE IF s.name \in NamesOf(w.files) THEN [w EXCEPT !.failed = TRUE]
  ELSE [w EXCEPT !.total = @ + s.bytes, !.files = @ \cup {s}]

\* What does not fit is an issue; a second member of one name is an exception.
AddMember(w, s) ==
  IF w.total + s.bytes > PayloadMax THEN [w EXCEPT !.issues = @ \cup {s.name}]
  ELSE IF s.name \in NamesOf(w.files) THEN [w EXCEPT !.failed = TRUE]
  ELSE [w EXCEPT !.total = @ + s.bytes, !.files = @ \cup {s}]

Written(sources) ==
  FoldLeft(AddMember, [total |-> 0, files |-> {}, issues |-> {}, failed |-> FALSE], sources)

\* The manifest lists the members, so it is a member of one unit for each.
Archive(files) ==
  [members |-> SetToSeq({[name |-> f.name, plain |-> TRUE, bytes |-> f.bytes, body |-> f.body] : f \in files}
                          \cup {[name |-> Manifest, plain |-> TRUE, bytes |-> Cardinality(files), body |-> Manifest]}),
   listed |-> SetToSeq(files)]

-----------------------------------------------------------------------------
(* read_verified_bundle *)

TotalBytes(members) == FoldLeft(LAMBDA sum, m : sum + m.bytes, 0, members)
OneOfEachName(s) == \A i, j \in DOMAIN s : s[i].name = s[j].name => i = j

SafeMembers(members) ==
  /\ \A i \in DOMAIN members : /\ members[i].plain /\ members[i].name \notin UnsafeNames
                               /\ members[i].bytes <= MemberMax
  /\ OneOfEachName(members) /\ Len(members) <= MembersMax
  /\ TotalBytes(members) <= ExpandedMax

IsMember(members, entry) ==
  \E i \in DOMAIN members :
    members[i].name = entry.name /\ members[i].bytes = entry.bytes /\ members[i].body = entry.body

MemberNames(members) == {members[i].name : i \in DOMAIN members} \ {Manifest}

\* A slip: members that the manifest does not list are of no concern.
ListsSome(archive) == \A e \in DOMAIN archive.listed : archive.listed[e].name # Manifest
ListsAll(archive) ==
  /\ \A e \in DOMAIN archive.listed : archive.listed[e].name # Manifest
  /\ {archive.listed[e].name : e \in DOMAIN archive.listed} = MemberNames(archive.members)

ReadBundle(archive) ==
  IF /\ SafeMembers(archive.members)
     /\ Manifest \in {archive.members[i].name : i \in DOMAIN archive.members}
     /\ OneOfEachName(archive.listed) /\ ListsAll(archive)
     /\ \A e \in DOMAIN archive.listed : IsMember(archive.members, archive.listed[e])
  THEN {[name |-> m.name, bytes |-> m.bytes, body |-> m.body] :
          m \in {archive.members[i] : i \in DOMAIN archive.members} }
  ELSE RejectedBundle

-----------------------------------------------------------------------------
\* What was added can be read, or the manifest says that it was left out, or the
\* reader refuses the whole bundle, which it does for a member of more than 16
\* MiB and for nothing else: add() does not prevent one, and a log of 12 MiB grows
\* to that when its bytes are no UTF-8.
PublishedIsRead(sources) ==
  LET w == Written(sources)
      contents == ReadBundle(Archive(w.files))
  IN ~w.failed =>
       /\ \A s \in ToSet(sources) : s \in w.files \/ s.name \in w.issues
       /\ contents = RejectedBundle <=> \E f \in w.files : f.bytes > MemberMax
       /\ contents # RejectedBundle => {c \in contents : c.name # Manifest} = w.files

\* Whatever archive is accepted, its manifest and its members say the same:
\* every member but the manifest is listed once, with its size and its hash.
AcceptedIsListed(archive) ==
  ReadBundle(archive) # RejectedBundle =>
    /\ \A i \in DOMAIN archive.members : archive.members[i].plain
    /\ \A i \in DOMAIN archive.members :
         archive.members[i].name # Manifest =>
           Cardinality({e \in DOMAIN archive.listed :
                          /\ archive.listed[e].name = archive.members[i].name
                          /\ archive.listed[e].bytes = archive.members[i].bytes
                          /\ archive.listed[e].body = archive.members[i].body}) = 1
    /\ Len(archive.listed) = Len(archive.members) - 1
=============================================================================
