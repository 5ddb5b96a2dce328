------------------------------ MODULE Transport ------------------------------
(***************************************************************************)
(* The text mirror of an archive (transport.py): the archive is cut into   *)
(* parts, the index names them, and restore() puts them together again in  *)
(* a directory.  Uploader models how parts and index come into the Drive   *)
(* folder; here it is what they say.  An archive is a sequence of symbols, *)
(* and a hash is the text itself; what its members are, and whether they   *)
(* can be read, is for BundleFile to say.                                  *)
(***************************************************************************)
EXTENDS BundleFile

CONSTANTS
  PartBytes, MaxParts,   \* PART_BYTES, MAX_PARTS
  Contents(_),           \* what an archive holds: its members and its manifest's list
  Missing,               \* no such file
  RejectedRestore        \* ValueError

ASSUME TransportAssumption == {PartBytes, MaxParts} \subseteq Nat \ {0}

Marker(archive) == [sha |-> archive, bytes |-> Len(archive)]

\* A slip: a part that is not full is forgotten.
FullParts(marker) == marker.bytes \div PartBytes
PartCount(marker) == (marker.bytes + PartBytes - 1) \div PartBytes

ExpectedBytes(marker, n) ==
  LET rest == marker.bytes - (n - 1) * PartBytes IN IF rest < PartBytes THEN rest ELSE PartBytes

\* The n-th read of upload_transport.
Chunk(source, n) ==
  SubSeq(source, (n - 1) * PartBytes + 1,
         IF n * PartBytes < Len(source) THEN n * PartBytes ELSE Len(source))

\* The archive may have changed since its marker was written.
Changed(source, marker) ==
  \/ \E n \in 1 .. PartCount(marker) : Chunk(source, n) = <<>>
  \/ Len(source) > PartCount(marker) * PartBytes
  \/ source # marker.sha

\* encode_part
Part(source, marker, n) == [sha |-> marker.sha, number |-> n, raw |-> Chunk(source, n)]

UploadTransport(source, marker, id) ==
  IF PartCount(marker) > MaxParts \/ Changed(source, marker) THEN RejectedRestore
  ELSE [marker |-> marker, archive |-> id,
        parts |-> [n \in 1 .. PartCount(marker) |->
                     LET part == Part(source, marker, n)
                     IN [number |-> n, bytes |-> Len(part.raw), id |-> n, text |-> part]]]

-----------------------------------------------------------------------------
(* load_index, restore *)

ValidIndex(index) ==
  /\ Len(index.parts) = PartCount(index.marker) /\ Len(index.parts) \in 1 .. MaxParts
  /\ \A n \in DOMAIN index.parts : /\ index.parts[n].number = n
                                   /\ index.parts[n].bytes = ExpectedBytes(index.marker, n)
  /\ \A m, n \in DOMAIN index.parts : index.parts[m].id = index.parts[n].id => m = n

\* The text is the one the index names, and it says of itself what the index does.
PartRestores(index, n, file) ==
  /\ file # Missing /\ file = index.parts[n].text
  /\ file.sha = index.marker.sha /\ file.number = n
  /\ Len(file.raw) = index.parts[n].bytes

Joined(index, files) == FlattenSeq([n \in DOMAIN index.parts |-> files[n].raw])

\* read_verified_bundle refuses an archive for its members, too, however well its
\* parts, its size and its digest match.
Verified(archive) == ReadBundle(Contents(archive)) # RejectedBundle

\* A slip: an archive with the right digest needs no look at its members.
RestoresByDigest(index, files, id) ==
  /\ ValidIndex(index) /\ index.archive = id
  /\ \A n \in DOMAIN index.parts : PartRestores(index, n, files[n])
  /\ Joined(index, files) = index.marker.sha

\* Everything is verified in a temporary directory before anything is moved.
Restores(index, files, id) ==
  /\ ValidIndex(index) /\ index.archive = id
  /\ \A n \in DOMAIN index.parts : PartRestores(index, n, files[n])
  /\ Joined(index, files) = index.marker.sha
  /\ Verified(index.marker.sha)

\* A slip: what is in the destination already is left there.
KeepsOthers(index, dest) == TRUE
SameOrAbsent(index, dest) ==
  /\ dest.archive \in {Missing, index.marker.sha}
  /\ dest.marker \in {Missing, index.marker}

\* A slip: the marker comes first.
MovesMarkerFirst(dest, index, moves) ==
  [marker |-> IF dest.marker = Missing /\ moves >= 1 THEN index.marker ELSE dest.marker,
   archive |-> IF dest.archive = Missing /\ moves >= 2 THEN index.marker.sha ELSE dest.archive]
\* The destination after as many of the two replacements as there was time for.
Moved(dest, index, moves) ==
  [archive |-> IF dest.archive = Missing /\ moves >= 1 THEN index.marker.sha ELSE dest.archive,
   marker |-> IF dest.marker = Missing /\ moves >= 2 THEN index.marker ELSE dest.marker]

Restored(index, files, id, dest, moves) ==
  IF Restores(index, files, id) /\ SameOrAbsent(index, dest) THEN Moved(dest, index, moves) ELSE dest

-----------------------------------------------------------------------------
\* An index is published for the archive of its marker and for no other, up to
\* the greatest size.  Its parts give that archive back when its members can be
\* read; when the reader refuses them, restore() leaves the destination alone.
MirrorRestores(source, marker) ==
  LET index == UploadTransport(source, marker, 1)
      files == [n \in DOMAIN index.parts |-> index.parts[n].text]
      empty == [archive |-> Missing, marker |-> Missing]
      full == [archive |-> marker.sha, marker |-> marker]
  IN /\ index # RejectedRestore <=> (source = marker.sha /\ Len(source) <= MaxParts * PartBytes)
     /\ index # RejectedRestore =>
          Restored(index, files, 1, empty, 2) = IF Verified(source) THEN full ELSE empty

\* Whatever files lie there and wherever restore() is interrupted: it replaces
\* nothing and brings nothing that the reader refuses, a marker it leaves has its
\* archive beside it, and a restoration that could begin is completed by the next.
RestoreIsSafe(c) ==
  LET after == Restored(c.index, c.files, c.id, c.dest, c.moves)
  IN /\ c.dest.archive # Missing => after.archive = c.dest.archive
     /\ c.dest.marker # Missing => after.marker = c.dest.marker
     /\ after.marker # c.dest.marker => after.archive = after.marker.sha
     /\ after # c.dest =>
          /\ Verified(c.index.marker.sha)
          /\ Restored(c.index, c.files, c.id, after, 2)
               = [archive |-> c.index.marker.sha, marker |-> c.index.marker]
=============================================================================
