---------------------------- MODULE EvidenceCodec ----------------------------
(***************************************************************************)
(* The references of exported evidence: the encoder and the decoder        *)
(* (evidence.py), the exporter that cuts its output into members           *)
(* (bundle.py, spool_chunks) and the reader (report.py).                   *)
(*                                                                         *)
(* The encoder replaces a value it has written before by the index of its  *)
(* definition.  The reader must rebuild the same dictionary from the lines *)
(* of one member alone, although size limits make the encoder give up on a *)
(* record, forget everything at a new member, or stop.                     *)
(***************************************************************************)
EXTENDS Integers, Sequences

CONSTANTS
  Values,        \* the values a dictionary may hold
  Namespace,     \* of each value: the field it stands in
  Weight,        \* of each value: its bytes
  Definable,     \* the values long enough for a definition
  Dicts,         \* the values of fields that hold dictionaries
  Records,       \* the records to export
  RefCost, DefCost, LiteralCost, MarkCost,   \* bytes of the wrappers
  MaxDefinitions, MaxDictionary,             \* limits of one dictionary
  MaxRecord,     \* limit of one record, encoded or decoded
  ChunkLimit,    \* encoded bytes of a member
  MemberLimit,   \* decoded bytes of a member
  DecodedLimit,  \* decoded bytes of a source
  SourceLimit,   \* encoded bytes of a source
  MaxDamage      \* bound: lines of a member that do not arrive

Item == [slots : Seq(Values), packed : BOOLEAN, size : Nat]

\* The slots of a record lie side by side within its line: at[j] bytes of the line
\* are those of the first j slots.
Layout(r, at) ==
  /\ at \in [0 .. Len(r.slots) -> 0 .. r.size - 1]
  /\ \A j \in DOMAIN r.slots : at[j] = at[j - 1] + Weight[r.slots[j]]

ASSUME CodecAssumption ==
  /\ DOMAIN Namespace = Values /\ Weight \in [Values -> Nat \ {0}]
  /\ Definable \subseteq Values /\ Dicts \subseteq Values /\ Records \subseteq Item
  /\ {RefCost, DefCost, LiteralCost, MarkCost} \subseteq Nat
  /\ {MaxDefinitions, MaxDictionary, MaxRecord, MemberLimit, DecodedLimit, SourceLimit} \subseteq Nat
  /\ {ChunkLimit, MaxDamage} \subseteq Nat
  /\ MaxRecord <= ChunkLimit /\ MaxRecord <= MemberLimit
  /\ \A r \in Records : \E at \in [0 .. Len(r.slots) -> 0 .. r.size - 1] : Layout(r, at)

VARIABLES
  wpc, rec, coded, pending, pendingBytes, size, changed,   \* encode() under way
  values, bytes,                                  \* EvidenceEncoder
  members, chunkBytes, chunkDecoded,              \* what is written; its last member
  total, decodedTotal,                            \* of the source
  rpc, m, l, got, defs, defBytes, projected,      \* decode() under way
  known, knownBytes, decoded, failed,             \* EvidenceDecoder
  verdict,                                        \* what became of the last line read
  damaged                                         \* lines of this member that did not arrive

encodeVars == <<rec, coded, pending, pendingBytes, size, changed>>
encoderVars == <<values, bytes>>
exportVars == <<members, chunkBytes, chunkDecoded, total, decodedTotal>>
writerVars == <<wpc, encodeVars, encoderVars, exportVars>>
decodeVars == <<got, defs, defBytes, projected>>
decoderVars == <<known, knownBytes, decoded, failed>>
readerVars == <<rpc, m, l, decodeVars, decoderVars, verdict, damaged>>
vars == <<writerVars, readerVars>>

NoItem == [slots |-> <<>>, packed |-> FALSE, size |-> 0]
NoVerdict == [line |-> NoItem, ok |-> TRUE, slots |-> <<>>]

Literal(v) == [tag |-> "literal", value |-> v]
Wrapped(v) == [tag |-> "wrapped", value |-> v]
Define(i, v) == [tag |-> "define", index |-> i, value |-> v]
Ref(i) == [tag |-> "ref", index |-> i]

Init ==
  /\ wpc = "next" /\ rec = NoItem /\ coded = <<>> /\ pending = <<>>
  /\ pendingBytes = 0 /\ size = 0 /\ changed = FALSE
  /\ values = <<>> /\ bytes = 0
  /\ members = <<<<>>>> /\ chunkBytes = 0 /\ chunkDecoded = 0 /\ total = 0 /\ decodedTotal = 0
  /\ rpc = "line" /\ m = 1 /\ l = 1 /\ got = <<>> /\ defs = <<>> /\ defBytes = 0 /\ projected = 0
  /\ known = <<>> /\ knownBytes = 0 /\ decoded = 0 /\ failed = FALSE
  /\ verdict = NoVerdict /\ damaged = 0

-----------------------------------------------------------------------------
(* The exporter *)

\* encode() starts on r.
Begin(r) ==
  /\ wpc' = "encode" /\ rec' = r /\ coded' = <<>> /\ pending' = <<>> /\ pendingBytes' = 0
  /\ size' = r.size + MarkCost /\ changed' = r.packed

\* A record over a limit ends the export with an issue, as the end of the spool
\* does without one.
TakeRecord ==
  /\ wpc = "next"
  /\ \E r \in Records : r.size <= MaxRecord /\ decodedTotal + r.size <= DecodedLimit /\ Begin(r)
  /\ UNCHANGED <<encoderVars, exportVars, readerVars>>

EndExport ==
  /\ wpc = "next" /\ wpc' = "stopped"
  /\ UNCHANGED <<encodeVars, encoderVars, exportVars, readerVars>>

\* The next slot: a reference, a definition if there is room, else the value.  A
\* dictionary that stays must not look like a wrapper; in refs-v1 it is the only
\* slot of its record, which then stays as it is.
Slot == rec.slots[Len(coded) + 1]
Defined == values \o pending
Fresh == \A i \in DOMAIN Defined : Defined[i] # Slot

\* A slip: what this record has defined already is not counted.
RoomForOne == /\ Slot \in Definable /\ Len(Defined) < MaxDefinitions
              /\ bytes + Weight[Slot] <= MaxDictionary
Room == /\ Slot \in Definable /\ Len(Defined) < MaxDefinitions
        /\ bytes + pendingBytes + Weight[Slot] <= MaxDictionary

Refer ==
  /\ \E i \in DOMAIN Defined : Defined[i] = Slot /\ coded' = Append(coded, Ref(i - 1))
  /\ size' = size + RefCost - Weight[Slot] /\ changed' = TRUE /\ UNCHANGED <<pending, pendingBytes>>
DefineSlot ==
  /\ Room /\ coded' = Append(coded, Define(Len(Defined), Slot))
  /\ pending' = Append(pending, Slot) /\ pendingBytes' = pendingBytes + Weight[Slot]
  /\ size' = size + DefCost /\ changed' = TRUE
Keep ==
  /\ IF Slot \in Dicts
     THEN coded' = Append(coded, Wrapped(Slot)) /\ size' = size + LiteralCost
     ELSE coded' = Append(coded, Literal(Slot)) /\ UNCHANGED size
  /\ UNCHANGED <<pending, pendingBytes, changed>>

EncodeSlot ==
  /\ wpc = "encode" /\ Len(coded) < Len(rec.slots)
  /\ Refer \/ (Fresh /\ DefineSlot) \/ (Fresh /\ ~Room /\ Keep)
  /\ UNCHANGED <<wpc, rec, encoderVars, exportVars, readerVars>>

\* The result: the record itself when nothing changed, or the marks made it too
\* long; only an encoded record adds to the dictionary.
Encodes == changed /\ size <= MaxRecord
Line == [orig |-> rec, marked |-> Encodes, size |-> IF Encodes THEN size ELSE rec.size,
         slots |-> IF Encodes THEN coded ELSE [i \in DOMAIN rec.slots |-> Literal(rec.slots[i])]]
Learn == values' = values \o pending /\ bytes' = bytes + pendingBytes
Encoded == wpc = "encode" /\ Len(coded) = Len(rec.slots)
NewMember == /\ chunkBytes > 0
             /\ chunkBytes + Line.size > ChunkLimit \/ chunkDecoded + rec.size > MemberLimit

\* A slip: the encoder is not replaced.
StartMemberOnly ==
  /\ Encoded /\ NewMember /\ Begin(rec)
  /\ members' = Append(members, <<>>) /\ chunkBytes' = 0 /\ chunkDecoded' = 0
  /\ UNCHANGED <<encoderVars, total, decodedTotal, readerVars>>

\* A full member is closed, and a new encoder starts on the record again.
StartMember ==
  /\ Encoded /\ NewMember /\ Begin(rec)
  /\ values' = <<>> /\ bytes' = 0
  /\ members' = Append(members, <<>>) /\ chunkBytes' = 0 /\ chunkDecoded' = 0
  /\ UNCHANGED <<total, decodedTotal, readerVars>>

AddLine ==
  /\ Encoded /\ ~NewMember /\ total + Line.size <= SourceLimit /\ wpc' = "next"
  /\ (IF Encodes THEN Learn ELSE UNCHANGED encoderVars)
  /\ members' = [members EXCEPT ![Len(members)] = Append(@, Line)]
  /\ chunkBytes' = chunkBytes + Line.size /\ chunkDecoded' = chunkDecoded + rec.size
  /\ total' = total + Line.size /\ decodedTotal' = decodedTotal + rec.size
  /\ UNCHANGED <<encodeVars, readerVars>>

SourceFull ==
  /\ Encoded /\ ~NewMember /\ total + Line.size > SourceLimit /\ wpc' = "stopped"
  /\ UNCHANGED <<encodeVars, encoderVars, exportVars, readerVars>>

-----------------------------------------------------------------------------
(* The reader *)

Current == members[m][l]
NoDecode == got' = <<>> /\ defs' = <<>> /\ defBytes' = 0 /\ projected' = 0
Reading == wpc = "stopped" /\ l <= Len(members[m])

\* The line is done.
Accept(what, length) ==
  /\ rpc' = "line" /\ l' = l + 1 /\ NoDecode
  /\ decoded' = decoded + length /\ verdict' = [line |-> Current.orig, ok |-> TRUE, slots |-> what]
  /\ UNCHANGED <<writerVars, m, failed, damaged>>
Reject ==
  /\ rpc' = "line" /\ l' = l + 1 /\ NoDecode
  /\ failed' = TRUE /\ verdict' = [line |-> Current.orig, ok |-> FALSE, slots |-> <<>>]
  /\ UNCHANGED <<writerVars, m, known, knownBytes, decoded, damaged>>

\* A record without a mark is read as it is.
Fits(length) == length <= MaxRecord /\ decoded + length <= MemberLimit
ReadPlain ==
  /\ Reading /\ rpc = "line" /\ ~Current.marked
  /\ IF Fits(Current.size)
     THEN /\ Accept([i \in DOMAIN Current.slots |-> Current.slots[i].value], Current.size)
          /\ UNCHANGED <<known, knownBytes>>
     ELSE Reject

ReadMarked ==
  /\ Reading /\ rpc = "line" /\ Current.marked
  /\ IF failed \/ Current.size > MaxRecord
     THEN Reject
     ELSE /\ rpc' = "slot" /\ projected' = Current.size - MarkCost
          /\ UNCHANGED <<writerVars, m, l, got, defs, defBytes, decoderVars, verdict, damaged>>

\* A definition has to be the next one.
Wrapper == Current.slots[Len(got) + 1]
Field == Namespace[Current.orig.slots[Len(got) + 1]]
Resolved == known \o defs

\* A slip: the index of a definition is not compared.
TakesAny(w) == Len(Resolved) < MaxDefinitions
               /\ knownBytes + defBytes + Weight[w.value] <= MaxDictionary
Takes(w) == w.index = Len(Resolved) /\ w.index < MaxDefinitions
            /\ knownBytes + defBytes + Weight[w.value] <= MaxDictionary
Finds(w) == w.index + 1 \in DOMAIN Resolved /\ Namespace[Resolved[w.index + 1]] = Field

DecodeSlot ==
  /\ Reading /\ rpc = "slot" /\ Len(got) < Len(Current.slots)
  /\ \/ /\ Wrapper.tag = "literal" /\ Wrapper.value \notin Dicts
        /\ got' = Append(got, Wrapper.value) /\ UNCHANGED <<defs, defBytes, projected>>
     \/ /\ Wrapper.tag = "wrapped"
        /\ got' = Append(got, Wrapper.value) /\ projected' = projected - LiteralCost
        /\ UNCHANGED <<defs, defBytes>>
     \/ /\ Wrapper.tag = "define" /\ Takes(Wrapper)
        /\ got' = Append(got, Wrapper.value) /\ projected' = projected - DefCost
        /\ defs' = Append(defs, Wrapper.value) /\ defBytes' = defBytes + Weight[Wrapper.value]
     \/ /\ Wrapper.tag = "ref" /\ Finds(Wrapper)
        /\ LET v == Resolved[Wrapper.index + 1]
           IN got' = Append(got, v) /\ projected' = projected + Weight[v] - RefCost
        /\ UNCHANGED <<defs, defBytes>>
  /\ UNCHANGED <<writerVars, rpc, m, l, decoderVars, verdict, damaged>>

RejectSlot ==
  /\ Reading /\ rpc = "slot" /\ Len(got) < Len(Current.slots)
  /\ Wrapper.tag = "literal" => Wrapper.value \in Dicts
  /\ Wrapper.tag = "define" => ~Takes(Wrapper)
  /\ Wrapper.tag = "ref" => ~Finds(Wrapper)
  /\ Wrapper.tag # "wrapped" /\ Reject

\* Only a record that is decoded as a whole adds to the dictionary.
Decoded ==
  /\ Reading /\ rpc = "slot" /\ Len(got) = Len(Current.slots)
  /\ IF Fits(projected)
     THEN Accept(got, projected) /\ known' = Resolved /\ knownBytes' = knownBytes + defBytes
     ELSE Reject

\* A line that is no JSON makes the reader distrust the rest of the member; a
\* line that is missing makes it nothing.
BreakLine ==
  /\ Reading /\ rpc = "line" /\ damaged < MaxDamage /\ damaged' = damaged + 1
  /\ l' = l + 1 /\ failed' \in {failed, TRUE}
  /\ UNCHANGED <<writerVars, rpc, m, decodeVars, known, knownBytes, decoded, verdict>>

NextMember ==
  /\ wpc = "stopped" /\ rpc = "line" /\ l > Len(members[m]) /\ m < Len(members)
  /\ m' = m + 1 /\ l' = 1 /\ known' = <<>> /\ knownBytes' = 0 /\ decoded' = 0 /\ failed' = FALSE
  /\ damaged' = 0 /\ verdict' = NoVerdict /\ UNCHANGED <<writerVars, rpc, decodeVars>>

-----------------------------------------------------------------------------
Export == TakeRecord \/ EndExport \/ EncodeSlot \/ StartMember \/ AddLine \/ SourceFull
Reader == ReadPlain \/ ReadMarked \/ DecodeSlot \/ RejectSlot \/ Decoded \/ BreakLine \/ NextMember
Next == Export \/ Reader

Spec == Init /\ [][Next]_vars

-----------------------------------------------------------------------------
Wrappers == [tag : {"literal", "wrapped"}, value : Values]
            \cup [tag : {"define"}, index : Nat, value : Values] \cup [tag : {"ref"}, index : Nat]

\* Every variable has its type; no dictionary or member exceeds its limits.
TypeOK ==
  /\ wpc \in {"next", "encode", "stopped"} /\ rpc \in {"line", "slot"}
  /\ rec \in Records \cup {NoItem} /\ coded \in Seq(Wrappers) /\ changed \in BOOLEAN
  /\ {values, pending, known, defs, got} \subseteq Seq(Values)
  /\ Len(values) <= MaxDefinitions /\ bytes <= MaxDictionary
  /\ Len(known) <= MaxDefinitions /\ knownBytes <= MaxDictionary
  /\ Len(members) > 0 /\ m \in DOMAIN members /\ l \in Nat \ {0}
  /\ chunkBytes <= ChunkLimit /\ chunkDecoded <= MemberLimit /\ decoded <= MemberLimit
  /\ total <= SourceLimit /\ decodedTotal <= DecodedLimit /\ failed \in BOOLEAN

\* What the reader accepts is what the exporter was given, also when lines of the
\* member are missing or broken: a reference never resolves to another value
\* (evidence.py, EvidenceDecoder.decode, 226-261).
Faithful == verdict.ok => verdict.slots = verdict.line.slots

\* The reader rejects a line only if one of the same member did not arrive: each
\* member is complete in itself, and no limit of the reader is tighter than what
\* the exporter allowed (bundle.py, spool_chunks, 222-253; evidence.py, 161-172).
RejectsNeedDamage == failed \/ ~verdict.ok => damaged > 0
=============================================================================
