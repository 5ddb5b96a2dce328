------------------------------ MODULE CodecProofs ------------------------------
(* The theorems about exported evidence, for any set of values and records, any  *)
(* limits, and any lines of a member that do not arrive: what is read is what was *)
(* written, nothing exceeds its limits, and only damage makes the reader reject.  *)
EXTENDS EvidenceCodec, SequenceTheorems, TLAPS

-----------------------------------------------------------------------------
(* What the constants are; how a record's slots lie in its line is asked for by *)
(* one proof only.                                                              *)

LEMMA Constants ==
  /\ \A v \in Values : Weight[v] \in Nat
  /\ \A r \in Records : r \in Item
  /\ RefCost \in Nat /\ DefCost \in Nat /\ LiteralCost \in Nat /\ MarkCost \in Nat
  /\ MaxDefinitions \in Nat /\ MaxDictionary \in Nat /\ MaxRecord \in Nat /\ MemberLimit \in Nat
  /\ DecodedLimit \in Nat /\ SourceLimit \in Nat /\ ChunkLimit \in Nat
  /\ MaxRecord <= ChunkLimit /\ MaxRecord <= MemberLimit
  BY CodecAssumption

-----------------------------------------------------------------------------
(* Sequences. *)

LEMMA Concatenated ==
  ASSUME NEW S, NEW s \in Seq(S), NEW t \in Seq(S)
  PROVE  /\ s \o t \in Seq(S) /\ Len(s \o t) = Len(s) + Len(t)
         /\ \A i \in DOMAIN s : i \in DOMAIN (s \o t) /\ (s \o t)[i] = s[i]
  OBVIOUS

LEMMA Appended ==
  ASSUME NEW S, NEW s \in Seq(S), NEW x \in S
  PROVE  /\ Append(s, x) \in Seq(S) /\ Len(Append(s, x)) = Len(s) + 1 /\ Len(s) \in Nat
         /\ Append(s, x)[Len(s) + 1] = x
         /\ \A i \in DOMAIN s : Append(s, x)[i] = s[i]
         /\ DOMAIN Append(s, x) = DOMAIN s \cup {Len(s) + 1}
  OBVIOUS

-----------------------------------------------------------------------------
(* One dictionary explains every line of a member: a definition has the index *)
(* of its value in it, and a reference stands for the value at its index.     *)

IsEntry(D, index, v) == index + 1 \in DOMAIN D /\ D[index + 1] = v

\* What stands for the value v of a slot.
Explains(D, w, v) ==
  \/ w.tag \in {"literal", "wrapped"} /\ w.value = v
  \/ w.tag = "define" /\ w.index \in Nat /\ w.value = v /\ IsEntry(D, w.index, v)
  \/ w.tag = "ref" /\ w.index \in Nat /\ IsEntry(D, w.index, v)

ExplainsLine(D, line) ==
  /\ line.orig.slots \in Seq(Values)
  /\ line.slots \in Seq(Wrappers) /\ Len(line.slots) = Len(line.orig.slots)
  /\ \A j \in DOMAIN line.slots : Explains(D, line.slots[j], line.orig.slots[j])
  /\ ~line.marked => \A j \in DOMAIN line.slots : line.slots[j].value = line.orig.slots[j]

ExplainsMember(D, member) == \A n \in DOMAIN member : ExplainsLine(D, member[n])

\* A longer dictionary explains as much.
Extends(D, E) == \A i \in DOMAIN D : i \in DOMAIN E /\ E[i] = D[i]

LEMMA ExplainedByMore ==
  ASSUME NEW D, NEW E, Extends(D, E)
  PROVE  /\ \A w, v : Explains(D, w, v) => Explains(E, w, v)
         /\ \A member : ExplainsMember(D, member) => ExplainsMember(E, member)
<1>1. \A w, v : Explains(D, w, v) => Explains(E, w, v)
  BY DEF Explains, IsEntry, Extends
<1>2. \A line : ExplainsLine(D, line) => ExplainsLine(E, line)
  BY <1>1 DEF ExplainsLine
<1>3. QED
  BY <1>1, <1>2 DEF ExplainsMember

-----------------------------------------------------------------------------
(* The writer. *)

Lines == [orig : Item, marked : BOOLEAN, size : Int, slots : Seq(Wrappers)]

WriterTypes ==
  /\ wpc \in {"next", "encode", "stopped"} /\ rec \in Item
  /\ values \in Seq(Values) /\ pending \in Seq(Values) /\ coded \in Seq(Wrappers)
  /\ changed \in BOOLEAN /\ size \in Int
  /\ members \in Seq(Seq(Lines)) /\ Len(members) > 0

\* The record under way is explained by what is defined so far, its own
\* definitions included.
CodingOK ==
  wpc = "encode" =>
    /\ Len(coded) <= Len(rec.slots)
    /\ \A j \in DOMAIN coded : Explains(values \o pending, coded[j], rec.slots[j])

\* Each member has its dictionary; that of the last one is the encoder's.
MembersOK ==
  \A k \in DOMAIN members :
    \E D \in Seq(Values) : ExplainsMember(D, members[k]) /\ (k = Len(members) => D = values)

WriterInv == WriterTypes /\ CodingOK /\ MembersOK

LEMMA NoItemIsItem == NoItem \in Item
  BY DEF NoItem, Item

LEMMA BeginKeeps ==
  ASSUME NEW r \in Item, Begin(r), values' \in Seq(Values), members' \in Seq(Seq(Lines)), Len(members') > 0, MembersOK'
  PROVE  WriterInv'
<1>1. wpc' = "encode" /\ rec' = r /\ coded' = <<>> /\ pending' = <<>> /\ changed' \in BOOLEAN /\ size' \in Int
  BY Constants DEF Begin, Item
<1>2. CodingOK'
  <2>1. r.slots \in Seq(Values)
    BY DEF Item
  <2>2. QED
    BY <1>1, <2>1 DEF CodingOK
<1>3. QED
  BY <1>1, <1>2 DEF WriterInv, WriterTypes

LEMMA WriterInit == Init => WriterInv
<1> SUFFICES ASSUME Init PROVE WriterInv
  OBVIOUS
<1>1. members = <<<<>>>> /\ values = <<>> /\ wpc = "next"
  BY DEF Init
<1>2. members \in Seq(Seq(Lines)) /\ Len(members) = 1 /\ DOMAIN members = {1} /\ members[1] = <<>>
  <2>1. <<>> \in Seq(Lines)
    OBVIOUS
  <2>2. QED
    BY <1>1, <2>1
<1>3. /\ rec \in Item /\ pending \in Seq(Values) /\ values \in Seq(Values) /\ coded \in Seq(Wrappers)
      /\ changed \in BOOLEAN /\ size \in Int
  <2>1. rec = NoItem /\ pending = <<>> /\ values = <<>> /\ coded = <<>> /\ changed = FALSE /\ size = 0
    BY DEF Init
  <2>2. <<>> \in Seq(Values) /\ <<>> \in Seq(Wrappers) /\ size \in Int
    BY <2>1
  <2>3. QED
    BY <2>1, <2>2, NoItemIsItem
<1>4. WriterTypes
  BY <1>1, <1>2, <1>3 DEF WriterTypes
<1>5. ExplainsMember(<<>>, <<>>) /\ <<>> \in Seq(Values)
  BY DEF ExplainsMember
<1>6. MembersOK
  BY <1>1, <1>2, <1>5 DEF MembersOK
<1>7. QED
  BY <1>1, <1>4, <1>6 DEF WriterInv, CodingOK

LEMMA EncodeSlotKeeps ==
  ASSUME WriterInv, EncodeSlot
  PROVE  WriterInv'
<1>0. /\ wpc = "encode" /\ Len(coded) < Len(rec.slots) /\ UNCHANGED <<wpc, rec, values, members>>
      /\ Refer \/ (Fresh /\ DefineSlot) \/ (Fresh /\ ~Room /\ Keep)
  BY DEF EncodeSlot, encoderVars, exportVars
<1>1. /\ rec.slots \in Seq(Values) /\ coded \in Seq(Wrappers) /\ values \in Seq(Values) /\ pending \in Seq(Values)
      /\ Slot = rec.slots[Len(coded) + 1] /\ Slot \in Values /\ Weight[Slot] \in Int
      /\ size \in Int /\ RefCost \in Int /\ DefCost \in Int /\ LiteralCost \in Int
  <2>1. rec.slots \in Seq(Values)
    BY DEF WriterInv, WriterTypes, Item
  <2>2. coded \in Seq(Wrappers) /\ values \in Seq(Values) /\ pending \in Seq(Values) /\ size \in Int
    BY DEF WriterInv, WriterTypes
  <2>3. Slot = rec.slots[Len(coded) + 1] /\ Slot \in Values
    BY <1>0, <2>1, <2>2 DEF Slot
  <2>4. Weight[Slot] \in Int /\ RefCost \in Int /\ DefCost \in Int /\ LiteralCost \in Int
    BY <2>3, Constants
  <2>5. QED
    BY <2>1, <2>2, <2>3, <2>4
<1>2. MembersOK'
  BY <1>0 DEF WriterInv, MembersOK
<1>3. SUFFICES
        /\ coded' \in Seq(Wrappers) /\ pending' \in Seq(Values) /\ changed' \in BOOLEAN /\ size' \in Int
        /\ Extends(values \o pending, values \o pending')
        /\ \E w \in Wrappers : coded' = Append(coded, w) /\ Explains(values \o pending', w, Slot)
  <2>1. PICK w \in Wrappers : coded' = Append(coded, w) /\ Explains(values \o pending', w, Slot)
    BY <1>3
  <2>2. Len(coded') <= Len(rec.slots)
    BY <1>0, <1>1, <2>1, Appended
  <2>3. ASSUME NEW j \in DOMAIN coded' PROVE Explains(values \o pending', coded'[j], rec.slots[j])
    <3>1. CASE j = Len(coded) + 1
      BY <1>1, <2>1, <3>1, Appended
    <3>2. CASE j # Len(coded) + 1
      <4>1. j \in DOMAIN coded /\ coded'[j] = coded[j]
        BY <1>1, <2>1, <3>2, Appended
      <4>2. Explains(values \o pending, coded[j], rec.slots[j])
        BY <1>0, <4>1 DEF WriterInv, CodingOK
      <4>3. QED
        BY <1>3, <4>1, <4>2, ExplainedByMore
    <3>3. QED
      BY <3>1, <3>2
  <2>4. CodingOK'
    BY <1>0, <2>2, <2>3 DEF CodingOK
  <2>5. WriterTypes'
    BY <1>0, <1>3 DEF WriterInv, WriterTypes
  <2>6. QED
    BY <1>2, <2>4, <2>5 DEF WriterInv
<1>4. CASE Refer
  <2>1. PICK i \in DOMAIN Defined : Defined[i] = Slot /\ coded' = Append(coded, Ref(i - 1))
    BY <1>4 DEF Refer
  <2>2. Defined = values \o pending /\ Defined \in Seq(Values) /\ i \in Nat /\ i > 0
    BY <1>1, <2>1, Concatenated DEF Defined
  <2>3. i - 1 \in Nat /\ (i - 1) + 1 = i
    BY <2>2
  <2>4. Ref(i - 1) \in Wrappers /\ Ref(i - 1).tag = "ref" /\ Ref(i - 1).index = i - 1
    BY <2>3 DEF Ref, Wrappers
  <2>5. Explains(values \o pending, Ref(i - 1), Slot)
    BY <2>1, <2>2, <2>3, <2>4 DEF Explains, IsEntry
  <2>6. pending' = pending /\ changed' = TRUE /\ size' \in Int
    BY <1>1, <1>4 DEF Refer
  <2>7. QED
    BY <1>1, <2>1, <2>4, <2>5, <2>6, Appended DEF Extends
<1>5. CASE DefineSlot
  <2> DEFINE w == Define(Len(Defined), Slot)
  <2>1. /\ coded' = Append(coded, w) /\ pending' = Append(pending, Slot) /\ changed' = TRUE
        /\ size' \in Int
    BY <1>1, <1>5 DEF DefineSlot
  <2>2. Defined = values \o pending /\ Len(Defined) = Len(values) + Len(pending) /\ Len(Defined) \in Nat
    BY <1>1, Concatenated DEF Defined
  <2>3. w \in Wrappers /\ w.tag = "define" /\ w.index = Len(Defined) /\ w.value = Slot
    BY <1>1, <2>2 DEF Define, Wrappers
  <2>4. /\ values \o pending' \in Seq(Values) /\ pending' \in Seq(Values)
        /\ (values \o pending')[Len(Defined) + 1] = Slot
        /\ Len(Defined) + 1 \in DOMAIN (values \o pending')
        /\ Extends(values \o pending, values \o pending')
    BY <1>1, <2>1, <2>2 DEF Extends
  <2> HIDE DEF w
  <2>5. Explains(values \o pending', w, Slot)
    BY <2>2, <2>3, <2>4 DEF Explains, IsEntry
  <2>6. QED
    BY <1>1, <2>1, <2>3, <2>4, <2>5, Appended
<1>6. CASE Keep
  <2>1. /\ Literal(Slot) \in Wrappers /\ Literal(Slot).tag = "literal" /\ Literal(Slot).value = Slot
        /\ Wrapped(Slot) \in Wrappers /\ Wrapped(Slot).tag = "wrapped" /\ Wrapped(Slot).value = Slot
    BY <1>1 DEF Literal, Wrapped, Wrappers
  <2>2. \E w \in {Literal(Slot), Wrapped(Slot)} : coded' = Append(coded, w)
    BY <1>6 DEF Keep
  <2>3. UNCHANGED <<pending, changed>> /\ size' \in Int
    BY <1>1, <1>6 DEF Keep
  <2>4. \A w \in {Literal(Slot), Wrapped(Slot)} : w \in Wrappers /\ Explains(values \o pending, w, Slot)
    BY <2>1 DEF Explains
  <2>5. PICK w \in {Literal(Slot), Wrapped(Slot)} : coded' = Append(coded, w)
    BY <2>2
  <2>6. coded' \in Seq(Wrappers)
    BY <1>1, <2>4, <2>5, Appended
  <2>7. changed' \in BOOLEAN /\ pending' \in Seq(Values) /\ Extends(values \o pending, values \o pending')
    BY <2>3 DEF Extends, WriterInv, WriterTypes
  <2>8. QED
    BY <2>3, <2>4, <2>5, <2>6, <2>7
<1>7. QED
  BY <1>0, <1>4, <1>5, <1>6

\* A finished line is explained by the dictionary that the encoder then has.
LEMMA LineIsExplained ==
  ASSUME WriterInv, Encoded, AddLine
  PROVE  /\ Line \in Lines /\ values' \in Seq(Values)
         /\ Extends(values, values') /\ ExplainsLine(values', Line)
<1>1. /\ rec \in Item /\ rec.slots \in Seq(Values) /\ Len(coded) = Len(rec.slots) /\ coded \in Seq(Wrappers)
      /\ \A j \in DOMAIN coded : Explains(values \o pending, coded[j], rec.slots[j])
      /\ values \in Seq(Values) /\ pending \in Seq(Values)
  BY DEF WriterInv, WriterTypes, Encoded, CodingOK, Item
<1>2. CASE Encodes
  <2>1. Line = [orig |-> rec, marked |-> TRUE, size |-> size, slots |-> coded]
    BY <1>2 DEF Line, Encodes
  <2>2. Line \in Lines
    BY <1>1, <2>1 DEF Lines, WriterInv, WriterTypes
  <2>3. values' = values \o pending
    BY <1>2 DEF AddLine, Learn
  <2>4. values' \in Seq(Values) /\ Extends(values, values')
    BY <1>1, <2>3, Concatenated DEF Extends
  <2>5. ExplainsLine(values', Line)
    BY <1>1, <2>1, <2>3 DEF ExplainsLine
  <2>6. QED
    BY <2>2, <2>4, <2>5
<1>3. CASE ~Encodes
  <2> DEFINE plain == [i \in DOMAIN rec.slots |-> Literal(rec.slots[i])]
  <2>1. Line = [orig |-> rec, marked |-> FALSE, size |-> rec.size, slots |-> plain]
    BY <1>3 DEF Line, Encodes, WriterInv, WriterTypes
  <2>2. \A j \in DOMAIN rec.slots : plain[j] \in Wrappers /\ plain[j].tag = "literal" /\ plain[j].value = rec.slots[j]
    BY <1>1 DEF Literal, Wrappers
  <2>3. plain \in Seq(Wrappers) /\ Len(plain) = Len(rec.slots) /\ DOMAIN plain = DOMAIN rec.slots
    <3>1. DOMAIN rec.slots = 1 .. Len(rec.slots) /\ Len(rec.slots) \in Nat
      BY <1>1
    <3>2. plain \in [1 .. Len(rec.slots) -> Wrappers]
      BY <2>2, <3>1
    <3> HIDE DEF plain
    <3>3. QED
      BY <3>1, <3>2
  <2> HIDE DEF plain
  <2>4. Line \in Lines
    BY <1>1, <2>1, <2>3 DEF Lines, Item
  <2>5. values' = values
    BY <1>3 DEF AddLine, encoderVars
  <2>6. \A j \in DOMAIN plain : Explains(values', plain[j], rec.slots[j])
    BY <2>2, <2>3 DEF Explains
  <2>7. ExplainsLine(values', Line)
    BY <1>1, <2>1, <2>2, <2>3, <2>6 DEF ExplainsLine
  <2>8. QED
    BY <1>1, <2>4, <2>5, <2>7 DEF Extends
<1>4. QED
  BY <1>2, <1>3

LEMMA WriterStep ==
  ASSUME WriterInv, Export
  PROVE  WriterInv'
<1> USE DEF encodeVars, encoderVars, exportVars
<1>1. CASE TakeRecord
  <2>1. PICK r \in Records : Begin(r)
    BY <1>1 DEF TakeRecord
  <2>2. r \in Item
    BY Constants
  <2>3. UNCHANGED <<values, members>> /\ MembersOK'
    BY <1>1 DEF TakeRecord, WriterInv, MembersOK
  <2>4. QED
    BY <2>1, <2>2, <2>3, BeginKeeps DEF WriterInv, WriterTypes
<1>2. CASE EndExport \/ SourceFull
  <2>1. wpc' = "stopped" /\ UNCHANGED <<rec, values, pending, coded, changed, size, members>>
    BY <1>2 DEF EndExport, SourceFull
  <2>2. QED
    BY <2>1 DEF WriterInv, WriterTypes, CodingOK, MembersOK
<1>3. CASE EncodeSlot
  BY <1>3, EncodeSlotKeeps
<1>4. CASE StartMember
  <2>1. Begin(rec) /\ values' = <<>> /\ members' = Append(members, <<>>) /\ rec \in Item
    BY <1>4 DEF StartMember, WriterInv, WriterTypes
  <2>2. /\ members' \in Seq(Seq(Lines)) /\ Len(members') = Len(members) + 1 /\ Len(members) \in Nat
        /\ members'[Len(members) + 1] = <<>> /\ \A k \in DOMAIN members : members'[k] = members[k]
        /\ DOMAIN members' = DOMAIN members \cup {Len(members) + 1}
    <3>1. members \in Seq(Seq(Lines)) /\ <<>> \in Seq(Lines)
      BY DEF WriterInv, WriterTypes
    <3>2. QED
      BY <2>1, <3>1, Appended
  <2>3. ASSUME NEW k \in DOMAIN members'
        PROVE  \E D \in Seq(Values) : ExplainsMember(D, members'[k]) /\ (k = Len(members') => D = values')
    <3>1. CASE k = Len(members) + 1
      <4>1. ExplainsMember(<<>>, members'[k]) /\ <<>> \in Seq(Values)
        BY <2>2, <3>1 DEF ExplainsMember
      <4>2. QED
        BY <2>1, <4>1
    <3>2. CASE k # Len(members) + 1
      <4>1. k \in DOMAIN members /\ members'[k] = members[k] /\ k # Len(members')
        BY <2>2, <3>2
      <4>2. QED
        BY <4>1 DEF WriterInv, MembersOK
    <3>3. QED
      BY <3>1, <3>2
  <2>4. MembersOK'
    BY <2>3 DEF MembersOK
  <2>5. QED
    BY <2>1, <2>2, <2>4, BeginKeeps DEF WriterInv, WriterTypes
<1>5. CASE AddLine
  <2>1. /\ Encoded /\ wpc' = "next" /\ UNCHANGED <<rec, pending, coded, changed, size>>
        /\ members' = [members EXCEPT ![Len(members)] = Append(@, Line)]
    BY <1>5 DEF AddLine
  <2>2. Line \in Lines /\ values' \in Seq(Values) /\ Extends(values, values') /\ ExplainsLine(values', Line)
    BY <1>5, <2>1, LineIsExplained
  <2>3. members \in Seq(Seq(Lines)) /\ Len(members) \in DOMAIN members /\ members[Len(members)] \in Seq(Lines)
    BY DEF WriterInv, WriterTypes
  <2> DEFINE old == members[Len(members)]
  <2>4. /\ Append(old, Line) \in Seq(Lines) /\ Len(old) \in Nat /\ Append(old, Line)[Len(old) + 1] = Line
        /\ \A n \in DOMAIN old : Append(old, Line)[n] = old[n]
        /\ DOMAIN Append(old, Line) = DOMAIN old \cup {Len(old) + 1}
    BY <2>2, <2>3, Appended
  <2>5. /\ members' \in Seq(Seq(Lines)) /\ Len(members') = Len(members) /\ DOMAIN members' = DOMAIN members
        /\ members'[Len(members)] = Append(old, Line)
        /\ \A k \in DOMAIN members : k # Len(members) => members'[k] = members[k]
    BY <2>1, <2>3, <2>4
  <2>6. ExplainsMember(values', Append(old, Line))
    <3>1. ExplainsMember(values, old)
      BY <2>3 DEF WriterInv, MembersOK
    <3>2. ExplainsMember(values', old)
      BY <2>2, <3>1, ExplainedByMore
    <3>3. QED
      BY <2>2, <2>4, <3>2 DEF ExplainsMember
  <2>7. ASSUME NEW k \in DOMAIN members'
        PROVE  \E D \in Seq(Values) : ExplainsMember(D, members'[k]) /\ (k = Len(members') => D = values')
    <3>1. CASE k = Len(members)
      BY <2>2, <2>5, <2>6, <3>1
    <3>2. CASE k # Len(members)
      BY <2>5, <3>2 DEF WriterInv, MembersOK
    <3>3. QED
      BY <3>1, <3>2
  <2>8. MembersOK'
    BY <2>7 DEF MembersOK
  <2>9. QED
    BY <2>1, <2>2, <2>5, <2>8 DEF WriterInv, WriterTypes, CodingOK
<1>6. QED
  BY <1>1, <1>2, <1>3, <1>4, <1>5 DEF Export

-----------------------------------------------------------------------------
(* The reader, which starts when the export has ended: what it knows is a part *)
(* of the dictionary that explains its member.                                 *)

Unread == rpc = "line" /\ m = 1 /\ known = <<>> /\ defs = <<>> /\ got = <<>>

ReaderTypes ==
  /\ rpc \in {"line", "slot"} /\ m \in DOMAIN members /\ l \in Nat \ {0}
  /\ known \in Seq(Values) /\ defs \in Seq(Values) /\ got \in Seq(Values)
  /\ rpc = "line" => defs = <<>> /\ got = <<>>

KnownOK ==
  wpc = "stopped" => \E D \in Seq(Values) : ExplainsMember(D, members[m]) /\ Extends(known \o defs, D)

\* What has been decoded of a line is what the line was made of.
GotOK ==
  rpc = "slot" =>
    /\ l \in DOMAIN members[m] /\ Len(got) <= Len(Current.slots)
    /\ \A j \in DOMAIN got : got[j] = Current.orig.slots[j]

ReaderInv == (wpc # "stopped" => Unread) /\ ReaderTypes /\ KnownOK /\ GotOK /\ Faithful

LEMMA ReaderInit == Init => ReaderInv
<1> SUFFICES ASSUME Init PROVE ReaderInv
  OBVIOUS
<1>1. /\ rpc = "line" /\ m = 1 /\ l = 1 /\ known = <<>> /\ defs = <<>> /\ got = <<>> /\ members = <<<<>>>>
      /\ wpc = "next" /\ verdict = NoVerdict
  BY DEF Init
<1>2. m \in DOMAIN members /\ l \in Nat \ {0} /\ <<>> \in Seq(Values)
  BY <1>1
<1>3. verdict.slots = verdict.line.slots
  BY <1>1 DEF NoVerdict, NoItem
<1>4. QED
  BY <1>1, <1>2, <1>3 DEF ReaderInv, Unread, ReaderTypes, KnownOK, GotOK, Faithful

\* While the export runs, nothing is read; when it ends, the reader knows nothing.
LEMMA ReaderDuringExport ==
  ASSUME WriterInv, WriterInv', ReaderInv, Export
  PROVE  ReaderInv'
<1> USE DEF encodeVars, encoderVars, exportVars, readerVars, decodeVars, decoderVars
<1>1. wpc # "stopped" /\ UNCHANGED readerVars
  BY DEF Export, TakeRecord, EndExport, EncodeSlot, StartMember, AddLine, SourceFull, Encoded
<1>2. Unread /\ Unread'
  BY <1>1 DEF ReaderInv, Unread
<1>3. ReaderTypes'
  <2>1. 1 \in DOMAIN members'
    BY DEF WriterInv, WriterTypes
  <2>2. QED
    BY <1>1, <1>2, <2>1 DEF ReaderInv, ReaderTypes, Unread
<1>4. KnownOK'
  <2>1. PICK D \in Seq(Values) : ExplainsMember(D, members'[1])
    <3>1. 1 \in DOMAIN members'
      BY DEF WriterInv, WriterTypes
    <3>2. QED
      BY <3>1 DEF WriterInv, MembersOK
  <2>2. known' \o defs' = <<>>
    BY <1>2 DEF Unread
  <2>3. Extends(<<>>, D)
    BY DEF Extends
  <2>4. QED
    BY <1>2, <2>1, <2>2, <2>3 DEF KnownOK, Unread
<1>5. QED
  BY <1>1, <1>2, <1>3, <1>4 DEF ReaderInv, GotOK, Faithful, Unread

\* A line that is read is explained by a dictionary that the reader knows a part of.
LEMMA CurrentIsExplained ==
  ASSUME WriterInv, ReaderInv, Reading
  PROVE  /\ l \in DOMAIN members[m] /\ Current \in Lines
         /\ \E D \in Seq(Values) : ExplainsMember(D, members[m]) /\ Extends(known \o defs, D) /\ ExplainsLine(D, Current)
<1>1. members[m] \in Seq(Lines)
  BY DEF ReaderInv, ReaderTypes, WriterInv, WriterTypes
<1>2. l \in DOMAIN members[m]
  BY <1>1 DEF Reading, ReaderInv, ReaderTypes
<1>3. Current \in Lines
  BY <1>1, <1>2 DEF Current
<1>4. PICK D \in Seq(Values) : ExplainsMember(D, members[m]) /\ Extends(known \o defs, D)
  BY DEF Reading, ReaderInv, KnownOK
<1>5. ExplainsLine(D, Current)
  BY <1>2, <1>4 DEF ExplainsMember, Current
<1>6. QED
  BY <1>2, <1>3, <1>4, <1>5

\* After a line, whatever became of it.
LEMMA AfterLine ==
  ASSUME WriterInv, ReaderInv, Reading, UNCHANGED <<writerVars, m>>, rpc' = "line", l' = l + 1, NoDecode,
         known' = known \/ known' = known \o defs,
         verdict'.ok => verdict'.slots = verdict'.line.slots
  PROVE  ReaderInv'
<1> USE DEF writerVars, exportVars
<1>0. wpc = "stopped" /\ UNCHANGED <<wpc, members>> /\ defs' = <<>> /\ got' = <<>>
  BY DEF Reading, NoDecode
<1>1. known \in Seq(Values) /\ defs \in Seq(Values) /\ known \o defs \in Seq(Values) /\ l \in Nat /\ l > 0
  BY Concatenated DEF ReaderInv, ReaderTypes
<1>2. known' \in Seq(Values)
  BY <1>1
<1>3. ReaderTypes'
  <2>1. l' \in Nat \ {0}
    BY <1>1
  <2>2. <<>> \in Seq(Values)
    OBVIOUS
  <2>3. QED
    BY <1>0, <1>2, <2>1, <2>2 DEF ReaderInv, ReaderTypes
<1>4. KnownOK'
  <2>1. PICK D \in Seq(Values) : ExplainsMember(D, members[m]) /\ Extends(known \o defs, D)
    BY <1>0 DEF ReaderInv, KnownOK
  <2>2. known' \o defs' = known'
    BY <1>0, <1>2
  <2>3. Extends(known, known \o defs)
    BY <1>1, Concatenated DEF Extends
  <2>4. Extends(known', D)
    BY <2>1, <2>3 DEF Extends
  <2>5. QED
    BY <1>0, <2>1, <2>2, <2>4 DEF KnownOK
<1>5. QED
  BY <1>0, <1>3, <1>4 DEF ReaderInv, GotOK, Faithful

LEMMA RejectKeeps == ASSUME WriterInv, ReaderInv, Reading, Reject PROVE ReaderInv'
  BY AfterLine DEF Reject

\* A slot that is decoded is the next of the record, and what is defined stays a
\* part of any dictionary that explains the line.
LEMMA DecodeSlotGrows ==
  ASSUME WriterInv, ReaderInv, DecodeSlot,
         NEW D \in Seq(Values), Extends(known \o defs, D), ExplainsLine(D, Current)
  PROVE  /\ got' = Append(got, Current.orig.slots[Len(got) + 1])
         /\ defs' \in Seq(Values) /\ Extends(known \o defs', D)
<1>0. Reading /\ rpc = "slot" /\ Len(got) < Len(Current.slots)
  BY DEF DecodeSlot
<1> DEFINE k == Len(got) + 1
           v == Current.orig.slots[k]
<1>4. /\ got \in Seq(Values) /\ known \in Seq(Values) /\ defs \in Seq(Values)
      /\ Current.slots \in Seq(Wrappers) /\ Current.orig.slots \in Seq(Values)
      /\ Len(Current.slots) = Len(Current.orig.slots)
  BY DEF ReaderInv, ReaderTypes, ExplainsLine
<1>5. k \in DOMAIN Current.slots /\ v \in Values /\ Wrapper = Current.slots[k]
  BY <1>0, <1>4 DEF Wrapper
<1>6. Explains(D, Wrapper, v)
  BY <1>5 DEF ExplainsLine
<1>7. Resolved = known \o defs /\ Resolved \in Seq(Values) /\ Len(Resolved) \in Nat /\ Extends(Resolved, D)
  BY <1>4, Concatenated DEF Resolved
<1> HIDE DEF k, v
<1>8. SUFFICES got' = Append(got, v) /\ defs' \in Seq(Values) /\ Extends(known \o defs', D)
  BY <1>8 DEF k, v
<1>9. CASE Wrapper.tag \in {"literal", "wrapped"}
  BY <1>4, <1>6, <1>9 DEF DecodeSlot, Explains
<1>10. CASE Wrapper.tag = "define"
  <2>1. /\ Wrapper.index = Len(Resolved) /\ got' = Append(got, Wrapper.value) /\ defs' = Append(defs, Wrapper.value)
        /\ Wrapper.value = v /\ IsEntry(D, Wrapper.index, v)
    BY <1>6, <1>10 DEF DecodeSlot, Takes, Explains
  <2>2. known \o defs' = Append(known \o defs, v) /\ defs' \in Seq(Values)
    <3>1. <<v>> \in Seq(Values)
      BY <1>5
    <3>2. defs' = defs \o <<v>> /\ Append(known \o defs, v) = (known \o defs) \o <<v>>
      BY <1>4, <1>5, <1>7, <2>1, AppendIsConcat
    <3>3. (known \o defs) \o <<v>> = known \o (defs \o <<v>>)
      BY <1>4, <3>1, ConcatAssociative
    <3>4. known \o defs' = Append(known \o defs, v)
      BY <3>2, <3>3, Zenon
    <3>5. defs' \in Seq(Values)
      BY <1>4, <1>5, <2>1, Appended
    <3>6. QED
      BY <3>4, <3>5
  <2>3. ASSUME NEW i \in DOMAIN Append(Resolved, v) PROVE i \in DOMAIN D /\ D[i] = Append(Resolved, v)[i]
    <3>1. CASE i = Len(Resolved) + 1
      BY <1>5, <1>7, <2>1, <3>1, Appended DEF IsEntry
    <3>2. CASE i # Len(Resolved) + 1
      BY <1>5, <1>7, <3>2, Appended DEF Extends
    <3>3. QED
      BY <3>1, <3>2
  <2>4. Extends(known \o defs', D)
    BY <1>7, <2>2, <2>3 DEF Extends
  <2>5. QED
    BY <2>1, <2>2, <2>4
<1>11. CASE Wrapper.tag = "ref"
  <2>1. /\ Wrapper.index + 1 \in DOMAIN Resolved /\ got' = Append(got, Resolved[Wrapper.index + 1]) /\ defs' = defs
        /\ IsEntry(D, Wrapper.index, v)
    BY <1>6, <1>11 DEF DecodeSlot, Finds, Explains
  <2>2. Resolved[Wrapper.index + 1] = v
    BY <1>7, <2>1 DEF Extends, IsEntry
  <2>3. QED
    BY <1>4, <2>1, <2>2
<1>12. QED
  BY <1>6, <1>9, <1>10, <1>11 DEF Explains

LEMMA DecodeSlotKeeps ==
  ASSUME WriterInv, ReaderInv, DecodeSlot
  PROVE  ReaderInv'
<1>0. /\ Reading /\ rpc = "slot" /\ Len(got) < Len(Current.slots)
      /\ UNCHANGED <<writerVars, rpc, m, l, decoderVars, verdict>>
  BY DEF DecodeSlot
<1>1. UNCHANGED <<wpc, members, known, Current>>
  BY <1>0 DEF writerVars, exportVars, decoderVars, Current
<1>2. PICK D \in Seq(Values) : ExplainsMember(D, members[m]) /\ Extends(known \o defs, D) /\ ExplainsLine(D, Current)
  BY <1>0, CurrentIsExplained
<1>3. Current \in Lines /\ l \in DOMAIN members[m]
  BY <1>0, CurrentIsExplained
<1> DEFINE k == Len(got) + 1
           v == Current.orig.slots[k]
<1>4. /\ got \in Seq(Values) /\ Current.slots \in Seq(Wrappers) /\ Current.orig.slots \in Seq(Values)
      /\ Len(Current.slots) = Len(Current.orig.slots)
  BY <1>2, <1>3 DEF ReaderInv, ReaderTypes, ExplainsLine
<1>5. v \in Values
  BY <1>0, <1>4
<1>6. got' = Append(got, v) /\ defs' \in Seq(Values) /\ Extends(known \o defs', D)
  BY <1>2, DecodeSlotGrows
<1> HIDE DEF k, v
<1>7. /\ got' \in Seq(Values) /\ Len(got') = Len(got) + 1 /\ got'[k] = v
      /\ DOMAIN got' = DOMAIN got \cup {k} /\ \A j \in DOMAIN got : got'[j] = got[j]
  BY <1>4, <1>5, <1>6, Appended DEF k
<1>8. ReaderTypes'
  BY <1>0, <1>1, <1>6, <1>7 DEF ReaderInv, ReaderTypes
<1>9. KnownOK'
  BY <1>0, <1>1, <1>2, <1>6 DEF KnownOK
<1>10. \A j \in DOMAIN got' : got'[j] = Current.orig.slots[j]
  BY <1>0, <1>7 DEF ReaderInv, GotOK, v
<1>11. Len(got') <= Len(Current.slots)
  BY <1>0, <1>4, <1>7
<1>12. GotOK'
  BY <1>0, <1>1, <1>3, <1>10, <1>11 DEF GotOK
<1>13. QED
  BY <1>0, <1>1, <1>8, <1>9, <1>12 DEF ReaderInv, Faithful, Reading

LEMMA ReaderStep ==
  ASSUME WriterInv, ReaderInv, Reader
  PROVE  ReaderInv'
<1> USE DEF decodeVars, decoderVars
<1>1. CASE ReadPlain
  <2>1. Reading /\ rpc = "line" /\ ~Current.marked
    BY <1>1 DEF ReadPlain
  <2>2. CASE Reject
    BY <2>1, <2>2, RejectKeeps
  <2>3. CASE Accept([i \in DOMAIN Current.slots |-> Current.slots[i].value], Current.size) /\ UNCHANGED known
    <3>1. PICK D \in Seq(Values) : ExplainsLine(D, Current)
      BY <2>1, CurrentIsExplained
    <3>2. /\ Current.slots \in Seq(Wrappers) /\ Current.orig.slots \in Seq(Values)
          /\ Len(Current.slots) = Len(Current.orig.slots)
          /\ \A j \in DOMAIN Current.slots : Current.slots[j].value = Current.orig.slots[j]
      BY <2>1, <3>1 DEF ExplainsLine
    <3>3. DOMAIN Current.slots = DOMAIN Current.orig.slots
      BY <3>2
    <3>4. [i \in DOMAIN Current.slots |-> Current.slots[i].value] = Current.orig.slots
      <4>1. Current.orig.slots = [i \in DOMAIN Current.orig.slots |-> Current.orig.slots[i]]
        BY <3>2
      <4>2. [i \in DOMAIN Current.slots |-> Current.slots[i].value]
              = [i \in DOMAIN Current.orig.slots |-> Current.orig.slots[i]]
        BY <3>2, <3>3, Zenon
      <4>3. QED
        BY <4>1, <4>2, Zenon
    <3>5. verdict'.slots = verdict'.line.slots
      BY <2>3, <3>4 DEF Accept
    <3>6. QED
      BY <2>1, <2>3, <3>5, AfterLine DEF Accept
  <2>4. QED
    BY <1>1, <2>2, <2>3 DEF ReadPlain
<1>2. CASE ReadMarked
  <2>1. Reading /\ rpc = "line"
    BY <1>2 DEF ReadMarked
  <2>2. CASE Reject
    BY <2>1, <2>2, RejectKeeps
  <2>3. CASE rpc' = "slot" /\ UNCHANGED <<writerVars, m, l, got, defs, defBytes, decoderVars, verdict, damaged>>
    <3>1. UNCHANGED <<wpc, members, known, Current>>
      BY <2>3 DEF writerVars, exportVars, Current
    <3>2. l \in DOMAIN members[m] /\ Current \in Lines
      BY <2>1, CurrentIsExplained
    <3>3. got = <<>> /\ Len(Current.slots) \in Nat
      BY <2>1, <3>2 DEF ReaderInv, ReaderTypes, Lines
    <3>4. GotOK'
      BY <2>3, <3>1, <3>2, <3>3 DEF GotOK
    <3>5. ReaderTypes' /\ KnownOK' /\ Faithful'
      BY <2>3, <3>1 DEF ReaderInv, ReaderTypes, KnownOK, Faithful
    <3>6. QED
      BY <2>1, <3>1, <3>4, <3>5 DEF ReaderInv, Reading
  <2>4. QED
    BY <1>2, <2>2, <2>3 DEF ReadMarked
<1>3. CASE DecodeSlot
  BY <1>3, DecodeSlotKeeps
<1>4. CASE RejectSlot
  BY <1>4, RejectKeeps DEF RejectSlot
<1>5. CASE Decoded
  <2>1. Reading /\ rpc = "slot" /\ Len(got) = Len(Current.slots)
    BY <1>5 DEF Decoded
  <2>2. CASE Reject
    BY <2>1, <2>2, RejectKeeps
  <2>3. CASE Accept(got, projected) /\ known' = Resolved
    <3>1. PICK D \in Seq(Values) : ExplainsLine(D, Current)
      BY <2>1, CurrentIsExplained
    <3>2. /\ got \in Seq(Values) /\ Current.orig.slots \in Seq(Values)
          /\ Len(got) = Len(Current.orig.slots) /\ \A j \in DOMAIN got : got[j] = Current.orig.slots[j]
      BY <2>1, <3>1 DEF ExplainsLine, ReaderInv, ReaderTypes, GotOK
    <3>3. got = Current.orig.slots
      BY <3>2
    <3>4. verdict'.slots = verdict'.line.slots
      BY <2>3, <3>3 DEF Accept
    <3>5. QED
      BY <2>1, <2>3, <3>4, AfterLine DEF Accept, Resolved
  <2>4. QED
    BY <1>5, <2>2, <2>3 DEF Decoded
<1>6. CASE BreakLine
  <2>1. Reading /\ rpc = "line" /\ l' = l + 1 /\ UNCHANGED <<writerVars, rpc, m, known, verdict, got, defs>>
    BY <1>6 DEF BreakLine
  <2>2. UNCHANGED <<wpc, members>> /\ l' \in Nat \ {0} /\ wpc = "stopped"
    BY <2>1 DEF writerVars, exportVars, ReaderInv, ReaderTypes, Reading
  <2>3. QED
    BY <2>1, <2>2 DEF ReaderInv, ReaderTypes, KnownOK, GotOK, Faithful
<1>7. CASE NextMember
  <2>1. /\ wpc = "stopped" /\ rpc = "line" /\ m < Len(members) /\ m' = m + 1 /\ l' = 1 /\ known' = <<>>
        /\ verdict' = NoVerdict /\ UNCHANGED <<writerVars, rpc, got, defs>>
    BY <1>7 DEF NextMember
  <2>2. UNCHANGED <<wpc, members>> /\ m' \in DOMAIN members /\ l' \in Nat \ {0} /\ <<>> \in Seq(Values)
    BY <2>1 DEF writerVars, exportVars, ReaderInv, ReaderTypes, WriterInv, WriterTypes
  <2>3. ReaderTypes' /\ defs' = <<>>
    BY <2>1, <2>2 DEF ReaderInv, ReaderTypes
  <2>4. PICK D \in Seq(Values) : ExplainsMember(D, members[m'])
    BY <2>2 DEF WriterInv, MembersOK
  <2>5. Extends(known' \o defs', D)
    BY <2>1, <2>3 DEF Extends
  <2>6. KnownOK'
    BY <2>2, <2>4, <2>5 DEF KnownOK
  <2>7. verdict'.slots = verdict'.line.slots
    BY <2>1 DEF NoVerdict, NoItem
  <2>8. QED
    BY <2>1, <2>2, <2>3, <2>6, <2>7 DEF ReaderInv, GotOK, Faithful
<1>8. QED
  BY <1>1, <1>2, <1>3, <1>4, <1>5, <1>6, <1>7 DEF Reader

CodecInv == WriterInv /\ ReaderInv

LEMMA CodecStep == ASSUME CodecInv, [Next]_vars PROVE CodecInv'
<1>1. CASE Export
  BY <1>1, WriterStep, ReaderDuringExport DEF CodecInv
<1>2. CASE Reader
  <2>1. UNCHANGED writerVars
    BY <1>2 DEF Reader, ReadPlain, ReadMarked, DecodeSlot, RejectSlot, Decoded, BreakLine, NextMember, Accept, Reject
  <2>2. WriterInv'
    BY <2>1 DEF CodecInv, WriterInv, WriterTypes, CodingOK, MembersOK, writerVars, encodeVars, encoderVars, exportVars
  <2>3. QED
    BY <1>2, <2>2, ReaderStep DEF CodecInv
<1>3. CASE UNCHANGED vars
  BY <1>3 DEF CodecInv, WriterInv, WriterTypes, CodingOK, MembersOK, ReaderInv, Unread, ReaderTypes, KnownOK, GotOK, Faithful,
              Current, vars, writerVars, encodeVars, encoderVars, exportVars, readerVars, decodeVars, decoderVars
<1>4. QED
  BY <1>1, <1>2, <1>3 DEF Next

\* What the reader accepts is what the exporter was given, for any values, records
\* and limits, and whatever lines do not arrive: a reference never resolves to
\* another value (evidence.py, EvidenceDecoder.decode, 226-261).
THEOREM ReadersAreFaithful == Spec => []Faithful
<1>1. Init => CodecInv
  BY WriterInit, ReaderInit DEF CodecInv
<1>2. CodecInv /\ [Next]_vars => CodecInv'
  BY CodecStep
<1>3. CodecInv => Faithful
  BY DEF CodecInv, ReaderInv
<1>4. QED
  BY <1>1, <1>2, <1>3, PTL DEF Spec

-----------------------------------------------------------------------------
(* The limits.  A line is never empty: what its references save is at most what *)
(* the slots took of it.                                                        *)

WriterBounds ==
  /\ {bytes, pendingBytes, chunkBytes, chunkDecoded, total, decodedTotal} \subseteq Nat
  /\ Len(values) <= MaxDefinitions /\ bytes <= MaxDictionary
  /\ chunkBytes <= ChunkLimit /\ chunkDecoded <= MemberLimit
  /\ total <= SourceLimit /\ decodedTotal <= DecodedLimit
  /\ chunkBytes = 0 => chunkDecoded = 0
  /\ rec \in Records \cup {NoItem}

CodingBounds ==
  wpc = "encode" =>
    /\ rec \in Records /\ rec.size <= MaxRecord /\ decodedTotal + rec.size <= DecodedLimit
    /\ Len(values) + Len(pending) <= MaxDefinitions /\ bytes + pendingBytes <= MaxDictionary
    /\ \E at : Layout(rec, at) /\ size >= rec.size + MarkCost - at[Len(coded)]

LEMMA BeginBounds ==
  ASSUME NEW r \in Records, Begin(r), r.size <= MaxRecord, decodedTotal' + r.size <= DecodedLimit,
         WriterBounds, UNCHANGED <<total, decodedTotal>>,
         \/ UNCHANGED <<values, bytes, chunkBytes, chunkDecoded>>
         \/ values' = <<>> /\ bytes' = 0 /\ chunkBytes' = 0 /\ chunkDecoded' = 0
  PROVE  WriterBounds' /\ CodingBounds'
<1>1. /\ wpc' = "encode" /\ rec' = r /\ coded' = <<>> /\ pending' = <<>> /\ pendingBytes' = 0
      /\ size' = r.size + MarkCost
  BY DEF Begin
<1>2. PICK at : Layout(r, at)
  BY CodecAssumption
<1>3. r.slots \in Seq(Values) /\ r.size \in Nat /\ MarkCost \in Nat
  BY Constants DEF Item
<1>4. at[0] \in Nat
  BY <1>2, <1>3 DEF Layout
<1>5. {MaxDefinitions, MaxDictionary, ChunkLimit, MemberLimit} \subseteq Nat /\ Len(<<>>) = 0
  BY Constants
<1>6. WriterBounds'
  BY <1>1, <1>5 DEF WriterBounds
<1>7. Len(values') <= MaxDefinitions /\ bytes' <= MaxDictionary /\ bytes' \in Nat
  BY <1>6 DEF WriterBounds
<1>8. /\ Len(values') + Len(pending') <= MaxDefinitions /\ bytes' + pendingBytes' <= MaxDictionary
  <2>1. values' = values \/ values' = <<>>
    OBVIOUS
  <2>2. CASE values' = values
    BY <1>1, <1>5, <1>7, <2>2 DEF WriterBounds
  <2>3. QED
    BY <1>1, <1>5, <1>7, <2>1, <2>2
<1>9. size' >= r.size + MarkCost - at[Len(coded')]
  <2>1. Len(coded') = 0
    BY <1>1, <1>5
  <2>2. QED
    BY <1>1, <1>3, <1>4, <2>1
<1>10. CodingBounds'
  <2>1. \E f : Layout(rec', f) /\ size' >= rec'.size + MarkCost - f[Len(coded')]
    BY <1>1, <1>2, <1>9
  <2>2. QED
    BY <1>1, <1>8, <2>1 DEF CodingBounds, Layout
<1>11. QED
  BY <1>6, <1>10

LEMMA EncodeSlotBounds ==
  ASSUME WriterInv, WriterBounds, CodingBounds, EncodeSlot
  PROVE  WriterBounds' /\ CodingBounds'
<1>0. /\ wpc = "encode" /\ Len(coded) < Len(rec.slots) /\ UNCHANGED <<wpc, rec, values, bytes>>
      /\ UNCHANGED <<chunkBytes, chunkDecoded, total, decodedTotal>>
      /\ Refer \/ (Fresh /\ DefineSlot) \/ (Fresh /\ ~Room /\ Keep)
  BY DEF EncodeSlot, encoderVars, exportVars
<1>1. /\ rec.slots \in Seq(Values) /\ coded \in Seq(Wrappers) /\ values \in Seq(Values) /\ pending \in Seq(Values)
      /\ size \in Int /\ Len(coded) \in Nat /\ Len(values) \in Nat /\ Len(pending) \in Nat
      /\ rec.size \in Nat
  BY DEF WriterInv, WriterTypes, Item
<1>2. Slot = rec.slots[Len(coded) + 1] /\ Slot \in Values /\ Len(coded) + 1 \in DOMAIN rec.slots
  BY <1>0, <1>1 DEF Slot
<1>3. /\ Weight[Slot] \in Nat /\ RefCost \in Nat /\ DefCost \in Nat /\ LiteralCost \in Nat
      /\ MarkCost \in Nat /\ MaxDictionary \in Nat /\ MaxDefinitions \in Nat
  BY <1>2, Constants
<1>4. PICK at : Layout(rec, at) /\ size >= rec.size + MarkCost - at[Len(coded)]
  BY <1>0 DEF CodingBounds
<1>5. /\ at[Len(coded) + 1] = at[Len(coded)] + Weight[Slot]
      /\ at[Len(coded)] \in Nat /\ at[Len(coded) + 1] \in Nat
  <2>1. at[Len(coded) + 1] = at[(Len(coded) + 1) - 1] + Weight[Slot]
    BY <1>2, <1>4 DEF Layout
  <2>2. Len(coded) \in 0 .. Len(rec.slots) /\ Len(coded) + 1 \in 0 .. Len(rec.slots) /\ (Len(coded) + 1) - 1 = Len(coded)
    BY <1>0, <1>1
  <2>3. QED
    BY <1>1, <1>4, <2>1, <2>2 DEF Layout
<1>6. bytes \in Nat /\ pendingBytes \in Nat /\ bytes + pendingBytes <= MaxDictionary /\ Len(values) + Len(pending) <= MaxDefinitions
  BY <1>0 DEF WriterBounds, CodingBounds
<1>7. SUFFICES
        /\ pendingBytes' \in Nat /\ bytes + pendingBytes' <= MaxDictionary
        /\ Len(values) + Len(pending') <= MaxDefinitions
        /\ Len(coded') = Len(coded) + 1 /\ size' >= size - Weight[Slot] /\ size' \in Int
  <2>1. WriterBounds'
    BY <1>0, <1>7 DEF WriterBounds
  <2>2. size' >= rec.size + MarkCost - at[Len(coded')]
    <3>1. at[Len(coded')] = at[Len(coded)] + Weight[Slot]
      BY <1>5, <1>7
    <3>2. \A a \in Nat, w \in Nat, c \in Int, d \in Int, n \in Nat, k \in Nat :
              c >= n + k - a /\ d >= c - w => d >= n + k - (a + w)
      OBVIOUS
    <3>3. QED
      BY <1>1, <1>3, <1>4, <1>5, <1>7, <3>1, <3>2, Zenon
  <2>3. QED
    BY <1>0, <1>4, <1>7, <2>1, <2>2 DEF CodingBounds, Layout
<1>8. \A w : Len(Append(coded, w)) = Len(coded) + 1
  BY <1>1
<1>9. CASE Refer
  <2>1. Len(coded') = Len(coded) + 1 /\ size' = size + RefCost - Weight[Slot] /\ UNCHANGED <<pending, pendingBytes>>
    BY <1>8, <1>9 DEF Refer
  <2>2. size' >= size - Weight[Slot] /\ size' \in Int
    <3>1. size \in Int /\ RefCost \in Nat /\ Weight[Slot] \in Nat
      BY <1>1, <1>3
    <3>2. QED
      BY <2>1, <3>1
  <2>3. QED
    BY <1>6, <2>1, <2>2
<1>10. CASE DefineSlot
  <2>1. Len(Defined) = Len(values) + Len(pending)
    BY <1>1 DEF Defined
  <2>2. Len(pending') = Len(pending) + 1
    BY <1>1, <1>2, <1>10 DEF DefineSlot
  <2>3. /\ Len(Defined) < MaxDefinitions /\ bytes + pendingBytes + Weight[Slot] <= MaxDictionary
        /\ pendingBytes' = pendingBytes + Weight[Slot] /\ size' = size + DefCost
    BY <1>10 DEF DefineSlot, Room
  <2>4. Len(coded') = Len(coded) + 1
    BY <1>8, <1>10 DEF DefineSlot
  <2>5. /\ pendingBytes' \in Nat /\ bytes + pendingBytes' <= MaxDictionary
        /\ size' >= size - Weight[Slot] /\ size' \in Int
    <3>1. size \in Int
      BY <1>1
    <3>2. QED
      BY <1>3, <1>6, <2>3, <3>1
  <2>6. Len(values) + Len(pending') <= MaxDefinitions
    BY <1>1, <1>3, <2>1, <2>2, <2>3
  <2>7. QED
    BY <2>4, <2>5, <2>6
<1>11. CASE Keep
  <2>1. Len(coded') = Len(coded) + 1 /\ (size' = size + LiteralCost \/ size' = size) /\ UNCHANGED <<pending, pendingBytes>>
    BY <1>8, <1>11 DEF Keep
  <2>2. size' >= size - Weight[Slot] /\ size' \in Int
    BY <1>1, <1>3, <2>1
  <2>3. QED
    BY <1>6, <2>1, <2>2
<1>12. QED
  BY <1>0, <1>9, <1>10, <1>11

\* A line has some bytes, and not too many.
LEMMA LineHasBytes ==
  ASSUME WriterInv, CodingBounds, Encoded
  PROVE  Line.size \in Nat \ {0} /\ Line.size <= MaxRecord /\ rec.size \in Nat
<1>1. /\ size \in Int /\ rec.size \in Nat /\ MarkCost \in Nat /\ MaxRecord \in Nat /\ Len(rec.slots) \in Nat
      /\ rec.size <= MaxRecord
  BY Constants DEF WriterInv, WriterTypes, Item, Encoded, CodingBounds
<1>2. PICK at : Layout(rec, at) /\ size >= rec.size + MarkCost - at[Len(coded)]
  BY DEF CodingBounds, Encoded
<1>3. at[Len(coded)] \in Nat /\ at[Len(coded)] <= rec.size - 1
  BY <1>1, <1>2 DEF Layout, Encoded
<1>4. size > 0 /\ rec.size > 0
  BY <1>1, <1>2, <1>3
<1>5. Line.size = IF Encodes THEN size ELSE rec.size
  BY DEF Line
<1>6. QED
  BY <1>1, <1>4, <1>5 DEF Encodes

LEMMA BoundsInit == Init => WriterBounds /\ CodingBounds
  BY Constants DEF Init, WriterBounds, CodingBounds

LEMMA BoundsStep ==
  ASSUME WriterInv, WriterBounds, CodingBounds, Export
  PROVE  WriterBounds' /\ CodingBounds'
<1> USE DEF encodeVars, encoderVars, exportVars
<1>1. CASE TakeRecord
  <2>1. PICK r \in Records : r.size <= MaxRecord /\ decodedTotal + r.size <= DecodedLimit /\ Begin(r)
    BY <1>1 DEF TakeRecord
  <2>2. UNCHANGED <<values, bytes, chunkBytes, chunkDecoded, total, decodedTotal>>
    BY <1>1 DEF TakeRecord
  <2>3. QED
    BY <2>1, <2>2, BeginBounds
<1>2. CASE EndExport \/ SourceFull
  <2>1. wpc' = "stopped" /\ UNCHANGED <<encodeVars, encoderVars, exportVars>>
    BY <1>2 DEF EndExport, SourceFull
  <2>2. QED
    BY <2>1 DEF WriterBounds, CodingBounds
<1>3. CASE EncodeSlot
  BY <1>3, EncodeSlotBounds
<1>4. CASE StartMember
  <2>1. /\ Begin(rec) /\ values' = <<>> /\ bytes' = 0 /\ chunkBytes' = 0 /\ chunkDecoded' = 0
        /\ UNCHANGED <<total, decodedTotal>> /\ wpc = "encode"
    BY <1>4 DEF StartMember, Encoded
  <2>2. rec \in Records /\ rec.size <= MaxRecord /\ decodedTotal' + rec.size <= DecodedLimit
    BY <2>1 DEF CodingBounds
  <2>3. QED
    BY <2>1, <2>2, BeginBounds
<1>5. CASE AddLine
  <2>1. /\ Encoded /\ ~NewMember /\ total + Line.size <= SourceLimit /\ wpc' = "next" /\ UNCHANGED rec
        /\ chunkBytes' = chunkBytes + Line.size /\ chunkDecoded' = chunkDecoded + rec.size
        /\ total' = total + Line.size /\ decodedTotal' = decodedTotal + rec.size /\ pendingBytes' = pendingBytes
    BY <1>5 DEF AddLine
  <2>2. Line.size \in Nat \ {0} /\ Line.size <= MaxRecord /\ rec.size \in Nat
    BY <2>1, LineHasBytes
  <2>3. {MaxRecord, ChunkLimit, MemberLimit} \subseteq Nat /\ MaxRecord <= ChunkLimit /\ MaxRecord <= MemberLimit
    BY Constants
  <2>4. rec.size <= MaxRecord /\ decodedTotal + rec.size <= DecodedLimit
    BY <2>1 DEF CodingBounds, Encoded
  <2>5. /\ chunkBytes \in Nat /\ chunkDecoded \in Nat /\ total \in Nat /\ decodedTotal \in Nat
        /\ chunkBytes = 0 => chunkDecoded = 0
    BY DEF WriterBounds
  <2>6. chunkBytes' <= ChunkLimit /\ chunkDecoded' <= MemberLimit /\ chunkBytes' # 0
    BY <2>1, <2>2, <2>3, <2>4, <2>5 DEF NewMember
  <2>7. Len(values') <= MaxDefinitions /\ bytes' <= MaxDictionary /\ bytes' \in Nat
    <3>1. CASE Encodes
      <4>1. values' = values \o pending /\ bytes' = bytes + pendingBytes
        BY <1>5, <3>1 DEF AddLine, Learn
      <4>2. Len(values \o pending) = Len(values) + Len(pending)
        BY DEF WriterInv, WriterTypes
      <4>3. QED
        BY <2>1, <4>1, <4>2 DEF WriterBounds, CodingBounds, Encoded
    <3>2. CASE ~Encodes
      BY <1>5, <3>2 DEF AddLine, WriterBounds
    <3>3. QED
      BY <3>1, <3>2
  <2>8. /\ total' \in Nat /\ decodedTotal' \in Nat /\ chunkBytes' \in Nat /\ chunkDecoded' \in Nat
        /\ total' <= SourceLimit /\ decodedTotal' <= DecodedLimit
    BY <2>1, <2>2, <2>4, <2>5
  <2>9. pendingBytes' \in Nat /\ rec' \in Records \cup {NoItem}
    BY <2>1 DEF WriterBounds
  <2>10. WriterBounds'
    BY <2>6, <2>7, <2>8, <2>9 DEF WriterBounds
  <2>11. QED
    BY <2>1, <2>10 DEF CodingBounds
<1>6. QED
  BY <1>1, <1>2, <1>3, <1>4, <1>5 DEF Export

-----------------------------------------------------------------------------
(* The reader's limits, and the types. *)

ReaderBounds ==
  /\ knownBytes \in Nat /\ defBytes \in Nat /\ decoded \in Int /\ projected \in Int /\ damaged \in Nat
  /\ failed \in BOOLEAN
  /\ Len(known) + Len(defs) <= MaxDefinitions /\ knownBytes + defBytes <= MaxDictionary
  /\ decoded <= MemberLimit
  /\ rpc = "line" => defBytes = 0

LEMMA ReaderBoundsInit == Init => ReaderBounds
<1> SUFFICES ASSUME Init PROVE ReaderBounds
  OBVIOUS
<1>1. MaxDefinitions \in Nat /\ MaxDictionary \in Nat /\ MemberLimit \in Nat /\ Len(<<>>) = 0
  BY Constants
<1>2. /\ known = <<>> /\ defs = <<>> /\ knownBytes = 0 /\ defBytes = 0 /\ decoded = 0 /\ projected = 0
      /\ failed = FALSE /\ damaged = 0
  BY DEF Init
<1>3. Len(known) + Len(defs) = 0 /\ knownBytes + defBytes = 0
  BY <1>1, <1>2
<1>4. failed \in BOOLEAN
  BY <1>2, Zenon
<1>5. QED
  BY <1>1, <1>2, <1>3, <1>4 DEF ReaderBounds

\* What a line that is accepted or rejected leaves behind.
LEMMA RejectBounds == ASSUME ReaderInv, ReaderBounds, Reject PROVE ReaderBounds'
<1>1. /\ UNCHANGED <<known, knownBytes, decoded, damaged>> /\ defs' = <<>> /\ defBytes' = 0 /\ projected' = 0
      /\ failed' = TRUE
  BY DEF Reject, NoDecode
<1>2. Len(known) \in Nat /\ Len(defs) \in Nat /\ Len(defs') = 0
  BY <1>1 DEF ReaderInv, ReaderTypes
<1>3. MaxDefinitions \in Nat /\ MaxDictionary \in Nat
  BY Constants
<1>4. QED
  BY <1>1, <1>2, <1>3 DEF ReaderBounds

LEMMA AcceptBounds ==
  ASSUME NEW what, NEW length \in Int, ReaderInv, ReaderBounds, Accept(what, length), Fits(length),
         \/ UNCHANGED <<known, knownBytes>>
         \/ known' = Resolved /\ knownBytes' = knownBytes + defBytes
  PROVE  ReaderBounds'
<1>1. /\ UNCHANGED <<failed, damaged>> /\ defs' = <<>> /\ defBytes' = 0 /\ projected' = 0 /\ decoded' = decoded + length
  BY DEF Accept, NoDecode
<1>2. /\ Len(known) \in Nat /\ Len(defs) \in Nat /\ Len(defs') = 0 /\ Len(Resolved) = Len(known) + Len(defs)
      /\ decoded + length <= MemberLimit
  BY <1>1 DEF ReaderInv, ReaderTypes, Fits, Resolved
<1>3. MaxDefinitions \in Nat /\ MaxDictionary \in Nat
  BY Constants
<1>4. QED
  BY <1>1, <1>2, <1>3 DEF ReaderBounds

LEMMA DecodeSlotBounds ==
  ASSUME WriterInv, ReaderInv, ReaderBounds, DecodeSlot
  PROVE  ReaderBounds'
<1>1. /\ Reading /\ rpc = "slot" /\ rpc' = "slot" /\ Len(got) < Len(Current.slots)
      /\ UNCHANGED <<known, knownBytes, decoded, failed, damaged>>
  BY DEF DecodeSlot, decoderVars
<1>2. Current.slots \in Seq(Wrappers) /\ got \in Seq(Values)
  BY <1>1, CurrentIsExplained DEF Lines, ReaderInv, ReaderTypes
<1>3. Wrapper \in Wrappers
  BY <1>1, <1>2 DEF Wrapper
<1>4. /\ known \in Seq(Values) /\ defs \in Seq(Values) /\ Resolved \in Seq(Values)
      /\ Len(Resolved) = Len(known) + Len(defs)
  BY DEF ReaderInv, ReaderTypes, Resolved
<1>5. /\ RefCost \in Nat /\ DefCost \in Nat /\ LiteralCost \in Nat /\ \A v \in Values : Weight[v] \in Nat
  BY Constants
<1>6. /\ knownBytes \in Nat /\ defBytes \in Nat /\ projected \in Int
  BY DEF ReaderBounds
<1>7. SUFFICES /\ defBytes' \in Nat /\ projected' \in Int
               /\ Len(known) + Len(defs') <= MaxDefinitions /\ knownBytes + defBytes' <= MaxDictionary
  BY <1>1, <1>7 DEF ReaderBounds
<1>8. CASE Wrapper.tag \in {"literal", "wrapped"}
  <2>1. UNCHANGED <<defs, defBytes>> /\ (projected' = projected \/ projected' = projected - LiteralCost)
    BY <1>8 DEF DecodeSlot
  <2>2. QED
    BY <1>5, <1>6, <2>1 DEF ReaderBounds
<1>9. CASE Wrapper.tag = "define"
  <2>1. /\ Takes(Wrapper) /\ projected' = projected - DefCost /\ defs' = Append(defs, Wrapper.value)
        /\ defBytes' = defBytes + Weight[Wrapper.value]
    BY <1>9 DEF DecodeSlot
  <2>2. Wrapper.value \in Values
    BY <1>3, <1>9 DEF Wrappers
  <2>3. Len(defs') = Len(defs) + 1
    BY <1>4, <2>1, <2>2
  <2>4. Len(known) + Len(defs) < MaxDefinitions /\ knownBytes + defBytes + Weight[Wrapper.value] <= MaxDictionary
    BY <1>4, <2>1 DEF Takes
  <2>5. MaxDefinitions \in Nat /\ Len(known) \in Nat /\ Len(defs) \in Nat
    BY <1>4, Constants
  <2>6. Len(known) + Len(defs') <= MaxDefinitions
    BY <2>3, <2>4, <2>5
  <2>7. Weight[Wrapper.value] \in Nat
    BY <1>5, <2>2
  <2>8. defBytes' \in Nat /\ projected' \in Int /\ knownBytes + defBytes' <= MaxDictionary
    BY <1>5, <1>6, <2>1, <2>4, <2>7
  <2>9. QED
    BY <2>6, <2>8
<1>10. CASE Wrapper.tag = "ref"
  <2>1. /\ Finds(Wrapper) /\ UNCHANGED <<defs, defBytes>>
        /\ projected' = projected + Weight[Resolved[Wrapper.index + 1]] - RefCost
    BY <1>10 DEF DecodeSlot
  <2>2. Resolved[Wrapper.index + 1] \in Values
    BY <1>4, <2>1 DEF Finds
  <2>3. QED
    BY <1>5, <1>6, <2>1, <2>2 DEF ReaderBounds
<1>11. QED
  BY <1>8, <1>9, <1>10 DEF DecodeSlot

LEMMA ReaderBoundsStep ==
  ASSUME WriterInv, ReaderInv, ReaderBounds, Next
  PROVE  ReaderBounds'
<1> USE DEF decodeVars, decoderVars
<1>1. CASE Export
  <2>1. UNCHANGED readerVars
    BY <1>1 DEF Export, TakeRecord, EndExport, EncodeSlot, StartMember, AddLine, SourceFull
  <2>2. QED
    BY <2>1 DEF readerVars, ReaderBounds
<1>2. CASE ReadPlain
  <2>1. CASE Fits(Current.size)
    <3>1. Accept([i \in DOMAIN Current.slots |-> Current.slots[i].value], Current.size) /\ UNCHANGED <<known, knownBytes>>
      BY <1>2, <2>1 DEF ReadPlain
    <3>2. Current.size \in Int
      BY <1>2, CurrentIsExplained DEF ReadPlain, Lines
    <3>3. QED
      BY <2>1, <3>1, <3>2, AcceptBounds
  <2>2. CASE ~Fits(Current.size)
    BY <1>2, <2>2, RejectBounds DEF ReadPlain
  <2>3. QED
    BY <2>1, <2>2
<1>3. CASE ReadMarked
  <2>1. CASE failed \/ Current.size > MaxRecord
    BY <1>3, <2>1, RejectBounds DEF ReadMarked
  <2>2. CASE ~(failed \/ Current.size > MaxRecord)
    <3>1. rpc' = "slot" /\ projected' = Current.size - MarkCost /\ UNCHANGED <<defs, defBytes, decoderVars, damaged>>
      BY <1>3, <2>2 DEF ReadMarked
    <3>2. Current.size \in Int /\ MarkCost \in Nat
      BY <1>3, CurrentIsExplained, Constants DEF ReadMarked, Lines
    <3>3. QED
      BY <3>1, <3>2 DEF ReaderBounds
  <2>3. QED
    BY <2>1, <2>2
<1>4. CASE DecodeSlot
  BY <1>4, DecodeSlotBounds
<1>5. CASE RejectSlot
  BY <1>5, RejectBounds DEF RejectSlot
<1>6. CASE Decoded
  <2>1. CASE Fits(projected)
    BY <1>6, <2>1, AcceptBounds DEF Decoded, ReaderBounds
  <2>2. CASE ~Fits(projected)
    BY <1>6, <2>2, RejectBounds DEF Decoded
  <2>3. QED
    BY <2>1, <2>2
<1>7. CASE BreakLine
  <2>1. /\ damaged' = damaged + 1 /\ failed' \in {failed, TRUE}
        /\ UNCHANGED <<rpc, defs, defBytes, projected, known, knownBytes, decoded>>
    BY <1>7 DEF BreakLine
  <2>2. damaged' \in Nat
    BY <2>1 DEF ReaderBounds
  <2>3. failed' \in BOOLEAN
    BY <2>1, Zenon DEF ReaderBounds
  <2>4. QED
    BY <2>1, <2>2, <2>3 DEF ReaderBounds
<1>8. CASE NextMember
  <2>1. /\ rpc = "line" /\ rpc' = "line" /\ known' = <<>> /\ knownBytes' = 0 /\ decoded' = 0 /\ failed' = FALSE
        /\ damaged' = 0 /\ UNCHANGED <<defs, defBytes, projected>>
    BY <1>8 DEF NextMember
  <2>2. defs = <<>> /\ Len(<<>>) = 0
    BY <2>1 DEF ReaderInv, ReaderTypes
  <2>3. MaxDefinitions \in Nat /\ MaxDictionary \in Nat /\ MemberLimit \in Nat
    BY Constants
  <2>4. Len(known') + Len(defs') = 0 /\ knownBytes' + defBytes' = 0
    BY <2>1, <2>2 DEF ReaderBounds
  <2>5. failed' \in BOOLEAN
    BY <2>1, Zenon
  <2>6. QED
    BY <2>1, <2>2, <2>3, <2>4, <2>5 DEF ReaderBounds
<1>9. QED
  BY <1>1, <1>2, <1>3, <1>4, <1>5, <1>6, <1>7, <1>8 DEF Next, Reader

LimitsInv == WriterBounds /\ CodingBounds /\ ReaderBounds

LEMMA LimitsStep == ASSUME CodecInv, LimitsInv, [Next]_vars PROVE LimitsInv'
<1>1. CASE Export
  BY <1>1, BoundsStep, ReaderBoundsStep DEF CodecInv, LimitsInv, Next
<1>2. CASE Reader
  <2>1. UNCHANGED writerVars
    BY <1>2 DEF Reader, ReadPlain, ReadMarked, DecodeSlot, RejectSlot, Decoded, BreakLine, NextMember, Accept, Reject
  <2>2. (WriterBounds /\ CodingBounds)'
    BY <2>1 DEF LimitsInv, WriterBounds, CodingBounds, writerVars, encodeVars, encoderVars, exportVars
  <2>3. QED
    BY <1>2, <2>2, ReaderBoundsStep DEF CodecInv, LimitsInv, Next
<1>3. CASE UNCHANGED vars
  BY <1>3 DEF LimitsInv, WriterBounds, CodingBounds, ReaderBounds, vars, writerVars, encodeVars, encoderVars,
              exportVars, readerVars, decodeVars, decoderVars
<1>4. QED
  BY <1>1, <1>2, <1>3 DEF Next

\* Every variable has its type, and no dictionary, member, source or record
\* exceeds its limits, for any records and limits and any damage (evidence.py,
\* 122-172 and 200-290; bundle.py, spool_chunks, 222-253).
THEOREM TypeCorrect == Spec => []TypeOK
<1>1. Init => CodecInv /\ LimitsInv
  BY WriterInit, ReaderInit, BoundsInit, ReaderBoundsInit DEF CodecInv, LimitsInv
<1>2. CodecInv /\ LimitsInv /\ [Next]_vars => (CodecInv /\ LimitsInv)'
  BY CodecStep, LimitsStep
<1>3. CodecInv /\ LimitsInv => TypeOK
  <2> SUFFICES ASSUME CodecInv, LimitsInv PROVE TypeOK
    OBVIOUS
  <2>1. /\ Len(known) <= MaxDefinitions /\ knownBytes <= MaxDictionary
    <3>1. known \in Seq(Values) /\ defs \in Seq(Values)
      BY DEF CodecInv, ReaderInv, ReaderTypes
    <3>2. Len(known) \in Nat /\ Len(defs) \in Nat
      BY <3>1
    <3>3. MaxDefinitions \in Nat /\ MaxDictionary \in Nat
      BY Constants
    <3>4. QED
      BY <3>2, <3>3 DEF LimitsInv, ReaderBounds
  <2>2. {values, pending, known, defs, got} \subseteq Seq(Values)
    BY DEF CodecInv, WriterInv, WriterTypes, ReaderInv, ReaderTypes
  <2>3. QED
    BY <2>1, <2>2 DEF TypeOK, CodecInv, WriterInv, WriterTypes, ReaderInv, ReaderTypes, LimitsInv, WriterBounds, ReaderBounds
<1>4. QED
  BY <1>1, <1>2, <1>3, PTL DEF Spec

-----------------------------------------------------------------------------
(* The books of an export: by how much each slot of a marked line lengthens the *)
(* dictionary and the line, where each line finds the dictionary, and how much  *)
(* of the limits it leaves.                                                     *)

\* The wrapper w stands for v: p definitions and c bytes before it, q and d after it.
SlotBooks(w, v, p, q, c, d) ==
  \/ w.tag = "literal" /\ v \notin Dicts /\ q = p /\ d = c
  \/ w.tag = "wrapped" /\ q = p /\ d = c + LiteralCost
  \/ w.tag = "define" /\ w.index = p /\ q = p + 1 /\ d = c + DefCost
  \/ w.tag = "ref" /\ w.index < p /\ q = p /\ d = c + RefCost - Weight[v]

\* The wrappers ws for vs take the dictionary from a definitions to b.
Books(ws, vs, a, b, p, c) ==
  /\ p \in [0 .. Len(ws) -> a .. b] /\ p[0] = a /\ p[Len(ws)] = b
  /\ c \in [0 .. Len(ws) -> Int]
  /\ \A j \in DOMAIN ws : SlotBooks(ws[j], vs[j], p[j - 1], p[j], c[j - 1], c[j])

MarkedBooks(line, a, b, p, c) ==
  /\ Books(line.slots, line.orig.slots, a, b, p, c)
  /\ c[0] = line.orig.size + MarkCost /\ c[Len(line.slots)] = line.size

LineBooks(line, a, b) ==
  /\ line.size <= MaxRecord /\ line.orig.size <= MaxRecord
  /\ line.marked => \E p, c : MarkedBooks(line, a, b, p, c)
  /\ ~line.marked => a = b /\ line.size = line.orig.size

\* The bytes of the definitions of D.
Sums(s, D) ==
  /\ s \in [0 .. Len(D) -> 0 .. MaxDictionary] /\ s[0] = 0
  /\ \A i \in DOMAIN D : s[i] = s[i - 1] + Weight[D[i]]

MemberBooks(member, D, s, start, dec) ==
  /\ D \in Seq(Values) /\ Len(D) <= MaxDefinitions /\ ExplainsMember(D, member) /\ Sums(s, D)
  /\ start \in [1 .. Len(member) + 1 -> 0 .. Len(D)] /\ start[1] = 0
  /\ dec \in [1 .. Len(member) + 1 -> 0 .. MemberLimit] /\ dec[1] = 0
  /\ \A n \in DOMAIN member :
       LineBooks(member[n], start[n], start[n + 1]) /\ dec[n + 1] = dec[n] + member[n].orig.size

\* The last member's books end where the encoder stands.
LastBooks(member, D, s, start, dec) ==
  /\ D = values /\ s[Len(values)] = bytes
  /\ start[Len(member) + 1] = Len(values) /\ dec[Len(member) + 1] = chunkDecoded

MembersBooks ==
  \A k \in DOMAIN members : \E D, s, start, dec :
    /\ MemberBooks(members[k], D, s, start, dec)
    /\ k = Len(members) => LastBooks(members[k], D, s, start, dec)

CodingBooks ==
  wpc = "encode" =>
    /\ \E s : /\ Sums(s, values \o pending) /\ s[Len(values)] = bytes
              /\ s[Len(values) + Len(pending)] = bytes + pendingBytes
    /\ \E p, c : /\ Books(coded, rec.slots, Len(values), Len(values) + Len(pending), p, c)
                 /\ c[0] = rec.size + MarkCost /\ c[Len(coded)] = size

\* One more slot in the books.
LEMMA BooksGrow ==
  ASSUME NEW ws \in Seq(Wrappers), NEW w \in Wrappers, NEW vs, NEW a \in Nat, NEW b \in Nat, NEW b2 \in Nat, b <= b2,
         NEW p, NEW c, Books(ws, vs, a, b, p, c),
         NEW d \in Int, SlotBooks(w, vs[Len(ws) + 1], b, b2, c[Len(ws)], d)
  PROVE  \E q, e : /\ Books(Append(ws, w), vs, a, b2, q, e)
                   /\ e[0] = c[0] /\ e[Len(Append(ws, w))] = d
<1> DEFINE n == Len(ws)
           q == [j \in 0 .. n + 1 |-> IF j = n + 1 THEN b2 ELSE p[j]]
           e == [j \in 0 .. n + 1 |-> IF j = n + 1 THEN d ELSE c[j]]
<1>1. /\ n \in Nat /\ Len(Append(ws, w)) = n + 1 /\ Append(ws, w)[n + 1] = w
      /\ DOMAIN Append(ws, w) = DOMAIN ws \cup {n + 1} /\ DOMAIN ws = 1 .. n
      /\ \A j \in DOMAIN ws : Append(ws, w)[j] = ws[j]
  BY Appended
<1>2. \A j \in 0 .. n : p[j] \in a .. b /\ c[j] \in Int
  BY DEF Books
<1>3. q \in [0 .. n + 1 -> a .. b2] /\ e \in [0 .. n + 1 -> Int]
  <2>1. a <= b
    BY <1>1, <1>2 DEF Books
  <2>2. \A j \in 0 .. n + 1 : q[j] \in a .. b2
    BY <1>1, <1>2, <2>1
  <2>3. \A j \in 0 .. n + 1 : e[j] \in Int
    BY <1>1, <1>2
  <2>4. QED
    BY <2>2, <2>3
<1>4. q[0] = a /\ q[n + 1] = b2 /\ e[0] = c[0] /\ e[n + 1] = d
  BY <1>1 DEF Books
<1>5. ASSUME NEW j \in DOMAIN Append(ws, w)
      PROVE  SlotBooks(Append(ws, w)[j], vs[j], q[j - 1], q[j], e[j - 1], e[j])
  <2>1. CASE j = n + 1
    <3>0. n \in Nat
      BY <1>1
    <3>1. j - 1 = n /\ n \in 0 .. n + 1 /\ n # n + 1 /\ j \in 0 .. n + 1
      BY <2>1, <3>0
    <3>2. q[n] = p[n] /\ q[j] = b2 /\ e[n] = c[n] /\ e[j] = d
      BY <2>1, <3>1
    <3>3. p[n] = b
      BY DEF Books
    <3>4. QED
      BY <1>1, <2>1, <3>1, <3>2, <3>3
  <2>2. CASE j # n + 1
    <3>1. j \in DOMAIN ws /\ q[j - 1] = p[j - 1] /\ q[j] = p[j] /\ e[j - 1] = c[j - 1] /\ e[j] = c[j]
      BY <1>1, <2>2
    <3>2. QED
      BY <1>1, <3>1 DEF Books
  <2>3. QED
    BY <2>1, <2>2
<1> HIDE DEF q, e
<1>6. Books(Append(ws, w), vs, a, b2, q, e)
  BY <1>1, <1>3, <1>4, <1>5 DEF Books
<1>7. QED
  BY <1>1, <1>4, <1>6

\* One more definition in the sums.
LEMMA SumsGrow ==
  ASSUME NEW D \in Seq(Values), NEW v \in Values, NEW s, Sums(s, D), s[Len(D)] + Weight[v] <= MaxDictionary
  PROVE  \E t : /\ Sums(t, Append(D, v)) /\ t[Len(D) + 1] = s[Len(D)] + Weight[v]
                /\ \A i \in 0 .. Len(D) : t[i] = s[i]
<1> DEFINE n == Len(D)
           t == [i \in 0 .. n + 1 |-> IF i = n + 1 THEN s[n] + Weight[v] ELSE s[i]]
<1>1. /\ n \in Nat /\ Len(Append(D, v)) = n + 1 /\ Append(D, v)[n + 1] = v
      /\ DOMAIN Append(D, v) = DOMAIN D \cup {n + 1} /\ DOMAIN D = 1 .. n
      /\ \A j \in DOMAIN D : Append(D, v)[j] = D[j]
  BY Appended
<1>2. Weight[v] \in Nat /\ MaxDictionary \in Nat
  BY Constants
<1>3. \A i \in 0 .. n : s[i] \in 0 .. MaxDictionary /\ t[i] = s[i]
  BY <1>1 DEF Sums
<1>4. t[n + 1] = s[n] + Weight[v] /\ t[n + 1] \in 0 .. MaxDictionary
  BY <1>1, <1>2, <1>3
<1>5. t \in [0 .. n + 1 -> 0 .. MaxDictionary] /\ t[0] = 0
  <2>1. \A i \in 0 .. n + 1 : t[i] \in 0 .. MaxDictionary
    BY <1>1, <1>3, <1>4
  <2>2. QED
    BY <1>1, <1>3, <2>1 DEF Sums
<1>6. ASSUME NEW i \in DOMAIN Append(D, v) PROVE t[i] = t[i - 1] + Weight[Append(D, v)[i]]
  <2>1. CASE i = n + 1
    <3>1. i - 1 = n /\ n \in 0 .. n
      BY <1>1, <2>1
    <3>2. t[i - 1] = s[n]
      BY <1>3, <3>1
    <3>3. QED
      BY <1>1, <1>4, <2>1, <3>2
  <2>2. CASE i # n + 1
    <3>1. i \in DOMAIN D /\ i \in 0 .. n /\ i - 1 \in 0 .. n
      BY <1>1, <2>2
    <3>2. QED
      BY <1>1, <1>3, <3>1 DEF Sums
  <2>3. QED
    BY <2>1, <2>2
<1> HIDE DEF t
<1>7. Sums(t, Append(D, v))
  BY <1>1, <1>5, <1>6 DEF Sums
<1>8. QED
  BY <1>3, <1>4, <1>7

LEMMA EncodeSlotBooks ==
  ASSUME WriterInv, CodingBounds, WriterBounds, CodingBooks, EncodeSlot
  PROVE  CodingBooks'
<1>0. /\ wpc = "encode" /\ Len(coded) < Len(rec.slots) /\ UNCHANGED <<wpc, rec, values, bytes>>
      /\ Refer \/ (Fresh /\ DefineSlot) \/ (Fresh /\ ~Room /\ Keep)
  BY DEF EncodeSlot, encoderVars
<1>1. /\ rec.slots \in Seq(Values) /\ coded \in Seq(Wrappers) /\ values \in Seq(Values) /\ pending \in Seq(Values)
      /\ values \o pending \in Seq(Values) /\ Len(values \o pending) = Len(values) + Len(pending)
      /\ size \in Int /\ Len(coded) \in Nat /\ Len(values) \in Nat /\ Len(pending) \in Nat
  BY Concatenated DEF WriterInv, WriterTypes, Item
<1>2. Slot = rec.slots[Len(coded) + 1] /\ Slot \in Values
  BY <1>0, <1>1 DEF Slot
<1>3. /\ Weight[Slot] \in Nat /\ RefCost \in Nat /\ DefCost \in Nat /\ LiteralCost \in Nat
  BY <1>2, Constants
<1>4. PICK s : /\ Sums(s, values \o pending) /\ s[Len(values)] = bytes
               /\ s[Len(values) + Len(pending)] = bytes + pendingBytes
  BY <1>0 DEF CodingBooks
<1>5. PICK p, c : /\ Books(coded, rec.slots, Len(values), Len(values) + Len(pending), p, c)
                  /\ c[0] = rec.size + MarkCost /\ c[Len(coded)] = size
  BY <1>0 DEF CodingBooks
<1> DEFINE a == Len(values)
           b == Len(values) + Len(pending)
<1>6. a \in Nat /\ b \in Nat
  BY <1>1
<1>7. ASSUME NEW w \in Wrappers, coded' = Append(coded, w), NEW b2 \in Nat, b <= b2, size' \in Int,
             b2 = Len(values) + Len(pending'), SlotBooks(w, Slot, b, b2, size, size')
      PROVE  \E q, e : /\ Books(coded', rec.slots, Len(values), Len(values) + Len(pending'), q, e)
                       /\ e[0] = rec.size + MarkCost /\ e[Len(coded')] = size'
  <2> HIDE DEF a, b
  <2>1. Books(coded, rec.slots, a, b, p, c)
    BY <1>5 DEF a, b
  <2>2. SlotBooks(w, rec.slots[Len(coded) + 1], b, b2, c[Len(coded)], size')
    BY <1>2, <1>5, <1>7
  <2>3. \E q, e : /\ Books(Append(coded, w), rec.slots, a, b2, q, e)
                  /\ e[0] = c[0] /\ e[Len(Append(coded, w))] = size'
    <3>1. coded \in Seq(Wrappers) /\ size' \in Int /\ b <= b2
      BY <1>1, <1>7
    <3>2. QED
      BY <1>6, <2>1, <2>2, <3>1, BooksGrow
  <2>4. QED
    BY <1>5, <1>7, <2>3 DEF a
<1>8. CASE Refer
  <2>1. PICK i \in DOMAIN Defined : Defined[i] = Slot /\ coded' = Append(coded, Ref(i - 1))
    BY <1>8 DEF Refer
  <2>2. size' = size + RefCost - Weight[Slot] /\ UNCHANGED <<pending, pendingBytes>>
    BY <1>8 DEF Refer
  <2>3. i \in 1 .. b
    BY <1>1, <2>1 DEF Defined
  <2>4. i - 1 \in Nat /\ i - 1 < b /\ size' \in Int
    BY <1>1, <1>3, <1>6, <2>2, <2>3
  <2>5. Ref(i - 1) \in Wrappers /\ Ref(i - 1).tag = "ref" /\ Ref(i - 1).index = i - 1
    BY <2>4 DEF Ref, Wrappers
  <2>6. SlotBooks(Ref(i - 1), Slot, b, b, size, size')
    BY <2>2, <2>4, <2>5 DEF SlotBooks
  <2>7. b <= b /\ b = Len(values) + Len(pending')
    BY <1>6, <2>2
  <2>8. \E q, e : /\ Books(coded', rec.slots, Len(values), Len(values) + Len(pending'), q, e)
                  /\ e[0] = rec.size + MarkCost /\ e[Len(coded')] = size'
    <3> DEFINE w == Ref(i - 1)
    <3>1. /\ w \in Wrappers /\ coded' = Append(coded, w) /\ size' \in Int
          /\ SlotBooks(w, Slot, b, b, size, size')
      BY <2>1, <2>4, <2>5, <2>6
    <3> HIDE DEF b, w
    <3>2. QED
      BY <1>6, <1>7, <2>7, <3>1
  <2>9. QED
    BY <1>0, <1>4, <2>2, <2>8 DEF CodingBooks
<1>9. CASE DefineSlot
  <2> DEFINE w == Define(Len(Defined), Slot)
  <2>1. /\ Room /\ coded' = Append(coded, w) /\ pending' = Append(pending, Slot)
        /\ pendingBytes' = pendingBytes + Weight[Slot] /\ size' = size + DefCost
    BY <1>9 DEF DefineSlot
  <2>2. Len(Defined) = b /\ Len(pending') = Len(pending) + 1 /\ pending' \in Seq(Values)
    BY <1>1, <1>2, <2>1, Appended DEF Defined
  <2>3. w \in Wrappers /\ w.tag = "define" /\ w.index = b
    BY <1>2, <1>6, <2>2 DEF Define, Wrappers
  <2>4. b + 1 \in Nat /\ b <= b + 1 /\ size' \in Int /\ b + 1 = Len(values) + Len(pending')
    BY <1>1, <1>3, <1>6, <2>1, <2>2
  <2>5. SlotBooks(w, Slot, b, b + 1, size, size')
    BY <2>1, <2>3 DEF SlotBooks
  <2>6. \E q, e : /\ Books(coded', rec.slots, Len(values), Len(values) + Len(pending'), q, e)
                  /\ e[0] = rec.size + MarkCost /\ e[Len(coded')] = size'
    <3> HIDE DEF w, b
    <3>1. QED
      BY <1>6, <1>7, <2>1, <2>3, <2>4, <2>5
  <2>7. values \o pending' = Append(values \o pending, Slot)
    <3>1. pending' = pending \o <<Slot>> /\ Append(values \o pending, Slot) = (values \o pending) \o <<Slot>>
      BY <1>1, <1>2, <2>1, AppendIsConcat
    <3>2. (values \o pending) \o <<Slot>> = values \o (pending \o <<Slot>>)
      BY <1>1, <1>2, ConcatAssociative
    <3>3. QED
      BY <3>1, <3>2, Zenon
  <2>8. s[Len(values \o pending)] + Weight[Slot] <= MaxDictionary
    BY <1>1, <1>4, <2>1 DEF Room
  <2>9. PICK t : /\ Sums(t, values \o pending') /\ t[b + 1] = s[b] + Weight[Slot]
                 /\ \A i \in 0 .. b : t[i] = s[i]
    <3> DEFINE D == values \o pending
    <3>1. D \in Seq(Values) /\ Len(D) = b /\ Sums(s, D) /\ s[Len(D)] + Weight[Slot] <= MaxDictionary
      BY <1>1, <1>4, <2>8
    <3>2. values \o pending' = Append(D, Slot)
      BY <2>7
    <3> HIDE DEF D, b
    <3>3. \E t : /\ Sums(t, Append(D, Slot)) /\ t[Len(D) + 1] = s[Len(D)] + Weight[Slot]
                 /\ \A i \in 0 .. Len(D) : t[i] = s[i]
      BY <1>2, <3>1, SumsGrow
    <3>4. QED
      BY <3>1, <3>2, <3>3
  <2>10. t[Len(values)] = bytes /\ t[Len(values) + Len(pending')] = bytes + pendingBytes'
    <3>1. Len(values) \in 0 .. b /\ Len(values) + Len(pending') = b + 1
      BY <1>1, <2>2
    <3>2. bytes \in Nat /\ pendingBytes \in Nat
      BY DEF WriterBounds
    <3>3. s[b] = bytes + pendingBytes
      BY <1>4
    <3>4. (bytes + pendingBytes) + Weight[Slot] = bytes + pendingBytes'
      BY <1>3, <2>1, <3>2
    <3>5. QED
      BY <1>4, <2>9, <3>1, <3>3, <3>4
  <2>11. QED
    BY <1>0, <2>6, <2>9, <2>10 DEF CodingBooks
<1>10. CASE Keep
  <2>1. UNCHANGED <<pending, pendingBytes>>
    BY <1>10 DEF Keep
  <2>2. PICK w : /\ w \in Wrappers /\ coded' = Append(coded, w) /\ size' \in Int
                 /\ SlotBooks(w, Slot, b, b, size, size')
    <3>1. CASE Slot \in Dicts
      <4>1. coded' = Append(coded, Wrapped(Slot)) /\ size' = size + LiteralCost
        BY <1>10, <3>1 DEF Keep
      <4>2. Wrapped(Slot) \in Wrappers /\ Wrapped(Slot).tag = "wrapped"
        BY <1>2 DEF Wrapped, Wrappers
      <4>3. SlotBooks(Wrapped(Slot), Slot, b, b, size, size')
        BY <4>1, <4>2 DEF SlotBooks
      <4>4. size' \in Int
        BY <1>1, <1>3, <4>1
      <4>5. QED
        BY <4>1, <4>2, <4>3, <4>4
    <3>2. CASE Slot \notin Dicts
      <4>1. coded' = Append(coded, Literal(Slot)) /\ size' = size
        BY <1>10, <3>2 DEF Keep
      <4>2. Literal(Slot) \in Wrappers /\ Literal(Slot).tag = "literal"
        BY <1>2 DEF Literal, Wrappers
      <4>3. SlotBooks(Literal(Slot), Slot, b, b, size, size')
        BY <3>2, <4>1, <4>2 DEF SlotBooks
      <4>4. QED
        BY <1>1, <4>1, <4>2, <4>3
    <3>3. QED
      BY <3>1, <3>2
  <2>3. b <= b /\ b = Len(values) + Len(pending')
    BY <1>6, <2>1
  <2>4. \E q, e : /\ Books(coded', rec.slots, Len(values), Len(values) + Len(pending'), q, e)
                  /\ e[0] = rec.size + MarkCost /\ e[Len(coded')] = size'
    BY <1>6, <1>7, <2>2, <2>3
  <2>5. QED
    BY <1>0, <1>4, <2>1, <2>4 DEF CodingBooks
<1>11. QED
  BY <1>0, <1>8, <1>9, <1>10

LEMMA EmptyBooks ==
  \E s, start, dec : /\ MemberBooks(<<>>, <<>>, s, start, dec)
                     /\ s[0] = 0 /\ start[1] = 0 /\ dec[1] = 0
<1> DEFINE s == [i \in 0 .. 0 |-> 0]
           t == [i \in 1 .. 1 |-> 0]
<1>1. MaxDictionary \in Nat /\ MemberLimit \in Nat /\ MaxDefinitions \in Nat
  BY Constants
<1>2. Len(<<>>) = 0 /\ DOMAIN <<>> = {} /\ <<>> \in Seq(Values)
  OBVIOUS
<1>3. s \in [0 .. 0 -> 0 .. MaxDictionary] /\ s[0] = 0
  BY <1>1
<1>4. t \in [1 .. 0 + 1 -> 0 .. 0] /\ t \in [1 .. 0 + 1 -> 0 .. MemberLimit] /\ t[1] = 0
  BY <1>1
<1> HIDE DEF s, t
<1>5. Sums(s, <<>>)
  BY <1>2, <1>3 DEF Sums
<1>6. ExplainsMember(<<>>, <<>>)
  BY <1>2 DEF ExplainsMember
<1>7. MemberBooks(<<>>, <<>>, s, t, t)
  BY <1>1, <1>2, <1>4, <1>5, <1>6 DEF MemberBooks
<1>8. QED
  BY <1>3, <1>4, <1>7

\* A record that is begun has nothing in the books.
LEMMA BeginBooks ==
  ASSUME NEW r \in Item, Begin(r), values' \in Seq(Values), bytes' \in Nat,
         \E s : Sums(s, values') /\ s[Len(values')] = bytes'
  PROVE  CodingBooks'
<1>1. /\ rec' = r /\ coded' = <<>> /\ pending' = <<>> /\ pendingBytes' = 0 /\ size' = r.size + MarkCost
  BY DEF Begin
<1>2. r.size \in Nat /\ MarkCost \in Nat /\ Len(values') \in Nat
  BY Constants DEF Item
<1>3. /\ values' \o pending' = values' /\ Len(values') + Len(pending') = Len(values') /\ bytes' + pendingBytes' = bytes'
      /\ Len(coded') = 0 /\ DOMAIN coded' = {}
  <2>1. Len(<<>>) = 0 /\ DOMAIN <<>> = {} /\ values' \o <<>> = values'
    OBVIOUS
  <2>2. values' \o pending' = values'
    BY <1>1, <2>1, Zenon
  <2>3. Len(pending') = 0 /\ Len(coded') = 0 /\ DOMAIN coded' = {}
    BY <1>1, <2>1, Zenon
  <2>4. \A a \in Nat, b \in Nat : a + 0 = a /\ b + 0 = b
    OBVIOUS
  <2>5. bytes' + pendingBytes' = bytes' /\ Len(values') + Len(pending') = Len(values')
    BY <1>1, <1>2, <2>3, <2>4, Zenon
  <2>6. QED
    BY <2>2, <2>3, <2>5
<1> DEFINE a == Len(values')
           p == [j \in 0 .. 0 |-> a]
           c == [j \in 0 .. 0 |-> size']
<1>4. p \in [0 .. 0 -> a .. a] /\ p[0] = a /\ c \in [0 .. 0 -> Int] /\ c[0] = size'
  BY <1>1, <1>2
<1> HIDE DEF p, c
<1>5. Books(coded', rec'.slots, a, a, p, c)
  BY <1>3, <1>4 DEF Books
<1>6. \E q, e : /\ Books(coded', rec'.slots, Len(values'), Len(values') + Len(pending'), q, e)
                /\ e[0] = rec'.size + MarkCost /\ e[Len(coded')] = size'
  BY <1>1, <1>3, <1>4, <1>5
<1>7. \E s : /\ Sums(s, values' \o pending') /\ s[Len(values')] = bytes'
             /\ s[Len(values') + Len(pending')] = bytes' + pendingBytes'
  BY <1>3
<1>8. QED
  BY <1>6, <1>7 DEF CodingBooks

\* A finished line is in the books of the dictionary that the encoder then has.
LEMMA LineIsBooked ==
  ASSUME WriterInv, WriterBounds, CodingBounds, CodingBooks, AddLine,
         \E s : Sums(s, values) /\ s[Len(values)] = bytes
  PROVE  /\ LineBooks(Line, Len(values), Len(values')) /\ Len(values) <= Len(values')
         /\ \E s : Sums(s, values') /\ s[Len(values')] = bytes'
<1>1. Encoded /\ wpc = "encode" /\ Len(coded) = Len(rec.slots)
  BY DEF AddLine, Encoded
<1>2. Line.size <= MaxRecord /\ rec.size <= MaxRecord
  BY <1>1, LineHasBytes DEF CodingBounds
<1>3. values \in Seq(Values) /\ pending \in Seq(Values) /\ Len(values \o pending) = Len(values) + Len(pending)
      /\ Len(values) \in Nat /\ Len(pending) \in Nat
  BY Concatenated DEF WriterInv, WriterTypes
<1>4. CASE Encodes
  <2>1. values' = values \o pending /\ bytes' = bytes + pendingBytes
    BY <1>4 DEF AddLine, Learn
  <2>2. Line = [orig |-> rec, marked |-> TRUE, size |-> size, slots |-> coded]
    BY <1>4 DEF Line, Encodes
  <2>3. PICK p, c : /\ Books(coded, rec.slots, Len(values), Len(values) + Len(pending), p, c)
                    /\ c[0] = rec.size + MarkCost /\ c[Len(coded)] = size
    BY <1>1 DEF CodingBooks
  <2>4. Len(values') = Len(values) + Len(pending)
    BY <1>3, <2>1
  <2>5. MarkedBooks(Line, Len(values), Len(values'), p, c)
    BY <2>2, <2>3, <2>4 DEF MarkedBooks
  <2>6. LineBooks(Line, Len(values), Len(values'))
    BY <1>2, <2>2, <2>5 DEF LineBooks
  <2>7. \E s : Sums(s, values') /\ s[Len(values')] = bytes'
    BY <1>1, <2>1, <2>4 DEF CodingBooks
  <2>8. QED
    BY <1>3, <2>4, <2>6, <2>7
<1>5. CASE ~Encodes
  <2>1. values' = values /\ bytes' = bytes
    BY <1>5 DEF AddLine, encoderVars
  <2>2. Line.orig = rec /\ Line.marked = FALSE /\ Line.size = rec.size
    BY <1>5 DEF Line, Encodes, WriterInv, WriterTypes
  <2>3. LineBooks(Line, Len(values), Len(values'))
    BY <1>2, <2>1, <2>2 DEF LineBooks
  <2>4. QED
    BY <1>3, <2>1, <2>3
<1>6. QED
  BY <1>4, <1>5

\* One more line in a member's books.
LEMMA MemberGrows ==
  ASSUME NEW member \in Seq(Lines), NEW line \in Lines, NEW D, NEW s, NEW start, NEW dec,
         MemberBooks(member, D, s, start, dec),
         NEW E \in Seq(Values), NEW t, Len(E) <= MaxDefinitions, Sums(t, E), Extends(D, E), ExplainsLine(E, line),
         NEW total2 \in Nat, total2 = dec[Len(member) + 1] + line.orig.size, total2 <= MemberLimit,
         start[Len(member) + 1] = Len(D), Len(D) <= Len(E), LineBooks(line, Len(D), Len(E))
  PROVE  \E start2, dec2 : /\ MemberBooks(Append(member, line), E, t, start2, dec2)
                           /\ start2[Len(Append(member, line)) + 1] = Len(E)
                           /\ dec2[Len(Append(member, line)) + 1] = total2
<1> DEFINE n == Len(member)
           start2 == [i \in 1 .. n + 2 |-> IF i = n + 2 THEN Len(E) ELSE start[i]]
           dec2 == [i \in 1 .. n + 2 |-> IF i = n + 2 THEN total2 ELSE dec[i]]
<1>1. n \in Nat /\ DOMAIN member = 1 .. n
  OBVIOUS
<1>2. /\ Len(Append(member, line)) = n + 1 /\ Append(member, line)[n + 1] = line
      /\ \A i \in 1 .. n : Append(member, line)[i] = member[i]
      /\ DOMAIN Append(member, line) = 1 .. n + 1
  OBVIOUS
<1>3. D \in Seq(Values) /\ Len(D) \in Nat /\ Len(E) \in Nat /\ MemberLimit \in Nat
  <2>1. D \in Seq(Values)
    BY DEF MemberBooks
  <2>2. Len(D) \in Nat /\ Len(E) \in Nat
    BY <2>1
  <2>3. MemberLimit \in Nat
    BY Constants
  <2>4. QED
    BY <2>1, <2>2, <2>3
<1>4. /\ \A i \in 1 .. n + 1 : start[i] \in 0 .. Len(D) /\ dec[i] \in 0 .. MemberLimit
      /\ start[1] = 0 /\ dec[1] = 0
  BY DEF MemberBooks
<1>5. \A i \in 1 .. n + 1 : start2[i] = start[i] /\ dec2[i] = dec[i]
  BY <1>1
<1>6. start2[n + 2] = Len(E) /\ dec2[n + 2] = total2
  BY <1>1
<1>7. start2 \in [1 .. n + 2 -> 0 .. Len(E)] /\ dec2 \in [1 .. n + 2 -> 0 .. MemberLimit]
  <2>1. \A i \in 1 .. n + 2 : i = n + 2 \/ i \in 1 .. n + 1
    BY <1>1
  <2>2. \A i \in 1 .. n + 2 : start2[i] \in 0 .. Len(E)
    BY <1>3, <1>4, <1>5, <1>6, <2>1
  <2>3. \A i \in 1 .. n + 2 : dec2[i] \in 0 .. MemberLimit
    BY <1>3, <1>4, <1>5, <1>6, <2>1
  <2>4. QED
    BY <2>2, <2>3
<1>8. start2[1] = 0 /\ dec2[1] = 0
  BY <1>1, <1>4, <1>5
<1> HIDE DEF start2, dec2
<1>9. ASSUME NEW i \in 1 .. n + 1
      PROVE  /\ LineBooks(Append(member, line)[i], start2[i], start2[i + 1])
             /\ dec2[i + 1] = dec2[i] + Append(member, line)[i].orig.size
  <2>1. CASE i = n + 1
    <3>1. i \in 1 .. n + 1 /\ i + 1 = n + 2
      BY <1>1, <2>1
    <3>2. start2[i] = Len(D) /\ start2[i + 1] = Len(E) /\ dec2[i] = dec[n + 1] /\ dec2[i + 1] = total2
      BY <1>5, <1>6, <2>1, <3>1
    <3>3. QED
      BY <1>2, <2>1, <3>2
  <2>2. CASE i # n + 1
    <3>1. i \in 1 .. n /\ i + 1 \in 1 .. n + 1
      BY <1>1, <2>2
    <3>2. LineBooks(member[i], start[i], start[i + 1]) /\ dec[i + 1] = dec[i] + member[i].orig.size
      BY <1>1, <3>1 DEF MemberBooks
    <3>3. QED
      BY <1>2, <1>5, <3>1, <3>2
  <2>3. QED
    BY <2>1, <2>2
<1>10. ExplainsMember(E, Append(member, line))
  <2>1. ExplainsMember(E, member)
    BY ExplainedByMore DEF MemberBooks
  <2>2. ASSUME NEW i \in 1 .. n + 1 PROVE ExplainsLine(E, Append(member, line)[i])
    <3>1. i = n + 1 \/ i \in 1 .. n
      BY <1>1
    <3>2. QED
      BY <1>1, <1>2, <2>1, <3>1 DEF ExplainsMember
  <2>3. QED
    BY <1>2, <2>2 DEF ExplainsMember
<1>11. Len(Append(member, line)) + 1 = n + 2
  BY <1>1, <1>2
<1>12. MemberBooks(Append(member, line), E, t, start2, dec2)
  BY <1>2, <1>7, <1>8, <1>9, <1>10, <1>11 DEF MemberBooks
<1>13. QED
  BY <1>6, <1>11, <1>12

BooksInv == MembersBooks /\ CodingBooks

LEMMA LastHasSums ==
  ASSUME WriterInv, MembersBooks
  PROVE  \E s : Sums(s, values) /\ s[Len(values)] = bytes
<1>1. Len(members) \in DOMAIN members
  BY DEF WriterInv, WriterTypes
<1>2. PICK D, s, start, dec : /\ MemberBooks(members[Len(members)], D, s, start, dec)
                              /\ LastBooks(members[Len(members)], D, s, start, dec)
  BY <1>1 DEF MembersBooks
<1>3. QED
  BY <1>2 DEF MemberBooks, LastBooks

\* A member without lines, and an encoder that has written nothing.
LEMMA EmptyLastBooks ==
  ASSUME values = <<>>, bytes = 0, chunkDecoded = 0
  PROVE  /\ \E D, s, start, dec : MemberBooks(<<>>, D, s, start, dec) /\ LastBooks(<<>>, D, s, start, dec)
         /\ \E s : Sums(s, values) /\ s[Len(values)] = bytes
<1>1. PICK s, start, dec : MemberBooks(<<>>, <<>>, s, start, dec) /\ s[0] = 0 /\ start[1] = 0 /\ dec[1] = 0
  BY EmptyBooks
<1>2. Len(<<>>) = 0 /\ 0 + 1 = 1
  OBVIOUS
<1>3. LastBooks(<<>>, <<>>, s, start, dec)
  BY <1>1, <1>2 DEF LastBooks
<1>4. Sums(s, <<>>)
  BY <1>1 DEF MemberBooks
<1>5. QED
  BY <1>1, <1>2, <1>3, <1>4

LEMMA BooksInit == Init => BooksInv
<1> SUFFICES ASSUME Init PROVE BooksInv
  OBVIOUS
<1>1. members = <<<<>>>> /\ values = <<>> /\ bytes = 0 /\ chunkDecoded = 0 /\ wpc = "next"
  BY DEF Init
<1>2. DOMAIN members = {1} /\ members[1] = <<>>
  BY <1>1
<1>3. \E D, s, start, dec : MemberBooks(<<>>, D, s, start, dec) /\ LastBooks(<<>>, D, s, start, dec)
  BY <1>1, EmptyLastBooks
<1>4. MembersBooks
  BY <1>2, <1>3 DEF MembersBooks
<1>5. QED
  BY <1>1, <1>4 DEF BooksInv, CodingBooks

LEMMA AddLineBooks ==
  ASSUME WriterInv, WriterBounds, CodingBounds, BooksInv, AddLine, WriterBounds'
  PROVE  MembersBooks'
<1>1. /\ Encoded /\ members' = [members EXCEPT ![Len(members)] = Append(@, Line)]
      /\ chunkDecoded' = chunkDecoded + rec.size
  BY DEF AddLine
<1>2. members \in Seq(Seq(Lines)) /\ Len(members) \in DOMAIN members /\ members[Len(members)] \in Seq(Lines)
  BY DEF WriterInv, WriterTypes
<1> DEFINE old == members[Len(members)]
<1>3. Line \in Lines /\ values' \in Seq(Values) /\ Extends(values, values') /\ ExplainsLine(values', Line)
  BY <1>1, LineIsExplained
<1>4. PICK D, s, start, dec : MemberBooks(old, D, s, start, dec) /\ LastBooks(old, D, s, start, dec)
  BY <1>2 DEF BooksInv, MembersBooks
<1>5. /\ D = values /\ start[Len(old) + 1] = Len(values) /\ dec[Len(old) + 1] = chunkDecoded
  BY <1>4 DEF LastBooks
<1>6. /\ LineBooks(Line, Len(values), Len(values')) /\ Len(values) <= Len(values')
      /\ \E t : Sums(t, values') /\ t[Len(values')] = bytes'
  BY <1>1, LastHasSums, LineIsBooked DEF BooksInv
<1>7. PICK t : Sums(t, values') /\ t[Len(values')] = bytes'
  BY <1>6
<1>8. Line.orig = rec
  BY DEF Line
<1>9. Len(values') <= MaxDefinitions /\ chunkDecoded' \in Nat /\ chunkDecoded' <= MemberLimit
  BY DEF WriterBounds
<1>10. chunkDecoded' = dec[Len(old) + 1] + Line.orig.size /\ start[Len(old) + 1] = Len(D) /\ Len(D) <= Len(values')
       /\ LineBooks(Line, Len(D), Len(values')) /\ Extends(D, values')
  BY <1>1, <1>3, <1>5, <1>6, <1>8
<1>11. PICK start2, dec2 : /\ MemberBooks(Append(old, Line), values', t, start2, dec2)
                           /\ start2[Len(Append(old, Line)) + 1] = Len(values')
                           /\ dec2[Len(Append(old, Line)) + 1] = chunkDecoded'
  <2>1. old \in Seq(Lines)
    BY <1>2
  <2> HIDE DEF old
  <2>2. QED
    BY <1>3, <1>4, <1>7, <1>9, <1>10, <2>1, MemberGrows
<1>12. /\ Len(members') = Len(members) /\ DOMAIN members' = DOMAIN members
       /\ members'[Len(members)] = Append(old, Line)
       /\ \A k \in DOMAIN members : k # Len(members) => members'[k] = members[k]
  BY <1>1, <1>2
<1> HIDE DEF old
<1>13. ASSUME NEW k \in DOMAIN members'
       PROVE  \E F, u, st, de :
                /\ MemberBooks(members'[k], F, u, st, de)
                /\ k = Len(members') => LastBooks(members[k], F, u, st, de)'
  <2>1. CASE k = Len(members)
    <3>1. members'[k] = Append(old, Line)
      BY <1>12, <2>1
    <3>2. LastBooks(members[k], values, t, start2, dec2)'
      BY <1>7, <1>11, <3>1 DEF LastBooks
    <3>3. QED
      BY <1>11, <3>1, <3>2
  <2>2. CASE k # Len(members)
    <3>1. k \in DOMAIN members /\ members'[k] = members[k] /\ k # Len(members')
      BY <1>12, <2>2
    <3>2. \E F, u, st, de : MemberBooks(members[k], F, u, st, de)
      BY <3>1 DEF BooksInv, MembersBooks
    <3>3. QED
      BY <3>1, <3>2
  <2>3. QED
    BY <2>1, <2>2
<1>14. QED
  BY <1>13 DEF MembersBooks

LEMMA BooksStep ==
  ASSUME WriterInv, WriterInv', WriterBounds, CodingBounds, WriterBounds', BooksInv, Export
  PROVE  BooksInv'
<1> USE DEF encodeVars, encoderVars, exportVars
<1>1. CASE TakeRecord
  <2>1. PICK r \in Records : Begin(r)
    BY <1>1 DEF TakeRecord
  <2>2. UNCHANGED <<values, bytes, members, chunkDecoded>>
    BY <1>1 DEF TakeRecord
  <2>3. MembersBooks'
    BY <2>2 DEF BooksInv, MembersBooks, LastBooks
  <2>4. \E s : Sums(s, values') /\ s[Len(values')] = bytes'
    BY <2>2, LastHasSums DEF BooksInv
  <2>5. r \in Item /\ values' \in Seq(Values) /\ bytes' \in Nat
    BY Constants DEF WriterInv, WriterTypes, WriterBounds
  <2>6. QED
    BY <2>1, <2>3, <2>4, <2>5, BeginBooks DEF BooksInv
<1>2. CASE EndExport \/ SourceFull
  <2>1. wpc' = "stopped" /\ UNCHANGED <<values, bytes, members, chunkDecoded>>
    BY <1>2 DEF EndExport, SourceFull
  <2>2. QED
    BY <2>1 DEF BooksInv, MembersBooks, LastBooks, CodingBooks
<1>3. CASE EncodeSlot
  <2>1. UNCHANGED <<values, bytes, members, chunkDecoded>>
    BY <1>3 DEF EncodeSlot
  <2>2. MembersBooks'
    BY <2>1 DEF BooksInv, MembersBooks, LastBooks
  <2>3. QED
    BY <1>3, <2>2, EncodeSlotBooks DEF BooksInv
<1>4. CASE StartMember
  <2>1. /\ Begin(rec) /\ values' = <<>> /\ bytes' = 0 /\ members' = Append(members, <<>>) /\ chunkDecoded' = 0
        /\ rec \in Item
    BY <1>4 DEF StartMember, WriterInv, WriterTypes
  <2>2. /\ Len(members') = Len(members) + 1 /\ Len(members) \in Nat
        /\ members'[Len(members) + 1] = <<>> /\ \A k \in DOMAIN members : members'[k] = members[k]
        /\ DOMAIN members' = DOMAIN members \cup {Len(members) + 1}
    <3>1. members \in Seq(Seq(Lines)) /\ <<>> \in Seq(Lines)
      BY DEF WriterInv, WriterTypes
    <3>2. QED
      BY <2>1, <3>1, Appended
  <2>3. /\ \E D, s, start, dec : MemberBooks(<<>>, D, s, start, dec) /\ LastBooks(<<>>, D, s, start, dec)'
        /\ \E s : Sums(s, values') /\ s[Len(values')] = bytes'
    <3>1. PICK s, start, dec : MemberBooks(<<>>, <<>>, s, start, dec) /\ s[0] = 0 /\ start[1] = 0 /\ dec[1] = 0
      BY EmptyBooks
    <3>2. Len(<<>>) = 0 /\ 0 + 1 = 1
      OBVIOUS
    <3>3. LastBooks(<<>>, <<>>, s, start, dec)'
      BY <2>1, <3>1, <3>2 DEF LastBooks
    <3>4. Sums(s, <<>>)
      BY <3>1 DEF MemberBooks
    <3>5. QED
      BY <2>1, <3>1, <3>2, <3>3, <3>4
  <2>4. ASSUME NEW k \in DOMAIN members'
        PROVE  \E D, s, start, dec :
                 /\ MemberBooks(members'[k], D, s, start, dec)
                 /\ k = Len(members') => LastBooks(members[k], D, s, start, dec)'
    <3>1. CASE k = Len(members) + 1
      <4>1. members'[k] = <<>>
        BY <2>2, <3>1
      <4>2. PICK D, s, start, dec : MemberBooks(<<>>, D, s, start, dec) /\ LastBooks(<<>>, D, s, start, dec)'
        BY <2>3
      <4>3. LastBooks(members[k], D, s, start, dec)'
        BY <4>1, <4>2 DEF LastBooks
      <4>4. QED
        BY <4>1, <4>2, <4>3
    <3>2. CASE k # Len(members) + 1
      <4>1. k \in DOMAIN members /\ members'[k] = members[k] /\ k # Len(members')
        BY <2>2, <3>2
      <4>2. \E D, s, start, dec : MemberBooks(members[k], D, s, start, dec)
        BY <4>1 DEF BooksInv, MembersBooks
      <4>3. QED
        BY <4>1, <4>2
    <3>3. QED
      BY <3>1, <3>2
  <2>5. MembersBooks'
    BY <2>4 DEF MembersBooks
  <2>6. values' \in Seq(Values) /\ bytes' \in Nat
    BY DEF WriterInv, WriterTypes, WriterBounds
  <2>7. QED
    BY <2>1, <2>3, <2>5, <2>6, BeginBooks DEF BooksInv
<1>5. CASE AddLine
  <2>1. wpc' = "next"
    BY <1>5 DEF AddLine
  <2>2. QED
    BY <1>5, <2>1, AddLineBooks DEF BooksInv, CodingBooks
<1>6. QED
  BY <1>1, <1>2, <1>3, <1>4, <1>5 DEF Export

-----------------------------------------------------------------------------
(* The reader of a member of which every line has arrived keeps the same books *)
(* as the encoder that wrote it.                                               *)

\* Within a marked line: what is defined so far, and the length decoded so far.
Place(s, start, p, c) ==
  /\ MarkedBooks(Current, start[l], start[l + 1], p, c)
  /\ Len(known) + Len(defs) = p[Len(got)] /\ knownBytes + defBytes = s[p[Len(got)]]
  /\ projected = Current.size - MarkCost - (c[Len(got)] - c[0])

Ledger(D, s, start, dec) ==
  /\ MemberBooks(members[m], D, s, start, dec) /\ Extends(known \o defs, D)
  /\ l \in 1 .. Len(members[m]) + 1
  /\ Len(known) = start[l] /\ knownBytes = s[start[l]] /\ decoded = dec[l]
  /\ rpc = "slot" => Current.marked /\ \E p, c : Place(s, start, p, c)

Unstarted ==
  wpc # "stopped" => l = 1 /\ knownBytes = 0 /\ decoded = 0 /\ damaged = 0 /\ ~failed /\ verdict.ok

Undamaged ==
  wpc = "stopped" /\ damaged = 0 => ~failed /\ verdict.ok /\ \E D, s, start, dec : Ledger(D, s, start, dec)

\* What the books say of the line that is read.
LEMMA LineInBooks ==
  ASSUME WriterInv, ReaderInv, Reading, NEW D, NEW s, NEW start, NEW dec, Ledger(D, s, start, dec)
  PROVE  /\ D \in Seq(Values) /\ Len(D) \in Nat /\ Len(D) <= MaxDefinitions /\ Sums(s, D)
         /\ l \in DOMAIN members[m] /\ Current \in Lines /\ ExplainsLine(D, Current)
         /\ start[l] \in 0 .. Len(D) /\ start[l + 1] \in 0 .. Len(D)
         /\ dec[l + 1] \in 0 .. MemberLimit /\ dec[l + 1] = dec[l] + Current.orig.size
         /\ LineBooks(Current, start[l], start[l + 1])
<1>1. l \in DOMAIN members[m] /\ Current \in Lines
  BY CurrentIsExplained
<1>2. members[m] \in Seq(Lines)
  BY DEF ReaderInv, ReaderTypes, WriterInv, WriterTypes
<1>3. l \in 1 .. Len(members[m]) + 1 /\ l + 1 \in 1 .. Len(members[m]) + 1
  BY <1>1, <1>2
<1>4. MemberBooks(members[m], D, s, start, dec)
  BY DEF Ledger
<1>5. D \in Seq(Values) /\ Len(D) <= MaxDefinitions /\ Sums(s, D) /\ ExplainsMember(D, members[m])
  BY <1>4 DEF MemberBooks
<1>6. Len(D) \in Nat
  BY <1>5
<1>7. start[l] \in 0 .. Len(D) /\ start[l + 1] \in 0 .. Len(D) /\ dec[l + 1] \in 0 .. MemberLimit
  BY <1>3, <1>4 DEF MemberBooks
<1>8. LineBooks(Current, start[l], start[l + 1]) /\ dec[l + 1] = dec[l] + Current.orig.size
  BY <1>1, <1>4 DEF MemberBooks, Current
<1>9. ExplainsLine(D, Current)
  BY <1>1, <1>5 DEF ExplainsMember, Current
<1>10. QED
  BY <1>1, <1>5, <1>6, <1>7, <1>8, <1>9

\* A line that is accepted is in the books.
LEMMA AcceptLedger ==
  ASSUME WriterInv, ReaderInv, ReaderInv', ReaderBounds, Reading, NEW D, NEW s, NEW start, NEW dec, Ledger(D, s, start, dec),
         NEW what, Accept(what, Current.orig.size), Len(known') = start[l + 1], knownBytes' = s[start[l + 1]],
         known' = known \/ known' = known \o defs, damaged = 0, Undamaged
  PROVE  Undamaged'
<1>1. /\ rpc' = "line" /\ l' = l + 1 /\ defs' = <<>> /\ decoded' = decoded + Current.orig.size
      /\ verdict' = [line |-> Current.orig, ok |-> TRUE, slots |-> what] /\ failed' = failed
      /\ UNCHANGED <<members, m>>
  BY DEF Accept, NoDecode, writerVars, exportVars
<1>2. l \in DOMAIN members[m] /\ members[m] \in Seq(Lines)
  BY CurrentIsExplained DEF ReaderInv, ReaderTypes, WriterInv, WriterTypes
<1>3. l' \in 1 .. Len(members'[m']) + 1
  BY <1>1, <1>2
<1>4. known \in Seq(Values) /\ defs \in Seq(Values) /\ known' \in Seq(Values)
  BY DEF ReaderInv, ReaderTypes
<1>5. known' \o defs' = known'
  BY <1>1, <1>4
<1>6. Extends(known', known \o defs)
  BY <1>4, Concatenated DEF Extends
<1>7. Extends(known \o defs, D) /\ MemberBooks(members[m], D, s, start, dec) /\ decoded = dec[l]
  BY DEF Ledger
<1>8. Extends(known' \o defs', D)
  BY <1>5, <1>6, <1>7 DEF Extends
<1>9. decoded' = dec[l']
  BY <1>1, <1>7, LineInBooks
<1>10. Ledger(D, s, start, dec)'
  BY <1>1, <1>3, <1>7, <1>8, <1>9 DEF Ledger
<1>11. verdict'.ok
  BY <1>1
<1>12. ~failed'
  BY <1>1, Zenon DEF Undamaged, Reading
<1>13. QED
  BY <1>10, <1>11, <1>12, Zenon DEF Undamaged

LEMMA ReadPlainLedger ==
  ASSUME WriterInv, ReaderInv, ReaderInv', ReaderBounds, Undamaged, damaged = 0, ReadPlain
  PROVE  Undamaged'
<1>1. Reading /\ rpc = "line" /\ ~Current.marked
  BY DEF ReadPlain
<1>2. PICK D, s, start, dec : Ledger(D, s, start, dec)
  BY <1>1 DEF Undamaged, Reading
<1>3. LineBooks(Current, start[l], start[l + 1])
  BY <1>1, <1>2, LineInBooks
<1>4. start[l] = start[l + 1] /\ Current.size = Current.orig.size /\ Current.size <= MaxRecord
  BY <1>1, <1>3 DEF LineBooks
<1>5. decoded + Current.size <= MemberLimit
  <2>1. dec[l + 1] \in 0 .. MemberLimit /\ dec[l + 1] = dec[l] + Current.orig.size
    BY <1>1, <1>2, LineInBooks
  <2>2. decoded = dec[l]
    BY <1>2 DEF Ledger
  <2>3. decoded + Current.size \in 0 .. MemberLimit
    BY <1>4, <2>1, <2>2
  <2>4. MemberLimit \in Nat
    BY Constants
  <2>5. QED
    BY <2>3, <2>4
<1>6. Accept([i \in DOMAIN Current.slots |-> Current.slots[i].value], Current.size) /\ UNCHANGED <<known, knownBytes>>
  BY <1>4, <1>5 DEF ReadPlain, Fits
<1>7. Len(known') = start[l + 1] /\ knownBytes' = s[start[l + 1]]
  BY <1>2, <1>4, <1>6 DEF Ledger
<1>8. QED
  BY <1>1, <1>2, <1>4, <1>6, <1>7, AcceptLedger

LEMMA ReadMarkedLedger ==
  ASSUME WriterInv, ReaderInv, ReaderInv', ReaderBounds, Undamaged, damaged = 0, ReadMarked
  PROVE  Undamaged'
<1>1. Reading /\ rpc = "line" /\ Current.marked
  BY DEF ReadMarked
<1>2. PICK D, s, start, dec : Ledger(D, s, start, dec)
  BY <1>1 DEF Undamaged, Reading
<1>3. LineBooks(Current, start[l], start[l + 1])
  BY <1>1, <1>2, LineInBooks
<1>4. Current.size <= MaxRecord /\ Current.size \in Int
  BY <1>1, <1>3, CurrentIsExplained DEF LineBooks, Lines
<1>5. ~failed /\ verdict.ok
  BY <1>1 DEF Undamaged, Reading
<1>6. ~(Current.size > MaxRecord)
  BY <1>4, Constants
<1>7. /\ rpc' = "slot" /\ projected' = Current.size - MarkCost
      /\ UNCHANGED <<writerVars, m, l, got, defs, defBytes, decoderVars, verdict, damaged>>
  BY <1>5, <1>6, Zenon DEF ReadMarked
<1>8. UNCHANGED <<members, known, knownBytes, decoded, failed, wpc, Current>>
  BY <1>7 DEF writerVars, exportVars, decoderVars, Current
<1>9. PICK p, c : MarkedBooks(Current, start[l], start[l + 1], p, c)
  BY <1>1, <1>3 DEF LineBooks
<1>10. p[0] = start[l] /\ c[0] \in Int
  <2>1. Current.slots \in Seq(Wrappers)
    BY <1>1, CurrentIsExplained DEF Lines
  <2>2. 0 \in 0 .. Len(Current.slots)
    BY <2>1
  <2>3. QED
    BY <1>9, <2>2 DEF MarkedBooks, Books
<1>11. got = <<>> /\ defs = <<>> /\ Len(<<>>) = 0 /\ defBytes = 0 /\ known \in Seq(Values) /\ knownBytes \in Nat
  BY <1>1 DEF ReaderInv, ReaderTypes, ReaderBounds
<1>12. Len(got) = 0 /\ Len(defs) = 0 /\ Len(known) \in Nat
  BY <1>11
<1>13. Len(known) = start[l] /\ knownBytes = s[start[l]]
  BY <1>2 DEF Ledger
<1>14. Len(known) + Len(defs) = p[Len(got)] /\ knownBytes + defBytes = s[p[Len(got)]]
  <2>1. Len(known) + Len(defs) = Len(known) /\ knownBytes + defBytes = knownBytes
    BY <1>11, <1>12
  <2>2. QED
    BY <1>10, <1>12, <1>13, <2>1
<1>15. projected' = Current.size - MarkCost - (c[Len(got)] - c[0])
  <2>1. c[Len(got)] - c[0] = 0
    BY <1>10, <1>12
  <2>2. MarkCost \in Nat
    BY Constants
  <2>3. QED
    BY <1>4, <1>7, <2>1, <2>2
<1>16. Place(s, start, p, c)'
  BY <1>7, <1>8, <1>9, <1>14, <1>15 DEF Place
<1>17. Ledger(D, s, start, dec)'
  <2>1. /\ MemberBooks(members[m], D, s, start, dec) /\ Extends(known \o defs, D)
        /\ l \in 1 .. Len(members[m]) + 1 /\ decoded = dec[l]
    BY <1>2 DEF Ledger
  <2>2. Current'.marked
    BY <1>1, <1>8
  <2>3. QED
    BY <1>7, <1>8, <1>13, <1>16, <2>1, <2>2 DEF Ledger
<1>18. ~failed' /\ verdict'.ok
  BY <1>5, <1>7, <1>8, Zenon
<1>19. QED
  BY <1>17, <1>18, Zenon DEF Undamaged

\* What the books say of the next slot of a marked line.
LEMMA SlotInBooks ==
  ASSUME WriterInv, ReaderInv, ReaderBounds, Reading, rpc = "slot", Len(got) < Len(Current.slots),
         NEW D, NEW s, NEW start, NEW dec, Ledger(D, s, start, dec), NEW p, NEW c, Place(s, start, p, c)
  PROVE  /\ D \in Seq(Values) /\ Sums(s, D) /\ Extends(Resolved, D) /\ Len(D) <= MaxDefinitions
         /\ Resolved \in Seq(Values) /\ Len(Resolved) = p[Len(got)] /\ Len(got) \in Nat
         /\ p[Len(got)] \in 0 .. Len(D) /\ p[Len(got) + 1] \in 0 .. Len(D)
         /\ c[Len(got)] \in Int /\ c[Len(got) + 1] \in Int /\ c[0] \in Int /\ Current.size \in Int
         /\ Current.orig.slots[Len(got) + 1] \in Values
         /\ Explains(D, Wrapper, Current.orig.slots[Len(got) + 1])
         /\ SlotBooks(Wrapper, Current.orig.slots[Len(got) + 1], p[Len(got)], p[Len(got) + 1], c[Len(got)], c[Len(got) + 1])
<1> DEFINE n == Len(got)
<1>1. /\ D \in Seq(Values) /\ Len(D) \in Nat /\ Len(D) <= MaxDefinitions /\ Sums(s, D)
      /\ Current \in Lines /\ ExplainsLine(D, Current)
      /\ start[l] \in 0 .. Len(D) /\ start[l + 1] \in 0 .. Len(D)
  BY LineInBooks
<1>2. got \in Seq(Values) /\ known \in Seq(Values) /\ defs \in Seq(Values)
  BY DEF ReaderInv, ReaderTypes
<1>3. /\ Current.slots \in Seq(Wrappers) /\ Current.orig.slots \in Seq(Values)
      /\ Len(Current.slots) = Len(Current.orig.slots) /\ Current.size \in Int
  BY <1>1 DEF ExplainsLine, Lines
<1>4. /\ n \in Nat /\ n \in 0 .. Len(Current.slots) /\ n + 1 \in 0 .. Len(Current.slots)
      /\ n + 1 \in DOMAIN Current.slots /\ (n + 1) - 1 = n /\ 0 \in 0 .. Len(Current.slots)
  BY <1>2, <1>3
<1>5. Current.orig.slots[n + 1] \in Values
  BY <1>3, <1>4
<1>6. Resolved = known \o defs /\ Resolved \in Seq(Values) /\ Len(Resolved) = Len(known) + Len(defs)
  BY <1>2, Concatenated DEF Resolved
<1>7. Extends(Resolved, D) /\ Len(Resolved) = p[n]
  BY <1>6 DEF Ledger, Place
<1>8. Books(Current.slots, Current.orig.slots, start[l], start[l + 1], p, c)
  BY DEF Place, MarkedBooks
<1>9. p[n] \in start[l] .. start[l + 1] /\ p[n + 1] \in start[l] .. start[l + 1]
  BY <1>4, <1>8 DEF Books
<1>10. p[n] \in 0 .. Len(D) /\ p[n + 1] \in 0 .. Len(D)
  BY <1>1, <1>9
<1>11. c[n] \in Int /\ c[n + 1] \in Int /\ c[0] \in Int
  BY <1>4, <1>8 DEF Books
<1>12. Wrapper = Current.slots[n + 1]
  BY DEF Wrapper
<1>13. Explains(D, Wrapper, Current.orig.slots[n + 1])
  BY <1>1, <1>4, <1>12 DEF ExplainsLine
<1>14. SlotBooks(Wrapper, Current.orig.slots[n + 1], p[n], p[n + 1], c[n], c[n + 1])
  <2>1. SlotBooks(Current.slots[n + 1], Current.orig.slots[n + 1], p[(n + 1) - 1], p[n + 1], c[(n + 1) - 1], c[n + 1])
    <3> HIDE DEF n
    <3>1. QED
      BY <1>4, <1>8 DEF Books
  <2>2. QED
    BY <1>4, <1>12, <2>1, Zenon
<1>15. QED
  BY <1>1, <1>3, <1>4, <1>5, <1>6, <1>7, <1>10, <1>11, <1>13, <1>14

\* A definition is the next one, and there is room for it.
LEMMA DefinitionIsTaken ==
  ASSUME WriterInv, ReaderInv, ReaderBounds, Reading, rpc = "slot", Len(got) < Len(Current.slots),
         NEW D, NEW s, NEW start, NEW dec, Ledger(D, s, start, dec), NEW p, NEW c, Place(s, start, p, c),
         Wrapper.tag = "define"
  PROVE  /\ Takes(Wrapper) /\ Wrapper.value \in Values /\ p[Len(got) + 1] = p[Len(got)] + 1
         /\ c[Len(got) + 1] = c[Len(got)] + DefCost
         /\ knownBytes + defBytes + Weight[Wrapper.value] = s[p[Len(got) + 1]]
<1> DEFINE n == Len(got)
           v == Current.orig.slots[n + 1]
<1>1. /\ D \in Seq(Values) /\ Sums(s, D) /\ Extends(Resolved, D) /\ Len(D) <= MaxDefinitions
      /\ Resolved \in Seq(Values) /\ Len(Resolved) = p[n] /\ n \in Nat
      /\ p[n] \in 0 .. Len(D) /\ p[n + 1] \in 0 .. Len(D) /\ v \in Values
      /\ Explains(D, Wrapper, v) /\ SlotBooks(Wrapper, v, p[n], p[n + 1], c[n], c[n + 1])
  BY SlotInBooks
<1> HIDE DEF n, v
<1>2. Wrapper.index \in Nat /\ Wrapper.value = v /\ IsEntry(D, Wrapper.index, v)
  BY <1>1 DEF Explains
<1>3. Wrapper.index = p[n] /\ p[n + 1] = p[n] + 1 /\ c[n + 1] = c[n] + DefCost
  BY <1>1 DEF SlotBooks
<1>4. Len(D) \in Nat /\ MaxDefinitions \in Nat /\ MaxDictionary \in Nat
  BY <1>1, Constants
<1>5. Wrapper.index < MaxDefinitions /\ p[n] \in Nat
  BY <1>1, <1>3, <1>4
<1>6. s[p[n] + 1] = s[p[n]] + Weight[v] /\ s[p[n] + 1] \in 0 .. MaxDictionary
  <2>1. p[n] + 1 \in DOMAIN D /\ D[p[n] + 1] = v
    BY <1>2, <1>3 DEF IsEntry
  <2>2. (p[n] + 1) - 1 = p[n] /\ p[n] + 1 \in 0 .. Len(D)
    BY <1>1, <1>3, <1>5
  <2>3. s[p[n] + 1] = s[(p[n] + 1) - 1] + Weight[D[p[n] + 1]] /\ s \in [0 .. Len(D) -> 0 .. MaxDictionary]
    BY <1>1, <2>1 DEF Sums
  <2>4. QED
    BY <2>1, <2>2, <2>3
<1>7. knownBytes + defBytes = s[p[n]]
  BY DEF Place, n
<1>8. knownBytes + defBytes + Weight[Wrapper.value] = s[p[n + 1]]
  BY <1>2, <1>3, <1>6, <1>7
<1>9. s[p[n + 1]] <= MaxDictionary
  BY <1>3, <1>4, <1>6
<1>10. Takes(Wrapper)
  BY <1>1, <1>3, <1>5, <1>8, <1>9 DEF Takes
<1>11. QED
  BY <1>1, <1>2, <1>3, <1>8, <1>10 DEF n

\* A reference finds its value.
LEMMA ReferenceIsFound ==
  ASSUME WriterInv, ReaderInv, ReaderBounds, Reading, rpc = "slot", Len(got) < Len(Current.slots),
         NEW D, NEW s, NEW start, NEW dec, Ledger(D, s, start, dec), NEW p, NEW c, Place(s, start, p, c),
         Wrapper.tag = "ref"
  PROVE  /\ Finds(Wrapper) /\ Resolved[Wrapper.index + 1] \in Values
         /\ p[Len(got) + 1] = p[Len(got)]
         /\ c[Len(got) + 1] = c[Len(got)] + RefCost - Weight[Resolved[Wrapper.index + 1]]
<1> DEFINE n == Len(got)
           v == Current.orig.slots[n + 1]
<1>1. /\ D \in Seq(Values) /\ Extends(Resolved, D)
      /\ Resolved \in Seq(Values) /\ Len(Resolved) = p[n] /\ v \in Values
      /\ Explains(D, Wrapper, v) /\ SlotBooks(Wrapper, v, p[n], p[n + 1], c[n], c[n + 1])
  BY SlotInBooks
<1> HIDE DEF v
<1>2. Wrapper.index \in Nat /\ IsEntry(D, Wrapper.index, v)
  BY <1>1 DEF Explains
<1>3. Wrapper.index < p[n] /\ p[n + 1] = p[n] /\ c[n + 1] = c[n] + RefCost - Weight[v]
  BY <1>1 DEF SlotBooks
<1>4. Wrapper.index + 1 \in DOMAIN Resolved
  <2>1. Len(Resolved) \in Nat /\ DOMAIN Resolved = 1 .. Len(Resolved)
    BY <1>1
  <2>2. QED
    BY <1>1, <1>2, <1>3, <2>1
<1>5. Resolved[Wrapper.index + 1] = v
  BY <1>1, <1>2, <1>4 DEF Extends, IsEntry
<1>6. Finds(Wrapper)
  BY <1>4, <1>5 DEF Finds, Field, v
<1>7. QED
  BY <1>1, <1>3, <1>5, <1>6

LEMMA NothingToReject ==
  ASSUME WriterInv, ReaderInv, ReaderBounds, Undamaged, damaged = 0
  PROVE  ~RejectSlot
<1> SUFFICES ASSUME RejectSlot PROVE FALSE
  OBVIOUS
<1>1. Reading /\ rpc = "slot" /\ Len(got) < Len(Current.slots)
  BY DEF RejectSlot
<1>2. PICK D, s, start, dec : Ledger(D, s, start, dec)
  BY <1>1 DEF Undamaged, Reading
<1>3. PICK p, c : Place(s, start, p, c)
  BY <1>1, <1>2 DEF Ledger
<1> DEFINE v == Current.orig.slots[Len(got) + 1]
<1>4. Explains(D, Wrapper, v) /\ SlotBooks(Wrapper, v, p[Len(got)], p[Len(got) + 1], c[Len(got)], c[Len(got) + 1])
  BY <1>1, <1>2, <1>3, SlotInBooks
<1> HIDE DEF v
<1>5. Wrapper.tag # "define"
  BY <1>1, <1>2, <1>3, DefinitionIsTaken DEF RejectSlot
<1>6. Wrapper.tag # "ref"
  BY <1>1, <1>2, <1>3, ReferenceIsFound DEF RejectSlot
<1>7. Wrapper.tag # "literal"
  BY <1>4 DEF RejectSlot, Explains, SlotBooks
<1>8. QED
  BY <1>4, <1>5, <1>6, <1>7 DEF RejectSlot, Explains

LEMMA DecodeSlotLedger ==
  ASSUME WriterInv, ReaderInv, ReaderInv', ReaderBounds, Undamaged, damaged = 0, DecodeSlot
  PROVE  Undamaged'
<1>1. /\ Reading /\ rpc = "slot" /\ Len(got) < Len(Current.slots)
      /\ UNCHANGED <<writerVars, rpc, m, l, decoderVars, verdict, damaged>>
  BY DEF DecodeSlot
<1>2. UNCHANGED <<members, known, knownBytes, decoded, failed, wpc, Current>>
  BY <1>1 DEF writerVars, exportVars, decoderVars, Current
<1>3. PICK D, s, start, dec : Ledger(D, s, start, dec)
  BY <1>1 DEF Undamaged, Reading
<1>4. PICK p, c : Place(s, start, p, c)
  BY <1>1, <1>3 DEF Ledger
<1> DEFINE n == Len(got)
           v == Current.orig.slots[n + 1]
<1>5. /\ D \in Seq(Values) /\ Len(Resolved) = p[n] /\ n \in Nat /\ p[n] \in 0 .. Len(D)
      /\ c[n] \in Int /\ c[n + 1] \in Int /\ c[0] \in Int /\ Current.size \in Int
      /\ Explains(D, Wrapper, v) /\ SlotBooks(Wrapper, v, p[n], p[n + 1], c[n], c[n + 1]) /\ v \in Values
  BY <1>1, <1>3, <1>4, SlotInBooks
<1>6. ExplainsLine(D, Current) /\ Extends(known \o defs, D)
  BY <1>1, <1>3, LineInBooks DEF Ledger
<1>7. got' = Append(got, v) /\ defs' \in Seq(Values) /\ Extends(known \o defs', D)
  BY <1>5, <1>6, DecodeSlotGrows
<1>8. got \in Seq(Values) /\ defs \in Seq(Values) /\ known \in Seq(Values)
  BY DEF ReaderInv, ReaderTypes
<1>9. Len(got') = n + 1
  BY <1>5, <1>7, <1>8
<1> HIDE DEF n, v
<1>10. /\ Len(known) + Len(defs) = p[n] /\ knownBytes + defBytes = s[p[n]]
       /\ projected = Current.size - MarkCost - (c[n] - c[0])
  BY <1>4 DEF Place, n
<1>11. MarkCost \in Nat /\ LiteralCost \in Nat /\ DefCost \in Nat /\ RefCost \in Nat /\ projected \in Int
       /\ \A u \in Values : Weight[u] \in Nat
  BY Constants DEF ReaderBounds
<1>0. /\ c[n] \in Int /\ c[n + 1] \in Int /\ c[0] \in Int /\ Current.size \in Int /\ projected \in Int
      /\ projected = Current.size - MarkCost - (c[n] - c[0])
  BY <1>5, <1>10, <1>11
<1>12. /\ Len(known) + Len(defs') = p[n + 1] /\ knownBytes + defBytes' = s[p[n + 1]]
       /\ projected' = Current.size - MarkCost - (c[n + 1] - c[0])
  <2>1. CASE Wrapper.tag = "literal"
    <3>1. UNCHANGED <<defs, defBytes, projected>>
      BY <2>1 DEF DecodeSlot
    <3>2. p[n + 1] = p[n] /\ c[n + 1] = c[n]
      BY <1>5, <2>1 DEF SlotBooks
    <3>3. QED
      BY <1>10, <3>1, <3>2
  <2>2. CASE Wrapper.tag = "wrapped"
    <3>1. UNCHANGED <<defs, defBytes>> /\ projected' = projected - LiteralCost
      BY <2>2 DEF DecodeSlot
    <3>2. p[n + 1] = p[n] /\ c[n + 1] = c[n] + LiteralCost
      BY <1>5, <2>2 DEF SlotBooks
    <3>3. projected' = Current.size - MarkCost - (c[n + 1] - c[0])
      <4>1. MarkCost \in Int /\ LiteralCost \in Int
        BY <1>11
      <4>2. QED
        BY <1>0, <3>1, <3>2, <4>1, SMTT(20)
    <3>4. QED
      BY <1>10, <3>1, <3>2, <3>3
  <2>3. CASE Wrapper.tag = "define"
    <3>1. /\ defs' = Append(defs, Wrapper.value) /\ defBytes' = defBytes + Weight[Wrapper.value]
          /\ projected' = projected - DefCost
      BY <2>3 DEF DecodeSlot
    <3>2. /\ Wrapper.value \in Values /\ p[n + 1] = p[n] + 1 /\ c[n + 1] = c[n] + DefCost
          /\ knownBytes + defBytes + Weight[Wrapper.value] = s[p[n + 1]]
      BY <1>1, <1>3, <1>4, <2>3, DefinitionIsTaken DEF n
    <3>3. Len(defs') = Len(defs) + 1 /\ Len(defs) \in Nat /\ Len(known) \in Nat
      BY <1>8, <3>1, <3>2
    <3>4. Len(known) + Len(defs') = p[n + 1]
      BY <1>10, <3>2, <3>3
    <3>5. projected' = Current.size - MarkCost - (c[n + 1] - c[0])
      <4>1. MarkCost \in Int /\ DefCost \in Int
        BY <1>11
      <4>2. QED
        BY <1>0, <3>1, <3>2, <4>1, SMTT(20)
    <3>6. knownBytes \in Nat /\ defBytes \in Nat /\ Weight[Wrapper.value] \in Nat
      BY <1>11, <3>2 DEF ReaderBounds
    <3>7. knownBytes + defBytes' = s[p[n + 1]]
      BY <3>1, <3>2, <3>6
    <3>8. QED
      BY <3>4, <3>5, <3>7
  <2>4. CASE Wrapper.tag = "ref"
    <3> DEFINE u == Resolved[Wrapper.index + 1]
    <3>1. UNCHANGED <<defs, defBytes>> /\ projected' = projected + Weight[u] - RefCost
      BY <2>4 DEF DecodeSlot
    <3>2. u \in Values /\ p[n + 1] = p[n] /\ c[n + 1] = c[n] + RefCost - Weight[u]
      BY <1>1, <1>3, <1>4, <2>4, ReferenceIsFound DEF n
    <3> HIDE DEF u
    <3>3. projected' = Current.size - MarkCost - (c[n + 1] - c[0])
      <4>1. MarkCost \in Int /\ RefCost - Weight[u] \in Int
        BY <1>11, <3>2
      <4>2. projected' = projected - (RefCost - Weight[u]) /\ c[n + 1] = c[n] + (RefCost - Weight[u])
        BY <1>5, <1>11, <3>1, <3>2
      <4>3. QED
        BY <1>0, <4>1, <4>2, SMTT(20)
    <3>4. QED
      BY <1>10, <3>1, <3>2, <3>3
  <2>5. QED
    BY <1>5, <2>1, <2>2, <2>3, <2>4 DEF Explains
<1>13. Place(s, start, p, c)'
  BY <1>1, <1>2, <1>4, <1>9, <1>12 DEF Place
<1>14. Ledger(D, s, start, dec)'
  BY <1>1, <1>2, <1>3, <1>7, <1>13 DEF Ledger
<1>15. ~failed /\ verdict.ok
  BY <1>1 DEF Undamaged, Reading
<1>16. ~failed' /\ verdict'.ok
  BY <1>1, <1>2, <1>15, Zenon
<1>17. QED
  BY <1>14, <1>16, Zenon DEF Undamaged

LEMMA DecodedLedger ==
  ASSUME WriterInv, ReaderInv, ReaderInv', ReaderBounds, Undamaged, damaged = 0, Decoded
  PROVE  Undamaged'
<1>1. Reading /\ rpc = "slot" /\ Len(got) = Len(Current.slots)
  BY DEF Decoded
<1>2. PICK D, s, start, dec : Ledger(D, s, start, dec)
  BY <1>1 DEF Undamaged, Reading
<1>3. PICK p, c : Place(s, start, p, c)
  BY <1>1, <1>2 DEF Ledger
<1>4. /\ LineBooks(Current, start[l], start[l + 1]) /\ Current \in Lines
      /\ dec[l + 1] \in 0 .. MemberLimit /\ dec[l + 1] = dec[l] + Current.orig.size
  BY <1>1, <1>2, LineInBooks
<1>5. MarkedBooks(Current, start[l], start[l + 1], p, c)
  BY <1>3 DEF Place
<1>6. p[Len(got)] = start[l + 1] /\ c[Len(got)] = Current.size /\ c[0] = Current.orig.size + MarkCost
  BY <1>1, <1>5 DEF MarkedBooks, Books
<1>7. Current.size \in Int /\ Current.orig.size \in Nat /\ MarkCost \in Nat /\ MemberLimit \in Nat
  BY <1>4, Constants DEF Lines, Item
<1>8. projected = Current.orig.size
  <2>1. projected = Current.size - MarkCost - (c[Len(got)] - c[0])
    BY <1>3 DEF Place
  <2>2. QED
    BY <1>6, <1>7, <2>1
<1>9. decoded = dec[l]
  BY <1>2 DEF Ledger
<1>10. Fits(projected)
  <2>1. decoded + Current.orig.size \in 0 .. MemberLimit
    BY <1>4, <1>9
  <2>2. Current.orig.size <= MaxRecord
    BY <1>4 DEF LineBooks
  <2>3. QED
    BY <1>7, <1>8, <2>1, <2>2 DEF Fits
<1>11. Accept(got, projected) /\ known' = Resolved /\ knownBytes' = knownBytes + defBytes
  BY <1>10 DEF Decoded
<1>12. Len(known') = start[l + 1] /\ knownBytes' = s[start[l + 1]]
  <2>1. Len(Resolved) = Len(known) + Len(defs)
    BY Concatenated DEF Resolved, ReaderInv, ReaderTypes
  <2>2. QED
    BY <1>3, <1>6, <1>11, <2>1 DEF Place
<1>13. Accept(got, Current.orig.size) /\ known' = known \o defs
  BY <1>8, <1>11 DEF Resolved
<1>14. QED
  BY <1>1, <1>2, <1>12, <1>13, AcceptLedger

\* Where each member's books start.
LEMMA BooksStart ==
  ASSUME WriterInv, MembersBooks, NEW k \in DOMAIN members
  PROVE  \E D, s, start, dec : /\ MemberBooks(members[k], D, s, start, dec) /\ 1 \in 1 .. Len(members[k]) + 1
                               /\ start[1] = 0 /\ s[0] = 0 /\ dec[1] = 0
<1>1. PICK D, s, start, dec : MemberBooks(members[k], D, s, start, dec)
  BY DEF MembersBooks
<1>2. start[1] = 0 /\ s[0] = 0 /\ dec[1] = 0
  BY <1>1 DEF MemberBooks, Sums
<1>3. members[k] \in Seq(Lines)
  BY DEF WriterInv, WriterTypes
<1>4. 1 \in 1 .. Len(members[k]) + 1
  BY <1>3
<1>5. QED
  BY <1>1, <1>2, <1>4

LEMMA LedgerDuringExport ==
  ASSUME WriterInv, ReaderInv, BooksInv, Unstarted, Export
  PROVE  Unstarted' /\ Undamaged'
<1> USE DEF encodeVars, encoderVars, exportVars
<1>1. wpc # "stopped" /\ UNCHANGED readerVars
  BY DEF Export, TakeRecord, EndExport, EncodeSlot, StartMember, AddLine, SourceFull, Encoded
<1>2. UNCHANGED <<rpc, m, l, got, defs, known, knownBytes, decoded, failed, verdict, damaged>>
  BY <1>1 DEF readerVars, decodeVars, decoderVars
<1>3. l = 1 /\ knownBytes = 0 /\ decoded = 0 /\ damaged = 0 /\ ~failed /\ verdict.ok
  BY <1>1 DEF Unstarted
<1>4. rpc = "line" /\ m = 1 /\ known = <<>> /\ defs = <<>>
  BY <1>1 DEF ReaderInv, Unread
<1>5. Unstarted'
  BY <1>2, <1>3, Zenon DEF Unstarted
<1>6. Undamaged'
  <2> SUFFICES ASSUME wpc' = "stopped" PROVE ~failed' /\ verdict'.ok /\ \E D, s, start, dec : Ledger(D, s, start, dec)'
    BY DEF Undamaged
  <2>1. UNCHANGED members
    BY <1>1 DEF Export, TakeRecord, EndExport, EncodeSlot, StartMember, AddLine, SourceFull, Begin
  <2>2. 1 \in DOMAIN members
    BY DEF WriterInv, WriterTypes
  <2>3. PICK D, s, start, dec : /\ MemberBooks(members[1], D, s, start, dec) /\ 1 \in 1 .. Len(members[1]) + 1
                                /\ start[1] = 0 /\ s[0] = 0 /\ dec[1] = 0
    BY <2>2, BooksStart DEF BooksInv
  <2>4. known \o defs = <<>> /\ Len(known) = 0
    BY <1>4
  <2>5. Extends(known \o defs, D)
    BY <2>4 DEF Extends
  <2>6. rpc' # "slot"
    BY <1>2, <1>4
  <2>7. Ledger(D, s, start, dec)'
    BY <1>2, <1>3, <1>4, <2>1, <2>3, <2>4, <2>5, <2>6 DEF Ledger
  <2>8. ~failed' /\ verdict'.ok
    BY <1>2, <1>3, Zenon
  <2>9. QED
    BY <2>7, <2>8, Zenon
<1>7. QED
  BY <1>5, <1>6

LEMMA NextMemberLedger ==
  ASSUME WriterInv, ReaderInv, MembersBooks, NextMember
  PROVE  Undamaged'
<1>1. /\ rpc = "line" /\ m < Len(members) /\ m' = m + 1 /\ l' = 1 /\ known' = <<>> /\ knownBytes' = 0 /\ decoded' = 0
      /\ failed' = FALSE /\ verdict' = NoVerdict /\ UNCHANGED <<rpc, defs, members>>
  BY DEF NextMember, decodeVars, writerVars, exportVars
<1>2. m + 1 \in DOMAIN members
  BY <1>1 DEF ReaderInv, ReaderTypes, WriterInv, WriterTypes
<1>3. PICK D, s, start, dec : /\ MemberBooks(members[m + 1], D, s, start, dec) /\ 1 \in 1 .. Len(members[m + 1]) + 1
                              /\ start[1] = 0 /\ s[0] = 0 /\ dec[1] = 0
  BY <1>2, BooksStart
<1>4. known' \o defs' = <<>> /\ Len(known') = 0
  <2>1. defs' = <<>>
    BY <1>1 DEF ReaderInv, ReaderTypes
  <2>2. QED
    BY <1>1, <2>1
<1>5. Extends(known' \o defs', D)
  BY <1>4 DEF Extends
<1>6. rpc' # "slot"
  BY <1>1
<1>7. Ledger(D, s, start, dec)'
  BY <1>1, <1>3, <1>4, <1>5, <1>6 DEF Ledger
<1>8. verdict'.ok
  BY <1>1 DEF NoVerdict
<1>9. ~failed'
  BY <1>1, Zenon
<1>10. QED
  BY <1>7, <1>8, <1>9, Zenon DEF Undamaged

LEMMA LedgerStep ==
  ASSUME WriterInv, ReaderInv, ReaderInv', ReaderBounds, BooksInv, Undamaged, Reader
  PROVE  Undamaged'
<1>1. CASE BreakLine
  <2>1. damaged' # 0
    BY <1>1 DEF BreakLine, ReaderBounds
  <2>2. QED
    BY <2>1 DEF Undamaged
<1>2. CASE NextMember
  BY <1>2, NextMemberLedger DEF BooksInv
<1>3. CASE ReadPlain \/ ReadMarked \/ DecodeSlot \/ RejectSlot \/ Decoded
  <2>1. damaged' = damaged
    BY <1>3 DEF ReadPlain, ReadMarked, DecodeSlot, RejectSlot, Decoded, Accept, Reject
  <2>2. CASE damaged = 0
    BY <1>3, <2>2, ReadPlainLedger, ReadMarkedLedger, DecodeSlotLedger, NothingToReject, DecodedLedger
  <2>3. CASE damaged # 0
    BY <2>1, <2>3 DEF Undamaged
  <2>4. QED
    BY <2>2, <2>3
<1>4. QED
  BY <1>1, <1>2, <1>3 DEF Reader

BalanceInv == BooksInv /\ Unstarted /\ Undamaged

LEMMA BalanceStep ==
  ASSUME CodecInv, LimitsInv, BalanceInv, CodecInv', LimitsInv', [Next]_vars
  PROVE  BalanceInv'
<1>1. CASE Export
  BY <1>1, BooksStep, LedgerDuringExport DEF CodecInv, LimitsInv, BalanceInv
<1>2. CASE Reader
  <2>1. UNCHANGED writerVars /\ wpc = "stopped"
    BY <1>2 DEF Reader, ReadPlain, ReadMarked, DecodeSlot, RejectSlot, Decoded, BreakLine, NextMember, Accept, Reject, Reading
  <2>2. wpc' = "stopped" /\ BooksInv'
    BY <2>1 DEF BalanceInv, BooksInv, MembersBooks, LastBooks, CodingBooks, writerVars, encodeVars, encoderVars, exportVars
  <2>3. Undamaged'
    BY <1>2, LedgerStep DEF CodecInv, LimitsInv, BalanceInv
  <2>4. QED
    BY <2>2, <2>3 DEF BalanceInv, Unstarted
<1>3. CASE UNCHANGED vars
  <2> USE DEF vars, writerVars, encodeVars, encoderVars, exportVars, readerVars, decodeVars, decoderVars
  <2>1. BooksInv'
    BY <1>3 DEF BalanceInv, BooksInv, MembersBooks, LastBooks, CodingBooks
  <2>2. Unstarted'
    BY <1>3, Zenon DEF BalanceInv, Unstarted
  <2>3. \A D, s, start, dec : Ledger(D, s, start, dec) => Ledger(D, s, start, dec)'
    BY <1>3 DEF Ledger, Place, Current
  <2>4. UNCHANGED <<wpc, damaged, failed, verdict>>
    BY <1>3
  <2>5. Undamaged'
    BY <2>3, <2>4, Zenon DEF BalanceInv, Undamaged
  <2>6. QED
    BY <2>1, <2>2, <2>5 DEF BalanceInv
<1>4. QED
  BY <1>1, <1>2, <1>3 DEF Next

\* The reader rejects a line only if one of the same member did not arrive, for
\* any values, records and limits: each member is complete in itself, and no limit
\* of the reader is tighter than what the exporter allowed (bundle.py,
\* spool_chunks, 222-253; evidence.py, 161-172 and 226-261).
THEOREM RejectionsNeedDamage == Spec => []RejectsNeedDamage
<1>1. Init => CodecInv /\ LimitsInv /\ BalanceInv
  <2> SUFFICES ASSUME Init PROVE BalanceInv
    BY WriterInit, ReaderInit, BoundsInit, ReaderBoundsInit DEF CodecInv, LimitsInv
  <2>1. /\ wpc = "next" /\ l = 1 /\ knownBytes = 0 /\ decoded = 0 /\ damaged = 0 /\ failed = FALSE /\ verdict = NoVerdict
    BY DEF Init
  <2>2. verdict.ok
    BY <2>1 DEF NoVerdict
  <2>3. Unstarted
    BY <2>1, <2>2, Zenon DEF Unstarted
  <2>4. Undamaged
    BY <2>1 DEF Undamaged
  <2>5. QED
    BY <2>3, <2>4, BooksInit DEF BalanceInv
<1>2. CodecInv /\ LimitsInv /\ BalanceInv /\ [Next]_vars => (CodecInv /\ LimitsInv /\ BalanceInv)'
  BY CodecStep, LimitsStep, BalanceStep
<1>3. CodecInv /\ LimitsInv /\ BalanceInv => RejectsNeedDamage
  <2> SUFFICES ASSUME CodecInv, LimitsInv, BalanceInv, ~(damaged > 0) PROVE ~failed /\ verdict.ok
    BY Zenon DEF RejectsNeedDamage
  <2>1. damaged = 0
    BY DEF LimitsInv, ReaderBounds
  <2>2. CASE wpc = "stopped"
    BY <2>1, <2>2, Zenon DEF BalanceInv, Undamaged
  <2>3. CASE wpc # "stopped"
    BY <2>3, Zenon DEF BalanceInv, Unstarted
  <2>4. QED
    BY <2>2, <2>3
<1>4. QED
  BY <1>1, <1>2, <1>3, PTL DEF Spec
=============================================================================
