------------------------------ MODULE NvmeProofs ------------------------------
(* Theorems about the NVMe probe and the helper that reads its cache, for    *)
(* any number of controllers, drives, exchanges and reboots.                 *)
EXTENDS NvmeCache, TLAPS

USE DEF None, NoDevice, Never, NoName

-----------------------------------------------------------------------------
(* Whose data a row holds. *)

\* A row's data, if any, are of the device that the row names.
OwnData(r) == r = None \/ \A n \in DOMAIN r : r[n].data \in {None, r[n].id}

\* While the probe reads a device that is still the one it found, what it read
\* is that device's.
ReadsOne == ppc = "again" /\ Identity(name) = id => data \in {None, id}

DataInv ==
  /\ plugged \in [Names -> Devices \cup {NoDevice}]
  /\ name \in Keys /\ todo \subseteq Names
  /\ ppc \in {"smart", "again"} =>
       name \in Names /\ \E b, d : id = <<b, name, d>> /\ d \in Devices
  /\ ReadsOne /\ OwnData(rows) /\ OwnData(cache.rows) /\ OwnData(copy.rows)
  /\ left \subseteq RowsOf(copy)

LEMMA DataInit == Init => DataInv
  BY DEF Init, DataInv, ReadsOne, OwnData, NoCache, RowsOf, Keys

LEMMA DataKept == 
  ASSUME DataInv, NEW n \in Names, NEW i, NEW d, d \in {None, i}, Keep(n, i, d)
  PROVE  OwnData(rows')
<1> DEFINE others == IF rows = None THEN {} ELSE DOMAIN rows
<1>1. rows' = [m \in {n} \cup others |-> IF m = n THEN [id |-> i, data |-> d, diagnostic |-> diagnostic, at |-> now] ELSE rows[m]]
  BY DEF Keep
<1>2. \A m \in DOMAIN rows' : m = n \/ (rows # None /\ m \in DOMAIN rows)
  BY <1>1
<1>3. \A m \in DOMAIN rows' : rows'[m].data \in {None, rows'[m].id}
  BY <1>1, <1>2 DEF DataInv, OwnData
<1>4. QED
  BY <1>3 DEF OwnData

LEMMA DataProbe == ASSUME DataInv, ProbeStep PROVE DataInv'
<1>1. UNCHANGED <<now, boot, plugged, left, copy>>
  BY DEF ProbeStep, ProbeStart, LookBefore, Smartctl, LookAfter, ProbeWrite, ProbeDies, Probe, worldVars,
     helperVars, roundVars
<1>2. CASE ProbeStart
  BY <1>1, <1>2 DEF ProbeStart, DataInv, ReadsOne, RowsOf, Present
<1>3. CASE LookBefore
  <2>1. PICK n \in todo :
          /\ todo' = todo \ {n}
          /\ IF plugged[n] = NoDevice
             THEN Keep(n, None, None)
             ELSE ppc' = "smart" /\ name' = n /\ id' = Identity(n) /\ UNCHANGED <<data, diagnostic, rows>>
    BY <1>3 DEF LookBefore
  <2>2. CASE plugged[n] = NoDevice
    <3>1. OwnData(rows') /\ ppc' = "next" /\ name' = NoName
      BY <2>1, <2>2, DataKept DEF Keep, DataInv
    <3>2. QED
      BY <1>1, <1>3, <2>1, <3>1 DEF LookBefore, DataInv, ReadsOne, RowsOf, Keys
  <2>3. CASE plugged[n] # NoDevice
    BY <1>1, <1>3, <2>1, <2>3 DEF LookBefore, DataInv, ReadsOne, RowsOf, Keys, Identity
  <2>4. QED
    BY <2>2, <2>3
<1>4. CASE Smartctl
  BY <1>1, <1>4 DEF Smartctl, DataInv, ReadsOne, RowsOf, Identity
<1>5. CASE LookAfter
  <2>1. OwnData(rows') /\ ppc' = "next" /\ name' = NoName
    BY <1>5, DataKept DEF LookAfter, Keep, DataInv, ReadsOne
  <2>2. QED
    BY <1>1, <1>5, <2>1 DEF LookAfter, DataInv, ReadsOne, RowsOf, Keys
<1>6. CASE ProbeWrite \/ ProbeDies
  BY <1>1, <1>6 DEF ProbeWrite, ProbeDies, ProbeIdle, DataInv, ReadsOne, OwnData, RowsOf, Keys
<1>7. QED
  BY <1>2, <1>3, <1>4, <1>5, <1>6 DEF ProbeStep

LEMMA DataHelper == ASSUME DataInv, HelperStep PROVE DataInv'
<1>1. UNCHANGED <<worldVars, cache, probeVars>>
  BY DEF HelperStep, HelperStart, HelperRead, CheckIdentity, Accept, Choose, AppendRow, HelperFails, HelperEnd,
     HelperRestart, Helper
<1>2. /\ copy' \in {copy, cache, NoCache} /\ left' \subseteq RowsOf(copy')
  BY DEF HelperStep, HelperStart, HelperRead, CheckIdentity, Accept, Choose, AppendRow, HelperFails, HelperEnd,
     HelperRestart, HelperIdle, EmitGaps, Emit, DataInv, RowsOf
<1>3. OwnData(copy'.rows)
  BY <1>2 DEF DataInv, OwnData, NoCache
<1>4. QED
  BY <1>1, <1>2, <1>3 DEF worldVars, probeVars, DataInv, ReadsOne, Identity, RowsOf

LEMMA DataHost == ASSUME DataInv, Exchange \/ Reboot \/ Tick PROVE DataInv'
<1>1. CASE Exchange
  <2>1. PICK n \in Names, d \in {NoDevice} \cup Devices :
          /\ plugged' = [plugged EXCEPT ![n] = d]
          /\ ppc \in {"smart", "again"} => id # <<boot, n, d>>
    BY <1>1 DEF Exchange
  <2>2. UNCHANGED <<boot, cache, probeVars, copy, left>>
    BY <1>1 DEF Exchange, helperVars, roundVars
  <2>3. ppc = "again" /\ Identity(name)' = id => Identity(name) = id
    BY <2>1, <2>2 DEF DataInv, Identity, probeVars
  <2>4. plugged' \in [Names -> Devices \cup {NoDevice}]
    BY <2>1 DEF DataInv
  <2>5. QED
    BY <2>2, <2>3, <2>4 DEF DataInv, ReadsOne, probeVars, RowsOf
<1>2. CASE Reboot
  BY <1>2 DEF Reboot, ProbeIdle, HelperIdle, DataInv, ReadsOne, OwnData, RowsOf, Keys, NoCache
<1>3. CASE Tick
  BY <1>3 DEF Tick, DataInv, ReadsOne, RowsOf, Identity, probeVars, helperVars, roundVars
<1>4. QED
  BY <1>1, <1>2, <1>3

LEMMA DataStep == DataInv /\ [Next]_vars => DataInv'
<1> SUFFICES ASSUME DataInv, [Next]_vars PROVE DataInv'
  OBVIOUS
<1>1. CASE UNCHANGED vars
  BY <1>1 DEF vars, worldVars, probeVars, helperVars, roundVars, DataInv, ReadsOne, Identity, RowsOf
<1>2. QED
  BY <1>1, DataProbe, DataHelper, DataHost DEF Next

\* Data are taken for a controller only when they were read, in this boot, from
\* the very device behind its name: for any number of controllers and drives
\* (nvme.py, capture and read_cache).
THEOREM DataAreOfTheirDevice == Spec => SameDevice
<1> DEFINE Taken == \A n \in left : (hpc = "check" /\ hpc' = "check" /\ n \notin left')
                      => copy.rows[n].data \in {None, Identity(n)}
<1>1. DataInv /\ [Next]_vars => [Taken]_vars
  <2> SUFFICES ASSUME DataInv, Next, NEW n \in left, hpc = "check", hpc' = "check", n \notin left'
               PROVE  copy.rows[n].data \in {None, Identity(n)}
    OBVIOUS
  <2>1. CheckIdentity
    BY DEF Next, ProbeStep, ProbeStart, LookBefore, Smartctl, LookAfter, ProbeWrite, ProbeDies, Probe, HelperStep,
       HelperStart, HelperRead, Accept, Choose, AppendRow, HelperFails, HelperEnd, HelperRestart, HelperIdle, Emit,
       EmitGaps, Exchange, Reboot, Tick, helperVars, roundVars
  <2>2. Identity(n) = copy.rows[n].id
    BY <2>1 DEF CheckIdentity, EmitGaps, Emit
  <2>3. QED
    BY <2>2 DEF DataInv, OwnData, RowsOf
<1>2. QED
  BY <1>1, DataInit, DataStep, PTL DEF Spec, SameDevice

-----------------------------------------------------------------------------
(* Types. *)

\* Dates grow with time.
LEMMA DatesGrow == \A s, t \in Nat : Date(s) \in Nat /\ (s <= t => Date(s) <= Date(t))
<1> SUFFICES ASSUME NEW s \in Nat, NEW t \in Nat PROVE Date(s) \in Nat /\ (s <= t => Date(s) <= Date(t))
  OBVIOUS
<1>1. Day \in Nat /\ Day > 0
  BY NvmeCacheAssumption
<1>2. QED
  BY <1>1 DEF Date

\* TypeOK, made inductive: the probe reads a controller that has a name.
Types == TypeOK /\ (ppc \in {"smart", "again"} => name \in Names)

LEMMA NumbersAreNumbers ==
  ASSUME Types
  PROVE  /\ now \in Nat /\ MaxTime \in Nat /\ boot \in Nat /\ MaxBoots \in Nat /\ MaxFaults \in Nat
         /\ begun \in Nat /\ begun <= now /\ Date(now) \in Nat /\ Date(begun) \in Nat /\ Date(begun) <= Date(now)
         /\ Names \subseteq Keys /\ Coverage \in Keys
  BY NvmeCacheAssumption, DatesGrow DEF Types, TypeOK, Keys

LEMMA NothingIsTyped ==
  IsRows(None, Names) /\ IsRows(None, Keys) /\ IsCache(NoCache) /\ NoSignature \in Signatures /\ None \in Identities
  BY NvmeCacheAssumption DEF IsRows, IsCache, NoCache, NoSignature, Signatures, Keys, Identities

LEMMA TypesInit == Init => Types
<1> SUFFICES ASSUME Init PROVE Types
  OBVIOUS
<1> USE DEF Init
<1>1. /\ now \in 0 .. MaxTime /\ boot \in 1 .. MaxBoots /\ plugged \in [Names -> Devices \cup {NoDevice}]
      /\ faults \in 0 .. MaxFaults /\ begun \in 0 .. now
  <2>1. now = 0 /\ begun = 0 /\ boot = 1 /\ faults = 0
    OBVIOUS
  <2>2. MaxTime \in Nat /\ MaxFaults \in Nat /\ MaxBoots \in Nat /\ MaxBoots # 0
    BY NvmeCacheAssumption
  <2>3. plugged \in [Names -> Devices \cup {NoDevice}]
    OBVIOUS
  <2> HIDE DEF Init
  <2>4. QED
    BY <2>1, <2>2, <2>3
<1>2. IsCache(cache) /\ IsCache(copy) /\ IsRows(rows, Names) /\ IsRows(out, Keys)
  BY NothingIsTyped
<1>3. heard \in [Keys -> Never .. Date(now)]
  BY DatesGrow, NvmeCacheAssumption
<1>4. sig \in Signatures /\ seen \in [Keys -> Signatures] /\ {id, data, diagnostic} \subseteq Identities
  BY NothingIsTyped
<1>5. QED
  BY <1>1, <1>2, <1>3, <1>4 DEF Types, TypeOK, Keys

LEMMA FaultIsTyped == ASSUME Types, Fault PROVE faults' \in 0 .. MaxFaults
  BY NvmeCacheAssumption DEF Types, TypeOK, Fault

\* What is left of a run or of a round when it is over.
LEMMA ProbeIdleTypes ==
  ASSUME ProbeIdle
  PROVE  /\ IsRows(rows', Names) /\ ppc' = "idle" /\ todo' = {} /\ name' \in Keys
         /\ {id', data', diagnostic'} \subseteq Identities /\ issue' \in BOOLEAN
  BY NothingIsTyped DEF ProbeIdle, Keys

LEMMA HelperIdleTypes ==
  ASSUME HelperIdle
  PROVE  /\ IsCache(copy') /\ IsRows(out', Keys) /\ hpc' = "idle" /\ begun' = 0
         /\ names' = {} /\ left' = {} /\ sig' \in Signatures
  BY NothingIsTyped DEF HelperIdle

LEMMA IdentityIsTyped ==
  ASSUME Types, NEW n \in Names
  PROVE  Identity(n) \in Identities
  BY DEF Types, TypeOK, Identity, Identities

LEMMA KeepTypes ==
  ASSUME Types, NEW n \in Names, NEW i \in Identities, NEW d \in Identities, Keep(n, i, d)
  PROVE  IsRows(rows', Names) /\ name' \in Keys /\ {id', data', diagnostic'} \subseteq Identities /\ ppc' = "next"
<1> DEFINE others == IF rows = None THEN {} ELSE DOMAIN rows
<1>1. rows' = [m \in {n} \cup others |-> IF m = n THEN [id |-> i, data |-> d, diagnostic |-> diagnostic, at |-> now] ELSE rows[m]]
  BY DEF Keep
<1>2. [id |-> i, data |-> d, diagnostic |-> diagnostic, at |-> now] \in Rows
  BY DEF Rows, Types, TypeOK
<1>3. others \subseteq Names /\ \A m \in others : rows[m] \in Rows
  BY DEF IsRows, Types, TypeOK
<1>4. DOMAIN rows' \subseteq Names /\ \A m \in DOMAIN rows' : rows'[m] \in Rows
  BY <1>1, <1>2, <1>3
<1>5. QED
  BY <1>4, NothingIsTyped DEF Keep, IsRows, Keys

LEMMA TypesProbe == ASSUME Types, ProbeStep PROVE Types'
<1>1. UNCHANGED <<worldVars, helperVars, heard>>
  BY DEF ProbeStep, ProbeStart, LookBefore, Smartctl, LookAfter, ProbeWrite, ProbeDies, Probe
<1>2. /\ IsCache(cache') /\ IsRows(rows', Names) /\ ppc' \in {"idle", "next", "smart", "again"} /\ todo' \subseteq Names
      /\ name' \in Keys /\ {id', data', diagnostic'} \subseteq Identities /\ issue' \in BOOLEAN /\ faults' \in 0 .. MaxFaults
      /\ ppc' \in {"smart", "again"} => name' \in Names
  <2> USE DEF Types, TypeOK
  <2>1. CASE ProbeStart
    BY <2>1, FaultIsTyped DEF ProbeStart, Present
  <2>2. CASE LookBefore
    <3>1. PICK n \in todo :
            /\ todo' = todo \ {n}
            /\ IF plugged[n] = NoDevice
               THEN Keep(n, None, None)
               ELSE ppc' = "smart" /\ name' = n /\ id' = Identity(n) /\ UNCHANGED <<data, diagnostic, rows>>
      BY <2>2 DEF LookBefore
    <3>2. CASE plugged[n] = NoDevice
      BY <2>2, <3>1, <3>2, KeepTypes, NothingIsTyped DEF LookBefore
    <3>3. CASE plugged[n] # NoDevice
      BY <2>2, <3>1, <3>3, IdentityIsTyped DEF LookBefore, Keys
    <3>4. QED
      BY <3>2, <3>3
  <2>3. CASE Smartctl
    BY <2>3, IdentityIsTyped, NothingIsTyped, FaultIsTyped DEF Smartctl
  <2>4. CASE LookAfter
    <3>1. (IF Identity(name) = id THEN data ELSE None) \in Identities
      BY NothingIsTyped
    <3>2. QED
      BY <2>4, <3>1, KeepTypes DEF LookAfter
  <2>5. CASE ProbeWrite
    <3>1. IsCache([boot |-> boot, at |-> now, rows |-> rows, issue |-> issue])
      BY NvmeCacheAssumption DEF IsCache
    <3>2. IsCache([boot |-> boot, at |-> now, rows |-> None, issue |-> TRUE])
      BY NvmeCacheAssumption, NothingIsTyped DEF IsCache
    <3>3. QED
      BY <2>5, <3>1, <3>2, ProbeIdleTypes, FaultIsTyped DEF ProbeWrite
  <2>6. CASE ProbeDies
    BY <2>6, ProbeIdleTypes, FaultIsTyped DEF ProbeDies
  <2>7. QED
    BY <2>1, <2>2, <2>3, <2>4, <2>5, <2>6 DEF ProbeStep
<1>3. QED
  BY <1>1, <1>2 DEF worldVars, helperVars, roundVars, Types, TypeOK

\* A row that is emitted, and its signature.
LEMMA OutIsTyped ==
  ASSUME Types, NEW k \in Pending
  PROVE  k \in Keys /\ out[k] \in Rows /\ Signature(k) \in Signatures /\ (Done(k) => IsRows(out', Keys))
<1>1. k \in Keys /\ out[k] \in Rows
  BY DEF Pending, IsRows, Types, TypeOK
<1>2. Signature(k) \in Signatures
  BY <1>1, NumbersAreNumbers DEF Signature, Signatures
<1>3. Done(k) => IsRows(out', Keys)
  BY DEF Done, Pending, IsRows, Types, TypeOK
<1>4. QED
  BY <1>1, <1>2, <1>3

LEMMA TypesHelper == ASSUME Types, HelperStep PROVE Types'
<1>1. UNCHANGED <<worldVars, cache, probeVars>>
  BY DEF HelperStep, HelperStart, HelperRead, CheckIdentity, Accept, Choose, AppendRow, HelperFails, HelperEnd,
     HelperRestart, Helper
<1>2. /\ IsCache(copy') /\ IsRows(out', Keys) /\ hpc' \in {"idle", "read", "check", "emit", "append"}
      /\ begun' \in 0 .. now /\ names' \subseteq Names /\ left' \subseteq Names /\ faults' \in 0 .. MaxFaults
      /\ sig' \in Signatures /\ seen' \in [Keys -> Signatures] /\ heard' \in [Keys -> Never .. Date(now)]
  <2> USE DEF Types, TypeOK
  <2>0. Gap \in Rows
    BY NothingIsTyped, NvmeCacheAssumption DEF Gap, Rows
  <2>1. CASE HelperStart
    BY <2>1, NumbersAreNumbers DEF HelperStart, Present
  <2>2. EmitGaps => IsRows(out', Keys) /\ IsCache(copy') /\ left' \subseteq Names /\ hpc' = "emit"
    BY <2>0, NothingIsTyped, NumbersAreNumbers DEF EmitGaps, Emit, IsRows
  <2>3. RowsOf(cache) \subseteq Names
    BY DEF RowsOf, IsCache, IsRows
  <2>4. CASE HelperRead
    BY <2>2, <2>3, <2>4 DEF HelperRead
  <2>5. CASE CheckIdentity
    BY <2>2, <2>5 DEF CheckIdentity
  <2>6. CASE Accept
    <3> DEFINE keys == names \cup (IF copy.issue THEN {Coverage} ELSE {})
               o == [k \in keys |-> IF k \in RowsOf(copy) THEN copy.rows[k] ELSE Gap]
    <3>1. Emit(o)
      BY <2>6 DEF Accept
    <3>2. keys \subseteq Keys
      BY NumbersAreNumbers
    <3>3. \A k \in keys : o[k] \in Rows
      BY <2>0 DEF RowsOf, IsCache, IsRows
    <3>4. IsRows(out', Keys)
      BY <3>1, <3>2, <3>3 DEF Emit, IsRows
    <3>5. QED
      BY <2>6, <3>1, <3>4, NothingIsTyped DEF Accept, Emit
  <2>7. CASE Choose
    BY <2>7, OutIsTyped DEF Choose
  <2>8. CASE AppendRow
    <3>1. sig.key \in Keys /\ NoSignature \in Signatures
      BY NothingIsTyped DEF Signatures
    <3>2. seen' \in [Keys -> Signatures]
      BY <2>8, <3>1 DEF AppendRow, Remember
    <3>3. heard' \in [Keys -> Never .. Date(now)]
      BY <2>8, <3>1, NumbersAreNumbers DEF AppendRow
    <3>4. QED
      BY <2>8, <3>1, <3>2, <3>3 DEF AppendRow
  <2>9. CASE HelperFails \/ HelperEnd
    <3>1. HelperIdle /\ UNCHANGED <<seen, heard>> /\ (Fault \/ UNCHANGED faults)
      BY <2>9 DEF HelperFails, HelperEnd
    <3>2. begun' \in 0 .. now /\ faults' \in 0 .. MaxFaults
      BY <3>1, HelperIdleTypes, FaultIsTyped, NumbersAreNumbers
    <3>3. QED
      BY <3>1, <3>2, HelperIdleTypes
  <2>10. CASE HelperRestart
    <3>1. HelperIdle /\ UNCHANGED heard /\ Fault /\ seen' = [k \in Keys |-> NoSignature]
      BY <2>10 DEF HelperRestart
    <3>2. begun' \in 0 .. now /\ faults' \in 0 .. MaxFaults /\ seen' \in [Keys -> Signatures]
      BY <3>1, HelperIdleTypes, FaultIsTyped, NothingIsTyped, NumbersAreNumbers
    <3>3. QED
      BY <3>1, <3>2, HelperIdleTypes
  <2>11. QED
    BY <2>1, <2>4, <2>5, <2>6, <2>7, <2>8, <2>9, <2>10 DEF HelperStep
<1>3. QED
  BY <1>1, <1>2 DEF worldVars, probeVars, Types, TypeOK

LEMMA TypesHost == ASSUME Types, Exchange \/ Reboot \/ Tick PROVE Types'
<1> USE DEF Types, TypeOK
<1>1. CASE Exchange
  BY <1>1 DEF Exchange, probeVars, helperVars, roundVars
<1>2. CASE Reboot
  <2>1. boot' \in 1 .. MaxBoots /\ seen' \in [Keys -> Signatures] /\ begun' \in 0 .. now
    BY <1>2, HelperIdleTypes, NothingIsTyped, NumbersAreNumbers DEF Reboot
  <2>2. QED
    BY <1>2, <2>1, ProbeIdleTypes, HelperIdleTypes DEF Reboot
<1>3. CASE Tick
  <2>1. now' \in 0 .. MaxTime /\ begun \in 0 .. now' /\ Date(now) <= Date(now') /\ Date(now') \in Nat
    BY <1>3, NumbersAreNumbers, DatesGrow DEF Tick
  <2>2. heard \in [Keys -> Never .. Date(now')]
    BY <2>1, NumbersAreNumbers
  <2>3. QED
    BY <1>3, <2>1, <2>2 DEF Tick, probeVars, helperVars, roundVars
<1>4. QED
  BY <1>1, <1>2, <1>3

LEMMA TypesStep == Types /\ [Next]_vars => Types'
<1> SUFFICES ASSUME Types, [Next]_vars PROVE Types'
  OBVIOUS
<1>1. CASE UNCHANGED vars
  BY <1>1 DEF vars, worldVars, probeVars, helperVars, roundVars, Types, TypeOK
<1>2. QED
  BY <1>1, TypesProbe, TypesHelper, TypesHost DEF Next

\* Every variable of the probe and of the helper keeps its type.
THEOREM TypeCorrect == Spec => []TypeOK
<1>1. Types => TypeOK
  BY DEF Types
<1>2. QED
  BY <1>1, TypesInit, TypesStep, PTL DEF Spec

-----------------------------------------------------------------------------
(* What each date's spool speaks of. *)

\* The controller n still has its turn in this round, or its row is on its way,
\* or the spool has spoken of it since the round's date.
Spoken(n) ==
  \/ n \in Pending
  \/ hpc = "append" /\ sig.key = n
  \/ heard[n] >= Date(begun)

\* What is remembered as told was told, and is told under its own key; a row on
\* its way was chosen in this round.
WordInv ==
  /\ Types
  /\ \A k \in Keys : seen[k].date <= heard[k]
  /\ hpc = "append" => sig.date \in Date(begun) .. Date(now)
  /\ hpc \in {"emit", "append"} => \A n \in names : Spoken(n)

LEMMA WordInit == Init => WordInv
<1> SUFFICES ASSUME Init PROVE WordInv
  OBVIOUS
<1>1. Types
  BY TypesInit
<1>2. QED
  BY <1>1 DEF Init, WordInv, NoSignature

LEMMA WordHelper == ASSUME WordInv, Types', HelperStep PROVE WordInv'
<1> USE DEF WordInv
<1>1. UNCHANGED <<now, boot>>
  BY DEF HelperStep, HelperStart, HelperRead, CheckIdentity, Accept, Choose, AppendRow, HelperFails, HelperEnd,
     HelperRestart, Helper, worldVars
<1>2. CASE HelperStart \/ HelperFails \/ HelperEnd
  BY <1>1, <1>2 DEF HelperStart, HelperFails, HelperEnd, HelperIdle
<1>3. CASE HelperRestart
  <2>1. \A k \in Keys : seen'[k].date = Never /\ heard'[k] = heard[k] /\ heard[k] >= Never
    BY <1>3, NumbersAreNumbers DEF HelperRestart, NoSignature, Types, TypeOK
  <2>2. hpc' = "idle"
    BY <1>3 DEF HelperRestart, HelperIdle
  <2>3. QED
    BY <2>1, <2>2
<1>4. CASE HelperRead \/ CheckIdentity \/ Accept
  <2>1. UNCHANGED <<seen, heard, names, begun>> /\ hpc' # "append"
    BY <1>4 DEF HelperRead, CheckIdentity, Accept, EmitGaps, Emit
  <2>2. hpc' = "emit" => names \subseteq Pending'
    <3>1. CASE HelperRead \/ CheckIdentity
      BY <3>1 DEF HelperRead, CheckIdentity, EmitGaps, Emit, Pending
    <3>2. CASE Accept
      BY <3>2 DEF Accept, Emit, Pending
    <3>3. QED
      BY <1>4, <3>1, <3>2
  <2>3. QED
    BY <2>1, <2>2 DEF Spoken
<1>5. CASE Choose
  <2>1. PICK k \in Pending :
          /\ Done(k)
          /\ IF seen[k] = Signature(k)
             THEN UNCHANGED <<hpc, sig>>
             ELSE hpc' = "append" /\ sig' = Signature(k)
    BY <1>5 DEF Choose
  <2>2. UNCHANGED <<seen, heard, names, begun>> /\ hpc = "emit"
    BY <1>5 DEF Choose
  <2>3. Pending' = Pending \ {k}
    BY <2>1 DEF Done, Pending
  <2>4. k \in Keys /\ Signature(k).date = Date(now) /\ Signature(k).key = k
    BY OutIsTyped DEF Signature
  <2>5. CASE seen[k] = Signature(k)
    <3>1. heard[k] >= Date(begun)
      BY <2>4, <2>5, NumbersAreNumbers DEF Types, TypeOK
    <3>2. QED
      BY <1>1, <2>1, <2>2, <2>3, <2>5, <3>1 DEF Spoken
  <2>6. CASE seen[k] # Signature(k)
    BY <1>1, <2>1, <2>2, <2>3, <2>4, <2>6, NumbersAreNumbers DEF Spoken
  <2>7. QED
    BY <2>5, <2>6
<1>6. CASE AppendRow
  <2>1. /\ sig.key \in Keys /\ sig.date <= Date(now) /\ Date(begun) <= Date(now)
        /\ seen' = [seen EXCEPT ![sig.key] = sig] /\ heard' = [heard EXCEPT ![sig.key] = Date(now)]
        /\ UNCHANGED <<begun, names, out>> /\ hpc' = "emit" /\ hpc = "append"
    <3>1. sig.key \in Keys
      BY DEF Types, TypeOK, Signatures
    <3>2. hpc = "append" /\ hpc' = "emit" /\ UNCHANGED <<begun, names, out>>
      BY <1>6 DEF AppendRow
    <3>3. sig.date <= Date(now) /\ Date(begun) <= Date(now)
      BY <3>2, NumbersAreNumbers
    <3>4. QED
      BY <1>6, <3>1, <3>2, <3>3 DEF AppendRow, Remember
  <2>2. \A k \in Keys : seen'[k].date <= heard'[k]
    BY <2>1 DEF Types, TypeOK
  <2>3. \A n \in names : Spoken(n)'
    <3> SUFFICES ASSUME NEW n \in names PROVE Spoken(n)'
      OBVIOUS
    <3>1. n \in Keys /\ Spoken(n)
      BY <2>1, NumbersAreNumbers DEF Types, TypeOK
    <3>2. CASE n = sig.key
      BY <2>1, <3>1, <3>2, NumbersAreNumbers DEF Spoken, Types, TypeOK
    <3>3. CASE n # sig.key
      BY <2>1, <3>1, <3>3 DEF Spoken, Pending, Types, TypeOK
    <3>4. QED
      BY <3>2, <3>3
  <2>4. QED
    BY <2>1, <2>2, <2>3
<1>7. QED
  BY <1>2, <1>3, <1>4, <1>5, <1>6 DEF HelperStep

LEMMA WordOther ==
  ASSUME WordInv, Types', ProbeStep \/ Exchange \/ Reboot \/ Tick \/ UNCHANGED vars
  PROVE  WordInv'
<1> USE DEF WordInv
<1>1. CASE Reboot
  <2>1. \A k \in Keys : seen'[k].date = Never /\ heard'[k] = heard[k] /\ heard[k] >= Never
    BY <1>1, NumbersAreNumbers DEF Reboot, NoSignature, Types, TypeOK
  <2>2. hpc' = "idle"
    BY <1>1 DEF Reboot, HelperIdle
  <2>3. QED
    BY <2>1, <2>2
<1>2. CASE ~Reboot
  <2>1. UNCHANGED <<helperVars, heard>>
    BY <1>2 DEF ProbeStep, ProbeStart, LookBefore, Smartctl, LookAfter, ProbeWrite, ProbeDies, Probe, Exchange, Tick,
       vars
  <2>2. now' \in Nat /\ now <= now'
    BY <1>2, NumbersAreNumbers DEF ProbeStep, ProbeStart, LookBefore, Smartctl, LookAfter, ProbeWrite, ProbeDies,
       Probe, worldVars, Exchange, Tick, vars
  <2>3. Date(now) <= Date(now') /\ Date(now') \in Nat
    BY <2>2, NumbersAreNumbers, DatesGrow
  <2>4. UNCHANGED <<seen, heard, hpc, sig, begun, names, out>>
    BY <2>1 DEF helperVars, roundVars
  <2>5. hpc = "append" => sig.date \in Date(begun) .. Date(now')
    BY <2>3, NumbersAreNumbers
  <2>6. QED
    BY <2>4, <2>5 DEF Spoken, Pending
<1>3. QED
  BY <1>1, <1>2

LEMMA WordStep == WordInv /\ [Next]_vars => WordInv'
<1> SUFFICES ASSUME WordInv, [Next]_vars PROVE WordInv'
  OBVIOUS
<1>1. Types'
  BY TypesStep DEF WordInv
<1>2. QED
  BY <1>1, WordHelper, WordOther DEF Next

\* A round within one date leaves a row about each of its controllers in that
\* date's spool, or the notice that it is full: for any number of controllers,
\* whatever midnights, failures and repeated rows came before (host.py,
\* nvme_smart).
THEOREM EveryDateHasItsRow == Spec => DailyWord
<1> DEFINE Told == (hpc = "emit" /\ hpc' = "idle" /\ faults' = faults /\ boot' = boot /\ Date(begun) = Date(now))
                     => \A n \in names : heard[n] = Date(now)
<1>1. WordInv /\ [Next]_vars => [Told]_vars
  <2> SUFFICES ASSUME WordInv, Next, hpc = "emit", hpc' = "idle", faults' = faults, boot' = boot,
                      Date(begun) = Date(now), NEW n \in names
               PROVE  heard[n] = Date(now)
    OBVIOUS
  <2>1. HelperEnd
    <3>1. faults \in Int /\ boot \in Int
      BY NumbersAreNumbers DEF WordInv, Types, TypeOK
    <3>2. QED
      BY <3>1 DEF Next, ProbeStep, ProbeStart, LookBefore, Smartctl, LookAfter, ProbeWrite, ProbeDies, Probe,
         HelperStep, HelperStart, HelperRead, CheckIdentity, Accept, Choose, AppendRow, HelperFails, HelperRestart,
         Emit, EmitGaps, Exchange, Reboot, Tick, helperVars, roundVars, Fault
  <2>2. n \in Keys /\ Spoken(n) /\ n \notin Pending
    BY <2>1, NumbersAreNumbers DEF HelperEnd, WordInv, Types, TypeOK
  <2>3. QED
    BY <2>2, NumbersAreNumbers DEF Spoken, WordInv, Types, TypeOK
<1>2. QED
  BY <1>1, WordInit, WordStep, PTL DEF Spec, DailyWord
=============================================================================
