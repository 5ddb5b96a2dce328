------------------------------ MODULE PumpProofs ------------------------------
(* Theorems about the Docker event thread, for any number of events, crashes,  *)
(* errors and full spools, and for every limit of its lists.                   *)
EXTENDS EventPump, FiniteSetTheorems, WellFoundedInduction, TLAPS

-----------------------------------------------------------------------------
(* Lists and numbers. *)

\* A list of pending events, and a list of replay identities.
Held(P) == P \subseteq Routine /\ Cardinality(P) <= PendingLimit
Remembered(s) == s \in Seq(Events) /\ Len(s) <= SeenLimit

LEMMA Constants ==
  /\ NEvents \in Nat /\ 1 \in Events /\ NEvents \in Events /\ Time \in [Events -> Nat]
  /\ Routine \subseteq Events /\ Excluded \subseteq Events
  /\ PendingLimit \in Nat /\ SeenLimit \in Nat /\ SeenLimit > 0 /\ Lookback \in Nat
  /\ MaxCrashes \in Nat /\ MaxErrors \in Nat /\ MaxTight \in Nat
  BY PumpAssumption DEF Events

\* The least element of a finite set of naturals is one of its elements.
LEMMA LeastIs ==
  ASSUME NEW S, IsFiniteSet(S), S \subseteq Nat, S # {}
  PROVE  \E n \in S : \A m \in S : n <= m
<1> DEFINE UpTo(n) == {m \in S : m <= n}
           T == {UpTo(n) : n \in S}
<1>1. IsWellFoundedOn(StrictSubsetOrdering(S), SUBSET S)
  <2>1. IsWellFoundedOn(StrictSubsetOrdering(S), FiniteSubsetsOf(S))
    BY FS_StrictSubsetOrderingWellFounded
  <2>2. QED
    BY <2>1, FS_FiniteSubsetsOfFinite
<1>2. PICK x \in T : \A y \in T : ~ (<<y, x>> \in StrictSubsetOrdering(S))
  <2>1. T \subseteq SUBSET S /\ T # {}
    OBVIOUS
  <2> HIDE DEF T
  <2>2. QED
    BY <1>1, <2>1, WFMin
<1>3. PICK n \in S : x = UpTo(n)
  BY <1>2
<1>4. \A m \in S : n <= m
  <2> SUFFICES ASSUME NEW m \in S, m < n PROVE FALSE
    OBVIOUS
  <2>1. m \in Nat /\ n \in Nat
    OBVIOUS
  <2>2. n \in UpTo(n) /\ n \notin UpTo(m)
    BY <2>1
  <2>3. \A k \in Nat : k <= m => k <= n
    BY <2>1
  <2>4. UpTo(m) \subseteq UpTo(n)
    BY <2>3
  <2>5. <<UpTo(m), UpTo(n)>> \in StrictSubsetOrdering(S)
    BY <2>2, <2>4 DEF StrictSubsetOrdering
  <2>6. QED
    BY <1>2, <1>3, <2>5
<1>5. QED
  BY <1>4

LEMMA SetsOfEvents == \A P \in SUBSET Events : IsFiniteSet(P)
<1>1. IsFiniteSet(Events)
  BY Constants, FS_Interval DEF Events
<1>2. QED
  BY <1>1, FS_Subset

LEMMA NothingHeld == Held({}) /\ Remembered(<<>>) /\ Elems(<<>>) = {}
  BY FS_EmptySet, Constants DEF Held, Remembered, Elems

\* A part of a pending list is a pending list.
LEMMA HeldLess == \A P, Q : Held(P) /\ Q \subseteq P => Held(Q)
<1> SUFFICES ASSUME NEW P, NEW Q, Held(P), Q \subseteq P PROVE Held(Q)
  OBVIOUS
<1>1. IsFiniteSet(P) /\ Q \subseteq Routine
  BY Constants, SetsOfEvents DEF Held
<1>2. Cardinality(Q) <= Cardinality(P) /\ Cardinality(P) \in Nat /\ Cardinality(Q) \in Nat
  BY <1>1, FS_Subset, FS_CardinalityType
<1>3. QED
  BY <1>1, <1>2, Constants DEF Held

\* While there is room, a routine event can be added.
LEMMA HeldMore == \A P, e : Held(P) /\ e \in Routine /\ Cardinality(P) < PendingLimit => Held(P \cup {e})
<1> SUFFICES ASSUME NEW P, NEW e, Held(P), e \in Routine, Cardinality(P) < PendingLimit PROVE Held(P \cup {e})
  OBVIOUS
<1>1. IsFiniteSet(P) /\ P \cup {e} \subseteq Routine
  BY Constants, SetsOfEvents DEF Held
<1>2. Cardinality(P) \in Nat /\ Cardinality(P \cup {e}) \in {Cardinality(P), Cardinality(P) + 1}
  BY <1>1, FS_AddElement, FS_CardinalityType
<1>3. QED
  BY <1>1, <1>2, Constants DEF Held

\* The list of identities never holds more than its limit, and nothing but what
\* was in it and the new event.
LEMMA RememberKeeps ==
  ASSUME Remembered(seen), NEW e \in Events
  PROVE  Remembered(Remember(e)) /\ Elems(Remember(e)) \subseteq Elems(seen) \cup {e}
<1> DEFINE s == Append(seen, e)
<1>1. s \in Seq(Events) /\ Len(s) = Len(seen) + 1 /\ Len(seen) \in Nat /\ Elems(s) \subseteq Elems(seen) \cup {e}
  BY DEF Remembered, Elems
<1> HIDE DEF s
<1>2. CASE Len(s) > SeenLimit
  <2>1. s # <<>>
    BY <1>1
  <2>2. Tail(s) \in Seq(Events) /\ Len(Tail(s)) = Len(s) - 1 /\ Elems(Tail(s)) \subseteq Elems(s)
    BY <1>1, <2>1 DEF Elems
  <2>3. Remember(e) = Tail(s)
    BY <1>2 DEF Remember, s
  <2>4. QED
    BY <1>1, <2>2, <2>3, Constants DEF Remembered
<1>3. CASE ~(Len(s) > SeenLimit)
  <2>1. Remember(e) = s
    BY <1>3 DEF Remember, s
  <2>2. QED
    BY <1>1, <1>3, <2>1, Constants DEF Remembered
<1>4. QED
  BY <1>2, <1>3

-----------------------------------------------------------------------------
(* Types: an event in hand is an event, and a stream has a position. *)

WorldTypes ==
  /\ emitted \in 0 .. NEvents /\ handled \subseteq Events
  /\ spooled \in [Events -> Nat] /\ dropped \subseteq Events /\ tight \in BOOLEAN
  /\ crashes \in 0 .. MaxCrashes /\ errors \in 0 .. MaxErrors /\ tights \in 0 .. MaxTight

FieldTypes == Held(pending) /\ Remembered(seen) /\ cursor \in Nat
SavedTypes == ck.saved \in BOOLEAN /\ ck.cursor \in Nat /\ Held(ck.pending) /\ Remembered(ck.seen)

PlaceTypes ==
  /\ pc \in {"start", "flush", "connect", "read", "add", "checkpoint", "gap", "dead"}
  /\ after \in {"start", "connect", "add", "read"}
  /\ pc # "flush" => after = "start"
  /\ next \in 0 .. NEvents + 1 /\ ev \in 0 .. NEvents
  /\ pc \in {"read", "add", "checkpoint"} \/ after \in {"add", "read"} => next >= 1
  /\ pc \in {"add", "checkpoint"} \/ after = "add" => ev \in Events
  /\ groups \subseteq {Container[e] : e \in Events} /\ kept \subseteq pending

PumpTypes == WorldTypes /\ FieldTypes /\ SavedTypes /\ PlaceTypes

LEMMA TypesInit == Init => PumpTypes
<1> SUFFICES ASSUME Init PROVE PumpTypes
  OBVIOUS
<1>1. WorldTypes
  <2>1. 0 \in 0 .. NEvents /\ 0 \in 0 .. MaxCrashes /\ 0 \in 0 .. MaxErrors /\ 0 \in 0 .. MaxTight
        /\ [e \in Events |-> 0] \in [Events -> Nat]
    BY Constants
  <2>2. QED
    BY <2>1 DEF Init, WorldTypes
<1>2. FieldTypes
  BY NothingHeld DEF Init, FieldTypes
<1>3. ck.saved \in BOOLEAN /\ ck.cursor = 0 /\ ck.pending = {} /\ ck.seen = <<>>
  BY DEF Init
<1>4. SavedTypes
  BY <1>3, NothingHeld DEF SavedTypes
<1>5. PlaceTypes
  BY Constants DEF Init, PlaceTypes
<1>6. QED
  BY <1>1, <1>2, <1>4, <1>5 DEF PumpTypes

\* What is saved has the types of the thread's fields.
LEMMA CheckpointTypes ==
  ASSUME FieldTypes', Checkpoint
  PROVE  SavedTypes' /\ ck'.pending = pending' /\ ck'.seen = seen'
<1>1. ck'.saved = TRUE /\ ck'.cursor = cursor' /\ ck'.pending = pending' /\ ck'.seen = seen'
  BY DEF Checkpoint
<1>2. QED
  BY <1>1 DEF FieldTypes, SavedTypes

LEMMA AppendTypes ==
  ASSUME PumpTypes, NEW es, NEW lost \in SUBSET Events, Accept(es) \/ Refuse(lost)
  PROVE  /\ spooled' \in [Events -> Nat] /\ dropped' \subseteq Events /\ tight' \in BOOLEAN
         /\ dropped \subseteq dropped' /\ \A e \in Events : spooled'[e] >= spooled[e]
<1>1. CASE Accept(es)
  BY <1>1 DEF Accept, PumpTypes, WorldTypes
<1>2. CASE Refuse(lost)
  BY <1>2 DEF Refuse, PumpTypes, WorldTypes
<1>3. QED
  BY <1>1, <1>2

LEMMA ThrowTypes ==
  ASSUME PumpTypes, Throw, pending' \subseteq Events
  PROVE  WorldTypes' /\ (FieldTypes' => PlaceTypes') /\ UNCHANGED ck
<1>1. errors' \in 0 .. MaxErrors
  BY Constants DEF Throw, PumpTypes, WorldTypes
<1>2. WorldTypes' /\ UNCHANGED ck
  BY <1>1 DEF Throw, PumpTypes, WorldTypes, diskVars, spoolVars
<1>3. pc' \in {"gap", "dead"} /\ after' = "start" /\ UNCHANGED <<next, ev>> /\ groups' = {} /\ kept' = {}
  BY DEF Throw
<1>4. PlaceTypes'
  BY <1>3 DEF PumpTypes, PlaceTypes
<1>5. QED
  BY <1>2, <1>4

LEMMA TypesHandle ==
  ASSUME PumpTypes, Handle
  PROVE  PumpTypes'
<1> USE DEF PumpTypes, diskVars, spoolVars, fieldVars, boundVars
<1>1. CASE Restore
  <2>1. WorldTypes' /\ UNCHANGED ck
    BY <1>1 DEF Restore, WorldTypes
  <2>2. cursor' \in Nat
    <3>1. \A t \in Clock : t \in Int
      BY DEF Clock
    <3>2. \A t \in Clock : Later(0, t - Lookback) \in Nat
      BY <3>1, Constants DEF Later
    <3>3. QED
      BY <1>1, <3>2 DEF Restore, SavedTypes
  <2>3. FieldTypes' /\ SavedTypes'
    BY <1>1, <2>1, <2>2 DEF Restore, FieldTypes, SavedTypes
  <2>4. \A e \in ck.pending : e \in Events
    BY Constants DEF SavedTypes, Held
  <2>5. PlaceTypes'
    BY <1>1, <2>4 DEF Restore, GoFlush, PlaceTypes
  <2>6. QED
    BY <2>1, <2>3, <2>5
<1>2. ASSUME NEW c, FlushGroup(c) PROVE PumpTypes'
  <2>1. WorldTypes'
    BY <1>2, AppendTypes DEF FlushGroup, WorldTypes
  <2>2. FieldTypes' /\ SavedTypes'
    BY <1>2 DEF FlushGroup, FieldTypes, SavedTypes
  <2>3. kept' \subseteq pending' /\ groups' \subseteq groups
    BY <1>2 DEF FlushGroup, PlaceTypes, Of
  <2>4. PlaceTypes'
    BY <1>2, <2>3 DEF FlushGroup, PlaceTypes
  <2>5. QED
    BY <2>1, <2>2, <2>4
<1>3. CASE FlushDone
  <2>1. WorldTypes'
    BY <1>3 DEF FlushDone, WorldTypes
  <2>2. FieldTypes'
    BY <1>3, HeldLess DEF FlushDone, FieldTypes, PlaceTypes
  <2>3. SavedTypes'
    <3>1. CASE UNCHANGED ck
      BY <3>1 DEF SavedTypes
    <3>2. CASE Checkpoint
      BY <2>2, <3>2, CheckpointTypes
    <3>3. QED
      BY <1>3, <3>1, <3>2 DEF FlushDone
  <2>4. PlaceTypes'
    BY <1>3 DEF FlushDone, PlaceTypes
  <2>5. QED
    BY <2>1, <2>2, <2>3, <2>4
<1>4. CASE Take
  <2>1. WorldTypes' /\ FieldTypes' /\ SavedTypes'
    BY <1>4 DEF Take, WorldTypes, FieldTypes, SavedTypes
  <2>2. next \in Events /\ next' = next + 1 /\ next' \in 0 .. NEvents + 1 /\ next' >= 1 /\ ev' = next
        /\ ev' \in 0 .. NEvents
    BY <1>4, Constants DEF Take, WorldTypes, PlaceTypes, Events
  <2>3. pc = "read" /\ after = "start"
    BY <1>4 DEF Take, PlaceTypes
  <2>4. CASE GoFlush("add", pending)
    <3>1. \A e \in pending : e \in Events
      BY Constants DEF FieldTypes, Held
    <3>2. PlaceTypes'
      BY <1>4, <2>2, <2>4, <3>1 DEF Take, GoFlush, PlaceTypes
    <3>3. QED
      BY <2>1, <3>2
  <2>5. CASE GoOn("add") \/ GoOn("checkpoint")
    <3>1. PlaceTypes'
      BY <1>4, <2>2, <2>3, <2>5 DEF Take, GoOn, PlaceTypes
    <3>2. QED
      BY <2>1, <3>1
  <2>6. QED
    BY <1>4, <2>4, <2>5 DEF Take
<1>5. CASE Add
  <2>1. ev \in Events /\ pc = "add" /\ after = "start"
    BY <1>5 DEF Add, PlaceTypes
  <2>2. WorldTypes'
    <3>1. spooled' \in [Events -> Nat] /\ dropped' \subseteq Events /\ tight' \in BOOLEAN
      BY <1>5, <2>1, AppendTypes DEF Add, WorldTypes
    <3>2. QED
      BY <1>5, <3>1 DEF Add, WorldTypes
  <2>3. Held(pending') /\ pending \subseteq pending'
    BY <1>5, HeldMore DEF Add, FieldTypes
  <2>4. Remembered(seen')
    BY <1>5, <2>1, RememberKeeps DEF Add, FieldTypes
  <2>5. FieldTypes' /\ SavedTypes'
    BY <1>5, <2>3, <2>4 DEF Add, FieldTypes, SavedTypes
  <2>6. PlaceTypes'
    BY <1>5, <2>1, <2>3 DEF Add, GoOn, PlaceTypes
  <2>7. QED
    BY <2>2, <2>5, <2>6
<1>6. CASE SaveEvent
  <2>1. ev \in Events /\ pc = "checkpoint" /\ after = "start" /\ next >= 1
    BY <1>6 DEF SaveEvent, PlaceTypes
  <2>2. WorldTypes'
    BY <1>6, <2>1 DEF SaveEvent, WorldTypes
  <2>3. cursor' \in Nat
    BY <1>6, <2>1, Constants DEF SaveEvent, Later, FieldTypes
  <2>4. FieldTypes'
    BY <1>6, <2>3 DEF SaveEvent, FieldTypes
  <2>5. SavedTypes'
    BY <1>6, <2>4, CheckpointTypes DEF SaveEvent
  <2>6. \A e \in pending : e \in Events
    BY Constants DEF FieldTypes, Held
  <2>7. PlaceTypes'
    BY <1>6, <2>1, <2>6 DEF SaveEvent, GoFlush, GoOn, PlaceTypes
  <2>8. QED
    BY <2>2, <2>4, <2>5, <2>7
<1>7. CASE RecordGap
  <2>1. WorldTypes' /\ FieldTypes' /\ SavedTypes'
    BY <1>7 DEF RecordGap, WorldTypes, FieldTypes, SavedTypes
  <2>2. \A e \in pending : e \in Events
    BY Constants DEF FieldTypes, Held
  <2>3. PlaceTypes'
    BY <1>7, <2>2 DEF RecordGap, GoFlush, PlaceTypes
  <2>4. QED
    BY <2>1, <2>3
<1>8. QED
  BY <1>1, <1>2, <1>3, <1>4, <1>5, <1>6, <1>7 DEF Handle, FlushStep

LEMMA TypesOthers ==
  ASSUME PumpTypes, [Next]_vars, ~Handle
  PROVE  PumpTypes'
<1> USE DEF PumpTypes, diskVars, spoolVars, fieldVars, boundVars
<1>1. CASE Connect
  <2>1. WorldTypes' /\ FieldTypes' /\ SavedTypes'
    BY <1>1 DEF Connect, WorldTypes, FieldTypes, SavedTypes
  <2> DEFINE again == {e \in Events : Replayed(e)}
  <2>2. next' = IF again = {} THEN emitted + 1 ELSE CHOOSE e \in again : \A d \in again : e <= d
    BY <1>1 DEF Connect
  <2>3. again \subseteq Events /\ again \subseteq Nat /\ IsFiniteSet(again)
    <3>1. again \in SUBSET Events /\ Events \subseteq Nat
      BY DEF Events
    <3>2. QED
      BY <3>1, SetsOfEvents
  <2> HIDE DEF again
  <2>4. next' \in 0 .. NEvents + 1 /\ next' >= 1
    <3>1. CASE again = {}
      BY <2>2, <3>1, Constants DEF WorldTypes
    <3>2. CASE again # {}
      <4>1. next' \in again
        BY <2>2, <2>3, <3>2, LeastIs
      <4>2. QED
        BY <2>3, <4>1, Constants DEF Events
    <3>3. QED
      BY <3>1, <3>2
  <2>5. PlaceTypes'
    BY <1>1, <2>4 DEF Connect, GoOn, PlaceTypes
  <2>6. QED
    BY <2>1, <2>5
<1>2. CASE StreamCloses
  <2>1. WorldTypes' /\ FieldTypes' /\ SavedTypes'
    BY <1>2 DEF StreamCloses, WorldTypes, FieldTypes, SavedTypes
  <2>2. \A e \in pending : e \in Events
    BY Constants DEF FieldTypes, Held
  <2>3. PlaceTypes'
    BY <1>2, <2>2 DEF StreamCloses, GoFlush, PlaceTypes
  <2>4. QED
    BY <2>1, <2>3
<1>3. CASE StreamFails
  <2>1. WorldTypes' /\ FieldTypes' /\ SavedTypes'
    BY <1>3 DEF StreamFails, WorldTypes, FieldTypes, SavedTypes
  <2>2. PlaceTypes'
    BY <1>3 DEF StreamFails, GoOn, PlaceTypes
  <2>3. QED
    BY <2>1, <2>2
<1>4. CASE AppendRaises
  <2>1. FieldTypes' /\ pending' \subseteq Events
    BY <1>4, Constants DEF AppendRaises, FieldTypes, Held
  <2>2. WorldTypes' /\ PlaceTypes' /\ UNCHANGED ck
    BY <1>4, <2>1, ThrowTypes DEF AppendRaises
  <2>3. QED
    BY <2>1, <2>2 DEF SavedTypes
<1>5. CASE SaveRaises
  <2>1. Held(pending')
    BY <1>5, HeldLess DEF SaveRaises, FieldTypes, PlaceTypes
  <2>2. cursor' \in Nat
    BY <1>5, Constants DEF SaveRaises, FieldTypes, PlaceTypes, Later
  <2>3. FieldTypes' /\ pending' \subseteq Events
    BY <1>5, <2>1, <2>2, Constants DEF SaveRaises, FieldTypes, Held
  <2>4. WorldTypes' /\ PlaceTypes' /\ UNCHANGED ck
    BY <1>5, <2>3, ThrowTypes DEF SaveRaises
  <2>5. QED
    BY <2>3, <2>4 DEF SavedTypes
<1>6. CASE Crash
  <2>1. crashes' \in 0 .. MaxCrashes
    BY <1>6, Constants DEF Crash, WorldTypes
  <2>2. WorldTypes' /\ SavedTypes'
    BY <1>6, <2>1 DEF Crash, WorldTypes, SavedTypes
  <2>3. FieldTypes'
    BY <1>6, NothingHeld DEF Crash, FieldTypes
  <2>4. PlaceTypes'
    BY <1>6, Constants DEF Crash, PlaceTypes
  <2>5. QED
    BY <2>2, <2>3, <2>4
<1>7. CASE Emit \/ FillSpool \/ NewDay
  <2>1. emitted' \in 0 .. NEvents /\ tights' \in 0 .. MaxTight
    BY <1>7, Constants DEF Emit, FillSpool, NewDay, WorldTypes
  <2>2. tight' \in BOOLEAN
    BY <1>7 DEF Emit, FillSpool, NewDay, WorldTypes
  <2>3. UNCHANGED <<spooled, dropped, ck, handled, pc, after, next, ev, fieldVars, groups, kept, crashes, errors>>
    BY <1>7 DEF Emit, FillSpool, NewDay
  <2>4. QED
    BY <2>1, <2>2, <2>3 DEF WorldTypes, FieldTypes, SavedTypes, PlaceTypes
<1>8. CASE UNCHANGED vars
  BY <1>8 DEF vars, WorldTypes, FieldTypes, SavedTypes, PlaceTypes
<1>9. QED
  BY <1>1, <1>2, <1>3, <1>4, <1>5, <1>6, <1>7, <1>8 DEF Next, StreamEnds

LEMMA TypesStep == ASSUME PumpTypes, [Next]_vars PROVE PumpTypes'
  BY TypesHandle, TypesOthers

LEMMA TypesHold == ASSUME PumpTypes PROVE TypeOK
<1>1. /\ {ck.cursor, cursor} \subseteq Nat
      /\ Elems(seen) \subseteq Events /\ Elems(ck.seen) \subseteq Events
  BY DEF PumpTypes, FieldTypes, SavedTypes, Remembered, Elems
<1>2. \A state \in {ck, [pending |-> pending, seen |-> seen]} :
        /\ state.pending \subseteq Routine /\ Cardinality(state.pending) <= PendingLimit
        /\ Elems(state.seen) \subseteq Events /\ Len(state.seen) <= SeenLimit
  BY <1>1 DEF PumpTypes, FieldTypes, SavedTypes, Held, Remembered
<1>3. QED
  BY <1>1, <1>2 DEF PumpTypes, WorldTypes, SavedTypes, PlaceTypes, TypeOK

\* Every variable has its type, and the lists stay within the limits that keep
\* the checkpoint readable, for every limit and any number of events
\* (docker.py, record_event, 174-184).
THEOREM TypeCorrect == Spec => []TypeOK
<1>1. PumpTypes /\ [Next]_vars => PumpTypes'
  BY TypesStep
<1>2. PumpTypes => TypeOK
  BY TypesHold
<1>3. QED
  BY <1>1, <1>2, TypesInit, PTL DEF Spec

-----------------------------------------------------------------------------
(* No event is lost: what a checkpoint covers, and what the thread remembers, *)
(* is in the spool, was refused, or is pending on disk and in memory alike.   *)

Safe(e, P) == spooled[e] > 0 \/ e \in P \/ e \in dropped

\* The checkpoint, the thread's fields, a flush under way, and the event in hand.
SavedSafe == \A e \in (handled \ Excluded) \cup Elems(ck.seen) : Safe(e, ck.pending)
FieldsSafe == pc \notin {"start", "dead"} => \A e \in (handled \ Excluded) \cup Elems(seen) : Safe(e, pending)
FlushSafe == pc = "flush" => \A e \in pending : Container[e] \in groups \/ e \in kept \/ spooled[e] > 0
HandSafe == pc = "checkpoint" => ev \in Excluded \/ Safe(ev, pending)

LossInv == SavedSafe /\ FieldsSafe /\ FlushSafe /\ HandSafe

LEMMA LossInit == Init => LossInv
<1> SUFFICES ASSUME Init PROVE LossInv
  OBVIOUS
<1>1. handled = {} /\ seen = <<>> /\ ck.seen = <<>> /\ pc = "start"
  BY DEF Init
<1>2. QED
  BY <1>1, NothingHeld DEF LossInv, SavedSafe, FieldsSafe, FlushSafe, HandSafe

LEMMA InEvents ==
  ASSUME PumpTypes
  PROVE  /\ handled \subseteq Events /\ Elems(seen) \subseteq Events /\ Elems(ck.seen) \subseteq Events
         /\ pending \subseteq Events /\ ck.pending \subseteq Events
         /\ \A e \in Events : spooled[e] \in Nat
<1>1. \A s : Remembered(s) => Elems(s) \subseteq Events
  BY DEF Remembered, Elems
<1>2. \A P : Held(P) => P \subseteq Events
  BY Constants DEF Held
<1>3. QED
  BY <1>1, <1>2 DEF PumpTypes, WorldTypes, FieldTypes, SavedTypes

\* What was safe stays safe when a record is appended, or refused with a notice.
LEMMA SafeAfterAppend ==
  ASSUME PumpTypes, NEW es, NEW lost \in SUBSET Events, Accept(es) \/ Refuse(lost), NEW P, NEW e \in Events, Safe(e, P)
  PROVE  spooled'[e] > 0 \/ e \in P \/ e \in dropped'
<1>1. dropped \subseteq dropped' /\ spooled'[e] >= spooled[e] /\ spooled'[e] \in Nat /\ spooled[e] \in Nat
  BY AppendTypes, InEvents
<1>2. QED
  BY <1>1 DEF Safe

\* Steps after which everything is as safe as before: the spool and the lists are
\* the same, and the thread is at a place where nothing more is asked.
LEMMA LossKept ==
  ASSUME LossInv, UNCHANGED <<spooled, dropped, handled, pending, seen, ck>>,
         pc' \in {"start", "dead"} \/ pc \notin {"start", "dead"},
         pc' = "flush" => (\A e \in pending : Container[e] \in groups') \/ UNCHANGED <<pc, groups, kept>>,
         pc' = "checkpoint" => ev' \in Excluded \/ Safe(ev', pending)
  PROVE  LossInv'
<1>1. SavedSafe' /\ FieldsSafe'
  BY DEF LossInv, SavedSafe, FieldsSafe, Safe
<1>2. FlushSafe' /\ HandSafe'
  BY DEF LossInv, FlushSafe, HandSafe, Safe
<1>3. QED
  BY <1>1, <1>2 DEF LossInv

\* A flush leaves pending what was refused, in memory and, unless writing fails,
\* on disk.
LEMMA FlushedSafe ==
  ASSUME PumpTypes, LossInv, pc = "flush", groups = {}
  PROVE  \A e \in (handled \ Excluded) \cup Elems(seen) : Safe(e, kept)
  BY DEF LossInv, FieldsSafe, FlushSafe, Safe

LEMMA LossHandle ==
  ASSUME PumpTypes, PumpTypes', LossInv, Handle
  PROVE  LossInv'
<1> USE DEF diskVars, spoolVars, fieldVars, boundVars
<1>1. CASE Restore
  <2>1. /\ UNCHANGED <<spooled, dropped, handled, ck>> /\ pending' = ck.pending /\ seen' = ck.seen
        /\ pc' = "flush" /\ groups' = {Container[e] : e \in ck.pending}
    BY <1>1 DEF Restore, GoFlush
  <2>2. QED
    BY <2>1 DEF LossInv, SavedSafe, FieldsSafe, FlushSafe, HandSafe, Safe
<1>2. ASSUME NEW c, FlushGroup(c) PROVE LossInv'
  <2>1. /\ pc = "flush" /\ pc' = "flush" /\ UNCHANGED <<handled, pending, seen, ck>> /\ groups' = groups \ {c}
        /\ kept \subseteq kept'
    BY <1>2 DEF FlushGroup
  <2>2. \A P, e : e \in Events /\ Safe(e, P) => spooled'[e] > 0 \/ e \in P \/ e \in dropped'
    BY <1>2, SafeAfterAppend DEF FlushGroup
  <2>3. SavedSafe' /\ FieldsSafe'
    BY <2>1, <2>2, InEvents DEF LossInv, SavedSafe, FieldsSafe, Safe
  <2>4. ASSUME NEW e \in pending, Container[e] = c PROVE e \in kept' \/ spooled'[e] > 0
    <3>1. e \in Of(c, pending) /\ e \in Events /\ spooled[e] \in Nat
      BY <2>4, InEvents DEF Of
    <3>2. QED
      BY <1>2, <3>1 DEF FlushGroup, Accept
  <2>5. ASSUME NEW e \in pending, spooled[e] > 0 PROVE spooled'[e] > 0
    <3>1. e \in Events /\ spooled'[e] >= spooled[e] /\ spooled[e] \in Nat /\ spooled'[e] \in Nat
      BY <1>2, InEvents, AppendTypes DEF FlushGroup
    <3>2. QED
      BY <2>5, <3>1
  <2>6. FlushSafe' /\ HandSafe'
    BY <2>1, <2>4, <2>5 DEF LossInv, FlushSafe, HandSafe
  <2>7. QED
    BY <2>3, <2>6 DEF LossInv
<1>3. CASE FlushDone
  <2>1. /\ pc = "flush" /\ groups = {} /\ pc' = after /\ pending' = kept
        /\ UNCHANGED <<spooled, dropped, handled, seen, cursor>>
    BY <1>3 DEF FlushDone
  <2>2. pc' \notin {"flush", "checkpoint"}
    BY <2>1 DEF PumpTypes, PlaceTypes
  <2>3. FieldsSafe' /\ FlushSafe' /\ HandSafe'
    BY <2>1, <2>2, FlushedSafe DEF FieldsSafe, FlushSafe, HandSafe, Safe
  <2>4. SavedSafe'
    <3>1. CASE UNCHANGED ck
      BY <2>1, <3>1 DEF LossInv, SavedSafe, Safe
    <3>2. CASE Checkpoint
      <4>1. ck'.pending = kept /\ ck'.seen = seen
        BY <2>1, <3>2, CheckpointTypes DEF PumpTypes
      <4>2. QED
        BY <2>1, <4>1, FlushedSafe DEF SavedSafe, Safe
    <3>3. QED
      BY <1>3, <3>1, <3>2 DEF FlushDone
  <2>5. QED
    BY <2>3, <2>4 DEF LossInv
<1>4. CASE Take
  <2>1. pc = "read" /\ UNCHANGED <<spooled, dropped, handled, pending, seen, ck>>
    BY <1>4 DEF Take
  <2>2. pc' = "flush" => \A e \in pending : Container[e] \in groups'
    BY <1>4 DEF Take, GoFlush, GoOn
  <2>3. pc' = "checkpoint" => ev' \in Elems(seen) \cup Excluded
    BY <1>4 DEF Take, GoFlush, GoOn
  <2>4. pc' = "checkpoint" => ev' \in Excluded \/ Safe(ev', pending)
    BY <2>1, <2>3 DEF LossInv, FieldsSafe
  <2>5. QED
    BY <2>1, <2>2, <2>4, LossKept
<1>5. CASE Add
  <2>1. ev \in Events /\ pc = "add" /\ pc' = "checkpoint" /\ UNCHANGED <<ev, handled, ck>> /\ seen' = Remember(ev)
    BY <1>5 DEF Add, GoOn, PumpTypes, PlaceTypes
  <2>2. \A P, e : e \in Events /\ Safe(e, P) => spooled'[e] > 0 \/ e \in P \/ e \in dropped'
    <3>1. CASE UNCHANGED spoolVars
      BY <3>1 DEF Safe
    <3>2. CASE Accept({ev}) \/ Refuse({ev})
      BY <2>1, <3>2, SafeAfterAppend
    <3>3. QED
      BY <1>5, <3>1, <3>2 DEF Add
  <2>3. pending \subseteq pending'
    BY <1>5 DEF Add
  <2>4. Safe(ev, pending)'
    <3>1. CASE pending' = pending \cup {ev}
      BY <2>1, <3>1 DEF Safe
    <3>2. CASE Accept({ev})
      BY <2>1, <3>2, InEvents DEF Safe, Accept
    <3>3. CASE Refuse({ev})
      BY <2>1, <3>3 DEF Safe, Refuse
    <3>4. QED
      BY <1>5, <3>1, <3>2, <3>3 DEF Add
  <2>5. Elems(seen') \subseteq Elems(seen) \cup {ev}
    BY <2>1, RememberKeeps DEF PumpTypes, FieldTypes
  <2>6. SavedSafe'
    BY <2>1, <2>2, InEvents DEF LossInv, SavedSafe, Safe
  <2>7. FieldsSafe'
    BY <2>1, <2>2, <2>3, <2>4, <2>5, InEvents DEF LossInv, FieldsSafe, Safe
  <2>8. QED
    BY <2>1, <2>4, <2>6, <2>7 DEF LossInv, FlushSafe, HandSafe
<1>6. CASE SaveEvent
  <2>1. /\ pc = "checkpoint" /\ handled' = handled \cup {ev} /\ UNCHANGED <<spooled, dropped, pending, seen>>
        /\ Checkpoint /\ pc' \in {"flush", "read"}
    BY <1>6 DEF SaveEvent, GoFlush, GoOn
  <2>2. ck'.pending = pending /\ ck'.seen = seen
    BY <2>1, CheckpointTypes DEF PumpTypes
  <2>3. \A e \in (handled' \ Excluded) \cup Elems(seen) : Safe(e, pending)
    BY <2>1 DEF LossInv, FieldsSafe, HandSafe
  <2>4. SavedSafe' /\ FieldsSafe'
    BY <2>1, <2>2, <2>3 DEF SavedSafe, FieldsSafe, Safe
  <2>5. pc' = "flush" => \A e \in pending : Container[e] \in groups'
    BY <1>6 DEF SaveEvent, GoFlush, GoOn
  <2>6. QED
    BY <2>1, <2>4, <2>5 DEF LossInv, FlushSafe, HandSafe
<1>7. CASE RecordGap
  <2>1. /\ pc = "gap" /\ pc' = "flush" /\ UNCHANGED <<spooled, dropped, handled, pending, seen, ck>>
        /\ \A e \in pending : Container[e] \in groups'
    BY <1>7 DEF RecordGap, GoFlush
  <2>2. QED
    BY <2>1, LossKept
<1>8. QED
  BY <1>1, <1>2, <1>3, <1>4, <1>5, <1>6, <1>7 DEF Handle, FlushStep

LEMMA LossOthers ==
  ASSUME PumpTypes, LossInv, [Next]_vars, ~Handle
  PROVE  LossInv'
<1> USE DEF diskVars, spoolVars, fieldVars, boundVars
<1>1. CASE Connect \/ StreamCloses \/ StreamFails
  <2>1. /\ pc \notin {"start", "dead"} /\ pc' # "checkpoint"
        /\ UNCHANGED <<spooled, dropped, handled, pending, seen, ck>>
        /\ pc' = "flush" => \A e \in pending : Container[e] \in groups'
    BY <1>1 DEF Connect, StreamCloses, StreamFails, GoOn, GoFlush
  <2>2. QED
    BY <2>1, LossKept
<1>2. CASE AppendRaises
  <2>1. pc' \in {"gap", "dead"} /\ UNCHANGED <<spooled, dropped, handled, pending, seen, ck>>
    BY <1>2 DEF AppendRaises, Throw
  <2>2. pc = "start" => pc' = "dead"
    BY <1>2 DEF AppendRaises, Throw, Caught, PumpTypes, PlaceTypes
  <2>3. pc # "dead"
    BY <1>2 DEF AppendRaises
  <2>4. QED
    BY <2>1, <2>2, <2>3, LossKept
<1>3. CASE SaveRaises
  <2>1. pc' \in {"gap", "dead"} /\ UNCHANGED <<spooled, dropped, handled, seen, ck>>
    BY <1>3 DEF SaveRaises, Throw
  <2>2. CASE pc = "checkpoint" /\ UNCHANGED pending
    BY <2>1, <2>2, LossKept
  <2>3. CASE pc = "flush" /\ groups = {} /\ pending' = kept
    BY <2>1, <2>3, FlushedSafe DEF LossInv, SavedSafe, FieldsSafe, FlushSafe, HandSafe, Safe
  <2>4. QED
    BY <1>3, <2>2, <2>3 DEF SaveRaises
<1>4. CASE Crash
  <2>1. pc' = "start" /\ UNCHANGED <<spooled, dropped, handled, ck>>
    BY <1>4 DEF Crash
  <2>2. QED
    BY <2>1 DEF LossInv, SavedSafe, FieldsSafe, FlushSafe, HandSafe, Safe
<1>5. CASE Emit \/ FillSpool \/ NewDay \/ UNCHANGED vars
  <2>1. UNCHANGED <<spooled, dropped, handled, pending, seen, ck, pc, groups, kept, ev>>
    BY <1>5 DEF Emit, FillSpool, NewDay, vars
  <2>2. QED
    BY <2>1 DEF LossInv, SavedSafe, FieldsSafe, FlushSafe, HandSafe, Safe
<1>6. QED
  BY <1>1, <1>2, <1>3, <1>4, <1>5 DEF Next, StreamEnds

\* Once a checkpoint covers an event of an included container, the event is in the
\* spool, pending on disk, or was refused with a notice, whatever crashes, errors
\* and partly refused flushes come in between (docker.py, flush_exec and
\* record_event).
THEOREM NoEventIsLost == Spec => []NothingLost
<1>1. Init => PumpTypes /\ LossInv
  BY TypesInit, LossInit
<1>2. PumpTypes /\ LossInv /\ [Next]_vars => (PumpTypes /\ LossInv)'
  BY TypesStep, LossHandle, LossOthers
<1>3. LossInv => NothingLost
  BY DEF LossInv, SavedSafe, Safe, NothingLost
<1>4. QED
  BY <1>1, <1>2, <1>3, PTL DEF Spec

-----------------------------------------------------------------------------
(* Where the thread is in its stream: at the event in hand, from Take to its *)
(* checkpoint, or at the next one.                                           *)

Carrying == pc \in {"add", "checkpoint"} \/ after = "add"
Streaming == Carrying \/ pc = "read" \/ after = "read"
Position == IF Carrying THEN ev ELSE next

HandInv ==
  Carrying => /\ next = ev + 1 /\ ev <= emitted
              /\ pc = "checkpoint" <=> ev \in Elems(seen) \cup Excluded

LEMMA Places ==
  ASSUME PumpTypes
  PROVE  /\ Carrying => ev \in Events
         /\ next \in Nat /\ ev \in Nat /\ emitted \in Nat /\ cursor \in Nat /\ ck.cursor \in Nat
         /\ Position \in Nat /\ Retained \in Nat /\ Events \subseteq Nat
         /\ \A d, e \in Events : Time[d] \in Nat /\ (d <= e => Time[d] <= Time[e])
  BY PumpAssumption DEF PumpTypes, WorldTypes, FieldTypes, SavedTypes, PlaceTypes, Carrying,
     Position, Events

\* The newest identity is always remembered.
LEMMA RememberNew ==
  ASSUME Remembered(seen), NEW e \in Events
  PROVE  e \in Elems(Remember(e))
<1> DEFINE s == Append(seen, e)
<1>1. s \in Seq(Events) /\ Len(s) = Len(seen) + 1 /\ Len(seen) \in Nat /\ s[Len(s)] = e
  BY DEF Remembered
<1> HIDE DEF s
<1>2. CASE Len(s) > SeenLimit
  <2>1. Remember(e) = Tail(s)
    BY <1>2 DEF Remember, s
  <2>2. Len(s) > 1 /\ s # <<>>
    BY <1>1, <1>2, Constants
  <2>3. Tail(s) \in Seq(Events) /\ Len(Tail(s)) = Len(s) - 1 /\ Tail(s)[Len(s) - 1] = s[Len(s)]
    BY <1>1, <2>2
  <2>4. Len(s) - 1 \in DOMAIN Tail(s)
    BY <1>1, <2>2, <2>3
  <2>5. QED
    BY <1>1, <2>1, <2>3, <2>4 DEF Elems
<1>3. CASE ~(Len(s) > SeenLimit)
  <2>1. Remember(e) = s
    BY <1>3 DEF Remember, s
  <2>2. Len(s) \in DOMAIN s
    BY <1>1
  <2>3. QED
    BY <1>1, <2>1, <2>2 DEF Elems
<1>4. QED
  BY <1>2, <1>3

\* How the thread comes to where it is in a stream.
LEMMA StreamSteps ==
  ASSUME PumpTypes, [Next]_vars, Streaming'
  PROVE  \/ Connect
         \/ Streaming /\ Position' = Position /\ ~SaveEvent
         \/ SaveEvent /\ Carrying /\ Streaming /\ Position = ev /\ Position' = next
<1> USE DEF Carrying, Streaming, Position
<1>1. pc # "flush" => after = "start"
  BY DEF PumpTypes, PlaceTypes
<1>2. CASE Take
  BY <1>1, <1>2 DEF Take, GoOn, GoFlush, SaveEvent
<1>3. CASE FlushDone \/ \E c \in {Container[e] : e \in Events} : FlushGroup(c)
  BY <1>1, <1>3 DEF FlushDone, FlushGroup, SaveEvent, PumpTypes, PlaceTypes
<1>4. CASE Add
  BY <1>1, <1>4 DEF Add, GoOn, SaveEvent
<1>5. CASE SaveEvent
  BY <1>1, <1>5 DEF SaveEvent, GoOn, GoFlush
<1>6. CASE Emit \/ FillSpool \/ NewDay \/ UNCHANGED vars
  <2>1. UNCHANGED <<pc, after, next, ev, handled, ck>>
    BY <1>6 DEF Emit, FillSpool, NewDay, vars, diskVars, spoolVars
  <2>2. ~SaveEvent \/ pc = "checkpoint"
    BY DEF SaveEvent
  <2>3. pc = "checkpoint" /\ SaveEvent => pc' # "checkpoint"
    BY DEF SaveEvent, GoOn, GoFlush
  <2>4. QED
    BY <2>1, <2>2, <2>3
<1>7. ~(Restore \/ RecordGap \/ StreamEnds \/ AppendRaises \/ SaveRaises \/ Crash)
  BY <1>1 DEF Restore, RecordGap, StreamEnds, StreamCloses, StreamFails, AppendRaises, SaveRaises, Throw,
     Crash, GoOn, GoFlush
<1>8. QED
  BY <1>2, <1>3, <1>4, <1>5, <1>6, <1>7 DEF Next, Handle, FlushStep

LEMMA HandStep ==
  ASSUME PumpTypes, HandInv, [Next]_vars
  PROVE  HandInv'
<1> SUFFICES ASSUME Carrying'
             PROVE  /\ next' = ev' + 1 /\ ev' <= emitted'
                    /\ pc' = "checkpoint" <=> ev' \in Elems(seen') \cup Excluded
  BY DEF HandInv
<1>1. pc # "flush" => after = "start"
  BY DEF PumpTypes, PlaceTypes
<1>2. CASE Take
  BY <1>2 DEF Take, GoOn, GoFlush, fieldVars
<1>3. CASE FlushDone \/ \E c \in {Container[e] : e \in Events} : FlushGroup(c)
  BY <1>1, <1>3 DEF FlushDone, FlushGroup, Carrying, HandInv, fieldVars, PumpTypes, PlaceTypes
<1>4. CASE Add
  <2>1. Carrying /\ ev \in Events /\ UNCHANGED <<next, ev, emitted>> /\ pc' = "checkpoint" /\ seen' = Remember(ev)
    BY <1>4, Places DEF Add, GoOn, Carrying
  <2>2. QED
    BY <2>1, RememberNew DEF HandInv, PumpTypes, FieldTypes
<1>5. CASE Emit \/ FillSpool \/ NewDay \/ UNCHANGED vars
  <2>1. UNCHANGED <<pc, after, next, ev, seen>> /\ emitted <= emitted' /\ emitted' \in Nat
    BY <1>5, Places DEF Emit, FillSpool, NewDay, vars, fieldVars
  <2>2. QED
    BY <2>1, Places DEF HandInv, Carrying
<1>6. ~(SaveEvent \/ Connect \/ Restore \/ RecordGap \/ StreamEnds \/ AppendRaises \/ SaveRaises \/ Crash)
  BY <1>1 DEF SaveEvent, Connect, Restore, RecordGap, StreamEnds, StreamCloses, StreamFails, AppendRaises,
     SaveRaises, Throw, Crash, GoOn, GoFlush, Carrying
<1>7. QED
  BY <1>2, <1>3, <1>4, <1>5, <1>6 DEF Next, Handle, FlushStep

LEMMA HandInit == Init => HandInv
  BY DEF Init, HandInv, Carrying

\* A new stream starts at the first event that is replayed, or after the last one.
LEMMA ConnectStarts ==
  ASSUME PumpTypes, Connect
  PROVE  /\ \A e \in Events : Replayed(e) => next' <= e
         /\ \A e \in Events : e >= next' => e > emitted \/ Replayed(e)
         /\ ~Carrying' /\ next' \in Nat /\ next' <= emitted + 1
<1> DEFINE again == {e \in Events : Replayed(e)}
<1>1. next' = IF again = {} THEN emitted + 1 ELSE CHOOSE e \in again : \A d \in again : e <= d
  BY DEF Connect
<1>2. again \subseteq Events /\ again \subseteq Nat /\ IsFiniteSet(again)
  <2>1. again \in SUBSET Events /\ Events \subseteq Nat
    BY Places
  <2>2. QED
    BY <2>1, SetsOfEvents
<1>3. ~Carrying'
  BY DEF Connect, GoOn, Carrying, PumpTypes, PlaceTypes
<1>4. CASE again = {}
  BY <1>1, <1>3, <1>4, Places
<1>5. CASE again # {}
  <2> HIDE DEF again
  <2>1. next' \in again /\ \A d \in again : next' <= d
    BY <1>1, <1>2, <1>5, LeastIs
  <2> USE DEF again
  <2>2. ASSUME NEW e \in Events, e >= next' PROVE e > emitted \/ Replayed(e)
    <3>1. Replayed(next') /\ next' \in Events
      BY <2>1
    <3>2. Time[next'] <= Time[e] /\ Time[next'] \in Nat /\ Time[e] \in Nat /\ e \in Nat /\ next' \in Nat
      BY <2>2, <3>1, Places
    <3>3. QED
      BY <2>2, <3>1, <3>2, Places DEF Replayed, Retains
  <2>3. next' \in Nat /\ next' <= emitted + 1
    BY <1>2, <2>1, Places DEF Replayed, Retains
  <2>4. QED
    BY <1>2, <1>3, <2>1, <2>2, <2>3
<1>6. QED
  BY <1>4, <1>5

\* What is not yet retained, or is retained after a step, was so before it.
LEMMA EmittedGrows ==
  ASSUME PumpTypes, [Next]_vars
  PROVE  /\ emitted' \in Nat /\ emitted <= emitted'
         /\ \A e \in Events : Retains(e)' => e > emitted \/ Retains(e)
<1>1. emitted' = emitted \/ emitted' = emitted + 1
  BY DEF Next, Handle, FlushStep, StreamEnds, Restore, FlushDone, FlushGroup, Take, Add, SaveEvent, RecordGap,
     Connect, StreamCloses, StreamFails, AppendRaises, SaveRaises, Throw, Crash, Emit, FillSpool, NewDay, vars
<1>2. QED
  BY <1>1, Places DEF Retains

\* The cursor only goes back when the thread starts again.
LEMMA CursorGrows ==
  ASSUME PumpTypes, [Next]_vars, ~Restore, ~Crash
  PROVE  /\ cursor <= cursor'
         /\ \/ cursor' = cursor
            \/ (SaveEvent \/ SaveRaises) /\ pc = "checkpoint" /\ cursor' = Later(cursor, Time[ev])
         /\ UNCHANGED ck \/ Checkpoint
         /\ handled' = handled \/ (SaveEvent /\ handled' = handled \cup {ev} /\ Checkpoint)
<1>1. /\ \/ cursor' = cursor
         \/ (SaveEvent \/ SaveRaises) /\ pc = "checkpoint" /\ cursor' = Later(cursor, Time[ev])
      /\ UNCHANGED ck \/ Checkpoint
      /\ handled' = handled \/ (SaveEvent /\ handled' = handled \cup {ev} /\ Checkpoint)
  BY DEF Next, Handle, FlushStep, StreamEnds, FlushDone, FlushGroup, Take, Add, SaveEvent, RecordGap,
     Connect, StreamCloses, StreamFails, AppendRaises, SaveRaises, Throw, Emit, FillSpool, NewDay, vars,
     fieldVars, diskVars, spoolVars
<1>2. cursor <= cursor'
  <2>1. CASE cursor' = cursor
    BY <2>1, Places
  <2>2. CASE pc = "checkpoint" /\ cursor' = Later(cursor, Time[ev])
    BY <2>2, Places DEF Later, Carrying
  <2>3. QED
    BY <1>1, <2>1, <2>2
<1>3. QED
  BY <1>1, <1>2

-----------------------------------------------------------------------------
(* No hole: an event after a handled one that is not handled itself lies ahead *)
(* of both cursors, and of the stream while there is one.                      *)

Ahead(e) == e \notin handled /\ (e > emitted \/ (Retains(e) /\ \E h \in handled : h < e))
HoleInv ==
  /\ (~ck.saved => handled = {}) /\ \A h \in handled : h <= emitted
  /\ \A e \in Events : Ahead(e) => /\ Time[e] >= cursor - 1 /\ Time[e] >= ck.cursor - 1
                                   /\ Streaming => e >= Position
  /\ Streaming => \A e \in Events : e >= Position => Time[e] >= cursor - 1

LEMMA HoleInit == Init => HoleInv
<1> SUFFICES ASSUME Init PROVE HoleInv
  OBVIOUS
<1>1. cursor = 0 /\ ck.cursor = 0 /\ handled = {} /\ ~Streaming
  BY DEF Init, Streaming, Carrying
<1>2. \A e \in Events : Time[e] \in Nat
  BY Constants
<1>3. QED
  BY <1>1, <1>2 DEF HoleInv

LEMMA HoleStep ==
  ASSUME PumpTypes, HandInv, HoleInv, [Next]_vars
  PROVE  HoleInv'
<1>1. CASE Restore
  <2>1. UNCHANGED <<ck, handled, emitted>> /\ ~Streaming'
    BY <1>1 DEF Restore, GoFlush, diskVars, Streaming, Carrying
  <2>2. ASSUME NEW e \in Events, Ahead(e)' PROVE Time[e] >= cursor' - 1 /\ Time[e] >= ck'.cursor - 1
    <3>1. Ahead(e)
      BY <2>1, <2>2 DEF Ahead, Retains
    <3>2. Time[e] >= ck'.cursor - 1
      BY <2>1, <3>1 DEF HoleInv
    <3>3. CASE cursor' = ck.cursor
      BY <2>1, <3>2, <3>3
    <3>4. ASSUME ~ck.saved, NEW t \in Clock, cursor' = Later(0, t - Lookback)
          PROVE  Time[e] >= cursor' - 1
      <4>1. e > emitted
        BY <3>1, <3>4 DEF HoleInv, Ahead
      <4>2. emitted + 1 \in Events /\ emitted + 1 <= e /\ emitted # NEvents
        BY <4>1, Places, Constants DEF Events
      <4>3. t <= Time[emitted + 1] /\ t \in Int
        BY <4>2 DEF Clock
      <4>4. Time[emitted + 1] <= Time[e] /\ Time[emitted + 1] \in Nat /\ Time[e] \in Nat
        BY <4>2, Places
      <4>5. QED
        BY <3>4, <4>3, <4>4, Constants DEF Later
    <3>5. QED
      BY <1>1, <3>2, <3>3, <3>4 DEF Restore
  <2>3. QED
    BY <2>1, <2>2 DEF HoleInv
<1>2. CASE Crash
  <2>1. UNCHANGED <<ck, handled, emitted>> /\ ~Streaming' /\ cursor' = 0
    BY <1>2 DEF Crash, diskVars, Streaming, Carrying
  <2>2. QED
    BY <2>1, Places DEF HoleInv, Ahead, Retains
<1>3. CASE ~Restore /\ ~Crash
  <2>1. ASSUME NEW e \in Events, Ahead(e)'
        PROVE  /\ Time[e] >= cursor - 1 /\ (Streaming => e >= Position) /\ (SaveEvent => e >= next)
               /\ SaveEvent \/ Ahead(e)
    <3>1. e \in Nat /\ e \notin handled /\ (e > emitted \/ Retains(e))
      BY <1>3, <2>1, EmittedGrows, CursorGrows, Places DEF Ahead
    <3>2. CASE Ahead(e)
      <4>1. SaveEvent => ev # e /\ Carrying
        BY <2>1 DEF SaveEvent, Ahead, Carrying
      <4>2. SaveEvent => e >= ev + 1 /\ next = ev + 1
        BY <3>1, <3>2, <4>1, Places DEF HoleInv, HandInv, Streaming, Position
      <4>3. QED
        BY <3>2, <4>2 DEF HoleInv
    <3>3. CASE ~Ahead(e)
      <4>1. SaveEvent /\ handled' = handled \cup {ev}
        BY <1>3, <2>1, <3>1, <3>3, CursorGrows, EmittedGrows, Places DEF Ahead
      <4>2. ev < e /\ Carrying
        BY <2>1, <3>1, <3>3, <4>1 DEF Ahead, SaveEvent, Carrying
      <4>3. next = ev + 1 /\ Position = ev /\ Streaming /\ ev \in Nat
        BY <4>2, Places DEF HandInv, Position, Streaming
      <4>4. Time[e] >= cursor - 1
        BY <3>1, <4>2, <4>3 DEF HoleInv
      <4>5. QED
        BY <3>1, <4>1, <4>2, <4>3, <4>4
    <3>4. QED
      BY <3>2, <3>3
  <2>2. ASSUME NEW e \in Events, Time[e] >= cursor - 1, Streaming => e >= Position
        PROVE  Time[e] >= cursor' - 1
    <3>1. CASE cursor' = cursor
      BY <2>2, <3>1
    <3>2. CASE pc = "checkpoint" /\ cursor' = Later(cursor, Time[ev])
      <4>1. ev <= e /\ ev \in Events
        BY <2>2, <3>2, Places DEF Streaming, Carrying, Position
      <4>2. Time[ev] <= Time[e] /\ Time[ev] \in Nat /\ Time[e] \in Nat
        BY <4>1, Places
      <4>3. QED
        BY <2>2, <3>2, <4>2, Places DEF Later
    <3>3. QED
      BY <1>3, <3>1, <3>2, CursorGrows
  <2>3. ASSUME NEW e \in Events, Ahead(e)' PROVE Time[e] >= cursor' - 1 /\ Time[e] >= ck'.cursor - 1
    <3>1. Time[e] >= cursor' - 1
      BY <2>1, <2>2, <2>3
    <3>2. CASE Checkpoint
      BY <3>1, <3>2 DEF Checkpoint
    <3>3. CASE UNCHANGED ck /\ Ahead(e)
      BY <3>1, <3>3 DEF HoleInv
    <3>4. SaveEvent => Checkpoint
      BY DEF SaveEvent
    <3>5. QED
      BY <1>3, <2>1, <2>3, <3>2, <3>3, <3>4, CursorGrows
  <2>4. ASSUME NEW e \in Events, Ahead(e)', Streaming' PROVE e >= Position'
    <3>1. CASE Connect
      <4>1. handled' = handled /\ Position' = next' /\ emitted' = emitted /\ ~SaveEvent
        BY <3>1, ConnectStarts DEF Connect, diskVars, Position, SaveEvent
      <4>2. Ahead(e) /\ Time[e] >= cursor - 1
        BY <2>1, <2>4, <4>1
      <4>3. QED
        BY <3>1, <4>1, <4>2, ConnectStarts, Places DEF Ahead, Replayed
    <3>2. QED
      BY <2>1, <2>4, <3>1, StreamSteps
  <2>5. ASSUME NEW e \in Events, Streaming', e >= Position' PROVE Time[e] >= cursor' - 1
    <3>1. CASE Connect
      <4>1. cursor' = cursor /\ Position' = next'
        BY <3>1, ConnectStarts DEF Connect, fieldVars, Position
      <4>2. e > emitted \/ Replayed(e)
        BY <2>5, <3>1, <4>1, ConnectStarts
      <4>3. e > emitted => Ahead(e)
        BY Places DEF Ahead, HoleInv
      <4>4. QED
        BY <4>1, <4>2, <4>3 DEF HoleInv, Replayed
    <3>2. CASE Streaming /\ Position' = Position
      BY <2>2, <2>5, <3>2 DEF HoleInv
    <3>3. CASE Carrying /\ Streaming /\ Position = ev /\ Position' = next
      <4>1. e >= Position
        BY <2>5, <3>3, Places DEF HandInv
      <4>2. QED
        BY <2>2, <3>3, <4>1 DEF HoleInv
    <3>4. QED
      BY <2>5, <3>1, <3>2, <3>3, StreamSteps
  <2>6. ~ck'.saved => handled' = {}
    BY <1>3, CursorGrows DEF Checkpoint, HoleInv
  <2>7. \A h \in handled' : h <= emitted'
    <3>1. \A h \in handled : h \in Nat /\ h <= emitted'
      BY EmittedGrows, Places DEF HoleInv, PumpTypes, WorldTypes
    <3>2. SaveEvent => ev <= emitted'
      BY EmittedGrows, Places DEF SaveEvent, HandInv, Carrying
    <3>3. QED
      BY <1>3, <3>1, <3>2, CursorGrows
  <2>8. QED
    BY <2>3, <2>4, <2>5, <2>6, <2>7 DEF HoleInv
<1>4. QED
  BY <1>1, <1>2, <1>3

LEMMA PumpInvariants == Spec => [](PumpTypes /\ HandInv /\ HoleInv)
  BY TypesInit, TypesStep, HandInit, HandStep, HoleInit, HoleStep, PTL DEF Spec

\* A new stream always starts early enough for every event that comes after one
\* a checkpoint covers and that no checkpoint covers, whatever crashes and errors
\* came before (docker.py, 182-186 and 208).
THEOREM StreamsLeaveNoHole == Spec => ReconnectLeavesNoHole
<1>1. PumpTypes /\ HandInv /\ HoleInv /\ [Next]_vars =>
        [pc = "connect" /\ pc' = "read" =>
           \A h \in handled, e \in Events \ handled : h < e /\ Retains(e) => next' <= e]_vars
  <2> SUFFICES ASSUME PumpTypes, HandInv, HoleInv, Next, pc = "connect", pc' = "read",
                      NEW h \in handled, NEW e \in Events \ handled, h < e, Retains(e)
               PROVE  next' <= e
    BY DEF vars
  <2>1. Connect
    BY StreamSteps DEF Streaming, Carrying, PumpTypes, PlaceTypes
  <2>2. Ahead(e)
    BY DEF Ahead
  <2>3. Replayed(e)
    BY <2>2 DEF HoleInv, Replayed
  <2>4. QED
    BY <2>1, <2>3, ConnectStarts
<1>2. QED
  BY <1>1, PumpInvariants, PTL DEF Spec, ReconnectLeavesNoHole

-----------------------------------------------------------------------------
(* No event is read twice without a failure: what the thread still waits for  *)
(* comes after all it remembers, so the oldest identity is forgotten only when *)
(* the daemon has forgotten its event as well.                                 *)

Ordered(s) == /\ \A i, j \in DOMAIN s : i < j => s[i] < s[j]
              /\ \A i \in DOMAIN s : s[i] <= emitted

Awaited(e) ==
  /\ e \notin Elems(seen) \cup Excluded
  /\ e > emitted \/ Replayed(e) \/ (Streaming /\ e >= Position)
AwaitedOnDisk(e) ==
  /\ e \notin Elems(ck.seen) \cup Excluded
  /\ e > emitted \/ (Retains(e) /\ Time[e] >= ck.cursor - 1)

FieldsFresh ==
  /\ Ordered(seen)
  /\ \A e \in Events : Awaited(e) => /\ e \notin pending /\ \A s \in Elems(seen) : s < e
                                     /\ Streaming => e >= Position
DiskFresh ==
  /\ Ordered(ck.seen) /\ (~ck.saved => ck.seen = <<>> /\ ck.pending = {})
  /\ \A e \in Events : AwaitedOnDisk(e) => e \notin ck.pending /\ \A s \in Elems(ck.seen) : s < e

LEMMA FreshInit == Init => FieldsFresh /\ DiskFresh
<1> SUFFICES ASSUME Init PROVE FieldsFresh /\ DiskFresh
  OBVIOUS
<1>1. /\ seen = <<>> /\ ck.seen = <<>> /\ pending = {} /\ ck.pending = {} /\ ~Streaming
      /\ Ordered(<<>>)
  BY DEF Init, Streaming, Carrying, Ordered
<1>2. QED
  BY <1>1, NothingHeld DEF FieldsFresh, DiskFresh

\* An event that newer ones push out of the list is no longer retained.
LEMMA Forgotten ==
  ASSUME PumpTypes, Ordered(Append(seen, ev)), ev \in Events, NEW e \in Elems(seen), e \notin Elems(Remember(ev))
  PROVE  ~Retains(e) /\ e < ev /\ e <= emitted
<1> DEFINE s == Append(seen, ev)
           n == Len(seen)
<1>1. /\ seen \in Seq(Events) /\ n \in Nat /\ n <= SeenLimit
      /\ s \in Seq(Events) /\ Len(s) = n + 1 /\ s[n + 1] = ev
      /\ \A i \in 1 .. n : s[i] = seen[i]
  BY DEF PumpTypes, FieldTypes, Remembered
<1>2. Ordered(s)
  OBVIOUS
<1>3. PICK m \in 1 .. n : e = seen[m]
  BY <1>1 DEF Elems
<1> HIDE DEF s, n
<1>4. Remember(ev) = IF Len(s) > SeenLimit THEN Tail(s) ELSE s
  BY DEF Remember, s
<1>5. Len(s) > SeenLimit
  <2> SUFFICES ASSUME ~(Len(s) > SeenLimit) PROVE FALSE
    OBVIOUS
  <2>1. m \in DOMAIN s /\ s[m] = e
    BY <1>1, <1>3
  <2>2. QED
    BY <1>4, <2>1 DEF Elems
<1>6. n = SeenLimit
  BY <1>1, <1>5, Constants
<1>7. m = 1
  <2> SUFFICES ASSUME m # 1 PROVE FALSE
    OBVIOUS
  <2>1. m - 1 \in 1 .. Len(s) - 1 /\ s # <<>>
    BY <1>1, <1>3
  <2>2. Tail(s) \in Seq(Events) /\ Len(Tail(s)) = Len(s) - 1 /\ Tail(s)[m - 1] = s[m]
    BY <1>1, <1>3, <2>1
  <2>3. m - 1 \in DOMAIN Tail(s) /\ Tail(s)[m - 1] = e
    BY <1>1, <1>3, <2>1, <2>2
  <2>4. QED
    BY <1>4, <1>5, <2>3 DEF Elems
<1>8. s[1] = e /\ e \in Nat /\ emitted \in Nat
  BY <1>1, <1>3, <1>7, Places
<1> DEFINE newer == [i \in 1 .. n |-> s[i + 1]]
<1>9. newer \in Injection(1 .. n, (e + 1) .. emitted)
  <2>1. DOMAIN s = 1 .. n + 1 /\ \A i \in 1 .. n + 1 : s[i] \in Nat
    BY <1>1, Places
  <2>2. \A i \in 1 .. n : i + 1 \in 1 .. n + 1 /\ 1 \in 1 .. n + 1 /\ 1 < i + 1
    BY <1>1
  <2>3. \A i \in 1 .. n : s[i + 1] \in (e + 1) .. emitted
    <3> SUFFICES ASSUME NEW i \in 1 .. n PROVE s[i + 1] \in (e + 1) .. emitted
      OBVIOUS
    <3>1. i + 1 \in DOMAIN s /\ 1 \in DOMAIN s /\ 1 < i + 1 /\ s[i + 1] \in Nat
      BY <2>1, <2>2
    <3>2. e < s[i + 1] /\ s[i + 1] <= emitted
      BY <1>2, <1>8, <3>1 DEF Ordered
    <3>3. QED
      BY <1>8, <3>1, <3>2
  <2>4. \A i, j \in 1 .. n : i # j => s[i + 1] # s[j + 1]
    <3> SUFFICES ASSUME NEW i \in 1 .. n, NEW j \in 1 .. n, i < j PROVE s[i + 1] # s[j + 1]
      BY <1>1
    <3>1. i + 1 < j + 1 /\ i + 1 \in DOMAIN s /\ j + 1 \in DOMAIN s
      BY <1>1, <2>1, <2>2
    <3>2. QED
      BY <1>2, <2>1, <3>1 DEF Ordered
  <2>5. QED
    BY <2>3, <2>4 DEF Injection, IsInjective
<1>10. n <= emitted - e
  <2>1. IsFiniteSet((e + 1) .. emitted) /\ IsFiniteSet(1 .. n) /\ Cardinality(1 .. n) = n
    <3>1. 1 \in Int /\ n \in Int /\ e + 1 \in Int /\ emitted \in Int
      BY <1>1, <1>8
    <3>2. Cardinality(1 .. n) = IF 1 > n THEN 0 ELSE n - 1 + 1
      BY <3>1, FS_Interval
    <3>3. QED
      BY <1>1, <3>1, <3>2, FS_Interval
  <2>2. Cardinality(1 .. n) <= Cardinality((e + 1) .. emitted)
    BY <1>9, <2>1, FS_Injection
  <2>3. Cardinality((e + 1) .. emitted) = IF e + 1 > emitted THEN 0 ELSE emitted - e
    BY <1>8, FS_Interval
  <2>4. QED
    BY <1>1, <1>6, <1>8, <2>1, <2>2, <2>3, Constants
<1>11. e < ev /\ ev <= emitted
  <2>1. 1 \in DOMAIN s /\ n + 1 \in DOMAIN s /\ 1 < n + 1
    BY <1>1, <1>3
  <2>2. QED
    BY <1>1, <1>2, <1>8, <2>1 DEF Ordered
<1>12. QED
  BY <1>6, <1>8, <1>10, <1>11, PumpAssumption, Places DEF Retains

\* The event in hand comes after everything that is remembered.
LEMMA NextInOrder ==
  ASSUME PumpTypes, HandInv, FieldsFresh, pc = "add"
  PROVE  Awaited(ev) /\ Ordered(Append(seen, ev)) /\ ev \in Events
<1>1. ev \in Events /\ Carrying /\ Position = ev /\ Streaming /\ ev <= emitted
  BY Places DEF Carrying, Position, Streaming, HandInv
<1>2. Awaited(ev)
  BY <1>1, Places DEF Awaited, HandInv
<1>3. \A i \in DOMAIN seen : seen[i] < ev
  BY <1>1, <1>2 DEF FieldsFresh, Elems
<1> DEFINE s == Append(seen, ev)
<1>4. /\ seen \in Seq(Events) /\ Len(seen) \in Nat /\ DOMAIN seen = 1 .. Len(seen)
      /\ DOMAIN s = 1 .. Len(seen) + 1 /\ s[Len(seen) + 1] = ev
      /\ \A i \in 1 .. Len(seen) : s[i] = seen[i]
  BY DEF PumpTypes, FieldTypes, Remembered
<1> HIDE DEF s
<1>5. ASSUME NEW i \in DOMAIN s, NEW j \in DOMAIN s, i < j PROVE s[i] < s[j]
  <2>1. i \in 1 .. Len(seen)
    BY <1>4, <1>5
  <2>2. CASE j \in 1 .. Len(seen)
    BY <1>4, <1>5, <2>1, <2>2 DEF FieldsFresh, Ordered
  <2>3. CASE j = Len(seen) + 1
    BY <1>3, <1>4, <2>1, <2>3
  <2>4. QED
    BY <1>4, <2>2, <2>3
<1>6. ASSUME NEW i \in DOMAIN s PROVE s[i] <= emitted
  BY <1>1, <1>4, <1>6 DEF FieldsFresh, Ordered
<1>7. Ordered(s)
  BY <1>5, <1>6 DEF Ordered
<1>8. QED
  BY <1>1, <1>2, <1>7 DEF s

\* Until it starts again, the thread waits for no event that it has not waited
\* for before, and for none that it has remembered or gone past.
LEMMA AwaitedLess ==
  ASSUME PumpTypes, HandInv, FieldsFresh, [Next]_vars, ~Restore, ~Crash, NEW e \in Events, Awaited(e)'
  PROVE  /\ Awaited(e)
         /\ Add \/ SaveEvent => e # ev
         /\ Streaming' => e >= Position'
<1>1. e \in Nat /\ emitted' \in Nat /\ emitted <= emitted' /\ cursor <= cursor' /\ cursor' \in Nat
  BY EmittedGrows, CursorGrows, Places, TypesStep DEF PumpTypes, FieldTypes
<1>2. CASE Add
  <2>1. /\ pc = "add" /\ pc' = "checkpoint" /\ seen' = Remember(ev) /\ UNCHANGED <<emitted, cursor, ev>>
    BY <1>2 DEF Add, GoOn
  <2>2. Carrying /\ Carrying' /\ Streaming /\ Streaming' /\ Position = ev /\ Position' = ev
    BY <2>1 DEF Carrying, Streaming, Position
  <2>3. Ordered(Append(seen, ev)) /\ ev \in Events
    BY <2>1, NextInOrder
  <2>4. e # ev
    BY <2>1, <2>3, RememberNew DEF Awaited, PumpTypes, FieldTypes
  <2>5. e > emitted \/ Replayed(e) \/ e >= ev
    BY <2>1, <2>2 DEF Awaited, Replayed, Retains
  <2>6. e \notin Elems(seen)
    <3> SUFFICES ASSUME e \in Elems(seen) PROVE FALSE
      OBVIOUS
    <3>1. ~Retains(e) /\ e < ev /\ e <= emitted
      BY <2>1, <2>3, Forgotten DEF Awaited
    <3>2. QED
      BY <2>3, <2>5, <3>1, Places DEF Replayed
  <2>7. Awaited(e)
    BY <2>2, <2>5, <2>6 DEF Awaited
  <2>8. QED
    BY <1>2, <2>2, <2>4, <2>7 DEF FieldsFresh
<1>3. CASE ~Add
  <2>1. seen' = seen
    BY <1>3 DEF Next, Handle, FlushStep, StreamEnds, FlushDone, FlushGroup, Take, SaveEvent, RecordGap,
       Connect, StreamCloses, StreamFails, AppendRaises, SaveRaises, Throw, Emit, FillSpool, NewDay, vars,
       fieldVars
  <2>2. e \notin Elems(seen) \cup Excluded
    BY <2>1 DEF Awaited
  <2>3. SaveEvent => e # ev
    BY <2>2 DEF SaveEvent, HandInv, Carrying
  <2>4. Replayed(e)' => e > emitted \/ Replayed(e)
    BY <1>1, EmittedGrows, Places DEF Replayed
  <2>5. Streaming' /\ e >= Position' => e > emitted \/ Replayed(e) \/ (Streaming /\ e >= Position)
    <3>1. CASE Connect
      BY <3>1, ConnectStarts DEF Position
    <3>2. CASE Carrying /\ Streaming /\ Position = ev /\ Position' = next
      BY <1>1, <3>2, Places DEF HandInv
    <3>3. QED
      BY <3>1, <3>2, StreamSteps
  <2>6. Awaited(e)
    BY <1>1, <2>2, <2>4, <2>5, Places DEF Awaited
  <2>7. Streaming' => e >= Position'
    <3>1. CASE Connect
      <4>1. Position' = next' /\ ~Streaming /\ cursor' = cursor /\ emitted' = emitted
        BY <3>1, ConnectStarts DEF Connect, Position, Streaming, Carrying, PumpTypes, PlaceTypes, fieldVars
      <4>2. e > emitted \/ Replayed(e)
        BY <2>6, <4>1 DEF Awaited
      <4>3. QED
        BY <1>1, <3>1, <4>1, <4>2, ConnectStarts, Places
    <3>2. CASE SaveEvent /\ Carrying /\ Streaming /\ Position = ev /\ Position' = next
      <4>1. e >= ev /\ e # ev
        BY <2>3, <2>6, <3>2 DEF FieldsFresh
      <4>2. QED
        BY <1>1, <3>2, <4>1, Places DEF HandInv
    <3>3. CASE Streaming /\ Position' = Position
      BY <2>6, <3>3 DEF FieldsFresh
    <3>4. QED
      BY <3>1, <3>2, <3>3, StreamSteps
  <2>8. QED
    BY <1>3, <2>3, <2>6, <2>7
<1>4. QED
  BY <1>2, <1>3

\* The order of the list does not depend on what is emitted later.
LEMMA OrderedLater ==
  ASSUME PumpTypes, [Next]_vars, NEW s, Remembered(s), Ordered(s)
  PROVE  Ordered(s)'
<1>1. \A i \in DOMAIN s : s[i] \in Nat
  BY Places DEF Remembered
<1>2. QED
  BY <1>1, EmittedGrows, Places DEF Ordered

\* The lists only grow by the event in hand, until the thread starts again.
LEMMA ListSteps ==
  ASSUME PumpTypes, [Next]_vars, ~Restore, ~Crash
  PROVE  /\ seen' = seen \/ (Add /\ pc = "add" /\ seen' = Remember(ev))
         /\ pending' \subseteq pending \/ (Add /\ pc = "add" /\ pending' \subseteq pending \cup {ev})
<1>1. kept \subseteq pending
  BY DEF PumpTypes, PlaceTypes
<1>2. QED
  BY <1>1 DEF Next, Handle, FlushStep, StreamEnds, FlushDone, FlushGroup, Take, Add, SaveEvent, RecordGap,
     Connect, StreamCloses, StreamFails, AppendRaises, SaveRaises, Throw, Emit, FillSpool, NewDay, vars,
     fieldVars

LEMMA RememberOrdered ==
  ASSUME PumpTypes, Ordered(Append(seen, ev)), ev \in Events
  PROVE  Ordered(Remember(ev))
<1> DEFINE s == Append(seen, ev)
<1>1. s \in Seq(Events) /\ Ordered(s) /\ Len(s) > 0 /\ s # <<>>
  <2>1. s \in Seq(Events) /\ Len(s) = Len(seen) + 1 /\ Len(seen) \in Nat
    BY DEF PumpTypes, FieldTypes, Remembered
  <2>2. Ordered(s)
    OBVIOUS
  <2> HIDE DEF s
  <2>3. QED
    BY <2>1, <2>2
<1>2. Remember(ev) = IF Len(s) > SeenLimit THEN Tail(s) ELSE s
  BY DEF Remember
<1> HIDE DEF s
<1>3. Tail(s) \in Seq(Events) /\ Len(Tail(s)) = Len(s) - 1 /\ \A i \in 1 .. Len(s) - 1 : Tail(s)[i] = s[i + 1]
  BY <1>1
<1>4. \A i \in DOMAIN Tail(s) : Tail(s)[i] = s[i + 1] /\ i + 1 \in DOMAIN s /\ i \in Nat
  BY <1>1, <1>3
<1>5. Ordered(Tail(s))
  <2>1. ASSUME NEW i \in DOMAIN Tail(s), NEW j \in DOMAIN Tail(s), i < j
        PROVE  Tail(s)[i] < Tail(s)[j]
    <3>1. i + 1 < j + 1
      BY <1>4, <2>1
    <3>2. QED
      BY <1>1, <1>4, <3>1 DEF Ordered
  <2>2. QED
    BY <1>1, <1>4, <2>1 DEF Ordered
<1>6. QED
  BY <1>1, <1>2, <1>5

LEMMA FieldsStep ==
  ASSUME PumpTypes, HandInv, FieldsFresh, DiskFresh, [Next]_vars
  PROVE  FieldsFresh'
<1>1. CASE Restore
  <2>1. /\ seen' = ck.seen /\ pending' = ck.pending /\ emitted' = emitted /\ ~Streaming'
        /\ ck.saved => cursor' = ck.cursor
    BY <1>1 DEF Restore, GoFlush, Streaming, Carrying
  <2>2. CASE ck.saved
    BY <2>1, <2>2 DEF FieldsFresh, DiskFresh, Awaited, AwaitedOnDisk, Replayed, Retains, Ordered
  <2>3. CASE ~ck.saved
    <3>1. seen' = <<>> /\ pending' = {}
      BY <2>1, <2>3 DEF DiskFresh
    <3>2. QED
      BY <2>1, <3>1, NothingHeld DEF FieldsFresh, Ordered
  <2>4. QED
    BY <2>2, <2>3
<1>2. CASE Crash
  <2>1. seen' = <<>> /\ pending' = {} /\ ~Streaming'
    BY <1>2 DEF Crash, Streaming, Carrying
  <2>2. QED
    BY <2>1, NothingHeld DEF FieldsFresh, Ordered
<1>3. CASE ~Restore /\ ~Crash
  <2>1. Ordered(seen)'
    <3>1. CASE seen' = seen
      <4>1. Remembered(seen) /\ Ordered(seen)
        BY DEF PumpTypes, FieldTypes, FieldsFresh
      <4>2. QED
        BY <3>1, <4>1, OrderedLater DEF Ordered
    <3>2. CASE Add /\ pc = "add" /\ seen' = Remember(ev)
      <4>1. Ordered(Remember(ev)) /\ emitted' = emitted
        BY <3>2, NextInOrder, RememberOrdered DEF Add
      <4>2. QED
        BY <3>2, <4>1 DEF Ordered
    <3>3. QED
      BY <1>3, <3>1, <3>2, ListSteps
  <2>2. ASSUME NEW e \in Events, Awaited(e)'
        PROVE  e \notin pending' /\ (\A s \in Elems(seen') : s < e) /\ (Streaming' => e >= Position')
    <3>1. Awaited(e) /\ (Add => e # ev) /\ (Streaming' => e >= Position')
      BY <1>3, <2>2, AwaitedLess
    <3>2. e \notin pending /\ \A s \in Elems(seen) : s < e
      BY <3>1 DEF FieldsFresh
    <3>3. CASE Add /\ pc = "add"
      <4>1. ev \in Events /\ ev < e
        BY <3>1, <3>3, Places DEF FieldsFresh, Streaming, Carrying, Position
      <4>2. Elems(seen') \subseteq Elems(seen) \cup {ev}
        BY <3>3, <4>1, RememberKeeps DEF Add, PumpTypes, FieldTypes
      <4>3. e \notin pending'
        BY <1>3, <3>1, <3>2, <3>3, ListSteps
      <4>4. QED
        BY <3>1, <3>2, <4>1, <4>2, <4>3
    <3>4. CASE ~(Add /\ pc = "add")
      BY <1>3, <3>1, <3>2, <3>4, ListSteps
    <3>5. QED
      BY <3>3, <3>4
  <2>3. QED
    BY <2>1, <2>2 DEF FieldsFresh
<1>4. QED
  BY <1>1, <1>2, <1>3

LEMMA DiskStep ==
  ASSUME PumpTypes, PumpTypes', FieldsFresh', DiskFresh, [Next]_vars
  PROVE  DiskFresh'
<1>1. CASE UNCHANGED ck
  <2>1. Remembered(ck.seen) /\ Ordered(ck.seen)
    BY DEF PumpTypes, SavedTypes, DiskFresh
  <2>2. Ordered(ck.seen)'
    BY <1>1, <2>1, OrderedLater DEF Ordered
  <2>3. \A e \in Events : AwaitedOnDisk(e)' => AwaitedOnDisk(e)
    BY <1>1, EmittedGrows, Places DEF AwaitedOnDisk
  <2>4. QED
    BY <1>1, <2>2, <2>3 DEF DiskFresh
<1>2. CASE Checkpoint
  <2>1. ck'.saved /\ ck'.cursor = cursor' /\ ck'.pending = pending' /\ ck'.seen = seen'
    BY <1>2 DEF Checkpoint
  <2>2. \A e \in Events : AwaitedOnDisk(e)' => Awaited(e)'
    BY <2>1 DEF AwaitedOnDisk, Awaited, Replayed
  <2>3. Ordered(ck.seen)'
    BY <2>1 DEF FieldsFresh, Ordered
  <2>4. QED
    BY <2>1, <2>2, <2>3 DEF FieldsFresh, DiskFresh
<1>3. UNCHANGED ck \/ Checkpoint
  BY CursorGrows DEF Restore, Crash, diskVars
<1>4. QED
  BY <1>1, <1>2, <1>3

-----------------------------------------------------------------------------
(* Counting.  A record that is still to be written, because its event is       *)
(* awaited or due in a flush, has had no more copies than there were failures. *)

Failures == crashes + errors
Due(e) == e \in pending /\ (pc = "flush" => Container[e] \in groups \/ e \in kept)
CountInv ==
  /\ \A e \in Events : spooled[e] <= 1 + Failures
  /\ pc = "start" => \A e \in Events : spooled[e] <= Failures
  /\ \A e \in Events : Awaited(e) \/ Due(e) => spooled[e] <= Failures
  /\ pc = "flush" => after # "start" /\ \A e \in kept : Container[e] \notin groups

LEMMA CountInit == Init => CountInv
<1> SUFFICES ASSUME Init PROVE CountInv
  OBVIOUS
<1>1. Failures = 0 /\ pc = "start" /\ \A e \in Events : spooled[e] = 0
  BY DEF Init, Failures
<1>2. QED
  BY <1>1 DEF CountInv

LEMMA Numbers ==
  ASSUME PumpTypes
  PROVE  Failures \in Nat /\ \A e \in Events : spooled[e] \in Nat
<1>1. crashes \in Nat /\ errors \in Nat
  BY Constants DEF PumpTypes, WorldTypes
<1>2. QED
  BY <1>1, InEvents DEF Failures

\* A failure allows one more copy of everything.
LEMMA CountAfterFailure ==
  ASSUME PumpTypes, CountInv, Failures' = Failures + 1, spooled' = spooled, pc' # "flush"
  PROVE  CountInv'
  BY Numbers DEF CountInv

\* A step that appends nothing and awaits no more than before.
LEMMA CountKept ==
  ASSUME CountInv, pc # "start", pc' # "start", UNCHANGED <<spooled, crashes, errors>>,
         \A e \in Events : Awaited(e)' => Awaited(e),
         \A e \in Events : Due(e)' => Due(e),
         pc' = "flush" => after' # "start" /\ \A e \in kept' : Container[e] \notin groups'
  PROVE  CountInv'
  BY DEF CountInv, Failures

LEMMA CountStep ==
  ASSUME PumpTypes, PumpTypes', HandInv, FieldsFresh, CountInv, [Next]_vars
  PROVE  CountInv'
<1> USE DEF diskVars, spoolVars, fieldVars, boundVars
<1>1. CASE AppendRaises \/ SaveRaises
  <2>1. errors' = errors + 1 /\ UNCHANGED <<crashes, spooled>> /\ pc' \in {"gap", "dead"}
    BY <1>1 DEF AppendRaises, SaveRaises, Throw
  <2>2. Failures' = Failures + 1
    BY <2>1, Constants DEF Failures, PumpTypes, WorldTypes
  <2>3. QED
    BY <2>1, <2>2, CountAfterFailure
<1>2. CASE Crash
  <2>1. crashes' = crashes + 1 /\ UNCHANGED <<errors, spooled>> /\ pc' = "start"
    BY <1>2 DEF Crash
  <2>2. Failures' = Failures + 1
    BY <2>1, Constants DEF Failures, PumpTypes, WorldTypes
  <2>3. QED
    BY <2>1, <2>2, CountAfterFailure
<1>3. CASE Restore
  <2>1. /\ pc = "start" /\ pc' = "flush" /\ after' = "connect" /\ kept' = {}
        /\ UNCHANGED <<spooled, crashes, errors>>
    BY <1>3 DEF Restore, GoFlush
  <2>2. QED
    BY <2>1, Numbers DEF CountInv, Failures
<1>4. ASSUME ~Restore, ~Crash PROVE \A e \in Events : Awaited(e)' => Awaited(e) /\ (Add => e # ev)
  BY <1>4, AwaitedLess
<1>5. ASSUME NEW c \in {Container[e] : e \in Events}, FlushGroup(c) PROVE CountInv'
  <2>1. /\ pc = "flush" /\ pc' = "flush" /\ UNCHANGED <<pending, after, crashes, errors>>
        /\ groups' = groups \ {c} /\ c \in groups
    BY <1>5 DEF FlushGroup
  <2>2. \A e \in Events : Awaited(e)' => Awaited(e)
    BY <1>4, <2>1 DEF Restore, Crash
  <2>3. CASE Refuse({}) /\ kept' = kept \cup Of(c, pending)
    <3>1. spooled' = spooled /\ \A e \in Of(c, pending) : e \in pending /\ Container[e] = c
      BY <2>3 DEF Refuse, Of
    <3>2. \A e \in Events : Due(e)' => Due(e)
      BY <2>1, <2>3, <3>1 DEF Due
    <3>3. \A e \in kept' : Container[e] \notin groups'
      BY <2>1, <2>3, <3>1 DEF CountInv
    <3>4. after # "start"
      BY <2>1 DEF CountInv
    <3>5. QED
      BY <2>1, <2>2, <3>1, <3>2, <3>3, <3>4, CountKept
  <2>4. CASE Accept(Of(c, pending)) /\ kept' = kept
    <3>1. ASSUME NEW e \in Events
          PROVE  spooled'[e] = IF e \in pending /\ Container[e] = c THEN spooled[e] + 1 ELSE spooled[e]
      BY <2>4 DEF Accept, Of
    <3>2. ASSUME NEW e \in Events, Awaited(e)' \/ Due(e)' PROVE spooled'[e] = spooled[e] /\ (Awaited(e) \/ Due(e))
      <4>1. CASE Awaited(e)'
        BY <2>2, <3>1, <4>1 DEF FieldsFresh
      <4>2. CASE Due(e)'
        BY <2>1, <2>4, <3>1, <4>2 DEF Due, CountInv
      <4>3. QED
        BY <3>2, <4>1, <4>2
    <3>3. ASSUME NEW e \in Events PROVE spooled'[e] <= 1 + Failures
      <4>1. CASE e \in pending /\ Container[e] = c
        <5>1. spooled[e] <= Failures
          BY <2>1, <4>1 DEF Due, CountInv
        <5>2. QED
          BY <3>1, <4>1, <5>1, Numbers
      <4>2. CASE ~(e \in pending /\ Container[e] = c)
        BY <3>1, <4>2 DEF CountInv
      <4>3. QED
        BY <4>1, <4>2
    <3>4. Failures' = Failures
      BY <2>1 DEF Failures
    <3>5. QED
      BY <2>1, <2>4, <3>2, <3>3, <3>4 DEF CountInv
  <2>5. QED
    BY <1>5, <2>3, <2>4 DEF FlushGroup
<1>6. CASE Add
  <2>1. /\ pc = "add" /\ pc' = "checkpoint" /\ UNCHANGED <<crashes, errors>>
    BY <1>6 DEF Add, GoOn
  <2>2. /\ Awaited(ev) /\ ev \in Events /\ ev \notin pending
    BY <2>1, NextInOrder DEF FieldsFresh
  <2>3. spooled[ev] <= Failures
    BY <2>2 DEF CountInv
  <2>4. \A e \in Events : Awaited(e)' => Awaited(e) /\ e # ev
    BY <1>4, <1>6, <2>1 DEF Restore, Crash, GoFlush
  <2>5. \/ pending' = pending \cup {ev} /\ spooled' = spooled
        \/ pending' = pending /\ (Accept({ev}) \/ spooled' = spooled)
    BY <1>6 DEF Add, Refuse
  <2>6. \A e \in Events : Due(e)' => e \in pending' /\ (e # ev => Due(e))
    BY <2>1, <2>5 DEF Due
  <2>7. ASSUME NEW e \in Events PROVE spooled'[e] = spooled[e] \/ (e = ev /\ spooled'[e] = spooled[e] + 1)
    BY <2>5 DEF Accept
  <2>8. ASSUME NEW e \in Events, Awaited(e)' \/ Due(e)' PROVE spooled'[e] <= Failures
    <3>1. CASE e # ev
      BY <2>4, <2>6, <2>7, <2>8, <3>1 DEF CountInv
    <3>2. CASE e = ev
      <4>1. ev \in pending' /\ spooled' = spooled
        BY <2>2, <2>4, <2>5, <2>6, <2>8, <3>2
      <4>2. QED
        BY <2>3, <3>2, <4>1
    <3>3. QED
      BY <3>1, <3>2
  <2>9. ASSUME NEW e \in Events PROVE spooled'[e] <= 1 + Failures
    BY <2>3, <2>7, Numbers DEF CountInv
  <2>10. Failures' = Failures
    BY <2>1 DEF Failures
  <2>11. QED
    BY <2>1, <2>8, <2>9, <2>10 DEF CountInv
<1>7. CASE FlushDone
  <2>1. /\ pc = "flush" /\ groups = {} /\ pc' = after /\ pending' = kept /\ UNCHANGED <<spooled, crashes, errors>>
    BY <1>7 DEF FlushDone
  <2>2. pc' # "start" /\ pc' # "flush"
    BY <2>1 DEF CountInv, PumpTypes, PlaceTypes
  <2>3. \A e \in Events : Due(e)' => Due(e)
    BY <2>1, <2>2 DEF Due, PumpTypes, PlaceTypes
  <2>4. ~Restore /\ ~Crash
    BY <2>1, <2>2 DEF Restore, Crash
  <2>5. QED
    BY <1>4, <2>1, <2>2, <2>3, <2>4, CountKept
<1>8. CASE Take \/ SaveEvent \/ RecordGap \/ Connect \/ StreamEnds
  <2>1. /\ pc \notin {"start", "flush"} /\ pc' # "start" /\ UNCHANGED <<spooled, crashes, errors, pending>>
        /\ pc' = "flush" => after' # "start" /\ groups' = {Container[e] : e \in pending} /\ kept' = {}
    BY <1>8 DEF Take, SaveEvent, RecordGap, Connect, StreamEnds, StreamCloses, StreamFails, GoOn, GoFlush
  <2>2. \A e \in Events : Due(e)' => Due(e)
    BY <2>1 DEF Due
  <2>3. QED
    BY <1>4, <2>1, <2>2, CountKept DEF Restore, Crash
<1>9. CASE Emit \/ FillSpool \/ NewDay \/ UNCHANGED vars
  <2>1. UNCHANGED <<spooled, crashes, errors, pending, pc, after, groups, kept>>
    BY <1>9 DEF Emit, FillSpool, NewDay, vars
  <2>2. ~Restore /\ ~Crash
    BY <2>1 DEF Restore, Crash, GoFlush
  <2>3. Failures' = Failures /\ \A e \in Events : Due(e)' => Due(e)
    BY <2>1 DEF Due, Failures
  <2>4. QED
    BY <1>4, <2>1, <2>2, <2>3 DEF CountInv
<1>10. QED
  BY <1>1, <1>2, <1>3, <1>5, <1>6, <1>7, <1>8, <1>9 DEF Next, Handle, FlushStep

\* The spool holds an event once more than often only for every restart and every
\* write that raised: reconnecting alone duplicates nothing, as long as the thread
\* remembers at least as many events as the daemon retains (docker.py, 148-149 and
\* 182-184).
THEOREM DuplicatesAreFailures == Spec => []DuplicatesNeedFailures
<1>1. PumpTypes /\ HandInv /\ FieldsFresh /\ DiskFresh /\ CountInv /\ [Next]_vars
        => (FieldsFresh /\ DiskFresh /\ CountInv)'
  BY TypesStep, FieldsStep, DiskStep, CountStep
<1>2. PumpTypes /\ CountInv => DuplicatesNeedFailures
  <2> SUFFICES ASSUME PumpTypes, CountInv, NEW e \in Events PROVE spooled[e] <= 1 + crashes + errors
    BY DEF DuplicatesNeedFailures
  <2>1. crashes \in Nat /\ errors \in Nat /\ spooled[e] \in Nat
    BY Constants DEF PumpTypes, WorldTypes
  <2>2. QED
    BY <2>1 DEF CountInv, Failures
<1>3. QED
  BY <1>1, <1>2, FreshInit, CountInit, PumpInvariants, PTL DEF Spec
=============================================================================
