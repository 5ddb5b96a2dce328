---------------------------- MODULE GatewayProofs ----------------------------
(* Theorems about the gateway and the samples taken through it, for every    *)
(* number of slots, callers, workers and containers.                         *)
EXTENDS Sampling, FiniteSetTheorems, WellFoundedInduction, TLAPS

-----------------------------------------------------------------------------
(* The slots of the gateway. *)

\* Live is finite, whatever the calls have come to.
LEMMA LiveIsFinite == IsFiniteSet(Live) /\ Cardinality(Live) \in Nat /\ Cardinality(Live) <= Cardinality(Callers)
<1>1. Live \in SUBSET Callers
  BY DEF Live
<1>2. QED
  BY <1>1, FS_Subset, FS_CardinalityType, GatewayAssumption

\* A call that goes on adds its caller to the live ones, one that does not takes
\* it away.
LEMMA LiveGrows ==
  ASSUME GatewayTypeOK, NEW c \in Callers, NEW v \in UnderWay, call' = [call EXCEPT ![c] = v]
  PROVE  Cardinality(Live') = IF c \in Live THEN Cardinality(Live) ELSE Cardinality(Live) + 1
<1>1. Live' = Live \cup {c}
  BY DEF Live, GatewayTypeOK
<1>2. QED
  BY <1>1, LiveIsFinite, FS_AddElement

LEMMA LiveShrinks ==
  ASSUME GatewayTypeOK, NEW c \in Callers, NEW v, v \notin UnderWay, call' = [call EXCEPT ![c] = v]
  PROVE  Cardinality(Live') = IF c \in Live THEN Cardinality(Live) - 1 ELSE Cardinality(Live)
<1>1. Live' = Live \ {c}
  BY DEF Live, GatewayTypeOK
<1>2. QED
  BY <1>1, LiveIsFinite, FS_RemoveElement

\* Each variable of the gateway keeps its type.
LEMMA GatewayTypeStep == GatewayTypeOK /\ GatewayNext => GatewayTypeOK'
<1> SUFFICES ASSUME GatewayTypeOK, GatewayNext PROVE GatewayTypeOK'
  OBVIOUS
<1> USE DEF GatewayTypeOK, UnderWay, Replies
<1>1. CASE \E c \in Callers : Connect(c)
  BY <1>1 DEF Connect, Admit, Refuse, NeverStarts
<1>2. CASE \E c \in Callers : Answers(c) \/ Takes(c)
  BY <1>2 DEF Answers, Takes
<1>3. CASE \E c \in Callers : Unanswered(c) \/ Copied(c) \/ CutOff(c)
  BY <1>3 DEF Unanswered, Copied, CutOff, Disconnect
<1>4. CASE \E c \in Callers : GivesUp(c)
  BY <1>4 DEF GivesUp
<1>5. CASE Notices \/ Release
  BY <1>5 DEF Notices, Release
<1>6. QED
  BY <1>1, <1>2, <1>3, <1>4, <1>5 DEF GatewayNext

\* A step of the gateway takes no slot without a holder and leaves no holder
\* without its slot.
LEMMA AccountedStep ==
  ASSUME GatewayTypeOK, SlotsAccounted, GatewayNext
  PROVE  SlotsAccounted'
<1>0. /\ Cardinality(Live) \in Nat /\ Slots \in Nat
      /\ slots \in Nat /\ left \in Nat /\ ending \in Nat /\ lost \in Nat
  BY LiveIsFinite, GatewayAssumption DEF GatewayTypeOK
<1>v. /\ "none" \notin UnderWay /\ "error" \notin UnderWay
      /\ "asking" \in UnderWay /\ "copying" \in UnderWay /\ Replies \cap UnderWay = {}
  BY DEF UnderWay, Replies
<1>1. ASSUME NEW c \in Callers, Connect(c) PROVE SlotsAccounted'
  <2>1. c \notin Live
    BY <1>1, <1>v DEF Connect, Admit, Refuse, NeverStarts, Live
  <2>2. CASE Admit(c)
    <3>1. Cardinality(Live') = Cardinality(Live) + 1
      BY <2>1, <2>2, <1>v, LiveGrows DEF Admit
    <3>2. QED
      BY <2>2, <3>1, <1>0 DEF Admit, SlotsAccounted
  <2>3. CASE Refuse(c) \/ NeverStarts(c)
    <3>1. Cardinality(Live') = Cardinality(Live)
      BY <2>1, <2>3, <1>v, LiveShrinks DEF Refuse, NeverStarts
    <3>2. QED
      BY <2>3, <3>1, <1>0 DEF Refuse, NeverStarts, SlotsAccounted
  <2>4. QED
    BY <1>1, <2>2, <2>3 DEF Connect
<1>2. ASSUME NEW c \in Callers, Answers(c) PROVE SlotsAccounted'
  <2>1. c \in Live
    BY <1>2, <1>v DEF Answers, Live
  <2>2. Cardinality(Live') = Cardinality(Live)
    BY <2>1, <1>2, <1>v, LiveGrows DEF Answers
  <2>3. QED
    BY <1>2, <2>2, <1>0 DEF Answers, SlotsAccounted
<1>3. ASSUME NEW c \in Callers, Takes(c) PROVE SlotsAccounted'
  <2>1. c \notin Live
    BY <1>3, <1>v DEF Takes, Live
  <2>2. Cardinality(Live') = Cardinality(Live)
    BY <2>1, <1>3, <1>v, LiveShrinks DEF Takes
  <2>3. QED
    BY <1>3, <2>2, <1>0 DEF Takes, SlotsAccounted
<1>4. ASSUME NEW c \in Callers, NEW reply \in Replies, c \in Live, Disconnect(c, reply)
      PROVE  SlotsAccounted'
  <2>1. reply \notin UnderWay
    BY <1>v
  <2>2. Cardinality(Live') = Cardinality(Live) - 1
    BY <1>4, <2>1, LiveShrinks DEF Disconnect
  <2>3. QED
    BY <1>4, <2>2, <1>0 DEF Disconnect, SlotsAccounted
<1>5. ASSUME NEW c \in Callers, GivesUp(c) PROVE SlotsAccounted'
  <2>1. c \in Live
    BY <1>5 DEF GivesUp, Live
  <2>2. Cardinality(Live') = Cardinality(Live) - 1
    BY <1>5, <2>1, <1>v, LiveShrinks DEF GivesUp
  <2>3. QED
    BY <1>5, <2>2, <1>0 DEF GivesUp, SlotsAccounted
<1>6. CASE Notices \/ Release
  <2>1. Live' = Live
    BY <1>6 DEF Live, Notices, Release
  <2>2. QED
    BY <1>6, <2>1, <1>0 DEF Notices, Release, SlotsAccounted
<1>7. ASSUME NEW c \in Callers, Unanswered(c) \/ Copied(c) \/ CutOff(c) PROVE SlotsAccounted'
  <2>1. c \in Live
    BY <1>7, <1>v DEF Unanswered, Copied, CutOff, Live
  <2>2. \E reply \in Replies : Disconnect(c, reply)
    BY <1>7 DEF Unanswered, Copied, CutOff, Replies
  <2>3. QED
    BY <1>4, <2>1, <2>2
<1>8. QED
  BY <1>1, <1>2, <1>3, <1>5, <1>6, <1>7 DEF GatewayNext

\* The inductive invariant of the gateway.
GatewayInv == GatewayTypeOK /\ SlotsAccounted

LEMMA GatewayInvInit == GatewayInit => GatewayInv
<1> SUFFICES ASSUME GatewayInit PROVE GatewayInv
  OBVIOUS
<1>1. Live = {}
  BY DEF GatewayInit, Live, UnderWay
<1>2. Cardinality(Live) = 0
  BY <1>1, FS_EmptySet
<1>3. QED
  BY <1>2, GatewayAssumption DEF GatewayInit, GatewayInv, GatewayTypeOK, SlotsAccounted

LEMMA GatewayInvStep == GatewayInv /\ [GatewayNext]_gatewayVars => GatewayInv'
<1> SUFFICES ASSUME GatewayInv, [GatewayNext]_gatewayVars PROVE GatewayInv'
  OBVIOUS
<1>1. CASE GatewayNext
  BY <1>1, GatewayTypeStep, AccountedStep DEF GatewayInv
<1>2. CASE UNCHANGED gatewayVars
  BY <1>2 DEF gatewayVars, GatewayInv, GatewayTypeOK, SlotsAccounted, Live
<1>3. QED
  BY <1>1, <1>2

\* Every slot that is not free is held exactly once, however many callers and
\* slots there are (proxy.py, process_request_thread releases in finally).
THEOREM SlotsAreAccounted == GatewaySpec => []SlotsAccounted
<1>1. GatewaySpec => []GatewayInv
  BY GatewayInvInit, GatewayInvStep, PTL DEF GatewaySpec
<1>2. QED
  BY <1>1, PTL DEF GatewayInv

\* A refusal takes handlers without callers, ended calls or lost slots, as many
\* as there are slots beyond the callers, and one more.
LEMMA RefusalStep ==
  ASSUME GatewayInv, NEW c \in Callers, Refuse(c)
  PROVE  left + ending + lost > Slots - Cardinality(Callers)
<1>1. Live \subseteq Callers \ {c}
  BY DEF Refuse, Live, UnderWay
<1>2. /\ IsFiniteSet(Callers \ {c}) /\ Cardinality(Callers \ {c}) = Cardinality(Callers) - 1
      /\ Cardinality(Callers) \in Nat
  BY GatewayAssumption, FS_RemoveElement, FS_CardinalityType
<1>3. Cardinality(Live) <= Cardinality(Callers) - 1
  BY <1>1, <1>2, FS_Subset
<1>4. QED
  BY <1>2, <1>3, LiveIsFinite, GatewayAssumption
  DEF GatewayInv, GatewayTypeOK, SlotsAccounted, Refuse

\* The other callers alone never cause a refusal while slots outnumber callers
\* (proxy.py, Server: 8 slots for 6 callers).
THEOREM RefusalsAreCaused == GatewaySpec => RefusalsHaveACause
<1>1. GatewaySpec => []GatewayInv
  BY GatewayInvInit, GatewayInvStep, PTL DEF GatewaySpec
<1>2. GatewayInv => [\A c \in Callers : Refuse(c) =>
                       left + ending + lost > Slots - Cardinality(Callers)]_gatewayVars
  BY RefusalStep
<1>3. QED
  BY <1>1, <1>2, PTL DEF RefusalsHaveACause

-----------------------------------------------------------------------------
(* The samples. *)

\* A sample makes its calls one after the other, each as the gateway allows.
LEMMA SamplingStep == [Next]_vars => [GatewayNext]_gatewayVars
<1> SUFFICES ASSUME [Next]_vars PROVE [GatewayNext]_gatewayVars
  OBVIOUS
<1>c. Main \in Callers /\ Workers \subseteq Callers
  BY SamplingAssumption
<1>1. CASE MainStep
  BY <1>1, <1>c DEF MainStep, Begin, Listed, NotListed, Reads, Raises, Fails, Ends, GatewayNext
<1>2. CASE \E w \in Workers : WorkerStep(w)
  BY <1>2, <1>c DEF WorkerStep, Inspects, InspectFails, FoundExited, FoundRunning,
       AsksStats, GetsStats, GatewayNext
<1>3. CASE \E c \in Callers : Calls(c)
  BY <1>3 DEF Calls, GatewayNext
<1>4. CASE Handlers
  BY <1>4 DEF Handlers, GatewayNext
<1>5. CASE UNCHANGED vars
  BY <1>5 DEF vars
<1>6. QED
  BY <1>1, <1>2, <1>3, <1>4, <1>5 DEF Next

\* The collector uses the gateway as the gateway allows, so that what is proved of
\* the gateway holds while samples are taken (docker.py, get; collector.py, sample).
THEOREM SamplingImplementsGateway == Spec => ImplementsGateway
<1>1. Init => GatewayInit
  BY DEF Init
<1>2. QED
  BY <1>1, SamplingStep, PTL DEF Spec, ImplementsGateway, GatewaySpec

\* The least element of a finite set of naturals is one of its elements.
LEMMA FirstIs ==
  ASSUME NEW S, IsFiniteSet(S), S \subseteq Nat, S # {}
  PROVE  First(S) \in S
<1> DEFINE UpTo(n) == {m \in S : m <= n}
           T == {UpTo(n) : n \in S}
<1>1. IsWellFoundedOn(StrictSubsetOrdering(S), SUBSET S)
  <2>1. IsWellFoundedOn(StrictSubsetOrdering(S), FiniteSubsetsOf(S))
    BY FS_StrictSubsetOrderingWellFounded
  <2>2. QED
    BY <2>1, FS_FiniteSubsetsOfFinite
<1>2. PICK x \in T : \A y \in T : ~ (<<y, x>> \in StrictSubsetOrdering(S))
  <2>1. T \subseteq SUBSET S /\ T # {}
    OBVIOUS
  <2> HIDE DEF T
  <2>2. QED
    BY <1>1, <2>1, WFMin
<1>3. PICK n \in S : x = UpTo(n)
  BY <1>2
<1>4. \A m \in S : n <= m
  <2> SUFFICES ASSUME NEW m \in S, m < n PROVE FALSE
    OBVIOUS
  <2>1. m \in Nat /\ n \in Nat
    OBVIOUS
  <2>2. n \in UpTo(n) /\ n \notin UpTo(m)
    BY <2>1
  <2>3. \A k \in Nat : k <= m => k <= n
    BY <2>1
  <2>4. UpTo(m) \subseteq UpTo(n)
    BY <2>3
  <2>5. <<UpTo(m), UpTo(n)>> \in StrictSubsetOrdering(S)
    BY <2>2, <2>4 DEF StrictSubsetOrdering
  <2>6. QED
    BY <1>2, <1>3, <2>5
<1>5. QED
  BY <1>4 DEF First

\* A worker works on a container that nobody else has and whose result nobody has
\* read; outside of a sample there is nothing to do.
WorkOK ==
  /\ \A w \in Workers : work[w] # Idle =>
       work[w].item \in unread \ unasked /\ result[work[w].item] = NoResult
  /\ \A v, w \in Workers : work[v] # Idle /\ work[v].item = work[w].item => v = w
  /\ \A i \in unasked : result[i] = NoResult
  /\ phase \notin {"sampling", "failing"} => unread = {}
  /\ phase = "failing" => unasked = {}
  /\ phase = "listing" => items = {} /\ ~refused /\ \A i \in Containers : result[i] = NoResult

Good(r) == r.state \in States /\ (r.state = "running" => r.stats)

\* A sample that is ok so far has only good results and no refused record.
OkSoFar == ok => ~limited /\ ~refused /\ \A i \in items \ unread : Good(result[i])

\* What last_states holds was offered, and every state that was read is held.
ToldSoFar ==
  /\ last = offered
  /\ \A i \in items \ unread : result[i].state \in States =>
       last[i].state = result[i].state /\ last[i].age < Repeat

SampleInv == TypeOK /\ WorkOK /\ OkSoFar /\ ToldSoFar

LEMMA SampleInvInit == Init => SampleInv
<1> SUFFICES ASSUME Init PROVE SampleInv
  OBVIOUS
<1>1. GatewayTypeOK
  BY GatewayInvInit DEF Init, GatewayInv
<1>2. None \in Told
  BY SamplingAssumption DEF None, Told
<1>3. TypeOK
  BY <1>1, <1>2 DEF Init, TypeOK, Idle, NoResult
<1>4. QED
  BY <1>3 DEF Init, SampleInv, WorkOK, OkSoFar, ToldSoFar, Idle

\* The container that is next to be taken or read is one of those left.
LEMMA FirstOfItems == ASSUME TypeOK, NEW S \in SUBSET items, S # {} PROVE First(S) \in S
<1>1. S \subseteq Containers /\ Containers \subseteq Nat
  BY SamplingAssumption DEF TypeOK
<1>2. IsFiniteSet(S)
  BY <1>1, SamplingAssumption, FS_Subset
<1>3. QED
  BY <1>1, <1>2, FirstIs

LEMMA BeginStep == ASSUME SampleInv, GatewayTypeOK', Begin PROVE SampleInv'
<1> USE DEF SampleInv
<1>1. \A f \in [Containers -> Told] : Age(f) \in [Containers -> Told]
  <2>1. \A a \in 0 .. Repeat : Older(a) \in 0 .. Repeat
    BY SamplingAssumption DEF Older
  <2>2. QED
    BY <2>1 DEF Age, Told
<1>2. unread = {} /\ unasked = {}
  BY DEF Begin, TypeOK, WorkOK
<1>3. TypeOK'
  <2>1. last' \in [Containers -> Told] /\ offered' \in [Containers -> Told]
    BY <1>1 DEF Begin, TypeOK
  <2>2. result' \in [Containers -> {NoResult, InspectError} \cup Found]
    BY DEF Begin
  <2>3. QED
    BY <1>2, <2>1, <2>2 DEF Begin, TypeOK
<1>4. WorkOK'
  BY <1>2 DEF Begin, WorkOK
<1>5. OkSoFar' /\ ToldSoFar'
  BY <1>2 DEF Begin, OkSoFar, ToldSoFar
<1>6. QED
  BY <1>3, <1>4, <1>5

LEMMA ListStep == ASSUME SampleInv, GatewayTypeOK', Listed \/ NotListed PROVE SampleInv'
<1> USE DEF SampleInv
<1>1. CASE Listed
  <2>1. unread = {} /\ unasked = {} /\ ~refused /\ \A w \in Workers : work[w] = Idle
    BY <1>1 DEF Listed, TypeOK, WorkOK
  <2>2. TypeOK'
    BY <1>1 DEF Listed, TypeOK
  <2>3. \A i \in Containers : result[i] = NoResult
    BY <1>1 DEF Listed, WorkOK
  <2>4. WorkOK'
    BY <1>1, <2>1, <2>3 DEF Listed, WorkOK, TypeOK
  <2>5. items' = unread' /\ ok' = ~limited' /\ UNCHANGED <<refused, last, offered>>
    BY <1>1 DEF Listed
  <2>6. OkSoFar' /\ ToldSoFar'
    BY <2>1, <2>5 DEF OkSoFar, ToldSoFar
  <2>7. QED
    BY <2>2, <2>4, <2>6
<1>2. CASE NotListed
  BY <1>2 DEF NotListed, TypeOK, WorkOK, OkSoFar, ToldSoFar
<1>3. QED
  BY <1>1, <1>2

LEMMA ReadStep == ASSUME SampleInv, GatewayTypeOK', Reads PROVE SampleInv'
<1> DEFINE i == First(unread)
           r == result[i]
           told == [state |-> r.state, age |-> 0]
<1> USE DEF SampleInv
<1>1. i \in unread /\ i \in items /\ i \in Containers
  BY FirstOfItems DEF Reads, TypeOK
<1>2. /\ r # NoResult /\ unread' = unread \ {i} /\ phase = "sampling"
      /\ UNCHANGED <<gatewayVars, phase, items, limited, unasked, work, result>>
  BY DEF Reads
<1>3. i \notin unasked /\ \A w \in Workers : work[w] # Idle => work[w].item # i
  BY <1>2 DEF WorkOK
<1>4. r = InspectError \/ r \in Found
  BY <1>1, <1>2 DEF TypeOK
<1>5. /\ \/ UNCHANGED last /\ (r # InspectError => last[i].state = r.state /\ last[i].age < Repeat)
         \/ r # InspectError /\ last' = [last EXCEPT ![i] = told]
      /\ last' = offered'
  BY DEF Reads, Skips, Recent, Remembers, ToldSoFar
<1>6. /\ ok' \in BOOLEAN /\ refused' \in BOOLEAN
      /\ ok' => ok /\ ~refused' /\ Good(r)
  <2>1. CASE r = InspectError /\ \E accepted \in BOOLEAN : Appends(accepted, TRUE)
    BY <2>1 DEF Appends, TypeOK
  <2>2. CASE r # InspectError /\ r.state = "running" /\ ~r.stats /\ \E accepted \in BOOLEAN : Appends(accepted, TRUE)
    BY <2>2 DEF Appends, TypeOK
  <2>3. CASE /\ r # InspectError /\ ~(r.state = "running" /\ ~r.stats)
             /\ UNCHANGED <<ok, refused>> \/ \E accepted \in BOOLEAN : Appends(accepted, FALSE)
    <3>1. Good(r)
      BY <1>4, <2>3 DEF Good, Found
    <3>2. ok' => ok /\ ~refused'
      BY <2>3 DEF Appends, OkSoFar
    <3>3. ok' \in BOOLEAN /\ refused' \in BOOLEAN
      BY <2>3 DEF Appends, TypeOK
    <3>4. QED
      BY <3>1, <3>2, <3>3
  <2>4. QED
    BY <2>1, <2>2, <2>3 DEF Reads
<1>7. TypeOK'
  <2>1. told \in Told \/ r = InspectError
    BY <1>4, SamplingAssumption DEF Told, Found
  <2>2. last' \in [Containers -> Told]
    BY <1>5, <2>1 DEF TypeOK
  <2>3. QED
    BY <1>1, <1>2, <1>3, <1>5, <1>6, <2>2 DEF TypeOK
<1>8. WorkOK'
  BY <1>2, <1>3 DEF WorkOK
<1>9. OkSoFar'
  BY <1>2, <1>6 DEF OkSoFar
<1>10. ToldSoFar'
  <2>1. ASSUME NEW j \in items' \ unread', result'[j].state \in States
        PROVE  last'[j].state = result'[j].state /\ last'[j].age < Repeat
    <3>1. CASE j = i
      <4>1. r # InspectError
        BY <1>2, <2>1, <3>1 DEF InspectError, States
      <4>2. last'[i].state = r.state /\ last'[i].age < Repeat
        BY <1>1, <1>5, <4>1, SamplingAssumption DEF TypeOK
      <4>3. QED
        BY <1>2, <3>1, <4>2
    <3>2. CASE j # i
      BY <1>1, <1>2, <1>5, <2>1, <3>2 DEF ToldSoFar, TypeOK
    <3>3. QED
      BY <3>1, <3>2
  <2>2. QED
    BY <1>5, <2>1 DEF ToldSoFar
<1>11. QED
  BY <1>7, <1>8, <1>9, <1>10

LEMMA RaiseStep == ASSUME SampleInv, GatewayTypeOK', Raises PROVE SampleInv'
<1> DEFINE i == First(unread)
           told == [state |-> result[i].state, age |-> 0]
<1> USE DEF SampleInv
<1>1. /\ phase' = "failing" /\ phase = "sampling" /\ ok' = FALSE /\ unasked' = {}
      /\ UNCHANGED <<items, limited, work, result, unread, refused>>
  BY DEF Raises
<1>2. \/ UNCHANGED <<last, offered>>
      \/ unread = {} /\ last' = Prunes(last) /\ offered' = Prunes(offered)
      \/ /\ unread # {} /\ result[i] \in Found
         /\ last' = [last EXCEPT ![i] = told] /\ offered' = [offered EXCEPT ![i] = told]
  BY DEF Raises, Remembers
<1>3. unread # {} => i \in unread /\ i \in Containers
  BY FirstOfItems DEF TypeOK
<1>4. last' \in [Containers -> Told] /\ offered' \in [Containers -> Told]
  <2>1. result[i] \in Found => told \in Told
    BY SamplingAssumption DEF Told, Found
  <2>2. None \in Told
    BY SamplingAssumption DEF None, Told
  <2>3. QED
    BY <1>2, <2>1, <2>2 DEF Prunes, TypeOK
<1>5. TypeOK'
  BY <1>1, <1>4 DEF TypeOK
<1>6. WorkOK'
  BY <1>1 DEF WorkOK
<1>7. OkSoFar'
  BY <1>1 DEF OkSoFar
<1>8. ToldSoFar'
  <2>1. last' = offered'
    BY <1>2 DEF Prunes, ToldSoFar
  <2>2. \A j \in items \ unread : last'[j] = last[j]
    BY <1>2, <1>3 DEF Prunes, TypeOK
  <2>3. QED
    BY <1>1, <2>1, <2>2 DEF ToldSoFar
<1>9. QED
  BY <1>5, <1>6, <1>7, <1>8

LEMMA FailStep == ASSUME SampleInv, GatewayTypeOK', Fails PROVE SampleInv'
<1> USE DEF SampleInv
<1>1. TypeOK'
  <2>1. unasked = {}
    BY DEF Fails, WorkOK
  <2>2. QED
    BY <2>1 DEF Fails, TypeOK
<1>2. WorkOK' /\ OkSoFar' /\ ToldSoFar'
  BY DEF Fails, WorkOK, OkSoFar, ToldSoFar
<1>3. QED
  BY <1>1, <1>2

LEMMA EndStep == ASSUME SampleInv, GatewayTypeOK', Ends PROVE SampleInv'
<1> USE DEF SampleInv
<1>1. UNCHANGED <<items, limited, unasked, work, result, unread>> /\ unread = {} /\ phase' = "waiting"
  BY DEF Ends
<1>2. last' = Prunes(last) /\ offered' = Prunes(offered)
  BY DEF Ends
<1>3. last' \in [Containers -> Told] /\ offered' \in [Containers -> Told]
  <2>1. None \in Told
    BY SamplingAssumption DEF None, Told
  <2>2. QED
    BY <1>2, <2>1 DEF Prunes, TypeOK
<1>4. ok' \in BOOLEAN /\ refused' \in BOOLEAN /\ (ok' => ok /\ ~refused')
  <2>1. CASE UNCHANGED <<ok, refused>>
    BY <2>1 DEF TypeOK, OkSoFar
  <2>2. CASE \E accepted \in BOOLEAN : Appends(accepted, FALSE)
    BY <2>2 DEF Appends, TypeOK, OkSoFar
  <2>3. QED
    BY <2>1, <2>2 DEF Ends
<1>5. TypeOK'
  BY <1>1, <1>3, <1>4 DEF TypeOK
<1>6. WorkOK'
  BY <1>1 DEF WorkOK
<1>7. OkSoFar'
  BY <1>1, <1>4 DEF OkSoFar
<1>8. ToldSoFar'
  BY <1>1, <1>2 DEF ToldSoFar, Prunes, TypeOK
<1>9. QED
  BY <1>5, <1>6, <1>7, <1>8

LEMMA InspectStep ==
  ASSUME SampleInv, GatewayTypeOK', NEW w \in Workers, Inspects(w)
  PROVE  SampleInv'
<1> DEFINE i == First(unasked)
<1> USE DEF SampleInv
<1>1. i \in unasked /\ i \in unread /\ i \in Containers /\ result[i] = NoResult
  BY FirstOfItems DEF Inspects, TypeOK, WorkOK
<1>2. /\ work' = [work EXCEPT ![w] = [item |-> i, source |-> "inspect"]]
      /\ work[w] = Idle /\ unasked' = unasked \ {i}
      /\ UNCHANGED <<phase, items, limited, result, unread, ok, last, offered, refused>>
  BY DEF Inspects, Taken
<1>3. \A v \in Workers : work[v] # Idle => work[v].item # i
  BY <1>1 DEF WorkOK
<1>4. TypeOK'
  BY <1>1, <1>2 DEF TypeOK
<1>5. WorkOK'
  <2>1. ASSUME NEW v \in Workers, work'[v] # Idle
        PROVE  work'[v].item \in unread' \ unasked' /\ result'[work'[v].item] = NoResult
    BY <1>1, <1>2, <2>1 DEF WorkOK, TypeOK
  <2>2. ASSUME NEW u \in Workers, NEW v \in Workers, work'[u] # Idle, work'[u].item = work'[v].item
        PROVE  u = v
    <3>1. i # 0
      BY <1>1, SamplingAssumption
    <3>2. \A x \in Workers : x # w => work'[x] = work[x]
      BY <1>2 DEF TypeOK
    <3>3. work'[w].item = i
      BY <1>2 DEF TypeOK
    <3>4. \A x \in Workers : x # w => work[x].item # i
      BY <1>3, <3>1 DEF Idle
    <3>5. QED
      BY <2>2, <3>2, <3>3, <3>4 DEF WorkOK
  <2>3. QED
    BY <1>1, <1>2, <2>1, <2>2 DEF WorkOK
<1>6. OkSoFar' /\ ToldSoFar'
  BY <1>2 DEF OkSoFar, ToldSoFar
<1>7. QED
  BY <1>4, <1>5, <1>6

\* A result that a worker leaves is that of a container that was not read yet.
LEMMA FinishStep ==
  ASSUME SampleInv, GatewayTypeOK', NEW w \in Workers, work[w] # Idle,
         NEW r \in {InspectError} \cup Found, Finishes(w, r)
  PROVE  SampleInv'
<1> DEFINE i == work[w].item
<1> USE DEF SampleInv
<1>1. i \in unread /\ i \notin unasked /\ i \in Containers
  BY DEF WorkOK, TypeOK
<1>2. /\ work' = [work EXCEPT ![w] = Idle] /\ result' = [result EXCEPT ![i] = r]
      /\ UNCHANGED <<phase, items, limited, unasked, unread, ok, last, offered, refused>>
  BY DEF Finishes
<1>3. \A v \in Workers : v # w /\ work[v] # Idle => work[v].item # i
  BY DEF WorkOK
<1>4. \A j \in Containers : j # i => result'[j] = result[j]
  BY <1>2 DEF TypeOK
<1>5. TypeOK'
  BY <1>1, <1>2 DEF TypeOK, Idle
<1>6. WorkOK'
  <2>1. phase \in {"sampling", "failing"}
    BY <1>1 DEF WorkOK, TypeOK
  <2>2. \A v \in Workers : work'[v] # Idle => v # w /\ work'[v] = work[v]
    BY <1>2 DEF TypeOK
  <2>3. \A v \in Workers : work[v] # Idle => work[v].item \in Containers
    BY DEF WorkOK, TypeOK
  <2>4. \A v \in Workers : work'[v] # Idle =>
          work'[v].item \in unread' \ unasked' /\ result'[work'[v].item] = NoResult
    BY <1>2, <1>3, <1>4, <2>2, <2>3 DEF WorkOK
  <2>5. ASSUME NEW u \in Workers, NEW v \in Workers, work'[u] # Idle, work'[u].item = work'[v].item
        PROVE  u = v
    <3>1. work'[u].item # 0
      BY <2>2, <2>3, <2>5, SamplingAssumption
    <3>2. work'[v] # Idle
      BY <2>5, <3>1 DEF Idle
    <3>3. QED
      BY <2>2, <2>5, <3>2 DEF WorkOK
  <2>6. \A j \in unasked' : result'[j] = NoResult
    BY <1>1, <1>2, <1>4 DEF WorkOK, TypeOK
  <2>7. QED
    BY <1>2, <2>1, <2>4, <2>5, <2>6 DEF WorkOK
<1>7. \A j \in items \ unread : result'[j] = result[j]
  BY <1>1, <1>4 DEF TypeOK
<1>8. OkSoFar' /\ ToldSoFar'
  BY <1>2, <1>7 DEF OkSoFar, ToldSoFar
<1>9. QED
  BY <1>5, <1>6, <1>8

LEMMA WorkerStepInv ==
  ASSUME SampleInv, GatewayTypeOK', NEW w \in Workers, WorkerStep(w)
  PROVE  SampleInv'
<1>1. work[w].source # "none" => work[w] # Idle
  BY DEF Idle
<1>2. CASE Inspects(w)
  BY <1>2, InspectStep
<1>3. CASE InspectFails(w) \/ FoundExited(w) \/ GetsStats(w)
  <2>1. work[w] # Idle
    BY <1>1, <1>3 DEF InspectFails, FoundExited, GetsStats
  <2>2. \E r \in {InspectError} \cup Found : Finishes(w, r)
    BY <1>3 DEF InspectFails, FoundExited, GetsStats, Found, States
  <2>3. QED
    BY <2>1, <2>2, FinishStep
<1>4. CASE FoundRunning(w)
  <2>1. /\ work' = [work EXCEPT ![w].source = "stats"] /\ work[w] # Idle
        /\ UNCHANGED <<phase, items, limited, unasked, result, unread, ok, last, offered, refused>>
    BY <1>1, <1>4 DEF FoundRunning
  <2>2. \A v \in Workers : work'[v].item = work[v].item /\ (work'[v] # Idle => work[v] # Idle)
    BY <2>1 DEF TypeOK, SampleInv, Idle
  <2>3. TypeOK'
    BY <2>1 DEF TypeOK, SampleInv
  <2>4. WorkOK' /\ OkSoFar' /\ ToldSoFar'
    BY <2>1, <2>2 DEF SampleInv, WorkOK, OkSoFar, ToldSoFar
  <2>5. QED
    BY <2>3, <2>4 DEF SampleInv
<1>5. CASE AsksStats(w)
  BY <1>5 DEF AsksStats, sampleVars, SampleInv, TypeOK, WorkOK, OkSoFar, ToldSoFar
<1>6. QED
  BY <1>2, <1>3, <1>4, <1>5 DEF WorkerStep

LEMMA SampleInvStep == SampleInv /\ [Next]_vars => SampleInv'
<1> SUFFICES ASSUME SampleInv, [Next]_vars PROVE SampleInv'
  OBVIOUS
<1>1. GatewayTypeOK'
  <2>1. CASE GatewayNext
    BY <2>1, GatewayTypeStep DEF SampleInv, TypeOK
  <2>2. CASE UNCHANGED gatewayVars
    BY <2>2 DEF gatewayVars, GatewayTypeOK, SampleInv, TypeOK
  <2>3. QED
    BY <2>1, <2>2, SamplingStep
<1>2. CASE MainStep
  BY <1>1, <1>2, BeginStep, ListStep, ReadStep, RaiseStep, FailStep, EndStep DEF MainStep
<1>3. CASE \E w \in Workers : WorkerStep(w)
  BY <1>1, <1>3, WorkerStepInv
<1>4. CASE (\E c \in Callers : Calls(c)) \/ Handlers \/ UNCHANGED vars
  <2>1. UNCHANGED sampleVars
    BY <1>4 DEF Calls, Handlers, vars
  <2>2. QED
    BY <1>1, <2>1 DEF sampleVars, SampleInv, TypeOK, WorkOK, OkSoFar, ToldSoFar
<1>5. QED
  BY <1>2, <1>3, <1>4 DEF Next

\* SampleInv holds throughout.
LEMMA AlwaysSampleInv == Spec => []SampleInv
  BY SampleInvInit, SampleInvStep, PTL DEF Spec

\* A sample that says it is ok is complete, for every number of workers and
\* containers and whatever Docker and the gateway do (collector.py, sample).
THEOREM SamplesAreComplete == Spec => []OkMeansComplete
<1>1. SampleInv => OkMeansComplete
  BY DEF SampleInv, WorkOK, OkSoFar, OkMeansComplete, Good
<1>2. QED
  BY <1>1, AlwaysSampleInv, PTL

\* Leaving out unchanged states hides no state of a container that was found
\* (collector.py, sample, last_states).
THEOREM StatesAreAlwaysTold == Spec => []StatesAreTold
<1>1. SampleInv => StatesAreTold
  BY DEF SampleInv, WorkOK, ToldSoFar, StatesAreTold
<1>2. QED
  BY <1>1, AlwaysSampleInv, PTL

\* Types, slots and refusals are as they should be while samples are taken
\* (proxy.py, Server; collector.py, sample).
THEOREM SamplesAreServed == Spec => []TypeOK /\ []SlotsAccounted /\ RefusalsHaveACause
<1>1. SampleInv => TypeOK
  BY DEF SampleInv
<1>2. Spec => GatewaySpec
  BY SamplingImplementsGateway DEF ImplementsGateway
<1>3. QED
  BY <1>1, <1>2, AlwaysSampleInv, SlotsAreAccounted, RefusalsAreCaused, PTL
=============================================================================
