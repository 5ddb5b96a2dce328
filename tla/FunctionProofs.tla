---------------------------- MODULE FunctionProofs ----------------------------
(***************************************************************************)
(* Proofs about the functions that keep no state, for every input.  The     *)
(* provers know no induction over an operator, so an induction is an        *)
(* argument about the least number at which something fails, a fold is a     *)
(* function of which the definition of the fold chooses one, and a           *)
(* sequence that a function builds is compared with one written down.        *)
(***************************************************************************)
EXTENDS Subjects, FiniteSetTheorems, SequenceTheorems, TLAPS

-----------------------------------------------------------------------------
(* Natural numbers. *)

\* The least element of a finite set of naturals is one of its elements.
LEMMA LeastIs ==
  ASSUME NEW S, IsFiniteSet(S), S \subseteq Nat, S # {}
  PROVE  \E n \in S : \A m \in S : n <= m
<1> DEFINE UpTo(n) == {m \in S : m <= n}
           T == {UpTo(n) : n \in S}
<1>1. IsWellFoundedOn(StrictSubsetOrdering(S), SUBSET S)
  <2>1. IsWellFoundedOn(StrictSubsetOrdering(S), FiniteSubsetsOf(S))
    BY FS_StrictSubsetOrderingWellFounded
  <2>2. QED
    BY <2>1, FS_FiniteSubsetsOfFinite
<1>2. PICK x \in T : \A y \in T : ~ (<<y, x>> \in StrictSubsetOrdering(S))
  <2>1. T \subseteq SUBSET S /\ T # {}
    OBVIOUS
  <2> HIDE DEF T
  <2>2. QED
    BY <1>1, <2>1, WFMin
<1>3. PICK n \in S : x = UpTo(n)
  BY <1>2
<1>4. \A m \in S : n <= m
  <2> SUFFICES ASSUME NEW m \in S, m < n PROVE FALSE
    OBVIOUS
  <2>1. m \in Nat /\ n \in Nat
    OBVIOUS
  <2>2. n \in UpTo(n) /\ n \notin UpTo(m)
    BY <2>1
  <2>3. \A k \in Nat : k <= m => k <= n
    BY <2>1
  <2>4. UpTo(m) \subseteq UpTo(n)
    BY <2>3
  <2>5. <<UpTo(m), UpTo(n)>> \in StrictSubsetOrdering(S)
    BY <2>2, <2>4 DEF StrictSubsetOrdering
  <2>6. QED
    BY <1>2, <1>3, <2>5
<1>5. QED
  BY <1>4

\* What holds of 0 and is passed on holds up to n.
LEMMA Upward ==
  ASSUME NEW S, NEW n \in Nat, 0 \in S, \A k \in 0 .. n - 1 : k \in S => k + 1 \in S
  PROVE  \A k \in 0 .. n : k \in S
<1> DEFINE T == (0 .. n) \ S
<1> SUFFICES ASSUME T # {} PROVE FALSE
  OBVIOUS
<1>1. IsFiniteSet(T) /\ T \subseteq Nat
  <2>1. IsFiniteSet(0 .. n)
    BY FS_Interval
  <2>2. QED
    BY <2>1, FS_Subset
<1>2. PICK k \in T : \A j \in T : k <= j
  <2> HIDE DEF T
  <2>1. QED
    BY <1>1, LeastIs
<1>3. k # 0 /\ k \in Nat /\ k <= n
  OBVIOUS
<1>4. k - 1 \in 0 .. n - 1 /\ k - 1 \in 0 .. n
  BY <1>3
<1>5. k - 1 \in S
  BY <1>2, <1>3, <1>4
<1>6. (k - 1) + 1 \in S
  BY <1>4, <1>5
<1>7. QED
  BY <1>3, <1>6

-----------------------------------------------------------------------------
(* command() *)

\* What is written grows.
LEMMA OutputGrows ==
  ASSUME NEW p \in Programs
  PROVE  \A t \in Times : \A s \in 0 .. t : p.wrote[s] <= p.wrote[t]
<1>1. p.wrote \in [Times -> 0 .. Limit + 1] /\ Limit \in Nat /\ LastTime \in Nat
  BY CommandAssumption DEF Programs, LastTime
<1>2. \A t \in Times \ {0} : p.wrote[t - 1] <= p.wrote[t]
  BY DEF Programs
<1> DEFINE S == {t \in Times : \A s \in 0 .. t : p.wrote[s] <= p.wrote[t]}
<1>3. 0 \in S
  BY <1>1 DEF Times
<1>4. ASSUME NEW k \in 0 .. LastTime - 1, k \in S PROVE k + 1 \in S
  <2>1. k + 1 \in Times \ {0} /\ k \in Times /\ (k + 1) - 1 = k
    BY <1>1 DEF Times
  <2>2. p.wrote[k] <= p.wrote[k + 1]
    BY <1>2, <2>1
  <2>3. ASSUME NEW s \in 0 .. k + 1 PROVE p.wrote[s] <= p.wrote[k + 1]
    <3>1. s = k + 1 \/ s \in 0 .. k
      BY <1>1, <2>1
    <3>2. s \in Times
      BY <1>1, <2>1, <3>1 DEF Times
    <3>3. p.wrote[s] \in Nat /\ p.wrote[k] \in Nat /\ p.wrote[k + 1] \in Nat
      BY <1>1, <2>1, <3>2
    <3>4. QED
      BY <1>4, <2>2, <3>1, <3>3
  <2>4. QED
    BY <2>1, <2>3
<1> HIDE DEF S
<1>5. \A k \in 0 .. LastTime : k \in S
  BY <1>1, <1>3, <1>4, Upward
<1>6. QED
  BY <1>5 DEF S, Times

\* The loop ends at the first of its reasons.
LEMMA LoopEnds ==
  ASSUME NEW p \in Programs
  PROVE  /\ LoopEnd(p) \in 0 .. Timeout
         /\ LoopEnd(p) = Timeout \/ p.eof = LoopEnd(p) \/ LimitReached(p, LoopEnd(p))
         /\ \A s \in 0 .. LoopEnd(p) - 1 : p.eof # s /\ ~LimitReached(p, s)
<1> DEFINE Q(t) == t = Timeout \/ p.eof = t \/ LimitReached(p, t)
           S == {t \in 0 .. Timeout : Q(t)}
<1>1. Timeout \in Nat
  BY CommandAssumption
<1>2. S \subseteq Nat /\ Timeout \in S
  BY <1>1
<1>3. IsFiniteSet(S)
  <2>1. IsFiniteSet(0 .. Timeout)
    BY <1>1, FS_Interval
  <2>2. QED
    BY <2>1, FS_Subset
<1>4. PICK t \in S : \A s \in S : t <= s
  <2> HIDE DEF S
  <2>1. QED
    BY <1>2, <1>3, LeastIs
<1>5. \A s \in 0 .. t - 1 : p.eof # s /\ ~LimitReached(p, s)
  <2> SUFFICES ASSUME NEW s \in 0 .. t - 1, ~(p.eof # s /\ ~LimitReached(p, s)) PROVE FALSE
    OBVIOUS
  <2>1. s \in S
    BY <1>1
  <2>2. t \in Nat
    BY <1>2
  <2>3. QED
    BY <1>4, <2>1, <2>2
<1>6. \E u \in 0 .. Timeout :
        /\ u = Timeout \/ p.eof = u \/ LimitReached(p, u)
        /\ \A s \in 0 .. u - 1 : p.eof # s /\ ~LimitReached(p, s)
  BY <1>5
<1> HIDE DEF S, Q
<1>7. QED
  BY <1>6 DEF LoopEnd

\* For any limit, timeout and program: with ok the program ended by itself with
\* status zero and the text is all that it or a descendant wrote; missing text is
\* never passed off as whole, and a failure has a reason; the text stays within
\* the limit and the call within its time, and nothing that holds the pipe
\* survives it (common.py, command, 133-177).
THEOREM CommandsTell ==
  ASSUME NEW p \in Programs
  PROVE  TellsAll(p) /\ IsBounded(p)
<1> DEFINE e == LoopEnd(p)
<1>1. /\ Timeout \in Nat \ {0} /\ Limit \in Nat \ {0} /\ MaxWait \in Nat \ {0} /\ LastTime = Timeout + MaxWait
  BY CommandAssumption DEF LastTime
<1>2. /\ p.wrote \in [Times -> 0 .. Limit + 1] /\ p.eof \in Nat /\ p.exit \in Nat /\ p.code \in {0, 1}
      /\ p.eof <= LastTime /\ p.wrote[p.eof] = Output(p)
  BY <1>1 DEF Programs, Times
<1>3. /\ e \in 0 .. Timeout
      /\ e = Timeout \/ p.eof = e \/ LimitReached(p, e)
      /\ \A s \in 0 .. e - 1 : p.eof # s /\ ~LimitReached(p, s)
  BY LoopEnds
<1> HIDE DEF e
<1>4. \A t \in Times : p.wrote[t] \in Nat
  BY <1>1, <1>2
<1>5. \A t \in Times : p.wrote[t] <= Output(p)
  <2>1. LastTime \in Times /\ \A t \in Times : t \in 0 .. LastTime
    BY <1>1 DEF Times
  <2>2. QED
    BY <2>1, OutputGrows DEF Output
<1>6. e \in Times /\ (e = Timeout => Timeout - 1 \in Times /\ Timeout - 1 \in 0 .. e - 1)
  BY <1>1, <1>3 DEF Times
<1>7. LoopTimedOut(p) <=> e = Timeout
  BY DEF LoopTimedOut, e
<1>8. Truncated(p) <=> e # Timeout /\ LimitReached(p, e)
  BY <1>7 DEF Truncated, e
<1>9. Text(p) = Least(Limit, p.wrote[IF e = Timeout THEN Timeout - 1 ELSE e])
  BY <1>7 DEF Text, e
<1>10. KilledAfterLoop(p) <=> e = Timeout \/ Truncated(p)
  BY <1>7 DEF KilledAfterLoop
<1>11. WaitEnd(p) = IF KilledAfterLoop(p) THEN e ELSE Least(Greatest(p.exit, e), Timeout)
  BY DEF WaitEnd, e
<1>12. WaitEnd(p) \in 0 .. Timeout
  BY <1>1, <1>2, <1>3, <1>11 DEF Least, Greatest
<1>13. Text(p) <= Limit /\ Text(p) \in Nat
  BY <1>1, <1>4, <1>6, <1>9 DEF Least
\* The pipe has ended when the loop was left for no other reason.
<1>14. ~KilledAfterLoop(p) => p.eof = e /\ Text(p) = Output(p)
  <2> SUFFICES ASSUME ~KilledAfterLoop(p) PROVE p.eof = e /\ Text(p) = Output(p)
    OBVIOUS
  <2>1. e # Timeout /\ ~LimitReached(p, e)
    BY <1>8, <1>10
  <2>2. p.eof = e
    BY <1>3, <2>1
  <2>3. p.wrote[e] = Output(p) /\ p.wrote[e] \in Nat
    BY <1>2, <1>4, <1>6, <2>2
  <2>4. p.wrote[e] < Limit
    BY <1>1, <2>1, <2>3 DEF LimitReached, Least
  <2>5. QED
    BY <1>1, <1>9, <2>1, <2>2, <2>3, <2>4 DEF Least
<1>15. KilledAfterLoop(p) => Truncated(p) \/ TimedOut(p)
  BY <1>7, <1>10 DEF TimedOut
<1>16. ASSUME Ok(p) PROVE p.exit <= WaitEnd(p) /\ p.code = 0 /\ Text(p) = Output(p)
  <2>1. Returncode(p) = 0 /\ ~Truncated(p) /\ ~TimedOut(p)
    BY <1>16 DEF Ok
  <2>2. ~KilledAfterLoop(p)
    BY <1>15, <2>1
  <2>3. p.exit <= WaitEnd(p) /\ p.code = 0
    BY <1>1, <1>2, <1>12, <2>1 DEF Returncode, Killed
  <2>4. QED
    BY <1>14, <2>2, <2>3
<1>17. Text(p) < Output(p) => Truncated(p) \/ TimedOut(p)
  <2>1. Output(p) \in Nat
    BY <1>1, <1>4 DEF Output, Times
  <2>2. Text(p) < Output(p) => Text(p) # Output(p)
    BY <1>13, <2>1
  <2>3. QED
    BY <1>14, <1>15, <2>2
<1>18. ~Ok(p) => Returncode(p) # 0 \/ Truncated(p) \/ TimedOut(p)
  BY DEF Ok
<1>19. p.eof <= WaitEnd(p) \/ KilledAfterLoop(p) \/ KilledAfterWait(p)
  <2> SUFFICES ASSUME ~KilledAfterLoop(p) PROVE p.eof <= WaitEnd(p)
    OBVIOUS
  <2>1. p.eof = e /\ WaitEnd(p) = Least(Greatest(p.exit, e), Timeout)
    BY <1>11, <1>14
  <2>2. QED
    BY <1>1, <1>2, <1>3, <2>1 DEF Least, Greatest
<1>20. QED
  BY <1>12, <1>13, <1>16, <1>17, <1>18, <1>19 DEF TellsAll, IsBounded

-----------------------------------------------------------------------------
(* Docker fields.  V is a set of JSON values that holds the values within them. *)

\* Every value within a value of V is in V.
IsJson(V) ==
  \A v \in V : \/ \E K : \E f \in [K -> V] : v = Dict(f)
               \/ \E s \in Seq(V) : v = List(s)
               \/ \E n \in Int : v = Num(n)
               \/ \E s : v = Str(s)

\* What a value was made of.
LEMMA FieldParts ==
  /\ \A f : Dict(f).dict = f /\ DOMAIN Dict(f) = {"dict"}
  /\ \A s : List(s).list = s /\ DOMAIN List(s) = {"list"}
  /\ \A n : Num(n).num = n /\ DOMAIN Num(n) = {"num"}
  /\ \A s : Str(s).str = s /\ DOMAIN Str(s) = {"str"}
  BY DEF Dict, List, Num, Str

\* What the value of V is made of is made of values of V.
LEMMA ListParts ==
  ASSUME NEW V, IsJson(V), NEW v \in V
  PROVE  /\ "list" \in DOMAIN v => v.list \in Seq(V) /\ v = List(v.list)
         /\ "dict" \in DOMAIN v => v.dict \in [DOMAIN v.dict -> V] /\ v = Dict(v.dict)
         /\ "num" \in DOMAIN v => v.num \in Int /\ v = Num(v.num)
<1>1. CASE \E K : \E f \in [K -> V] : v = Dict(f)
  <2>1. PICK K : \E f \in [K -> V] : v = Dict(f)
    BY <1>1
  <2>2. PICK f \in [K -> V] : v = Dict(f)
    BY <2>1
  <2>3. v.dict = f /\ DOMAIN v = {"dict"} /\ DOMAIN f = K
    BY <2>2, FieldParts
  <2>4. QED
    BY <2>2, <2>3
<1>2. CASE \E s \in Seq(V) : v = List(s)
  <2>1. PICK s \in Seq(V) : v = List(s)
    BY <1>2
  <2>2. v.list = s /\ DOMAIN v = {"list"}
    BY <2>1, FieldParts
  <2>3. QED
    BY <2>1, <2>2
<1>3. CASE \E n \in Int : v = Num(n)
  <2>1. PICK n \in Int : v = Num(n)
    BY <1>3
  <2>2. v.num = n /\ DOMAIN v = {"num"}
    BY <2>1, FieldParts
  <2>3. QED
    BY <2>1, <2>2
<1>4. CASE \E s : v = Str(s)
  <2>1. DOMAIN v = {"str"}
    BY <1>4, FieldParts
  <2>2. QED
    BY <2>1
<1>5. QED
  BY <1>1, <1>2, <1>3, <1>4 DEF IsJson

\* The pairs of an exec summary.
LEMMA ExecRestores ==
  ASSUME NEW V, IsJson(V), NEW v \in V, "list" \in DOMAIN v, PackExec(v) # v
  PROVE  IsDict(PackExec(v)) /\ UnpackExec(PackExec(v)) = v
<1> DEFINE s == v.list
           base == s[1].list[2].num
           act(i) == CHOOSE a \in 1 .. 3 : ExecActions[a] = s[i].list[1]
           pair(i) == List(<<Num(act(i)), Num(s[i].list[2].num - base)>>)
           pairs == [i \in DOMAIN s |-> pair(i)]
           d == [encoding |-> Str("exec-ns-delta-v1"), base |-> Num(base), pairs |-> List(pairs)]
<1>1. IsList(v, MaxPairs) /\ Len(v.list) >= Worth /\ \A i \in DOMAIN v.list : IsPair(v.list[i])
  BY DEF PackExec
<1>2. PackExec(v) = Dict(d)
  BY <1>1 DEF PackExec
<1>3. s \in Seq(V) /\ v = List(s) /\ Len(s) \in 1 .. MaxPairs /\ DOMAIN s = 1 .. Len(s) /\ 1 \in DOMAIN s
  <2>1. s \in Seq(V) /\ v = List(s)
    BY ListParts
  <2>2. Len(s) \in 1 .. MaxPairs
    BY <1>1 DEF IsList
  <2>3. QED
    BY <2>1, <2>2
<1>4. ASSUME NEW i \in DOMAIN s
      PROVE  /\ s[i].list \in Seq(V) /\ s[i] = List(s[i].list) /\ Len(s[i].list) = 2
             /\ \E a \in 1 .. 3 : ExecActions[a] = s[i].list[1]
             /\ s[i].list[2].num \in Int /\ s[i].list[2] = Num(s[i].list[2].num)
             /\ InRange(s[i].list[2].num)
  <2>1. s[i] \in V /\ IsPair(s[i])
    BY <1>1, <1>3
  <2>2. "list" \in DOMAIN s[i] /\ Len(s[i].list) = 2 /\ "num" \in DOMAIN s[i].list[2] /\ InRange(s[i].list[2].num)
        /\ s[i].list[1] \in {ExecActions[a] : a \in 1 .. 3}
    BY <2>1 DEF IsPair, IsList, IsNum
  <2>3. s[i].list \in Seq(V) /\ s[i] = List(s[i].list)
    BY <2>1, <2>2, ListParts
  <2>4. s[i].list[2] \in V
    BY <2>2, <2>3
  <2>5. s[i].list[2].num \in Int /\ s[i].list[2] = Num(s[i].list[2].num)
    BY <2>2, <2>4, ListParts
  <2>6. QED
    BY <2>2, <2>3, <2>5
<1>5. ASSUME NEW i \in DOMAIN s PROVE act(i) \in 1 .. 3 /\ ExecActions[act(i)] = s[i].list[1]
  BY <1>4
<1>6. base \in Int /\ InRange(base)
  BY <1>3, <1>4
<1> HIDE DEF act, base
<1>7. /\ DOMAIN d = {"encoding", "base", "pairs"} /\ d.encoding = Str("exec-ns-delta-v1") /\ d.base = Num(base)
      /\ d.pairs = List(pairs) /\ DOMAIN pairs = DOMAIN s /\ \A i \in DOMAIN s : pairs[i] = pair(i)
  OBVIOUS
<1>8. Len(pairs) = Len(s)
  <2>1. pairs = [i \in 1 .. Len(s) |-> pair(i)] /\ Len(s) \in Nat
    BY <1>3
  <2> HIDE DEF pair
  <2>2. QED
    BY <2>1
<1> HIDE DEF d, pairs
<1>9. ASSUME NEW i \in DOMAIN s
      PROVE  /\ DOMAIN pairs[i] = {"list"} /\ Len(pairs[i].list) = 2
             /\ pairs[i].list[1] = Num(act(i)) /\ pairs[i].list[2] = Num(s[i].list[2].num - base)
  <2>1. pairs[i] = pair(i)
    BY <1>7
  <2>2. pair(i).list = <<Num(act(i)), Num(s[i].list[2].num - base)>> /\ DOMAIN pair(i) = {"list"}
    BY FieldParts
  <2>3. QED
    BY <2>1, <2>2
<1>10. ASSUME NEW i \in DOMAIN s PROVE base + (s[i].list[2].num - base) = s[i].list[2].num
  BY <1>4, <1>6
<1>11. ASSUME NEW i \in DOMAIN s PROVE IsPackedPair(base, pairs[i])
  <2>1. IsList(pairs[i], 2) /\ Len(pairs[i].list) = 2
    BY <1>9 DEF IsList
  <2>2. IsNum(pairs[i].list[1]) /\ IsNum(pairs[i].list[2])
    BY <1>9, FieldParts DEF IsNum
  <2>3. pairs[i].list[1].num \in 1 .. 3
    BY <1>5, <1>9, FieldParts
  <2>4. TimeInRange(base, pairs[i].list[2])
    BY <1>4, <1>9, <1>10, FieldParts DEF TimeInRange
  <2>5. QED
    BY <2>1, <2>2, <2>3, <2>4 DEF IsPackedPair
<1>12. /\ HasKeys(Dict(d), {"encoding", "base", "pairs"}) /\ Dict(d).dict.encoding = Str("exec-ns-delta-v1")
       /\ IsNum(Dict(d).dict.base) /\ InRange(Dict(d).dict.base.num) /\ IsList(Dict(d).dict.pairs, MaxPairs)
       /\ Dict(d).dict.pairs.list = pairs /\ Dict(d).dict.base.num = base
  BY <1>3, <1>6, <1>7, <1>8, FieldParts DEF HasKeys, IsDict, IsNum, IsList
<1> DEFINE back(i) == List(<<ExecActions[pairs[i].list[1].num], Num(base + pairs[i].list[2].num)>>)
<1>13. UnpackExec(Dict(d)) = List([i \in DOMAIN pairs |-> back(i)])
  BY <1>7, <1>11, <1>12 DEF UnpackExec
<1>14. ASSUME NEW i \in DOMAIN s PROVE back(i) = s[i]
  <2>1. pairs[i].list[1].num = act(i) /\ pairs[i].list[2].num = s[i].list[2].num - base
    BY <1>9, FieldParts
  <2>2. Num(base + pairs[i].list[2].num) = s[i].list[2]
    BY <1>4, <1>10, <2>1
  <2>3. ExecActions[pairs[i].list[1].num] = s[i].list[1]
    BY <1>5, <2>1
  <2>4. s[i].list = <<s[i].list[1], s[i].list[2]>>
    <3>1. s[i].list \in Seq(V) /\ Len(s[i].list) = 2
      BY <1>4
    <3>2. QED
      BY <3>1
  <2>5. QED
    BY <1>4, <2>2, <2>3, <2>4
<1> HIDE DEF back
<1>15. [i \in DOMAIN pairs |-> back(i)] = s
  <2>1. s = [i \in DOMAIN s |-> s[i]]
    BY <1>3
  <2>2. [i \in DOMAIN pairs |-> back(i)] = [i \in DOMAIN s |-> s[i]]
    BY <1>7, <1>14, Zenon
  <2>3. QED
    BY <2>1, <2>2, Zenon
<1>16. QED
  BY <1>2, <1>3, <1>13, <1>15, FieldParts DEF IsDict

\* The I/O cells of a table.
LEMMA RowsRestore ==
  ASSUME NEW V, IsJson(V), NEW v \in V, PackRows(v) # v
  PROVE  IsDict(PackRows(v)) /\ UnpackIo(PackRows(v)) = v
<1> DEFINE s == v.list
           row(i) == List([k \in 1 .. 4 |-> s[i].dict[IoKeys[k]]])
           rows == [i \in DOMAIN s |-> row(i)]
           d == [encoding |-> Str("io-rows-v1"), rows |-> List(rows)]
<1>1. IsList(v, MaxIoRows) /\ \A i \in DOMAIN s : HasKeys(s[i], IoKeySet)
  BY DEF PackRows
<1>2. PackRows(v) = Dict(d)
  BY <1>1 DEF PackRows
<1>3. s \in Seq(V) /\ v = List(s) /\ Len(s) \in 1 .. MaxIoRows /\ DOMAIN s = 1 .. Len(s)
  <2>1. s \in Seq(V) /\ v = List(s) /\ Len(s) \in 1 .. MaxIoRows
    BY <1>1, ListParts DEF IsList
  <2>2. QED
    BY <2>1
<1>4. ASSUME NEW i \in DOMAIN s
      PROVE  s[i].dict \in [IoKeySet -> V] /\ s[i] = Dict(s[i].dict)
  <2>1. s[i] \in V /\ "dict" \in DOMAIN s[i] /\ DOMAIN s[i].dict = IoKeySet
    BY <1>1, <1>3 DEF HasKeys, IsDict
  <2>2. QED
    BY <2>1, ListParts
<1>5. /\ DOMAIN d = {"encoding", "rows"} /\ d.encoding = Str("io-rows-v1") /\ d.rows = List(rows)
      /\ DOMAIN rows = DOMAIN s /\ \A i \in DOMAIN s : rows[i] = row(i)
  OBVIOUS
<1>6. Len(rows) = Len(s)
  <2>1. rows = [i \in 1 .. Len(s) |-> row(i)] /\ Len(s) \in Nat
    BY <1>3
  <2> HIDE DEF row
  <2>2. QED
    BY <2>1
<1> HIDE DEF d, rows
<1>7. ASSUME NEW i \in DOMAIN s
      PROVE  /\ DOMAIN rows[i] = {"list"} /\ Len(rows[i].list) = 4
             /\ \A k \in 1 .. 4 : rows[i].list[k] = s[i].dict[IoKeys[k]]
  <2> DEFINE f == [k \in 1 .. 4 |-> s[i].dict[IoKeys[k]]]
  <2>1. rows[i].list = f /\ DOMAIN rows[i] = {"list"}
    BY <1>5, FieldParts
  <2>2. Len(f) = 4 /\ \A k \in 1 .. 4 : f[k] = s[i].dict[IoKeys[k]]
    OBVIOUS
  <2>3. QED
    BY <2>1, <2>2
<1>8. /\ ~HasKeys(Dict(d), {"literal"}) /\ HasKeys(Dict(d), {"encoding", "rows"})
      /\ Dict(d).dict.encoding = Str("io-rows-v1") /\ Dict(d).dict.rows = List(rows)
  BY <1>5, FieldParts DEF HasKeys, IsDict
<1>9. List(rows).list = rows /\ IsList(List(rows), MaxIoRows)
  BY <1>3, <1>6, FieldParts DEF IsList
<1> DEFINE back(i) == Dict([key \in IoKeySet |-> rows[i].list[CHOOSE k \in 1 .. 4 : IoKeys[k] = key]])
<1>10. UnpackIo(Dict(d)) = List([i \in DOMAIN rows |-> back(i)])
  BY <1>5, <1>7, <1>8, <1>9 DEF UnpackIo
<1>11. ASSUME NEW i \in DOMAIN s PROVE back(i) = s[i]
  <2> DEFINE f == [key \in IoKeySet |-> rows[i].list[CHOOSE k \in 1 .. 4 : IoKeys[k] = key]]
  <2>1. ASSUME NEW key \in IoKeySet PROVE f[key] = s[i].dict[key]
    <3>1. \E k \in 1 .. 4 : IoKeys[k] = key
      BY DEF IoKeySet
    <3>2. PICK k \in 1 .. 4 : k = (CHOOSE j \in 1 .. 4 : IoKeys[j] = key) /\ IoKeys[k] = key
      BY <3>1
    <3>3. QED
      BY <1>7, <3>2
  <2>2. f = s[i].dict
    <3>1. f = [key \in IoKeySet |-> f[key]] /\ s[i].dict = [key \in IoKeySet |-> s[i].dict[key]]
      BY <1>4
    <3> HIDE DEF f
    <3>2. [key \in IoKeySet |-> f[key]] = [key \in IoKeySet |-> s[i].dict[key]]
      BY <2>1, Zenon
    <3>3. QED
      BY <3>1, <3>2, Zenon
  <2>3. QED
    BY <1>4, <2>2
<1> HIDE DEF back
<1>12. [i \in DOMAIN rows |-> back(i)] = s
  <2>1. s = [i \in DOMAIN s |-> s[i]]
    BY <1>3
  <2>2. [i \in DOMAIN rows |-> back(i)] = [i \in DOMAIN s |-> s[i]]
    BY <1>5, <1>11, Zenon
  <2>3. QED
    BY <2>1, <2>2, Zenon
<1>13. QED
  BY <1>2, <1>3, <1>10, <1>12, FieldParts DEF IsDict

\* A cell of a table is read as it was, packed or literal.
LEMMA CellsRestore ==
  ASSUME NEW V, IsJson(V), NEW v \in V
  PROVE  (IF IsDict(PackIo(v)) THEN UnpackIo(PackIo(v)) ELSE PackIo(v)) = v
<1>1. CASE IsDict(v)
  <2> DEFINE d == [literal |-> v]
  <2>1. DOMAIN d = {"literal"} /\ d.literal = v /\ PackIo(v) = Dict(d)
    BY <1>1 DEF PackIo
  <2> HIDE DEF d
  <2>2. IsDict(Dict(d)) /\ HasKeys(Dict(d), {"literal"}) /\ Dict(d).dict.literal = v
    BY <2>1, FieldParts DEF HasKeys, IsDict
  <2>3. UnpackIo(Dict(d)) = v
    BY <1>1, <2>2 DEF UnpackIo
  <2>4. QED
    BY <2>1, <2>2, <2>3
<1>2. CASE ~IsDict(v)
  <2>1. PackIo(v) = PackRows(v)
    BY <1>2 DEF PackIo
  <2>2. QED
    BY <1>2, <2>1, RowsRestore
<1>3. QED
  BY <1>1, <1>2

\* A record is read as it was collected, whatever its fields look like.
THEOREM FieldsAreRestored ==
  ASSUME NEW V, IsJson(V), NEW K, NEW r,
         r.kind \in {"exec", "stats", "state"}, r.data \in [K -> V], r.kind = "exec" => "events" \in K
  PROVE  FieldsRestore(r)
<1>1. CASE ~(Eligible(r) /\ PackedData(r) # r.data)
  BY <1>1 DEF FieldsRestore, Exported, Imported
<1> SUFFICES ASSUME Eligible(r), PackedData(r) # r.data
             PROVE  FieldsRestore(r)
  BY <1>1
<1> DEFINE e == [kind |-> r.kind, data |-> PackedData(r), marked |-> TRUE]
<1>2. e.kind = r.kind /\ e.data = PackedData(r) /\ e.marked /\ Exported(r) = e
  BY DEF Exported
<1> HIDE DEF e
<1>3. SUFFICES UnpackedData(e) = r.data
  BY <1>2 DEF FieldsRestore, Imported
<1>4. CASE r.kind = "exec"
  <2> DEFINE v == r.data["events"]
  <2>1. v \in V /\ "list" \in DOMAIN v /\ e.data = [r.data EXCEPT !["events"] = PackExec(v)]
    BY <1>2, <1>4 DEF Eligible, PackedData
  <2>2. PackExec(v) # v
    BY <1>2, <1>4, <2>1
  <2>3. IsDict(PackExec(v)) /\ UnpackExec(PackExec(v)) = v
    BY <2>1, <2>2, ExecRestores
  <2>4. e.data["events"] = PackExec(v)
    BY <1>4, <2>1
  <2>5. UnpackedData(e) = [e.data EXCEPT !["events"] = v]
    BY <1>2, <1>4, <2>3, <2>4 DEF UnpackedData
  <2>6. QED
    BY <1>4, <2>1, <2>5
<1>5. CASE r.kind = "stats"
  <2>1. e.data = [c \in K |-> PackIo(r.data[c])]
    BY <1>2, <1>5 DEF PackedData
  <2>2. UnpackedData(e) = [c \in K |-> IF IsDict(e.data[c]) THEN UnpackIo(e.data[c]) ELSE e.data[c]]
    BY <1>2, <1>5, <2>1 DEF UnpackedData
  <2>3. ASSUME NEW c \in K PROVE (IF IsDict(e.data[c]) THEN UnpackIo(e.data[c]) ELSE e.data[c]) = r.data[c]
    <3>1. e.data[c] = PackIo(r.data[c]) /\ r.data[c] \in V
      BY <2>1
    <3>2. QED
      BY <3>1, CellsRestore
  <2>4. UnpackedData(e) = [c \in K |-> r.data[c]]
    BY <2>2, <2>3, Zenon
  <2>5. QED
    BY <2>4
<1>6. CASE r.kind = "state"
  <2> DEFINE keys == MetadataKeys \cap K
             m == [key \in keys |-> r.data[key]]
             D == (K \ keys) \cup {"_metadata"}
  <2>1. "_metadata" \notin K /\ DOMAIN r.data = K
    BY <1>6 DEF Eligible
  <2>2. ~(Cardinality(keys) < Worth) /\ keys # {}
    <3>1. ~(Cardinality(keys) < Worth)
      BY <1>6, <2>1 DEF PackedData
    <3>2. Worth \in Nat \ {0}
      BY FieldsAssumption
    <3>3. Cardinality({}) = 0
      BY FS_EmptySet
    <3>4. keys # {}
      BY <3>1, <3>2, <3>3
    <3>5. QED
      BY <3>1, <3>4
  <2>3. e.data = [key \in D |-> IF key = "_metadata" THEN Dict(m) ELSE r.data[key]]
    BY <1>2, <1>6, <2>1, <2>2 DEF PackedData
  <2>4. /\ DOMAIN e.data = D /\ e.data["_metadata"] = Dict(m) /\ Dict(m).dict = m /\ DOMAIN m = keys
        /\ \A key \in K \ keys : e.data[key] = r.data[key]
    BY <2>1, <2>3, FieldParts
  <2>5. IsDict(Dict(m))
    BY FieldParts DEF IsDict
  <2>6. keys \subseteq MetadataKeys \ D
    BY <2>1
  <2>7. UnpackedData(e) = [key \in (D \ {"_metadata"}) \cup keys |-> IF key \in keys THEN m[key] ELSE e.data[key]]
    <3> HIDE DEF m, D, keys
    <3>1. "_metadata" \in D
      BY DEF D
    <3>2. QED
      BY <1>2, <1>6, <2>2, <2>4, <2>5, <2>6, <3>1 DEF UnpackedData
  <2>8. (D \ {"_metadata"}) \cup keys = K
    BY <2>1
  <2>9. ASSUME NEW key \in K PROVE (IF key \in keys THEN m[key] ELSE e.data[key]) = r.data[key]
    BY <2>4
  <2>10. UnpackedData(e) = [key \in K |-> r.data[key]]
    <3> HIDE DEF m, D, keys
    <3>1. QED
      BY <2>7, <2>8, <2>9, Zenon
  <2>11. QED
    BY <2>10
<1>7. QED
  BY <1>4, <1>5, <1>6

\* Whatever form of exec pairs is accepted holds pairs of a known action and a
\* time within its width.
THEOREM ExecsAreInRange ==
  ASSUME NEW v
  PROVE  ExecStaysInRange(v)
<1> SUFFICES ASSUME UnpackExec(v) # RejectedField
             PROVE  \A i \in DOMAIN UnpackExec(v).list : IsPair(UnpackExec(v).list[i])
  BY DEF ExecStaysInRange
<1> DEFINE s == v.dict.pairs.list
           pair(i) == List(<<ExecActions[s[i].list[1].num], Num(v.dict.base.num + s[i].list[2].num)>>)
           t == [i \in DOMAIN s |-> pair(i)]
<1>1. \A i \in DOMAIN s : IsPackedPair(v.dict.base.num, s[i])
  BY DEF UnpackExec
<1>2. UnpackExec(v) = List(t)
  BY DEF UnpackExec
<1>3. DOMAIN t = DOMAIN s /\ \A i \in DOMAIN s : t[i] = pair(i)
  OBVIOUS
<1>4. ASSUME NEW i \in DOMAIN s PROVE IsPair(pair(i))
  <2> DEFINE p == <<ExecActions[s[i].list[1].num], Num(v.dict.base.num + s[i].list[2].num)>>
  <2>1. s[i].list[1].num \in 1 .. 3 /\ InRange(v.dict.base.num + s[i].list[2].num)
    BY <1>1 DEF IsPackedPair, TimeInRange
  <2>2. pair(i).list = p /\ DOMAIN pair(i) = {"list"}
    BY FieldParts
  <2>3. Len(p) = 2 /\ p[1] = ExecActions[s[i].list[1].num] /\ p[2] = Num(v.dict.base.num + s[i].list[2].num)
    OBVIOUS
  <2>5. p[1] \in {ExecActions[a] : a \in 1 .. 3}
    BY <2>1, <2>3
  <2> HIDE DEF p, pair
  <2>4. IsNum(p[2]) /\ InRange(p[2].num)
    <3>1. DOMAIN p[2] = {"num"} /\ p[2].num = v.dict.base.num + s[i].list[2].num
      BY <2>3, FieldParts
    <3>2. QED
      BY <2>1, <3>1 DEF IsNum
  <2>6. IsList(pair(i), 2) /\ Len(pair(i).list) = 2
    BY <2>2, <2>3 DEF IsList
  <2>7. QED
    BY <2>2, <2>4, <2>5, <2>6 DEF IsPair
<1> HIDE DEF t, pair, s
<1>5. QED
  BY <1>2, <1>3, <1>4, FieldParts

-----------------------------------------------------------------------------
(* The text mirror.                                                         *)

\* Files that any restoration meets: it replaces nothing, brings nothing that the
\* reader refuses, leaves no marker without its archive, and what it could begin
\* the next one completes.
THEOREM RestorationsAreSafe ==
  ASSUME NEW c, c.moves \in Nat
  PROVE  RestoreIsSafe(c)
<1> DEFINE index == c.index
           dest == c.dest
           sha == c.index.marker.sha
           after == Restored(index, c.files, c.id, dest, c.moves)
<1>1. CASE ~(Restores(index, c.files, c.id) /\ SameOrAbsent(index, dest))
  <2>1. after = dest
    BY <1>1 DEF Restored
  <2>2. QED
    BY <2>1 DEF RestoreIsSafe
<1>2. CASE Restores(index, c.files, c.id) /\ SameOrAbsent(index, dest)
  <2>1. after = Moved(dest, index, c.moves)
    BY <1>2 DEF Restored
  <2>2. dest.archive \in {Missing, sha} /\ dest.marker \in {Missing, index.marker}
    BY <1>2 DEF SameOrAbsent
  <2>3. /\ after.archive = IF dest.archive = Missing /\ c.moves >= 1 THEN sha ELSE dest.archive
        /\ after.marker = IF dest.marker = Missing /\ c.moves >= 2 THEN index.marker ELSE dest.marker
    BY <2>1 DEF Moved
  <2> HIDE DEF after
  <2>4. SameOrAbsent(index, after)
    BY <2>2, <2>3 DEF SameOrAbsent
  <2>5. Restored(index, c.files, c.id, after, 2) = Moved(after, index, 2)
    BY <1>2, <2>4 DEF Restored
  <2>6. Moved(after, index, 2) = [archive |-> sha, marker |-> index.marker]
    BY <2>2, <2>3 DEF Moved
  <2>7. after.marker # dest.marker => after.archive = after.marker.sha
    BY <2>2, <2>3
  <2>8. /\ dest.archive # Missing => after.archive = dest.archive
        /\ dest.marker # Missing => after.marker = dest.marker
    BY <2>3
  <2>9. Verified(sha)
    BY <1>2 DEF Restores
  <2>10. QED
    BY <2>5, <2>6, <2>7, <2>8, <2>9 DEF RestoreIsSafe, after
<1>3. QED
  BY <1>1, <1>2

\* How many parts cover an archive.
LEMMA PartsCover ==
  ASSUME NEW bytes \in Nat, NEW marker, marker.bytes = bytes
  PROVE  /\ PartCount(marker) \in Nat
         /\ bytes <= PartCount(marker) * PartBytes
         /\ PartCount(marker) * PartBytes < bytes + PartBytes
<1> DEFINE a == bytes + PartBytes - 1
           q == a \div PartBytes
<1>1. PartBytes \in Nat /\ PartBytes > 0
  BY TransportAssumption
<1>2. a \in Nat
  BY <1>1
<1> HIDE DEF a
<1>3. q \in Nat /\ q * PartBytes <= a /\ a < q * PartBytes + PartBytes
  BY <1>1, <1>2, SMTT(30)
<1>4. PartCount(marker) = q
  BY DEF PartCount, a
<1> HIDE DEF q
<1>5. q * PartBytes \in Nat
  BY <1>1, <1>3
<1>6. QED
  BY <1>1, <1>3, <1>4, <1>5 DEF a

\* Fewer parts hold fewer bytes.
LEMMA Multiples ==
  ASSUME NEW m \in Nat, NEW n \in Nat, m <= n
  PROVE  m * PartBytes \in Nat /\ n * PartBytes \in Nat /\ m * PartBytes <= n * PartBytes
<1>1. PartBytes \in Nat
  BY TransportAssumption
<1>2. QED
  BY <1>1, SMTT(30)

\* The n-th part is what the index expects of it.
LEMMA Chunks ==
  ASSUME NEW S, NEW source \in Seq(S), NEW n \in 1 .. PartCount(Marker(source))
  PROVE  LET from == (n - 1) * PartBytes
             to == IF n * PartBytes < Len(source) THEN n * PartBytes ELSE Len(source)
         IN /\ from \in Nat /\ to \in Nat /\ from < to /\ to <= Len(source)
            /\ Chunk(source, n) = SubSeq(source, from + 1, to)
            /\ Chunk(source, n) \in Seq(S)
            /\ Len(Chunk(source, n)) = to - from
            /\ Len(Chunk(source, n)) = ExpectedBytes(Marker(source), n)
            /\ Chunk(source, n) # <<>>
<1> DEFINE L == Len(source)
           from == (n - 1) * PartBytes
           over == n * PartBytes
           to == IF over < L THEN over ELSE L
           last == PartCount(Marker(source)) * PartBytes
<1>1. PartBytes \in Nat /\ PartBytes > 0 /\ L \in Nat
  BY TransportAssumption
<1>2. Marker(source).bytes = L
  BY DEF Marker
<1>3. PartCount(Marker(source)) \in Nat /\ L <= last /\ last < L + PartBytes
  BY <1>1, <1>2, PartsCover
<1>4. n \in Nat /\ n - 1 \in Nat /\ n <= PartCount(Marker(source))
  BY <1>3
<1>5. over \in Nat /\ last \in Nat /\ over <= last
  BY <1>3, <1>4, Multiples
<1>6. from \in Nat /\ over = from + PartBytes
  BY <1>1, <1>4, SMTT(30)
<1>7. Chunk(source, n) = SubSeq(source, from + 1, to)
  BY DEF Chunk
<1> HIDE DEF from, over, last, L
<1>8. from < L
  BY <1>1, <1>3, <1>5, <1>6
<1>9. to \in Nat /\ from < to /\ to <= L
  BY <1>1, <1>5, <1>6, <1>8
<1> HIDE DEF to
<1>10. Chunk(source, n) \in Seq(S) /\ Len(Chunk(source, n)) = to - from
  <2>1. from + 1 \in Int /\ to \in Int /\ from + 1 <= to /\ to - (from + 1) + 1 = to - from
    BY <1>6, <1>9
  <2>2. \A i \in from + 1 .. to : source[i] \in S
    <3>1. \A i \in from + 1 .. to : i \in 1 .. Len(source)
      BY <1>1, <1>6, <1>9 DEF L
    <3>2. QED
      BY <3>1
  <2>3. QED
    BY <1>7, <2>1, <2>2, SubSeqProperties
<1>11. to - from = ExpectedBytes(Marker(source), n)
  <2>1. ExpectedBytes(Marker(source), n) = IF L - from < PartBytes THEN L - from ELSE PartBytes
    BY <1>2 DEF ExpectedBytes, from
  <2>2. QED
    BY <1>1, <1>6, <1>8, <2>1 DEF to
<1>12. Chunk(source, n) # <<>>
  <2>1. Len(Chunk(source, n)) # 0
    BY <1>6, <1>9, <1>10
  <2>2. QED
    BY <2>1
<1>13. QED
  BY <1>6, <1>7, <1>9, <1>10, <1>11, <1>12 DEF from, to, over, L

\* Parts in their order give the archive.
LEMMA PartsJoin ==
  ASSUME NEW S, NEW source \in Seq(S), source # <<>>,
         NEW raws, raws = [n \in 1 .. PartCount(Marker(source)) |-> Chunk(source, n)]
  PROVE  FlattenSeq(raws) = source
<1> DEFINE L == Len(source)
           P == PartCount(Marker(source))
           to(n) == IF n * PartBytes < L THEN n * PartBytes ELSE L
           prefix == [n \in 1 .. P |-> SubSeq(source, 1, to(n))]
           step(f, n) == IF n = 1 THEN raws[n] ELSE f[n - 1] \o raws[n]
<1>1. PartBytes \in Nat /\ PartBytes > 0 /\ L \in Nat /\ L > 0
  BY TransportAssumption
<1>2. P \in Nat /\ L <= P * PartBytes /\ P # 0
  <2>1. Marker(source).bytes = L
    BY DEF Marker
  <2>2. P \in Nat /\ L <= P * PartBytes
    BY <1>1, <2>1, PartsCover
  <2>3. P # 0
    <3>1. 0 * PartBytes = 0
      BY <1>1
    <3>2. QED
      BY <1>1, <2>2, <3>1
  <2>4. QED
    BY <2>2, <2>3
<1>3. ASSUME NEW n \in 1 .. P
      PROVE  /\ raws[n] = SubSeq(source, (n - 1) * PartBytes + 1, to(n))
             /\ (n - 1) * PartBytes \in Nat /\ to(n) \in Nat /\ (n - 1) * PartBytes < to(n) /\ to(n) <= L
             /\ n # 1 => to(n - 1) = (n - 1) * PartBytes
  <2>1. raws[n] = Chunk(source, n)
    OBVIOUS
  <2>2. /\ Chunk(source, n) = SubSeq(source, (n - 1) * PartBytes + 1, to(n))
        /\ (n - 1) * PartBytes \in Nat /\ to(n) \in Nat /\ (n - 1) * PartBytes < to(n) /\ to(n) <= L
    BY Chunks
  <2>3. (n - 1) * PartBytes < L
    BY <1>1, <2>2
  <2>4. QED
    BY <2>1, <2>2, <2>3
<1>4. ASSUME NEW n \in 1 .. P PROVE prefix[n] = step(prefix, n)
  <2>1. prefix[n] = SubSeq(source, 1, to(n))
    OBVIOUS
  <2>2. CASE n = 1
    <3>1. (n - 1) * PartBytes + 1 = 1
      BY <1>1, <2>2
    <3>2. QED
      BY <1>3, <2>1, <2>2, <3>1
  <2>3. CASE n # 1
    <3>1. n - 1 \in 1 .. P
      BY <1>2, <2>3
    <3>2. prefix[n - 1] = SubSeq(source, 1, (n - 1) * PartBytes)
      BY <1>3, <2>3, <3>1
    <3> DEFINE k == (n - 1) * PartBytes
    <3>3. raws[n] = SubSeq(source, k + 1, to(n)) /\ k \in Nat /\ to(n) \in Nat /\ k < to(n) /\ to(n) <= L
      BY <1>3
    <3>4. SubSeq(source, 1, k) \o SubSeq(source, k + 1, to(n)) = SubSeq(source, 1, to(n))
      <4> HIDE DEF k, to
      <4>1. 1 \in 1 .. Len(source) + 1 /\ k \in 1 - 1 .. Len(source) /\ to(n) \in k .. Len(source)
        BY <1>1, <3>3
      <4>2. QED
        BY <4>1, ConcatAdjacentSubSeq
    <3>5. QED
      BY <2>1, <2>3, <3>2, <3>3, <3>4
  <2>4. QED
    BY <2>2, <2>3
<1>5. prefix = [n \in 1 .. P |-> step(prefix, n)]
  <2>1. prefix = [n \in 1 .. P |-> prefix[n]]
    OBVIOUS
  <2> HIDE DEF prefix, step
  <2>2. [n \in 1 .. P |-> prefix[n]] = [n \in 1 .. P |-> step(prefix, n)]
    BY <1>4, Zenon
  <2>3. QED
    BY <2>1, <2>2, Zenon
<1>6. Len(raws) = P
  BY <1>2
<1> DEFINE flatten[n \in 1 .. Len(raws)] == IF n = 1 THEN raws[n] ELSE flatten[n - 1] \o raws[n]
<1>7. FlattenSeq(raws) = flatten[P]
  BY <1>2, <1>6 DEF FlattenSeq
<1>8. flatten = [n \in 1 .. P |-> step(flatten, n)]
  BY <1>5, <1>6
<1> HIDE DEF flatten, prefix
<1>9. \A k \in 0 .. P : k \in {i \in 0 .. P : i # 0 => flatten[i] = prefix[i]}
  <2> DEFINE T == {i \in 0 .. P : i # 0 => flatten[i] = prefix[i]}
  <2>1. 0 \in T
    BY <1>2
  <2>2. ASSUME NEW k \in 0 .. P - 1, k \in T PROVE k + 1 \in T
    <3>1. k + 1 \in 1 .. P /\ (k + 1) - 1 = k
      BY <1>2
    <3>2. flatten[k + 1] = step(flatten, k + 1)
      BY <1>8, <3>1
    <3>3. prefix[k + 1] = step(prefix, k + 1)
      BY <1>4, <3>1
    <3>4. k + 1 # 1 => flatten[k] = prefix[k]
      BY <2>2, <3>1
    <3>5. flatten[k + 1] = prefix[k + 1]
      BY <3>1, <3>2, <3>3, <3>4
    <3>6. QED
      BY <3>1, <3>5
  <2> HIDE DEF T
  <2>3. \A k \in 0 .. P : k \in T
    BY <1>2, <2>1, <2>2, Upward
  <2>4. QED
    BY <2>3 DEF T
<1>10. flatten[P] = prefix[P]
  BY <1>2, <1>9
<1>11. prefix[P] = SubSeq(source, 1, L)
  <2>1. to(P) = L
    BY <1>1, <1>2
  <2>2. QED
    BY <1>2, <2>1 DEF prefix
<1>12. QED
  BY <1>7, <1>10, <1>11, SubSeqFull

\* What the model values stand for: an exception is no index, and a file that is
\* not there is none of the parts.
TransportValues ==
  /\ \A marker, id, parts : RejectedRestore # [marker |-> marker, archive |-> id, parts |-> parts]
  /\ \A sha, number, raw : Missing # [sha |-> sha, number |-> number, raw |-> raw]

\* An index is published for the archive of its marker and for no other, up to
\* the greatest size, and its parts give that archive back unless the reader
\* refuses its members, whatever those are; then the destination stays as it is.
THEOREM MirrorsRestore ==
  ASSUME TransportValues, NEW S, NEW source \in Seq(S), NEW archive \in Seq(S), archive # <<>>
  PROVE  MirrorRestores(source, Marker(archive))
<1> DEFINE marker == Marker(archive)
           P == PartCount(marker)
           index == UploadTransport(source, marker, 1)
           entry(n) == [number |-> n, bytes |-> Len(Part(source, marker, n).raw), id |-> n, text |-> Part(source, marker, n)]
           parts == [n \in 1 .. P |-> entry(n)]
           whole == [marker |-> marker, archive |-> 1, parts |-> parts]
           files == [n \in DOMAIN index.parts |-> index.parts[n].text]
           empty == [archive |-> Missing, marker |-> Missing]
           full == [archive |-> archive, marker |-> marker]
<1>1. marker.sha = archive /\ marker.bytes = Len(archive) /\ Len(archive) \in Nat
  BY DEF Marker
<1>2. PartBytes \in Nat /\ PartBytes > 0 /\ MaxParts \in Nat
  BY TransportAssumption
<1>3. P \in Nat /\ Len(archive) <= P * PartBytes /\ P * PartBytes < Len(archive) + PartBytes
  BY <1>1, PartsCover
<1>4. IF P > MaxParts \/ Changed(source, marker) THEN index = RejectedRestore ELSE index = whole
  BY DEF UploadTransport
<1>5. whole # RejectedRestore
  BY DEF TransportValues
<1>6. ~Changed(source, marker) <=> source = archive
  <2>1. ~Changed(source, marker) => source = archive
    BY <1>1 DEF Changed
  <2>2. ASSUME source = archive PROVE ~Changed(source, marker)
    <3>1. \A n \in 1 .. P : Chunk(source, n) # <<>>
      BY <2>2, Chunks
    <3>2. ~(Len(source) > P * PartBytes)
      <4>1. P * PartBytes \in Nat
        BY <1>2, <1>3
      <4>2. QED
        BY <1>1, <1>3, <2>2, <4>1
    <3>3. QED
      BY <1>1, <2>2, <3>1, <3>2 DEF Changed
  <2>3. QED
    BY <2>1, <2>2
<1>7. P <= MaxParts <=> Len(archive) <= MaxParts * PartBytes
  <2>1. P <= MaxParts => Len(archive) <= MaxParts * PartBytes
    <3> SUFFICES ASSUME P <= MaxParts PROVE Len(archive) <= MaxParts * PartBytes
      OBVIOUS
    <3> HIDE DEF P
    <3>1. P * PartBytes <= MaxParts * PartBytes /\ P * PartBytes \in Nat /\ MaxParts * PartBytes \in Nat
      BY <1>2, <1>3, Multiples
    <3>2. QED
      BY <1>1, <1>3, <3>1
  <2>2. P > MaxParts => Len(archive) > MaxParts * PartBytes
    <3> SUFFICES ASSUME P > MaxParts PROVE Len(archive) > MaxParts * PartBytes
      OBVIOUS
    <3> HIDE DEF P
    <3>1. MaxParts + 1 \in Nat /\ MaxParts + 1 <= P
      BY <1>2, <1>3
    <3>2. (MaxParts + 1) * PartBytes <= P * PartBytes /\ (MaxParts + 1) * PartBytes \in Nat /\ P * PartBytes \in Nat
      BY <1>3, <3>1, Multiples
    <3>3. (MaxParts + 1) * PartBytes = MaxParts * PartBytes + PartBytes /\ MaxParts * PartBytes \in Nat
      BY <1>2, SMTT(30)
    <3>4. QED
      BY <1>1, <1>2, <1>3, <3>2, <3>3
  <2>3. MaxParts * PartBytes \in Nat
    BY <1>2
  <2>4. QED
    BY <1>1, <1>2, <1>3, <2>1, <2>2, <2>3
<1>8. index # RejectedRestore <=> (source = archive /\ Len(source) <= MaxParts * PartBytes)
  <2>1. ~(P > MaxParts) <=> P <= MaxParts
    BY <1>2, <1>3
  <2> HIDE DEF index, whole, P
  <2>2. index # RejectedRestore <=> (~(P > MaxParts) /\ ~Changed(source, marker))
    BY <1>4, <1>5
  <2>3. QED
    BY <1>6, <1>7, <2>1, <2>2
<1>9. ASSUME index # RejectedRestore
      PROVE  Restored(index, files, 1, empty, 2) = IF Verified(source) THEN full ELSE empty
  <2>1. index = whole /\ source = archive /\ P <= MaxParts
    <3>1. ~(P > MaxParts) /\ ~Changed(source, marker)
      BY <1>4, <1>9
    <3>2. QED
      BY <1>2, <1>3, <1>4, <1>6, <3>1
  <2>2. P \in 1 .. MaxParts
    <3>1. P # 0
      <4>1. Len(archive) > 0 /\ 0 * PartBytes = 0
        BY <1>1, <1>2
      <4> HIDE DEF P
      <4>2. QED
        BY <1>1, <1>3, <4>1
    <3>2. QED
      BY <1>2, <1>3, <2>1, <3>1
  <2>3. /\ index.marker = marker /\ index.archive = 1 /\ DOMAIN index.parts = 1 .. P
        /\ \A n \in 1 .. P : index.parts[n] = entry(n)
    <3>1. DOMAIN parts = 1 .. P /\ \A n \in 1 .. P : parts[n] = entry(n)
      OBVIOUS
    <3>2. whole.marker = marker /\ whole.archive = 1 /\ whole.parts = parts
      <4> HIDE DEF parts
      <4>1. QED
        OBVIOUS
    <3> HIDE DEF parts, whole, index, entry, P
    <3>3. QED
      BY <2>1, <3>1, <3>2
  <2>4. Len(index.parts) = P
    <3>1. whole.parts = parts
      <4> HIDE DEF parts
      <4>1. QED
        OBVIOUS
    <3>2. Len(parts) = P
      <4> HIDE DEF entry, P
      <4>1. QED
        BY <1>3
    <3> HIDE DEF parts, whole, index, entry, P
    <3>3. QED
      BY <2>1, <3>1, <3>2
  <2>5. ASSUME NEW n \in 1 .. P
        PROVE  /\ index.parts[n].number = n /\ index.parts[n].id = n
               /\ index.parts[n].bytes = Len(Chunk(source, n)) /\ index.parts[n].text = Part(source, marker, n)
               /\ Len(Chunk(source, n)) = ExpectedBytes(marker, n)
    <3>1. index.parts[n] = entry(n) /\ Part(source, marker, n).raw = Chunk(source, n)
      BY <2>3 DEF Part
    <3>2. Len(Chunk(source, n)) = ExpectedBytes(marker, n)
      BY <2>1, Chunks
    <3>3. QED
      BY <3>1, <3>2
  <2>6. DOMAIN files = 1 .. P /\ \A n \in 1 .. P : files[n] = Part(source, marker, n)
    BY <2>3, <2>5
  <2> HIDE DEF index, files, whole, parts, entry, P
  <2>7. ValidIndex(index)
    BY <2>2, <2>3, <2>4, <2>5 DEF ValidIndex, P
  <2>8. ASSUME NEW n \in 1 .. P PROVE PartRestores(index, n, files[n])
    <3>1. files[n] = Part(source, marker, n) /\ Part(source, marker, n) # Missing
      BY <2>6 DEF TransportValues, Part
    <3>2. /\ Part(source, marker, n).sha = marker.sha /\ Part(source, marker, n).number = n
          /\ Part(source, marker, n).raw = Chunk(source, n)
      BY DEF Part
    <3>3. QED
      BY <2>3, <2>5, <3>1, <3>2 DEF PartRestores
  <2>9. Joined(index, files) = archive
    <3> DEFINE raws == [n \in DOMAIN index.parts |-> files[n].raw]
    <3>1. ASSUME NEW n \in 1 .. P PROVE files[n].raw = Chunk(source, n)
      BY <2>6 DEF Part
    <3>2. raws = [n \in 1 .. P |-> Chunk(source, n)]
      BY <2>3, <3>1
    <3>3. P = PartCount(Marker(source))
      BY <2>1 DEF P
    <3> HIDE DEF raws
    <3>4. FlattenSeq(raws) = source
      BY <2>1, <3>2, <3>3, PartsJoin
    <3>5. QED
      BY <2>1, <3>4 DEF Joined, raws
  <2>10. Restores(index, files, 1) <=> Verified(source)
    BY <1>1, <2>1, <2>3, <2>7, <2>8, <2>9 DEF Restores
  <2>11. SameOrAbsent(index, empty)
    BY DEF SameOrAbsent
  <2>12. Restored(index, files, 1, empty, 2) = IF Verified(source) THEN Moved(empty, index, 2) ELSE empty
    BY <2>10, <2>11 DEF Restored
  <2>13. Moved(empty, index, 2) = full
    BY <1>1, <2>3 DEF Moved
  <2>14. QED
    BY <2>12, <2>13
<1>10. QED
  BY <1>1, <1>8, <1>9 DEF MirrorRestores

-----------------------------------------------------------------------------
(* Folds of the community modules.                                          *)

\* A set of numbers up to n has a greatest element.
LEMMA GreatestIs ==
  ASSUME NEW n \in Nat, NEW S \in SUBSET (1 .. n), S # {}
  PROVE  Max(S) \in S /\ \A m \in S : Max(S) >= m
<1> DEFINE T == {n - m : m \in S}
<1>1. IsFiniteSet(T) /\ T \subseteq Nat /\ T # {}
  <2>1. T \subseteq 0 .. n /\ 0 .. n \subseteq Nat /\ T # {}
    <3>1. \A m \in S : n - m \in 0 .. n
      OBVIOUS
    <3>2. PICK m : m \in S
      OBVIOUS
    <3>3. n - m \in T
      BY <3>2
    <3>4. 0 .. n \subseteq Nat
      OBVIOUS
    <3>5. QED
      BY <3>1, <3>3, <3>4
  <2>2. IsFiniteSet(0 .. n)
    BY FS_Interval
  <2> HIDE DEF T
  <2>3. QED
    BY <2>1, <2>2, FS_Subset
<1>2. PICK t \in T : \A u \in T : t <= u
  <2> HIDE DEF T
  <2>1. QED
    BY <1>1, LeastIs
<1>3. PICK m \in S : t = n - m
  BY <1>2
<1>4. \A k \in S : m >= k
  <2> SUFFICES ASSUME NEW k \in S PROVE m >= k
    OBVIOUS
  <2>1. n - k \in T
    OBVIOUS
  <2>2. n - m <= n - k
    BY <1>2, <1>3, <2>1
  <2>3. QED
    BY <2>2
<1>5. \E k \in S : \A j \in S : k >= j
  BY <1>4
<1>6. QED
  BY <1>5 DEF Max

\* The numbers up to n lose their greatest: n is left out.
LEMMA GreatestOfInterval ==
  ASSUME NEW n \in Nat \ {0}
  PROVE  Max(1 .. n) = n /\ (1 .. n) \ {n} = 1 .. n - 1
<1>1. Max(1 .. n) \in 1 .. n /\ \A m \in 1 .. n : Max(1 .. n) >= m
  <2>1. 1 .. n \in SUBSET (1 .. n) /\ 1 .. n # {} /\ n \in Nat
    OBVIOUS
  <2>2. QED
    BY <2>1, GreatestIs
<1>2. Max(1 .. n) = n
  BY <1>1
<1>3. QED
  BY <1>2

\* The recursive function that a fold from the left defines: the value for the
\* first of the numbers up to n, from the value for those before it.
FoldSteps(V, n) == [V \X (1 .. n) -> V]
IsFold(f, V, n, step, base) ==
  /\ f \in [SUBSET (1 .. n) -> V]
  /\ \A s \in SUBSET (1 .. n) : f[s] = IF s = {} THEN base ELSE step[<<f[s \ {Max(s)}], Max(s)>>]

\* Some function is the fold: it can be written down set by set.
LEMMA FoldExists ==
  ASSUME NEW V, NEW n \in Nat, NEW step \in FoldSteps(V, n), NEW base \in V
  PROVE  \E f : IsFold(f, V, n, step, base)
<1> DEFINE D == SUBSET (1 .. n)
           Next1(f, s) == IF s = {} THEN base ELSE step[<<f[s \ {Max(s)}], Max(s)>>]
           Upto(f, k) == \A s \in SUBSET (1 .. k) : f[s] = Next1(f, s)
           T == {k \in 0 .. n : \E f \in [D -> V] : Upto(f, k)}
<1>1. ASSUME NEW f \in [D -> V], NEW s \in D PROVE Next1(f, s) \in V
  <2>1. CASE s = {}
    BY <2>1
  <2>2. CASE s # {}
    <3>1. Max(s) \in 1 .. n /\ s \ {Max(s)} \in D
      BY <2>2, GreatestIs
    <3>2. f[s \ {Max(s)}] \in V
      BY <3>1
    <3>3. QED
      BY <2>2, <3>1, <3>2 DEF FoldSteps
  <2>3. QED
    BY <2>1, <2>2
<1>2. 0 \in T
  <2> DEFINE f == [s \in D |-> base]
  <2>1. f \in [D -> V]
    OBVIOUS
  <2>2. ASSUME NEW s \in SUBSET (1 .. 0) PROVE f[s] = Next1(f, s)
    BY <2>2
  <2> HIDE DEF f, Next1
  <2>3. Upto(f, 0) /\ 0 \in 0 .. n
    BY <2>2
  <2>4. QED
    BY <2>1, <2>3
<1>3. ASSUME NEW k \in 0 .. n - 1, k \in T PROVE k + 1 \in T
  <2>1. PICK f \in [D -> V] : Upto(f, k)
    BY <1>3
  <2> DEFINE g == [s \in D |-> Next1(f, s)]
  <2>2. g \in [D -> V]
    <3> HIDE DEF D, Next1
    <3>1. QED
      BY <1>1
  <2>3. ASSUME NEW s \in SUBSET (1 .. k + 1) PROVE g[s] = Next1(g, s)
    <3>1. s \in D /\ k \in Nat
      OBVIOUS
    <3>2. g[s] = Next1(f, s)
      BY <3>1
    <3>3. CASE s = {}
      BY <3>2, <3>3
    <3>4. CASE s # {}
      <4> DEFINE t == s \ {Max(s)}
      <4>1. Max(s) \in s /\ \A m \in s : Max(s) >= m
        BY <3>1, <3>4, GreatestIs
      <4>2. t \in SUBSET (1 .. k)
        <5>1. \A m \in t : m \in 1 .. k + 1 /\ Max(s) \in 1 .. k + 1 /\ Max(s) >= m /\ m # Max(s)
          BY <4>1
        <5>2. \A m \in t : m \in 1 .. k
          BY <3>1, <5>1
        <5>3. QED
          BY <5>2
      <4>3. f[t] = Next1(f, t)
        BY <2>1, <4>2
      <4>4. t \in D
        BY <3>1
      <4>5. g[t] = f[t]
        BY <4>3, <4>4
      <4> HIDE DEF g
      <4>6. QED
        BY <3>2, <3>4, <4>5
    <3>5. QED
      BY <3>3, <3>4
  <2> HIDE DEF g, Next1
  <2>4. Upto(g, k + 1) /\ k + 1 \in 0 .. n
    BY <2>3
  <2>5. QED
    BY <2>2, <2>4
<1> HIDE DEF T
<1>4. n \in T
  <2>1. \A k \in 0 .. n : k \in T
    BY <1>2, <1>3, Upward
  <2>2. QED
    BY <2>1
<1>5. PICK f \in [D -> V] : Upto(f, n)
  BY <1>4 DEF T
<1>6. QED
  BY <1>5 DEF IsFold

\* Each element of a finite set once, in some order.
LEMMA Enumerates ==
  ASSUME NEW S, IsFiniteSet(S)
  PROVE  /\ SetToSeq(S) \in Seq(S) /\ Len(SetToSeq(S)) = Cardinality(S)
         /\ DOMAIN SetToSeq(S) = 1 .. Cardinality(S) /\ Cardinality(S) \in Nat
         /\ \A i, j \in 1 .. Cardinality(S) : SetToSeq(S)[i] = SetToSeq(S)[j] => i = j
         /\ \A x \in S : \E i \in 1 .. Cardinality(S) : SetToSeq(S)[i] = x
<1> DEFINE n == Cardinality(S)
           f == SetToSeq(S)
<1>1. n \in Nat /\ ExistsBijection(1 .. n, S)
  BY FS_CardinalityType
<1>2. PICK g \in [1 .. n -> S] : IsInjective(g)
  BY <1>1 DEF ExistsBijection, Bijection, Injection
<1>3. f \in [1 .. n -> S] /\ IsInjective(f)
  BY <1>2 DEF SetToSeq
<1>4. f \in Injection(1 .. n, S)
  BY <1>3 DEF Injection
<1>5. Cardinality(1 .. n) = n
  BY <1>1, FS_Interval
<1> HIDE DEF f
<1>6. f \in Surjection(1 .. n, S)
  BY <1>4, <1>5, FS_Injection
<1>7. f \in Seq(S) /\ Len(f) = n /\ DOMAIN f = 1 .. n
  BY <1>1, <1>3
<1>8. QED
  BY <1>1, <1>3, <1>6, <1>7 DEF f, IsInjective, Surjection

-----------------------------------------------------------------------------
(* Bundles.                                                                 *)

\* Whatever archive is accepted, its manifest lists every other member, once.
THEOREM ListsAreComplete ==
  ASSUME NEW M, NEW L, NEW archive, archive.members \in Seq(M), archive.listed \in Seq(L)
  PROVE  AcceptedIsListed(archive)
<1> SUFFICES ASSUME ReadBundle(archive) # RejectedBundle PROVE AcceptedIsListed(archive)
  BY DEF AcceptedIsListed
<1> DEFINE members == archive.members
           listed == archive.listed
           m == Len(members)
           l == Len(listed)
<1>1. /\ SafeMembers(members) /\ OneOfEachName(listed) /\ ListsAll(archive)
      /\ Manifest \in {members[i].name : i \in DOMAIN members}
      /\ \A e \in DOMAIN listed : IsMember(members, listed[e])
  BY DEF ReadBundle
<1>2. DOMAIN members = 1 .. m /\ DOMAIN listed = 1 .. l /\ m \in Nat /\ l \in Nat
  OBVIOUS
<1>3. /\ \A i \in 1 .. m : members[i].plain
      /\ \A i, j \in 1 .. m : members[i].name = members[j].name => i = j
  BY <1>1, <1>2 DEF SafeMembers, OneOfEachName
<1>4. \A d, e \in 1 .. l : listed[d].name = listed[e].name => d = e
  BY <1>1, <1>2 DEF OneOfEachName
<1>5. \A e \in 1 .. l : \E i \in 1 .. m :
        members[i].name = listed[e].name /\ members[i].bytes = listed[e].bytes /\ members[i].body = listed[e].body
  BY <1>1, <1>2 DEF IsMember
<1>6. /\ \A e \in 1 .. l : listed[e].name # Manifest
      /\ \A i \in 1 .. m : members[i].name # Manifest => \E e \in 1 .. l : listed[e].name = members[i].name
  <2>1. /\ \A e \in 1 .. l : listed[e].name # Manifest
        /\ {listed[e].name : e \in 1 .. l} = {members[i].name : i \in 1 .. m} \ {Manifest}
    BY <1>1, <1>2 DEF ListsAll, MemberNames
  <2>2. ASSUME NEW i \in 1 .. m, members[i].name # Manifest
        PROVE  \E e \in 1 .. l : listed[e].name = members[i].name
    <3>1. members[i].name \in {listed[e].name : e \in 1 .. l}
      BY <2>1, <2>2
    <3>2. QED
      BY <3>1
  <2>3. QED
    BY <2>1, <2>2
<1>7. PICK i0 \in 1 .. m : members[i0].name = Manifest
  BY <1>1, <1>2
<1> HIDE DEF m, l, members, listed
<1>8. ASSUME NEW i \in 1 .. m, members[i].name # Manifest
      PROVE  \E e \in 1 .. l : {d \in 1 .. l : /\ listed[d].name = members[i].name
                                               /\ listed[d].bytes = members[i].bytes
                                               /\ listed[d].body = members[i].body} = {e}
  <2>1. PICK e \in 1 .. l : listed[e].name = members[i].name
    BY <1>6, <1>8
  <2>2. PICK j \in 1 .. m :
          members[j].name = listed[e].name /\ members[j].bytes = listed[e].bytes /\ members[j].body = listed[e].body
    BY <1>5
  <2>3. i = j
    BY <1>3, <2>1, <2>2
  <2>4. \A d \in 1 .. l : listed[d].name = members[i].name => d = e
    BY <1>4, <2>1
  <2>5. QED
    BY <2>1, <2>2, <2>3, <2>4
<1>9. l = m - 1
  <2> DEFINE S == (1 .. m) \ {i0}
             f == [i \in S |-> CHOOSE e \in 1 .. l : listed[e].name = members[i].name]
  <2>1. Cardinality(1 .. m) = m /\ Cardinality(1 .. l) = l /\ IsFiniteSet(1 .. m) /\ IsFiniteSet(1 .. l)
    BY <1>2, FS_Interval
  <2>2. IsFiniteSet(S) /\ Cardinality(S) = m - 1
    BY <2>1, FS_RemoveElement
  <2>3. ASSUME NEW i \in S PROVE f[i] \in 1 .. l /\ listed[f[i]].name = members[i].name
    <3>1. members[i].name # Manifest
      BY <1>3, <1>7
    <3>2. \E e \in 1 .. l : listed[e].name = members[i].name
      BY <1>6, <3>1
    <3>3. QED
      BY <3>2
  <2>4. DOMAIN f = S /\ f \in [S -> 1 .. l]
    BY <2>3
  <2> HIDE DEF f
  <2>5. IsInjective(f)
    BY <1>3, <2>3, <2>4 DEF IsInjective
  <2>6. \A e \in 1 .. l : \E i \in S : f[i] = e
    <3> SUFFICES ASSUME NEW e \in 1 .. l PROVE \E i \in S : f[i] = e
      OBVIOUS
    <3>1. PICK i \in 1 .. m : members[i].name = listed[e].name
      BY <1>5
    <3>2. i \in S
      BY <1>6, <1>7, <3>1
    <3>3. QED
      BY <1>4, <2>3, <3>1, <3>2
  <2>7. ExistsBijection(S, 1 .. l)
    BY <2>4, <2>5, <2>6 DEF ExistsBijection, Bijection, Injection, Surjection
  <2>8. Cardinality(1 .. l) = Cardinality(S)
    BY <2>2, <2>7, FS_Bijection
  <2>9. QED
    BY <2>1, <2>2, <2>8
<1>10. ASSUME NEW i \in 1 .. m, members[i].name # Manifest
       PROVE  Cardinality({d \in 1 .. l : /\ listed[d].name = members[i].name
                                          /\ listed[d].bytes = members[i].bytes
                                          /\ listed[d].body = members[i].body}) = 1
  BY <1>8, <1>10, FS_Singleton
<1>11. QED
  BY <1>2, <1>3, <1>9, <1>10 DEF AcceptedIsListed, m, l, members, listed

\* The bytes of each part of a set of files.
AddsBytes(T, S) ==
  /\ T \in [SUBSET S -> Nat] /\ T[{}] = 0
  /\ \A s \in SUBSET S : \A x \in S \ s : T[s \cup {x}] = T[s] + x.bytes

\* A sum of bytes over sets that adds element by element exists.
LEMMA BytesAdd ==
  ASSUME NEW F, IsFiniteSet(F), \A x \in F : x.bytes \in Nat
  PROVE  \E T : AddsBytes(T, F)
<1> DEFINE n == Cardinality(F)
           e == SetToSeq(F)
           part(k, x) == IF \E i \in 1 .. k : e[i] = x THEN x.bytes ELSE 0
           Adds(T, k) == T[{}] = 0 /\ \A s \in SUBSET F : \A x \in F \ s : T[s \cup {x}] = T[s] + part(k, x)
           K == {k \in 0 .. n : \E T \in [SUBSET F -> Nat] : Adds(T, k)}
<1>1. /\ n \in Nat /\ \A i \in 1 .. n : e[i] \in F
      /\ \A i, j \in 1 .. n : e[i] = e[j] => i = j
      /\ \A x \in F : \E i \in 1 .. n : e[i] = x
  <2>1. e \in Seq(F) /\ Len(e) = n /\ n \in Nat
    BY Enumerates
  <2>2. \A i \in 1 .. n : e[i] \in F
    BY <2>1
  <2>3. QED
    BY <2>1, <2>2, Enumerates
<1> HIDE DEF e, n
<1>2. 0 \in K
  <2> DEFINE T == [s \in SUBSET F |-> 0]
  <2>1. T \in [SUBSET F -> Nat] /\ T[{}] = 0
    OBVIOUS
  <2>2. ASSUME NEW s \in SUBSET F, NEW x \in F \ s PROVE T[s \cup {x}] = T[s] + part(0, x)
    <3>1. s \cup {x} \in SUBSET F /\ part(0, x) = 0
      OBVIOUS
    <3>2. QED
      BY <3>1
  <2>3. 0 \in 0 .. n
    BY <1>1
  <2> HIDE DEF T, part
  <2>4. QED
    BY <2>1, <2>2, <2>3
<1>3. ASSUME NEW k \in 0 .. n - 1, k \in K PROVE k + 1 \in K
  <2>1. PICK T \in [SUBSET F -> Nat] : Adds(T, k)
    BY <1>3
  <2> DEFINE y == e[k + 1]
             own(s) == IF y \in s THEN y.bytes ELSE 0
             U == [s \in SUBSET F |-> T[s] + own(s)]
  <2>2. k + 1 \in 1 .. n /\ k + 1 \in 0 .. n /\ k \in Nat
    BY <1>1
  <2>3. y \in F /\ y.bytes \in Nat
    BY <1>1, <2>2
  <2>4. \A s \in SUBSET F : own(s) \in Nat /\ T[s] \in Nat /\ U[s] = T[s] + own(s)
    BY <2>3
  <2>5. U \in [SUBSET F -> Nat]
    BY <2>3
  <2> HIDE DEF U
  <2>6. ASSUME NEW s \in SUBSET F, NEW x \in F \ s PROVE U[s \cup {x}] = U[s] + part(k + 1, x)
    <3>1. s \cup {x} \in SUBSET F
      OBVIOUS
    <3>2. T[s \cup {x}] = T[s] + part(k, x)
      BY <2>1
    <3>3. CASE x = y
      <4>1. ~ (\E i \in 1 .. k : e[i] = x)
        BY <1>1, <2>2, <3>3
      <4>2. part(k, x) = 0
        BY <4>1
      <4>3. part(k + 1, x) = y.bytes
        BY <2>2, <3>3
      <4>4. own(s) = 0 /\ own(s \cup {x}) = y.bytes
        BY <3>3
      <4> HIDE DEF own, part
      <4>5. QED
        BY <2>3, <2>4, <3>1, <3>2, <4>2, <4>3, <4>4
    <3>4. CASE x # y
      <4>1. (\E i \in 1 .. k + 1 : e[i] = x) <=> (\E i \in 1 .. k : e[i] = x)
        BY <2>2, <3>4
      <4>2. part(k + 1, x) = part(k, x)
        BY <4>1
      <4>3. own(s \cup {x}) = own(s)
        BY <3>4
      <4>4. part(k, x) \in Nat
        OBVIOUS
      <4> HIDE DEF own, part
      <4>5. QED
        BY <2>4, <3>1, <3>2, <4>2, <4>3, <4>4
    <3>5. QED
      BY <3>3, <3>4
  <2>7. U[{}] = 0
    <3>1. U[{}] = T[{}] + own({}) /\ own({}) = 0
      BY <2>4
    <3>2. QED
      BY <2>1, <3>1
  <2> HIDE DEF part
  <2>8. QED
    BY <2>2, <2>5, <2>6, <2>7
<1>4. n \in K
  <2> HIDE DEF K
  <2>1. \A k \in 0 .. n : k \in K
    BY <1>1, <1>2, <1>3, Upward
  <2>2. QED
    BY <1>1, <2>1
<1>5. PICK T \in [SUBSET F -> Nat] : Adds(T, n)
  BY <1>4
<1>6. \A x \in F : part(n, x) = x.bytes
  BY <1>1
<1> HIDE DEF part
<1>7. AddsBytes(T, F)
  BY <1>5, <1>6 DEF AddsBytes
<1>8. QED
  BY <1>7

\* A sum over a sequence goes through its partial sums.
PartialSums(h, members, m) ==
  /\ h \in [0 .. m -> Nat] /\ h[0] = 0
  /\ \A k \in 1 .. m : h[k] = h[k - 1] + members[k].bytes

\* The recursion of TotalBytes goes through partial sums.
LEMMA TotalBytesIs ==
  ASSUME NEW m \in Nat, NEW members, DOMAIN members = 1 .. m, \A i \in 1 .. m : members[i].bytes \in Nat
  PROVE  \E h : PartialSums(h, members, m) /\ TotalBytes(members) = h[m]
<1> DEFINE step == [p \in Nat \X (1 .. m) |-> p[1] + members[p[2]].bytes]
           D == SUBSET (1 .. m)
           iter[s \in SUBSET DOMAIN members] ==
             IF s = {} THEN 0 ELSE iter[s \ {Max(s)}] + members[Max(s)].bytes
           h == [k \in 0 .. m |-> iter[1 .. k]]
<1>1. step \in FoldSteps(Nat, m) /\ 0 \in Nat
  BY DEF FoldSteps
<1>2. PICK f : IsFold(f, Nat, m, step, 0)
  <2> HIDE DEF step
  <2>1. QED
    BY <1>1, FoldExists
<1>3. f \in [D -> Nat] /\ \A s \in D : f[s] = IF s = {} THEN 0 ELSE step[<<f[s \ {Max(s)}], Max(s)>>]
  BY <1>2 DEF IsFold
<1>4. ASSUME NEW s \in D
      PROVE  f[s] = IF s = {} THEN 0 ELSE f[s \ {Max(s)}] + members[Max(s)].bytes
  <2>1. CASE s = {}
    BY <1>3, <2>1
  <2>2. CASE s # {}
    <3>1. Max(s) \in 1 .. m /\ s \ {Max(s)} \in D
      BY <2>2, GreatestIs
    <3>2. f[s \ {Max(s)}] \in Nat
      BY <1>3, <3>1
    <3>3. step[<<f[s \ {Max(s)}], Max(s)>>] = f[s \ {Max(s)}] + members[Max(s)].bytes
      BY <3>1, <3>2
    <3> HIDE DEF step
    <3>4. QED
      BY <1>3, <2>2, <3>3
  <2>3. QED
    BY <2>1, <2>2
<1>5. f = [s \in D |-> IF s = {} THEN 0 ELSE f[s \ {Max(s)}] + members[Max(s)].bytes]
  <2>1. f = [s \in D |-> f[s]]
    BY <1>3
  <2>2. [s \in D |-> f[s]] = [s \in D |-> IF s = {} THEN 0 ELSE f[s \ {Max(s)}] + members[Max(s)].bytes]
    BY <1>4, Zenon
  <2>3. QED
    BY <2>1, <2>2, Zenon
<1>6. iter = [s \in D |-> IF s = {} THEN 0 ELSE iter[s \ {Max(s)}] + members[Max(s)].bytes]
  BY <1>5
<1>7. TotalBytes(members) = iter[1 .. m]
  BY DEF TotalBytes, FoldLeft, MapThenFoldSet
<1> HIDE DEF iter, step
<1>8. iter[1 .. 0] = 0
  BY <1>6
<1>9. ASSUME NEW k \in 1 .. m PROVE iter[1 .. k] = iter[1 .. k - 1] + members[k].bytes
  <2>1. Max(1 .. k) = k /\ (1 .. k) \ {k} = 1 .. k - 1
    BY GreatestOfInterval
  <2>2. 1 .. k \in D /\ 1 .. k # {}
    OBVIOUS
  <2>3. QED
    BY <1>6, <2>1, <2>2
<1>10. \A k \in 0 .. m : k \in {i \in 0 .. m : iter[1 .. i] \in Nat}
  <2> DEFINE T == {i \in 0 .. m : iter[1 .. i] \in Nat}
  <2>1. 0 \in T
    BY <1>8
  <2>2. ASSUME NEW k \in 0 .. m - 1, k \in T PROVE k + 1 \in T
    <3>1. k + 1 \in 1 .. m /\ (k + 1) - 1 = k
      OBVIOUS
    <3>2. iter[1 .. k + 1] = iter[1 .. k] + members[k + 1].bytes
      BY <1>9, <3>1
    <3>3. QED
      BY <2>2, <3>1, <3>2
  <2> HIDE DEF T
  <2>3. \A k \in 0 .. m : k \in T
    BY <2>1, <2>2, Upward
  <2>4. QED
    BY <2>3 DEF T
<1>11. h \in [0 .. m -> Nat] /\ h[0] = 0 /\ h[m] = TotalBytes(members)
  BY <1>7, <1>8, <1>10
<1>12. \A k \in 1 .. m : h[k] = h[k - 1] + members[k].bytes
  BY <1>9
<1>13. QED
  BY <1>11, <1>12 DEF PartialSums

\* The members of a set have one total, in whatever order they are written.
LEMMA TotalOfSet ==
  ASSUME NEW M, IsFiniteSet(M), \A x \in M : x.bytes \in Nat,
         NEW T, AddsBytes(T, M)
  PROVE  TotalBytes(SetToSeq(M)) = T[M]
<1> DEFINE e == SetToSeq(M)
           n == Cardinality(M)
           image(k) == {e[i] : i \in 1 .. k}
<1>1. /\ e \in Seq(M) /\ Len(e) = n /\ DOMAIN e = 1 .. n /\ n \in Nat
      /\ \A i, j \in 1 .. n : e[i] = e[j] => i = j
      /\ \A x \in M : \E i \in 1 .. n : e[i] = x
  BY Enumerates
<1>2. \A i \in 1 .. n : e[i] \in M /\ e[i].bytes \in Nat
  BY <1>1
<1> HIDE DEF e, n
<1>3. PICK h : PartialSums(h, e, n) /\ TotalBytes(e) = h[n]
  <2>1. n \in Nat /\ DOMAIN e = 1 .. n
    BY <1>1
  <2>2. \A i \in 1 .. n : e[i].bytes \in Nat
    BY <1>2
  <2>3. QED
    BY <2>1, <2>2, TotalBytesIs
<1>4. h \in [0 .. n -> Nat] /\ h[0] = 0 /\ \A k \in 1 .. n : h[k] = h[k - 1] + e[k].bytes
  BY <1>3 DEF PartialSums
<1> DEFINE K == {k \in 0 .. n : h[k] = T[image(k)]}
<1>5. 0 \in K
  <2>1. image(0) = {} /\ 0 \in 0 .. n
    BY <1>1
  <2> HIDE DEF image
  <2>2. QED
    BY <1>4, <2>1 DEF AddsBytes
<1>6. ASSUME NEW k \in 0 .. n - 1, k \in K PROVE k + 1 \in K
  <2>1. k + 1 \in 1 .. n /\ k + 1 \in 0 .. n /\ (k + 1) - 1 = k /\ k \in Nat
    BY <1>1
  <2>2. image(k) \in SUBSET M
    BY <1>1, <1>2, <2>1
  <2>3. e[k + 1] \in M \ image(k)
    BY <1>1, <1>2, <2>1
  <2>4. image(k + 1) = image(k) \cup {e[k + 1]}
    BY <2>1
  <2>5. T[image(k + 1)] = T[image(k)] + e[k + 1].bytes
    <3> HIDE DEF image
    <3>1. QED
      BY <2>2, <2>3, <2>4 DEF AddsBytes
  <2> HIDE DEF image
  <2>6. QED
    BY <1>4, <1>6, <2>1, <2>5
<1>7. n \in K
  <2> HIDE DEF K
  <2>1. \A k \in 0 .. n : k \in K
    BY <1>1, <1>5, <1>6, Upward
  <2>2. QED
    BY <1>1, <2>1
<1>8. image(n) = M
  BY <1>1, <1>2
<1>9. QED
  BY <1>3, <1>7, <1>8 DEF e

-----------------------------------------------------------------------------
(* BundleWriter                                                             *)

\* The writer before any file, the files it is given, and what it may be like.
NewWriter == [total |-> 0, files |-> {}, issues |-> {}, failed |-> FALSE]
FilesOver(N, B) == [name : N, bytes : Nat, body : B]
Writers(F) == [total : Nat, files : SUBSET F, issues : SUBSET NamesOf(F), failed : BOOLEAN]

\* Every file that was added is in the archive or among its issues, once.
WriterInv(w, F, seen) ==
  /\ w.total <= PayloadMax
  /\ w.files \subseteq seen
  /\ \A f, g \in w.files : f.name = g.name => f = g
  /\ w.failed \/ \A s \in seen : s \in w.files \/ s.name \in w.issues

\* A file that is added leaves a writer.
LEMMA AddingIsTyped ==
  ASSUME NEW N, NEW B, NEW w \in Writers(FilesOver(N, B)), NEW s \in FilesOver(N, B)
  PROVE  AddMember(w, s) \in Writers(FilesOver(N, B))
<1> DEFINE F == FilesOver(N, B)
<1>1. s \in F /\ s.bytes \in Nat /\ s.name \in NamesOf(F)
  BY DEF FilesOver, NamesOf
<1> HIDE DEF F
<1>2. w \in [total : Nat, files : SUBSET F, issues : SUBSET NamesOf(F), failed : BOOLEAN]
  BY DEF Writers, F
<1>3. /\ [w EXCEPT !.issues = @ \cup {s.name}] \in Writers(F)
      /\ [w EXCEPT !.failed = TRUE] \in Writers(F)
      /\ [w EXCEPT !.total = @ + s.bytes, !.files = @ \cup {s}] \in Writers(F)
  <2> HIDE DEF FilesOver
  <2>1. w.total + s.bytes \in Nat /\ w.issues \cup {s.name} \in SUBSET NamesOf(F) /\ w.files \cup {s} \in SUBSET F
    BY <1>1, <1>2
  <2>2. [w EXCEPT !.issues = @ \cup {s.name}] \in Writers(F)
    BY <1>2, <2>1 DEF Writers
  <2>3. [w EXCEPT !.failed = TRUE] \in Writers(F)
    BY <1>2 DEF Writers
  <2>4. [w EXCEPT !.total = @ + s.bytes, !.files = @ \cup {s}] \in Writers(F)
    BY <1>2, <2>1 DEF Writers
  <2>5. QED
    BY <2>2, <2>3, <2>4
<1>4. QED
  BY <1>3 DEF AddMember, F

\* A file that is added is in the archive or among the issues.
LEMMA AddingKeeps ==
  ASSUME NEW N, NEW B, NEW w \in Writers(FilesOver(N, B)), NEW s \in FilesOver(N, B), NEW seen,
         WriterInv(w, FilesOver(N, B), seen)
  PROVE  WriterInv(AddMember(w, s), FilesOver(N, B), seen \cup {s})
<1> DEFINE a == AddMember(w, s)
<1>1. s.bytes \in Nat /\ w.total \in Nat /\ PayloadMax \in Nat
      /\ w = [total |-> w.total, files |-> w.files, issues |-> w.issues, failed |-> w.failed]
  BY BundleFileAssumption DEF FilesOver, Writers
<1>2. CASE w.total + s.bytes > PayloadMax
  <2>1. a = [w EXCEPT !.issues = @ \cup {s.name}]
    BY <1>2 DEF AddMember
  <2>2. a.total = w.total /\ a.files = w.files /\ a.issues = w.issues \cup {s.name} /\ a.failed = w.failed
    BY <1>1, <2>1
  <2> HIDE DEF a
  <2>3. QED
    BY <2>2 DEF WriterInv, a
<1>3. CASE ~(w.total + s.bytes > PayloadMax) /\ s.name \in NamesOf(w.files)
  <2>1. a = [w EXCEPT !.failed = TRUE]
    BY <1>3 DEF AddMember
  <2>2. a.total = w.total /\ a.files = w.files /\ a.issues = w.issues /\ a.failed
    BY <1>1, <2>1
  <2> HIDE DEF a
  <2>3. QED
    BY <2>2 DEF WriterInv, a
<1>4. CASE ~(w.total + s.bytes > PayloadMax) /\ s.name \notin NamesOf(w.files)
  <2>1. a = [w EXCEPT !.total = @ + s.bytes, !.files = @ \cup {s}]
    BY <1>4 DEF AddMember
  <2>2. a.total = w.total + s.bytes /\ a.files = w.files \cup {s} /\ a.issues = w.issues /\ a.failed = w.failed
    BY <1>1, <2>1
  <2>3. \A f \in w.files : f.name # s.name
    BY <1>4 DEF NamesOf
  <2> HIDE DEF a
  <2>4. a.total <= PayloadMax
    BY <1>1, <1>4, <2>2
  <2>5. \A f, g \in a.files : f.name = g.name => f = g
    BY <2>2, <2>3 DEF WriterInv
  <2>6. QED
    BY <2>2, <2>4, <2>5 DEF WriterInv, a
<1>5. QED
  BY <1>2, <1>3, <1>4

\* The total is what T counts of the files, and T counts s as well.
IsCounted(w, s, T, seen) ==
  s \in seen /\ w.files \subseteq seen /\ AddsBytes(T, seen) /\ w.total = T[w.files]

\* The bytes that the writer counted are those of its files.
LEMMA AddingCounts ==
  ASSUME NEW N, NEW B, NEW w \in Writers(FilesOver(N, B)), NEW s \in FilesOver(N, B),
         NEW seen, NEW T, IsCounted(w, s, T, seen)
  PROVE  AddMember(w, s).total = T[AddMember(w, s).files]
<1> DEFINE a == AddMember(w, s)
<1>1. w = [total |-> w.total, files |-> w.files, issues |-> w.issues, failed |-> w.failed]
  BY DEF Writers
<1>2. CASE a.total = w.total /\ a.files = w.files
  BY <1>2 DEF IsCounted
<1>3. CASE a.total = w.total + s.bytes /\ a.files = w.files \cup {s} /\ s \notin w.files
  BY <1>3 DEF AddsBytes, IsCounted
<1>4. \/ a.total = w.total /\ a.files = w.files
      \/ a.total = w.total + s.bytes /\ a.files = w.files \cup {s} /\ s \notin w.files
  <2>1. s.name \notin NamesOf(w.files) => s \notin w.files
    BY DEF NamesOf
  <2>2. QED
    BY <1>1, <2>1 DEF AddMember
<1>5. QED
  BY <1>2, <1>3, <1>4

\* What the writer is like after each of its files.
PartialWriters(g, sources, F) ==
  /\ g \in [0 .. Len(sources) -> Writers(F)] /\ g[0] = NewWriter
  /\ \A k \in 1 .. Len(sources) : g[k] = AddMember(g[k - 1], sources[k])

\* The writer of an archive goes through its files one by one.
LEMMA WrittenIs ==
  ASSUME NEW N, NEW B, NEW sources \in Seq(FilesOver(N, B))
  PROVE  \E g : PartialWriters(g, sources, FilesOver(N, B)) /\ Written(sources) = g[Len(sources)]
<1> DEFINE F == FilesOver(N, B)
           n == Len(sources)
           W == Writers(F)
           base == NewWriter
           step == [p \in W \X (1 .. n) |-> AddMember(p[1], sources[p[2]])]
           D == SUBSET (1 .. n)
           iter[s \in SUBSET DOMAIN sources] ==
             IF s = {} THEN [total |-> 0, files |-> {}, issues |-> {}, failed |-> FALSE]
             ELSE AddMember(iter[s \ {Max(s)}], sources[Max(s)])
           g == [k \in 0 .. n |-> iter[1 .. k]]
<1>1. n \in Nat /\ DOMAIN sources = 1 .. n /\ \A i \in 1 .. n : sources[i] \in F
  OBVIOUS
<1>2. base \in W
  BY DEF NewWriter, Writers
<1>3. \A w \in W : \A i \in 1 .. n : AddMember(w, sources[i]) \in W
  BY <1>1, AddingIsTyped
<1> HIDE DEF F, W, base
<1>4. step \in FoldSteps(W, n)
  BY <1>3 DEF FoldSteps
<1>5. PICK f : IsFold(f, W, n, step, base)
  <2> HIDE DEF step
  <2>1. QED
    BY <1>1, <1>2, <1>4, FoldExists
<1>6. f \in [D -> W] /\ \A s \in D : f[s] = IF s = {} THEN base ELSE step[<<f[s \ {Max(s)}], Max(s)>>]
  BY <1>5 DEF IsFold
<1>7. ASSUME NEW s \in D
      PROVE  f[s] = IF s = {} THEN base ELSE AddMember(f[s \ {Max(s)}], sources[Max(s)])
  <2>1. CASE s = {}
    BY <1>6, <2>1
  <2>2. CASE s # {}
    <3>1. Max(s) \in 1 .. n /\ s \ {Max(s)} \in D
      BY <1>1, <2>2, GreatestIs
    <3>2. f[s \ {Max(s)}] \in W
      BY <1>6, <3>1
    <3>3. step[<<f[s \ {Max(s)}], Max(s)>>] = AddMember(f[s \ {Max(s)}], sources[Max(s)])
      BY <3>1, <3>2
    <3> HIDE DEF step
    <3>4. QED
      BY <1>6, <2>2, <3>3
  <2>3. QED
    BY <2>1, <2>2
<1>8. f = [s \in SUBSET DOMAIN sources |->
             IF s = {} THEN [total |-> 0, files |-> {}, issues |-> {}, failed |-> FALSE]
             ELSE AddMember(f[s \ {Max(s)}], sources[Max(s)])]
  <2>1. f = [s \in D |-> f[s]]
    BY <1>6
  <2>2. [s \in D |-> f[s]] = [s \in D |-> IF s = {} THEN base ELSE AddMember(f[s \ {Max(s)}], sources[Max(s)])]
    BY <1>7, Zenon
  <2>3. QED
    BY <1>1, <2>1, <2>2, Zenon DEF base, NewWriter
<1>9. iter = [s \in SUBSET DOMAIN sources |->
                IF s = {} THEN [total |-> 0, files |-> {}, issues |-> {}, failed |-> FALSE]
                ELSE AddMember(iter[s \ {Max(s)}], sources[Max(s)])]
  BY <1>8
<1>10. Written(sources) = iter[1 .. n]
  BY <1>1 DEF Written, FoldLeft, MapThenFoldSet
<1> HIDE DEF iter, step
<1>11. iter[1 .. 0] = base
  <2>1. 1 .. 0 = {} /\ {} \in SUBSET DOMAIN sources
    OBVIOUS
  <2>2. QED
    BY <1>9, <2>1 DEF base, NewWriter
<1>12. ASSUME NEW k \in 1 .. n PROVE iter[1 .. k] = AddMember(iter[1 .. k - 1], sources[k])
  <2>1. Max(1 .. k) = k /\ (1 .. k) \ {k} = 1 .. k - 1
    BY <1>1, GreatestOfInterval
  <2>2. (\A i \in 1 .. k : i \in 1 .. n) /\ 1 \in 1 .. k
    BY <1>1
  <2>3. 1 .. k \in SUBSET DOMAIN sources
    BY <1>1, <2>2
  <2>4. QED
    BY <1>9, <2>1, <2>2, <2>3
<1> DEFINE T == {i \in 0 .. n : iter[1 .. i] \in W}
<1>13. \A k \in 0 .. n : k \in T
  <2>1. 0 \in T
    BY <1>1, <1>2, <1>11
  <2>2. ASSUME NEW k \in 0 .. n - 1, k \in T PROVE k + 1 \in T
    <3>1. k + 1 \in 1 .. n /\ k + 1 \in 0 .. n /\ (k + 1) - 1 = k
      BY <1>1
    <3>2. iter[1 .. k + 1] = AddMember(iter[1 .. k], sources[k + 1])
      BY <1>12, <3>1
    <3>3. QED
      BY <1>3, <2>2, <3>1, <3>2
  <2> HIDE DEF T
  <2>3. QED
    BY <1>1, <2>1, <2>2, Upward
<1>14. g \in [0 .. n -> W] /\ g[0] = base /\ g[n] = Written(sources)
  BY <1>1, <1>10, <1>11, <1>13
<1>15. \A k \in 1 .. n : g[k] = AddMember(g[k - 1], sources[k])
  <2>1. \A k \in 1 .. n : g[k] = iter[1 .. k] /\ g[k - 1] = iter[1 .. k - 1]
    BY <1>1
  <2>2. QED
    BY <1>12, <2>1
<1> HIDE DEF g
<1>16. QED
  BY <1>14, <1>15 DEF PartialWriters, base, W, F

\* The writer's books are right after all of its files.
LEMMA WriterIsRight ==
  ASSUME NEW N, NEW B, NEW sources \in Seq(FilesOver(N, B)),
         NEW seen, seen = {sources[i] : i \in 1 .. Len(sources)}
  PROVE  /\ Written(sources) \in Writers(FilesOver(N, B))
         /\ WriterInv(Written(sources), FilesOver(N, B), seen)
         /\ \A T : AddsBytes(T, seen) => Written(sources).total = T[Written(sources).files]
<1> DEFINE F == FilesOver(N, B)
           n == Len(sources)
           upto(k) == {sources[i] : i \in 1 .. k}
<1>1. n \in Nat /\ \A i \in 1 .. n : sources[i] \in F
  OBVIOUS
<1>2. PICK g : PartialWriters(g, sources, F) /\ Written(sources) = g[n]
  BY WrittenIs
<1> HIDE DEF F, n
<1>3. g \in [0 .. n -> Writers(F)] /\ g[0] = NewWriter /\ \A k \in 1 .. n : g[k] = AddMember(g[k - 1], sources[k])
  BY <1>2 DEF PartialWriters, n
<1>4. NewWriter.total = 0 /\ NewWriter.files = {}
  BY DEF NewWriter
<1>5. ASSUME NEW k \in 0 .. n - 1
      PROVE  /\ k + 1 \in 1 .. n /\ k + 1 \in 0 .. n /\ g[k] \in Writers(F) /\ sources[k + 1] \in F
             /\ g[k + 1] = AddMember(g[k], sources[k + 1]) /\ upto(k + 1) = upto(k) \cup {sources[k + 1]}
  <2>1. k + 1 \in 1 .. n /\ k + 1 \in 0 .. n /\ k \in 0 .. n /\ (k + 1) - 1 = k
    BY <1>1
  <2>2. g[k] \in Writers(F) /\ sources[k + 1] \in F /\ g[k + 1] = AddMember(g[k], sources[k + 1])
    BY <1>1, <1>3, <2>1
  <2>3. upto(k + 1) = upto(k) \cup {sources[k + 1]}
    BY <2>1
  <2>4. QED
    BY <2>1, <2>2, <2>3
<1> DEFINE K == {k \in 0 .. n : WriterInv(g[k], F, upto(k))}
<1>6. \A k \in 0 .. n : k \in K
  <2>1. 0 \in K
    <3>1. upto(0) = {} /\ 0 \in 0 .. n /\ PayloadMax \in Nat
      BY <1>1, BundleFileAssumption
    <3> HIDE DEF upto
    <3>2. WriterInv(NewWriter, F, {})
      BY <1>4, <3>1 DEF WriterInv
    <3>3. QED
      BY <1>3, <3>1, <3>2
  <2>2. ASSUME NEW k \in 0 .. n - 1, k \in K PROVE k + 1 \in K
    <3> HIDE DEF upto
    <3>1. WriterInv(g[k], F, upto(k))
      BY <2>2
    <3>2. WriterInv(AddMember(g[k], sources[k + 1]), F, upto(k) \cup {sources[k + 1]})
      BY <1>5, <3>1, AddingKeeps DEF F
    <3>3. QED
      BY <1>5, <3>2
  <2> HIDE DEF K
  <2>3. QED
    BY <1>1, <2>1, <2>2, Upward
<1>7. upto(n) = seen
  BY DEF n
<1>8. ASSUME NEW T, AddsBytes(T, seen)
      PROVE  g[n].total = T[g[n].files]
  <2> DEFINE L == {k \in 0 .. n : g[k].total = T[g[k].files]}
  <2>1. 0 \in L
    <3>1. T[{}] = 0 /\ g[0].total = 0 /\ g[0].files = {} /\ 0 \in 0 .. n
      BY <1>1, <1>3, <1>4, <1>8 DEF AddsBytes
    <3>2. QED
      BY <3>1
  <2>2. ASSUME NEW k \in 0 .. n - 1, k \in L PROVE k + 1 \in L
    <3>1. g[k].files \subseteq seen /\ sources[k + 1] \in seen
      <4>1. k \in 0 .. n /\ k + 1 \in 1 .. n
        BY <1>1
      <4>2. g[k].files \subseteq upto(k)
        BY <1>6, <4>1 DEF WriterInv
      <4>3. upto(k) \subseteq seen /\ sources[k + 1] \in seen
        BY <1>1, <4>1 DEF n
      <4>4. QED
        BY <4>2, <4>3
    <3>2. g[k].total = T[g[k].files]
      BY <2>2
    <3> HIDE DEF upto
    <3>3. g[k] \in Writers(FilesOver(N, B)) /\ sources[k + 1] \in FilesOver(N, B)
      BY <1>5 DEF F
    <3> DEFINE w == g[k]
               s == sources[k + 1]
    <3>4. IsCounted(w, s, T, seen)
      BY <1>8, <3>1, <3>2 DEF IsCounted
    <3>5. w \in Writers(FilesOver(N, B)) /\ s \in FilesOver(N, B)
      BY <3>3
    <3>6. g[k + 1] = AddMember(w, s) /\ k + 1 \in 0 .. n
      BY <1>5
    <3> HIDE DEF w, s
    <3>7. AddMember(w, s).total = T[AddMember(w, s).files]
      <4> HIDE DEF K, L
      <4>1. QED
        BY <3>4, <3>5, AddingCounts
    <3>8. QED
      BY <3>6, <3>7
  <2> HIDE DEF L
  <2>3. \A k \in 0 .. n : k \in L
    BY <1>1, <2>1, <2>2, Upward
  <2>4. n \in L
    BY <1>1, <2>3
  <2>5. QED
    BY <2>4 DEF L
<1>9. g[n] \in Writers(F) /\ WriterInv(g[n], F, seen)
  <2>1. n \in 0 .. n
    BY <1>1
  <2> HIDE DEF upto
  <2>2. QED
    BY <1>3, <1>6, <1>7, <2>1
<1>10. QED
  BY <1>2, <1>8, <1>9 DEF F

\* What the model values stand for: an exception is no set of files; and the name
\* of the manifest is safe.
BundleValues ==
  /\ \A n, b, c : [name |-> n, bytes |-> b, body |-> c] \notin RejectedBundle
  /\ Manifest \notin UnsafeNames

\* The member that a file becomes.
AsMember(f) == [name |-> f.name, plain |-> TRUE, bytes |-> f.bytes, body |-> f.body]

\* The manifest, all members of an archive, and that a name stands for one.
ManifestOf(files) == [name |-> Manifest, plain |-> TRUE, bytes |-> Cardinality(files), body |-> Manifest]
MembersOf(files) == {AsMember(f) : f \in files} \cup {ManifestOf(files)}
OnePerName(S) == \A x, y \in S : x.name = y.name => x = y

\* What a member says of its file.
LEMMA MemberParts ==
  \A f : /\ AsMember(f).name = f.name /\ AsMember(f).plain
         /\ AsMember(f).bytes = f.bytes /\ AsMember(f).body = f.body
  BY DEF AsMember

\* The members cost what the files cost and one unit for each.
CostsMore(files) ==
  \A U : AddsBytes(U, MembersOf(files)) => \E T : AddsBytes(T, files) /\ U[MembersOf(files)] = T[files] + Cardinality(files)

\* The members of an archive, their number and their bytes.
LEMMA ArchiveIs ==
  ASSUME NEW N, NEW B, Manifest \notin N,
         NEW files \in SUBSET FilesOver(N, B), IsFiniteSet(files), OnePerName(files)
  PROVE  /\ Archive(files).members = SetToSeq(MembersOf(files)) /\ Archive(files).listed = SetToSeq(files)
         /\ IsFiniteSet(MembersOf(files)) /\ Cardinality(MembersOf(files)) <= Cardinality(files) + 1
         /\ OnePerName(MembersOf(files))
         /\ \A x \in MembersOf(files) : x.bytes \in Nat /\ x.plain
         /\ CostsMore(files)
<1> DEFINE S == {AsMember(f) : f \in files}
           n == Cardinality(files)
           M == MembersOf(files)
           manifest == ManifestOf(files)
<1>1. n \in Nat
  BY FS_CardinalityType
<1>2. manifest.name = Manifest /\ manifest.plain /\ manifest.bytes = n /\ manifest.body = Manifest
  BY DEF ManifestOf
<1>3. M = S \cup {manifest}
  BY DEF MembersOf
<1>4. \A f \in files : f.name \in N /\ f.bytes \in Nat /\ f.name # Manifest
  BY DEF FilesOver
<1>5. Archive(files).members = SetToSeq(M) /\ Archive(files).listed = SetToSeq(files)
  <2>1. M = {[name |-> f.name, plain |-> TRUE, bytes |-> f.bytes, body |-> f.body] : f \in files}
              \cup {[name |-> Manifest, plain |-> TRUE, bytes |-> Cardinality(files), body |-> Manifest]}
    BY DEF AsMember, MembersOf, ManifestOf
  <2>2. QED
    BY <2>1 DEF Archive
<1> HIDE DEF n, M, manifest
<1>6. IsFiniteSet(S) /\ Cardinality(S) <= n
  <2> DEFINE h == [f \in files |-> AsMember(f)]
  <2>1. h \in Surjection(files, S)
    BY DEF Surjection
  <2> HIDE DEF h, S
  <2>2. QED
    BY <2>1, FS_Surjection DEF n
<1>7. IsFiniteSet(M) /\ Cardinality(M) <= n + 1
  <2>1. M = S \cup {manifest} /\ Cardinality(S) \in Nat
    BY <1>3, <1>6, FS_CardinalityType
  <2> HIDE DEF S
  <2>2. IsFiniteSet(S \cup {manifest})
        /\ Cardinality(S \cup {manifest}) = IF manifest \in S THEN Cardinality(S) ELSE Cardinality(S) + 1
    BY <1>6, FS_AddElement
  <2>3. Cardinality(S \cup {manifest}) <= n + 1
    BY <1>1, <1>6, <2>1, <2>2
  <2>4. QED
    BY <2>1, <2>2, <2>3
<1>8. ASSUME NEW x \in M, NEW y \in M, x.name = y.name PROVE x = y
  <2>1. CASE x = manifest /\ y = manifest
    BY <2>1
  <2>2. ASSUME NEW f \in files, x = AsMember(f) PROVE x = y
    <3>1. x.name = f.name /\ x.name # Manifest
      BY <1>4, <2>2, MemberParts
    <3>2. PICK g \in files : y = AsMember(g)
      BY <1>2, <1>3, <1>8, <3>1
    <3>3. g.name = f.name
      BY <1>8, <3>1, <3>2, MemberParts
    <3>4. QED
      BY <2>2, <3>2, <3>3 DEF OnePerName
  <2>3. CASE x = manifest /\ y # manifest
    <3>1. PICK g \in files : y = AsMember(g)
      BY <1>3, <2>3
    <3>2. y.name # Manifest
      BY <1>4, <3>1, MemberParts
    <3>3. QED
      BY <1>2, <1>8, <2>3, <3>2
  <2>4. QED
    BY <1>3, <2>1, <2>2, <2>3
<1>9. \A x \in M : x.bytes \in Nat /\ x.plain
  BY <1>1, <1>2, <1>3, <1>4, MemberParts
<1>10. ASSUME NEW U, AddsBytes(U, M)
      PROVE  \E T : AddsBytes(T, files) /\ U[M] = T[files] + n
  <2> DEFINE image(t) == {AsMember(f) : f \in t}
             T == [t \in SUBSET files |-> U[image(t)]]
  <2>1. U \in [SUBSET M -> Nat] /\ U[{}] = 0
        /\ \A s \in SUBSET M : \A x \in M \ s : U[s \cup {x}] = U[s] + x.bytes
    BY <1>10 DEF AddsBytes
  <2>2. \A t \in SUBSET files : image(t) \in SUBSET M
    BY <1>3
  <2>3. T \in [SUBSET files -> Nat] /\ \A t \in SUBSET files : T[t] = U[image(t)]
    <3> HIDE DEF image
    <3>1. QED
      BY <2>1, <2>2
  <2>4. T[{}] = 0
    <3>1. image({}) = {}
      OBVIOUS
    <3> HIDE DEF image, T
    <3>2. QED
      BY <2>1, <2>3, <3>1
  <2>5. ASSUME NEW t \in SUBSET files, NEW f \in files \ t PROVE T[t \cup {f}] = T[t] + f.bytes
    <3>1. t \cup {f} \in SUBSET files /\ image(t \cup {f}) = image(t) \cup {AsMember(f)}
      OBVIOUS
    <3>2. AsMember(f) \in M \ image(t)
      <4>1. ASSUME AsMember(f) \in image(t) PROVE FALSE
        <5>1. PICK g \in t : AsMember(g) = AsMember(f)
          BY <4>1
        <5>2. g.name = f.name /\ g \in files /\ f \in files
          BY <5>1, MemberParts
        <5>3. g = f
          BY <5>2 DEF OnePerName
        <5>4. QED
          BY <5>3
      <4>2. QED
        BY <1>3, <4>1
    <3> HIDE DEF image, T
    <3>3. U[image(t) \cup {AsMember(f)}] = U[image(t)] + AsMember(f).bytes
      BY <2>1, <2>2, <3>2
    <3>4. QED
      BY <2>3, <3>1, <3>3, MemberParts
  <2>6. U[M] = T[files] + n
    <3>1. M = image(files) \cup {manifest} /\ files \in SUBSET files
      BY <1>3
    <3>2. manifest \in M \ image(files)
      <4>1. \A x \in image(files) : x.name # Manifest
        BY <1>4, MemberParts
      <4>2. QED
        BY <1>2, <1>3, <4>1
    <3> HIDE DEF image, T
    <3>3. U[image(files) \cup {manifest}] = U[image(files)] + manifest.bytes
      BY <2>1, <2>2, <3>1, <3>2
    <3>4. QED
      BY <1>2, <2>3, <3>1, <3>3
  <2>7. AddsBytes(T, files)
    <3> HIDE DEF T
    <3>1. QED
      BY <2>3, <2>4, <2>5 DEF AddsBytes
  <2>8. QED
    BY <2>6, <2>7
<1>11. QED
  <2>1. OnePerName(M)
    BY <1>8 DEF OnePerName
  <2>2. CostsMore(files)
    BY <1>10 DEF CostsMore, M, n
  <2>3. QED
    BY <1>5, <1>7, <1>9, <2>1, <2>2 DEF M, n

\* A set of files with one of each name, written in some order.
LEMMA NamesInOrder ==
  ASSUME NEW S, IsFiniteSet(S), OnePerName(S)
  PROVE  OneOfEachName(SetToSeq(S)) /\ {SetToSeq(S)[i] : i \in DOMAIN SetToSeq(S)} = S
<1> DEFINE s == SetToSeq(S)
           n == Cardinality(S)
<1>1. /\ s \in Seq(S) /\ DOMAIN s = 1 .. n /\ Len(s) = n
      /\ \A i, j \in 1 .. n : s[i] = s[j] => i = j
      /\ \A x \in S : \E i \in 1 .. n : s[i] = x
  BY Enumerates
<1>2. \A i \in 1 .. n : s[i] \in S
  BY <1>1
<1> HIDE DEF s, n
<1>3. OneOfEachName(s)
  BY <1>1, <1>2 DEF OneOfEachName, OnePerName
<1>4. {s[i] : i \in DOMAIN s} = S
  BY <1>1, <1>2
<1>5. QED
  BY <1>3, <1>4 DEF s

\* What was added can be read, or the bundle says that it was left out, or a
\* member of more than 16 MiB, and nothing else, makes the reader refuse it.
THEOREM BundlesAreRead ==
  ASSUME BundleValues, NEW N, NEW B, Manifest \notin N, N \cap UnsafeNames = {},
         NEW sources \in Seq(FilesOver(N, B)), Len(sources) < MembersMax, Len(sources) <= MemberMax
  PROVE  PublishedIsRead(sources)
<1> DEFINE F == FilesOver(N, B)
           w == Written(sources)
           files == w.files
           seen == {sources[i] : i \in 1 .. Len(sources)}
           n == Cardinality(files)
           manifest == ManifestOf(files)
           M == MembersOf(files)
           members == SetToSeq(M)
           listed == SetToSeq(files)
           contents == ReadBundle(Archive(files))
<1>1. /\ w \in Writers(F) /\ WriterInv(w, F, seen)
      /\ \A T : AddsBytes(T, seen) => w.total = T[files]
  BY WriterIsRight
<1>2. /\ w.total \in Nat /\ w.total <= PayloadMax /\ files \subseteq seen /\ files \in SUBSET F
      /\ OnePerName(files)
      /\ w.failed \/ \A s \in seen : s \in files \/ s.name \in w.issues
  BY <1>1 DEF WriterInv, Writers, OnePerName
<1>3. Len(sources) \in Nat /\ DOMAIN sources = 1 .. Len(sources) /\ \A i \in 1 .. Len(sources) : sources[i] \in F
  OBVIOUS
<1>4. IsFiniteSet(seen) /\ Cardinality(seen) <= Len(sources)
  <2>1. IsFiniteSet(1 .. Len(sources)) /\ Cardinality(1 .. Len(sources)) = Len(sources)
    <3> DEFINE l == Len(sources)
    <3>1. l \in Nat
      BY <1>3
    <3> HIDE DEF l
    <3>2. IsFiniteSet(1 .. l) /\ Cardinality(1 .. l) = l
      BY <3>1, FS_Interval
    <3>3. QED
      BY <3>2 DEF l
  <2> DEFINE h == [i \in 1 .. Len(sources) |-> sources[i]]
  <2>2. h \in Surjection(1 .. Len(sources), seen)
    BY DEF Surjection
  <2> HIDE DEF h, seen
  <2>3. QED
    BY <2>1, <2>2, FS_Surjection
<1> HIDE DEF w, seen
<1>5. IsFiniteSet(files) /\ n \in Nat /\ n <= Len(sources)
  <2>1. IsFiniteSet(files) /\ Cardinality(files) <= Cardinality(seen)
    BY <1>2, <1>4, FS_Subset
  <2>2. n \in Nat /\ Cardinality(seen) \in Nat
    BY <1>4, <2>1, FS_CardinalityType
  <2>3. QED
    BY <1>3, <1>4, <2>1, <2>2
<1>6. \A f \in F : f.name \in N /\ f.bytes \in Nat /\ f = [name |-> f.name, bytes |-> f.bytes, body |-> f.body]
  BY DEF FilesOver
<1>7. manifest.name = Manifest /\ manifest.plain /\ manifest.bytes = n /\ manifest.body = Manifest
  BY DEF ManifestOf
<1> HIDE DEF F, files, n, manifest, M, members, listed, contents
<1>8. /\ Archive(files).members = members /\ Archive(files).listed = listed
      /\ IsFiniteSet(M) /\ Cardinality(M) <= n + 1 /\ OnePerName(M)
      /\ \A x \in M : x.bytes \in Nat /\ x.plain
      /\ CostsMore(files)
  <2>1. files \in SUBSET FilesOver(N, B)
    BY <1>2 DEF F
  <2>2. QED
    BY <1>2, <1>5, <2>1, ArchiveIs DEF M, n, members, listed
<1>9. \A s \in ToSet(sources) : w.failed \/ s \in files \/ s.name \in w.issues
  BY <1>2, <1>3 DEF seen, ToSet
<1>10. /\ MembersMax \in Nat /\ MemberMax \in Nat /\ ExpandedMax \in Nat /\ PayloadMax \in Nat
       /\ PayloadMax + MembersMax <= ExpandedMax
  BY BundleFileAssumption
\* The counted bytes are those of the files alone.
<1>11. ASSUME NEW T, AddsBytes(T, files) PROVE w.total = T[files]
  <2>1. PICK V : AddsBytes(V, seen)
    <3>1. \A x \in seen : x.bytes \in Nat
      BY <1>3, <1>6 DEF seen
    <3>2. QED
      BY <1>4, <3>1, BytesAdd
  <2>2. w.total = V[files]
    BY <1>1, <2>1 DEF files
  <2> DEFINE e == SetToSeq(files)
             upto(k) == {e[i] : i \in 1 .. k}
             K == {k \in 0 .. n : V[upto(k)] = T[upto(k)]}
  <2>3. /\ n \in Nat /\ \A i \in 1 .. n : e[i] \in files
        /\ \A i, j \in 1 .. n : e[i] = e[j] => i = j
        /\ \A x \in files : \E i \in 1 .. n : e[i] = x
    <3>1. /\ e \in Seq(files) /\ Len(e) = n
          /\ \A i, j \in 1 .. n : e[i] = e[j] => i = j
          /\ \A x \in files : \E i \in 1 .. n : e[i] = x
      BY <1>5, Enumerates DEF n
    <3>2. \A i \in 1 .. n : e[i] \in files
      BY <3>1
    <3>3. QED
      BY <1>5, <3>1, <3>2
  <2> HIDE DEF e
  <2>4. 0 \in K
    <3>1. upto(0) = {} /\ 0 \in 0 .. n
      BY <2>3
    <3> HIDE DEF upto
    <3>2. QED
      BY <1>11, <2>1, <3>1 DEF AddsBytes
  <2>5. ASSUME NEW k \in 0 .. n - 1, k \in K PROVE k + 1 \in K
    <3>1. k + 1 \in 1 .. n /\ k + 1 \in 0 .. n /\ k \in Nat
      BY <2>3
    <3>2. upto(k) \in SUBSET files /\ e[k + 1] \in files \ upto(k) /\ upto(k + 1) = upto(k) \cup {e[k + 1]}
      <4>1. \A i \in 1 .. k : i \in 1 .. n /\ i # k + 1
        BY <2>3, <3>1
      <4>2. \A i \in 1 .. k + 1 : i \in 1 .. k \/ i = k + 1
        BY <3>1
      <4>3. \A i \in 1 .. k : i \in 1 .. k + 1
        BY <3>1
      <4>4. k + 1 \in 1 .. k + 1
        BY <3>1
      <4>5. QED
        BY <2>3, <3>1, <4>1, <4>2, <4>3, <4>4
    <3> HIDE DEF upto
    <3>3. upto(k) \in SUBSET seen /\ e[k + 1] \in seen \ upto(k)
      BY <1>2, <3>2
    <3>4. T[upto(k + 1)] = T[upto(k)] + e[k + 1].bytes
      BY <1>11, <3>2 DEF AddsBytes
    <3>5. V[upto(k + 1)] = V[upto(k)] + e[k + 1].bytes
      BY <2>1, <3>2, <3>3 DEF AddsBytes
    <3>6. QED
      BY <2>5, <3>1, <3>4, <3>5
  <2>6. n \in K
    <3> HIDE DEF K
    <3>1. \A k \in 0 .. n : k \in K
      BY <2>3, <2>4, <2>5, Upward
    <3>2. QED
      BY <2>3, <3>1
  <2>7. upto(n) = files
    BY <2>3
  <2>8. QED
    BY <2>2, <2>6, <2>7
<1>12. TotalBytes(members) <= ExpandedMax
  <2>1. PICK U : AddsBytes(U, M)
    BY <1>8, BytesAdd
  <2>2. TotalBytes(members) = U[M]
    BY <1>8, <2>1, TotalOfSet DEF members
  <2>3. U[M] = w.total + n
    BY <1>8, <1>11, <2>1 DEF CostsMore, n, M
  <2>4. QED
    BY <1>2, <1>3, <1>5, <1>10, <2>2, <2>3
<1>13. /\ OneOfEachName(members) /\ {members[i] : i \in DOMAIN members} = M
       /\ OneOfEachName(listed) /\ {listed[i] : i \in DOMAIN listed} = files
  BY <1>2, <1>5, <1>8, NamesInOrder DEF members, listed
<1>14. \A x \in M : x = manifest \/ \E f \in files : x = AsMember(f)
  BY DEF M, MembersOf, manifest
<1>15. manifest \in M /\ \A f \in files : AsMember(f) \in M
  BY DEF M, MembersOf, manifest
<1>16. ASSUME \A f \in files : ~(f.bytes > MemberMax) PROVE SafeMembers(members)
  <2>1. \A f \in files : f.bytes <= MemberMax
    BY <1>2, <1>6, <1>10, <1>16
  <2>2. manifest.bytes <= MemberMax
    BY <1>3, <1>5, <1>7, <1>10
  <2>3. \A x \in M : x.plain /\ x.name \notin UnsafeNames /\ x.bytes <= MemberMax
    <3>1. \A f \in files : f.name \in N
      BY <1>2, <1>6
    <3>2. QED
      BY <1>7, <1>14, <2>1, <2>2, <3>1, MemberParts DEF BundleValues
  <2>4. \A i \in DOMAIN members : members[i] \in M
    BY <1>13
  <2>5. Len(members) <= MembersMax
    <3>1. Len(members) = Cardinality(M) /\ Cardinality(M) \in Nat
      BY <1>8, Enumerates DEF members
    <3>2. QED
      BY <1>3, <1>5, <1>8, <1>10, <3>1
  <2>6. QED
    BY <1>12, <1>13, <2>3, <2>4, <2>5 DEF SafeMembers
<1>17. Manifest \in {members[i].name : i \in DOMAIN members}
  BY <1>7, <1>13, <1>15
<1>18. \A f \in files : f.name # Manifest
  BY <1>2, <1>6
<1>19. ListsAll([members |-> members, listed |-> listed])
  <2> DEFINE a == [members |-> members, listed |-> listed]
  <2>1. a.members = members /\ a.listed = listed
    OBVIOUS
  <2> HIDE DEF a
  <2>2. \A i \in DOMAIN listed : listed[i] \in files
    BY <1>13
  <2>3. \A x : x \in {listed[i].name : i \in DOMAIN listed} <=> \E f \in files : x = f.name
    BY <1>13
  <2>4. \A x : x \in {members[i].name : i \in DOMAIN members} <=> \E y \in M : x = y.name
    <3>1. \A i \in DOMAIN members : members[i] \in M
      BY <1>13
    <3>2. \A y \in M : \E i \in DOMAIN members : members[i] = y
      BY <1>13
    <3>3. QED
      BY <3>1, <3>2
  <2>5. \A x : x \in MemberNames(members) <=> \E f \in files : x = f.name
    <3>1. \A x : x \in MemberNames(members) <=> x # Manifest /\ \E y \in M : x = y.name
      BY <2>4 DEF MemberNames
    <3>2. \A x : x # Manifest /\ (\E y \in M : x = y.name) => \E f \in files : x = f.name
      BY <1>7, <1>14, MemberParts
    <3>3. \A f \in files : f.name # Manifest /\ AsMember(f) \in M /\ f.name = AsMember(f).name
      BY <1>15, <1>18, MemberParts
    <3>4. QED
      BY <3>1, <3>2, <3>3
  <2>6. QED
    BY <1>18, <2>1, <2>2, <2>3, <2>5 DEF ListsAll, a
<1>20. \A i \in DOMAIN listed : IsMember(members, listed[i])
  <2> SUFFICES ASSUME NEW i \in DOMAIN listed PROVE IsMember(members, listed[i])
    OBVIOUS
  <2>1. listed[i] \in files
    BY <1>13
  <2>2. AsMember(listed[i]) \in M
    BY <1>15, <2>1
  <2>3. PICK j \in DOMAIN members : members[j] = AsMember(listed[i])
    BY <1>13, <2>2
  <2>4. QED
    BY <2>3, MemberParts DEF IsMember
<1> DEFINE entry(m) == [name |-> m.name, bytes |-> m.bytes, body |-> m.body]
           entries == {entry(m) : m \in M}
<1>21. ASSUME \A f \in files : ~(f.bytes > MemberMax)
       PROVE  contents # RejectedBundle /\ {c \in contents : c.name # Manifest} = files
  <2>1. contents = entries
    <3> DEFINE a == [members |-> members, listed |-> listed]
    <3>1. a.members = members /\ a.listed = listed /\ ListsAll(a)
      BY <1>19
    <3>2. Archive(files) = a
      BY <1>8 DEF Archive
    <3>3. SafeMembers(members)
      BY <1>16, <1>21
    <3> HIDE DEF a
    <3>4. ReadBundle(a) = {[name |-> m.name, bytes |-> m.bytes, body |-> m.body] : m \in M}
      BY <1>13, <1>17, <1>20, <3>1, <3>3 DEF ReadBundle
    <3>5. QED
      BY <3>2, <3>4 DEF contents
  <2>2. \A m : entry(m).name = m.name
    OBVIOUS
  <2>3. entry(manifest) \in contents /\ entry(manifest) \notin RejectedBundle
    BY <1>15, <2>1 DEF BundleValues
  <2>4. contents # RejectedBundle
    <3> HIDE DEF entry
    <3>1. QED
      BY <2>3
  <2>5. \A f \in files : entry(AsMember(f)) = f
    BY <1>2, <1>6, MemberParts
  <2> HIDE DEF entry
  <2>6. \A c \in contents : c.name # Manifest => c \in files
    BY <1>7, <1>14, <2>1, <2>2, <2>5
  <2>7. \A f \in files : f \in contents /\ f.name # Manifest
    BY <1>15, <1>18, <2>1, <2>5
  <2>8. QED
    BY <2>4, <2>6, <2>7
<1>22. ASSUME NEW f \in files, f.bytes > MemberMax
       PROVE  contents = RejectedBundle
  <2> DEFINE a == [members |-> members, listed |-> listed]
  <2>1. a.members = members /\ Archive(files) = a
    BY <1>8 DEF Archive
  <2>2. PICK i \in DOMAIN members : members[i] = AsMember(f)
    BY <1>13, <1>15
  <2>3. members[i].bytes = f.bytes /\ f.bytes \in Nat
    BY <1>2, <1>6, <2>2, MemberParts
  <2>4. ~(members[i].bytes <= MemberMax)
    BY <1>10, <1>22, <2>3
  <2>5. ~SafeMembers(members)
    BY <2>4 DEF SafeMembers
  <2> HIDE DEF a
  <2>6. ReadBundle(a) = RejectedBundle
    BY <2>1, <2>5 DEF ReadBundle
  <2>7. QED
    BY <2>1, <2>6 DEF contents
<1>23. QED
  BY <1>9, <1>21, <1>22 DEF PublishedIsRead, contents, files, w

-----------------------------------------------------------------------------
(* The rates of host_trends().                                              *)

\* Whatever a host goes through between two samples, which are some time apart,
\* and what a sample says of it.
HostHistory == [seconds : Nat \ {0}, jump : Int, bytes : Nat, reboot : BOOLEAN, reset : BOOLEAN]
HostSamples == [at : Int, real : Nat, sent : Nat, boot : Nat, mono : Nat, counter : Nat]

\* The samples before and after each of the events.
PartialSamples(g, events) ==
  /\ g \in [0 .. Len(events) -> Seq(HostSamples) \ {<<>>}] /\ g[0] = <<FirstSample>>
  /\ \A k \in 1 .. Len(events) : g[k] = AddSample(g[k - 1], events[k])

\* The last sample and the next event make a sample.
LEMMA StepIsSample ==
  ASSUME NEW s \in HostSamples, NEW e \in HostHistory
  PROVE  /\ HostStep(s, e) \in HostSamples
         /\ HostStep(s, e).real = s.real + e.seconds
         /\ HostStep(s, e).at = s.at + e.seconds + e.jump
         /\ HostStep(s, e).sent = s.sent + e.bytes
         /\ HostStep(s, e).boot = IF e.reboot THEN s.boot + 1 ELSE s.boot
         /\ HostStep(s, e).mono = IF e.reboot THEN e.seconds ELSE s.mono + e.seconds
         /\ HostStep(s, e).counter = IF e.reboot \/ e.reset THEN e.bytes ELSE s.counter + e.bytes
<1>1. s.at \in Int /\ s.real \in Nat /\ s.sent \in Nat /\ s.boot \in Nat /\ s.mono \in Nat /\ s.counter \in Nat
  BY DEF HostSamples
<1>2. e.seconds \in Nat /\ e.jump \in Int /\ e.bytes \in Nat
  BY DEF HostHistory
<1>3. HostStep(s, e) \in HostSamples
  BY <1>1, <1>2 DEF HostStep, HostSamples
<1>4. QED
  BY <1>3 DEF HostStep

\* A sample is added at the end.
LEMMA SampleIsAdded ==
  ASSUME NEW s \in Seq(HostSamples) \ {<<>>}, NEW e \in HostHistory
  PROVE  /\ AddSample(s, e) \in Seq(HostSamples) \ {<<>>}
         /\ Len(AddSample(s, e)) = Len(s) + 1
         /\ \A i \in 1 .. Len(s) : AddSample(s, e)[i] = s[i]
         /\ AddSample(s, e)[Len(s) + 1] = HostStep(s[Len(s)], e)
<1>1. s[Len(s)] \in HostSamples
  OBVIOUS
<1> DEFINE t == HostStep(s[Len(s)], e)
<1>2. t \in HostSamples
  BY <1>1, StepIsSample
<1>3. AddSample(s, e) = Append(s, t)
  BY DEF AddSample
<1> HIDE DEF t
<1>4. /\ Append(s, t) \in Seq(HostSamples) /\ Len(Append(s, t)) = Len(s) + 1
      /\ \A i \in 1 .. Len(s) : Append(s, t)[i] = s[i]
      /\ Append(s, t)[Len(s) + 1] = t
  BY <1>2
<1>5. Append(s, t) # <<>>
  BY <1>4
<1>6. QED
  BY <1>3, <1>4, <1>5 DEF t

\* Samples are taken one by one.
LEMMA SamplesAreTaken ==
  ASSUME NEW events \in Seq(HostHistory)
  PROVE  \E g : PartialSamples(g, events) /\ Samples(events) = g[Len(events)]
<1> DEFINE n == Len(events)
           W == Seq(HostSamples) \ {<<>>}
           base == <<FirstSample>>
           step == [p \in W \X (1 .. n) |-> AddSample(p[1], events[p[2]])]
           D == SUBSET (1 .. n)
           iter[s \in SUBSET DOMAIN events] ==
             IF s = {} THEN <<FirstSample>> ELSE AddSample(iter[s \ {Max(s)}], events[Max(s)])
           g == [k \in 0 .. n |-> iter[1 .. k]]
<1>1. n \in Nat /\ DOMAIN events = 1 .. n /\ \A i \in 1 .. n : events[i] \in HostHistory
  OBVIOUS
<1>2. base \in W
  BY DEF FirstSample, HostSamples
<1>3. \A w \in W : \A i \in 1 .. n : AddSample(w, events[i]) \in W
  BY <1>1, SampleIsAdded
<1> HIDE DEF W, base
<1>4. step \in FoldSteps(W, n)
  BY <1>3 DEF FoldSteps
<1>5. PICK f : IsFold(f, W, n, step, base)
  <2> HIDE DEF step
  <2>1. QED
    BY <1>1, <1>2, <1>4, FoldExists
<1>6. f \in [D -> W] /\ \A s \in D : f[s] = IF s = {} THEN base ELSE step[<<f[s \ {Max(s)}], Max(s)>>]
  BY <1>5 DEF IsFold
<1>7. ASSUME NEW s \in D
      PROVE  f[s] = IF s = {} THEN base ELSE AddSample(f[s \ {Max(s)}], events[Max(s)])
  <2>1. CASE s = {}
    BY <1>6, <2>1
  <2>2. CASE s # {}
    <3>1. Max(s) \in 1 .. n /\ s \ {Max(s)} \in D
      BY <1>1, <2>2, GreatestIs
    <3>2. f[s \ {Max(s)}] \in W
      BY <1>6, <3>1
    <3>3. step[<<f[s \ {Max(s)}], Max(s)>>] = AddSample(f[s \ {Max(s)}], events[Max(s)])
      BY <3>1, <3>2
    <3> HIDE DEF step
    <3>4. QED
      BY <1>6, <2>2, <3>3
  <2>3. QED
    BY <2>1, <2>2
<1>8. f = [s \in SUBSET DOMAIN events |->
             IF s = {} THEN <<FirstSample>> ELSE AddSample(f[s \ {Max(s)}], events[Max(s)])]
  <2>1. f = [s \in D |-> f[s]]
    BY <1>6
  <2>2. [s \in D |-> f[s]] = [s \in D |-> IF s = {} THEN base ELSE AddSample(f[s \ {Max(s)}], events[Max(s)])]
    BY <1>7, Zenon
  <2>3. QED
    BY <1>1, <2>1, <2>2, Zenon DEF base
<1>9. iter = [s \in SUBSET DOMAIN events |->
                IF s = {} THEN <<FirstSample>> ELSE AddSample(iter[s \ {Max(s)}], events[Max(s)])]
  BY <1>8
<1>10. Samples(events) = iter[1 .. n]
  BY <1>1 DEF Samples, FoldLeft, MapThenFoldSet
<1> HIDE DEF iter, step
<1>11. iter[1 .. 0] = base
  <2>1. 1 .. 0 = {} /\ {} \in SUBSET DOMAIN events
    OBVIOUS
  <2>2. QED
    BY <1>9, <2>1 DEF base
<1>12. ASSUME NEW k \in 1 .. n PROVE iter[1 .. k] = AddSample(iter[1 .. k - 1], events[k])
  <2>1. Max(1 .. k) = k /\ (1 .. k) \ {k} = 1 .. k - 1
    BY <1>1, GreatestOfInterval
  <2>2. (\A i \in 1 .. k : i \in 1 .. n) /\ 1 \in 1 .. k
    BY <1>1
  <2>3. 1 .. k \in SUBSET DOMAIN events
    BY <1>1, <2>2
  <2>4. QED
    BY <1>9, <2>1, <2>2, <2>3
<1> DEFINE T == {i \in 0 .. n : iter[1 .. i] \in W}
<1>13. \A k \in 0 .. n : k \in T
  <2>1. 0 \in T
    BY <1>1, <1>2, <1>11
  <2>2. ASSUME NEW k \in 0 .. n - 1, k \in T PROVE k + 1 \in T
    <3>1. k + 1 \in 1 .. n /\ k + 1 \in 0 .. n /\ (k + 1) - 1 = k
      BY <1>1
    <3>2. iter[1 .. k + 1] = AddSample(iter[1 .. k], events[k + 1])
      BY <1>12, <3>1
    <3>3. QED
      BY <1>3, <2>2, <3>1, <3>2
  <2> HIDE DEF T
  <2>3. QED
    BY <1>1, <2>1, <2>2, Upward
<1>14. g \in [0 .. n -> W] /\ g[0] = base /\ g[n] = Samples(events)
  BY <1>1, <1>10, <1>11, <1>13
<1>15. \A k \in 1 .. n : g[k] = AddSample(g[k - 1], events[k])
  <2>1. \A k \in 1 .. n : g[k] = iter[1 .. k] /\ g[k - 1] = iter[1 .. k - 1]
    BY <1>1
  <2>2. QED
    BY <1>12, <2>1
<1> HIDE DEF g
<1>16. QED
  BY <1>14, <1>15 DEF PartialSamples, base, W

\* The n-th event lies between the n-th sample and the next one.
LEMMA SamplesAre ==
  ASSUME NEW events \in Seq(HostHistory), NEW samples, samples = Samples(events)
  PROVE  /\ samples \in Seq(HostSamples) /\ Len(samples) = Len(events) + 1
         /\ samples[1] = FirstSample
         /\ \A k \in 1 .. Len(events) : samples[k + 1] = HostStep(samples[k], events[k])
<1> DEFINE n == Len(events)
           W == Seq(HostSamples) \ {<<>>}
<1>1. n \in Nat /\ \A i \in 1 .. n : events[i] \in HostHistory
  OBVIOUS
<1>2. PICK g : PartialSamples(g, events) /\ samples = g[n]
  BY SamplesAreTaken
<1>3. g \in [0 .. n -> W] /\ g[0] = <<FirstSample>> /\ \A k \in 1 .. n : g[k] = AddSample(g[k - 1], events[k])
  BY <1>2 DEF PartialSamples
<1> DEFINE Right(s, k) ==
             /\ Len(s) = k + 1 /\ s[1] = FirstSample
             /\ \A i \in 1 .. k : s[i + 1] = HostStep(s[i], events[i])
           T == {k \in 0 .. n : Right(g[k], k)}
<1> HIDE DEF n, W
<1>4. 0 \in T
  <2>1. Len(<<FirstSample>>) = 1 /\ <<FirstSample>>[1] = FirstSample
    OBVIOUS
  <2>2. Right(<<FirstSample>>, 0)
    BY <2>1
  <2> HIDE DEF Right
  <2>3. QED
    BY <1>1, <1>3, <2>2
<1>5. ASSUME NEW k \in 0 .. n - 1, k \in T PROVE k + 1 \in T
  <2> DEFINE s == g[k]
             e == events[k + 1]
             t == AddSample(s, e)
  <2>1. k \in 0 .. n /\ k + 1 \in 1 .. n /\ k + 1 \in 0 .. n /\ k \in Nat /\ (k + 1) - 1 = k
    BY <1>1
  <2>2. s \in W /\ e \in HostHistory /\ g[k + 1] = t
    BY <1>1, <1>3, <2>1
  <2>3. Len(s) = k + 1 /\ s[1] = FirstSample /\ \A i \in 1 .. k : s[i + 1] = HostStep(s[i], events[i])
    BY <1>5
  <2>4. /\ Len(t) = Len(s) + 1 /\ \A i \in 1 .. Len(s) : t[i] = s[i]
        /\ t[Len(s) + 1] = HostStep(s[Len(s)], e)
    <3> HIDE DEF s, e
    <3>1. QED
      BY <2>2, SampleIsAdded DEF W
  <2> HIDE DEF t, s
  <2>5. ASSUME NEW i \in 1 .. k + 1 PROVE t[i + 1] = HostStep(t[i], events[i])
    <3>1. CASE i = k + 1
      BY <2>1, <2>3, <2>4, <3>1
    <3>2. CASE i # k + 1
      <4>1. i \in 1 .. k /\ i \in 1 .. Len(s) /\ i + 1 \in 1 .. Len(s)
        BY <2>1, <2>3, <3>2
      <4>2. QED
        BY <2>3, <2>4, <4>1
    <3>3. QED
      BY <3>1, <3>2
  <2>6. t[1] = FirstSample /\ Len(t) = (k + 1) + 1
    BY <2>1, <2>3, <2>4
  <2>7. Right(t, k + 1)
    BY <2>5, <2>6
  <2> HIDE DEF Right
  <2>8. QED
    BY <2>1, <2>2, <2>7
<1> HIDE DEF T
<1>6. n \in T
  <2>1. \A k \in 0 .. n : k \in T
    BY <1>1, <1>4, <1>5, Upward
  <2>2. QED
    BY <1>1, <2>1
<1>7. Right(samples, n) /\ samples \in W
  BY <1>1, <1>2, <1>3, <1>6 DEF T
<1>8. QED
  BY <1>7 DEF n, W

\* What lies between an earlier and a later sample: time has passed, no more was
\* counted than was sent, the monotonic clock ran with time within one boot, and
\* the wall clock did where nobody set it.
Between(p, row, undisturbed) ==
  /\ p.boot <= row.boot /\ p.real <= row.real /\ p.sent <= row.sent
  /\ row.counter - p.counter <= row.sent - p.sent
  /\ p.boot = row.boot => row.mono - p.mono = row.real - p.real
  /\ undisturbed => row.at - p.at = row.real - p.real

\* The sample after a step is later than any sample before it.
LEMMA StepIsLater ==
  ASSUME NEW p \in HostSamples, NEW s \in HostSamples, NEW e \in HostHistory, NEW undisturbed \in BOOLEAN,
         undisturbed => e.jump = 0, Between(p, s, undisturbed)
  PROVE  Between(p, HostStep(s, e), undisturbed) /\ p.real < HostStep(s, e).real
<1> DEFINE t == HostStep(s, e)
<1>1. /\ t.real = s.real + e.seconds
      /\ t.at = s.at + e.seconds + e.jump
      /\ t.sent = s.sent + e.bytes
      /\ t.boot = IF e.reboot THEN s.boot + 1 ELSE s.boot
      /\ t.mono = IF e.reboot THEN e.seconds ELSE s.mono + e.seconds
      /\ t.counter = IF e.reboot \/ e.reset THEN e.bytes ELSE s.counter + e.bytes
  BY StepIsSample
<1>2. /\ s.at \in Int /\ s.real \in Nat /\ s.sent \in Nat /\ s.boot \in Nat /\ s.mono \in Nat /\ s.counter \in Nat
      /\ p.at \in Int /\ p.real \in Nat /\ p.sent \in Nat /\ p.boot \in Nat /\ p.mono \in Nat /\ p.counter \in Nat
  BY DEF HostSamples
<1>3. e.seconds \in Nat \ {0} /\ e.jump \in Int /\ e.bytes \in Nat
  BY DEF HostHistory
<1> HIDE DEF t
<1>4. t.counter - p.counter <= t.sent - p.sent
  <2>1. CASE e.reboot \/ e.reset
    BY <1>1, <1>2, <1>3, <2>1 DEF Between
  <2>2. CASE ~(e.reboot \/ e.reset)
    BY <1>1, <1>2, <1>3, <2>2 DEF Between
  <2>3. QED
    BY <2>1, <2>2
<1>5. p.boot <= t.boot /\ (p.boot = t.boot => t.mono - p.mono = t.real - p.real)
  <2>1. CASE e.reboot
    BY <1>1, <1>2, <1>3, <2>1 DEF Between
  <2>2. CASE ~e.reboot
    BY <1>1, <1>2, <1>3, <2>2 DEF Between
  <2>3. QED
    BY <2>1, <2>2
<1>6. p.real < t.real /\ p.real <= t.real /\ p.sent <= t.sent
  <2>1. p.real <= s.real /\ p.sent <= s.sent
    BY DEF Between
  <2>2. t.real = s.real + e.seconds /\ t.sent = s.sent + e.bytes
    BY <1>1
  <2>3. QED
    BY <1>2, <1>3, <2>1, <2>2
<1>7. undisturbed => t.at - p.at = t.real - p.real
  BY <1>1, <1>2, <1>3 DEF Between
<1>8. QED
  BY <1>4, <1>5, <1>6, <1>7 DEF Between, t

\* Any two samples.
LEMMA SamplesAreLater ==
  ASSUME NEW events \in Seq(HostHistory), NEW samples, samples = Samples(events),
         NEW undisturbed \in BOOLEAN, undisturbed => \A e \in DOMAIN events : events[e].jump = 0,
         NEW i \in 1 .. Len(samples), NEW j \in 1 .. Len(samples), i < j
  PROVE  Between(samples[i], samples[j], undisturbed) /\ samples[i].real < samples[j].real
<1> DEFINE n == Len(events)
<1>1. n \in Nat /\ DOMAIN events = 1 .. n /\ \A k \in 1 .. n : events[k] \in HostHistory
  OBVIOUS
<1>2. /\ samples \in Seq(HostSamples) /\ Len(samples) = n + 1
      /\ \A k \in 1 .. n : samples[k + 1] = HostStep(samples[k], events[k])
  BY SamplesAre
<1>3. \A k \in 1 .. n + 1 : samples[k] \in HostSamples
  BY <1>2
<1> HIDE DEF n
<1> DEFINE m == j - i
           Apart(d) == /\ Between(samples[i], samples[i + d], undisturbed)
                       /\ d > 0 => samples[i].real < samples[i + d].real
           T == {d \in 0 .. m : Apart(d)}
<1>4. i \in 1 .. n + 1 /\ j \in 1 .. n + 1 /\ m \in Nat /\ m > 0 /\ i + m = j /\ i + 0 = i
  BY <1>1, <1>2
<1>5. 0 \in T
  <2>1. /\ samples[i].at \in Int /\ samples[i].real \in Nat /\ samples[i].sent \in Nat /\ samples[i].boot \in Nat
        /\ samples[i].mono \in Nat /\ samples[i].counter \in Nat
    BY <1>3, <1>4 DEF HostSamples
  <2> DEFINE p == samples[i]
  <2>2. Between(p, p, undisturbed)
    <3>1. p.at \in Int /\ p.real \in Nat /\ p.sent \in Nat /\ p.boot \in Nat /\ p.mono \in Nat /\ p.counter \in Nat
      BY <2>1
    <3> HIDE DEF p
    <3>2. p.boot <= p.boot /\ p.real <= p.real /\ p.sent <= p.sent /\ p.counter - p.counter <= p.sent - p.sent
      BY <3>1
    <3>3. p.mono - p.mono = p.real - p.real /\ p.at - p.at = p.real - p.real
      BY <3>1
    <3>4. QED
      BY <3>2, <3>3 DEF Between
  <2>3. QED
    BY <1>4, <2>2
<1>6. ASSUME NEW d \in 0 .. m - 1, d \in T PROVE d + 1 \in T
  <2> DEFINE s == samples[i + d]
             e == events[i + d]
             p == samples[i]
  <2>1. /\ i + d \in 1 .. n /\ i + d \in 1 .. n + 1 /\ d + 1 \in 0 .. m /\ d + 1 > 0
        /\ i + (d + 1) = (i + d) + 1
    BY <1>1, <1>4
  <2>2. s \in HostSamples /\ p \in HostSamples /\ e \in HostHistory /\ (undisturbed => e.jump = 0)
    BY <1>1, <1>3, <1>4, <2>1
  <2>3. samples[i + (d + 1)] = HostStep(s, e)
    BY <1>2, <2>1
  <2>4. Between(p, s, undisturbed)
    BY <1>6
  <2> HIDE DEF s, e, p
  <2>5. Between(p, HostStep(s, e), undisturbed) /\ p.real < HostStep(s, e).real
    BY <2>2, <2>4, StepIsLater
  <2>6. Apart(d + 1)
    BY <2>3, <2>5 DEF p
  <2> HIDE DEF Apart
  <2>7. QED
    BY <2>1, <2>6
<1> HIDE DEF T
<1>7. m \in T
  <2>1. \A d \in 0 .. m : d \in T
    BY <1>4, <1>5, <1>6, Upward
  <2>2. QED
    BY <1>4, <2>1
<1>8. QED
  BY <1>4, <1>7 DEF T

\* Less in the same time is a rate that is no higher.
LEMMA NoFaster ==
  ASSUME NEW a \in Int, NEW b \in Int, NEW seconds \in Nat, a <= b
  PROVE  a * seconds <= b * seconds
<1>1. (b - a) * seconds >= 0
  BY SMTT(30)
<1>2. (b - a) * seconds = b * seconds - a * seconds
  BY SMTT(30)
<1>3. a * seconds \in Int /\ b * seconds \in Int
  OBVIOUS
<1>4. QED
  BY <1>1, <1>2, <1>3

\* No rate is invented and none is lost, however long the host's history is,
\* however often it boots, its clock is set and its counters start again, and
\* whatever the tolerance (report.py, host_trends).
THEOREM RatesAreAlwaysReal ==
  ASSUME NEW events \in Seq(HostHistory)
  PROVE  RatesAreReal(events)
<1> DEFINE samples == Samples(events)
           n == Len(events)
<1>1. n \in Nat /\ DOMAIN events = 1 .. n /\ \A k \in 1 .. n : events[k] \in HostHistory
  OBVIOUS
<1>2. /\ samples \in Seq(HostSamples) /\ Len(samples) = n + 1
      /\ \A k \in 1 .. n : samples[k + 1] = HostStep(samples[k], events[k])
  BY SamplesAre
<1>3. \A undisturbed \in BOOLEAN :
        (undisturbed => \A e \in DOMAIN events : events[e].jump = 0) =>
          \A i, j \in 1 .. Len(samples) : i < j => Between(samples[i], samples[j], undisturbed)
                                                   /\ samples[i].real < samples[j].real
  BY SamplesAreLater
<1> HIDE DEF samples
<1>4. DOMAIN samples = 1 .. n + 1 /\ \A k \in 1 .. n + 1 : samples[k] \in HostSamples
  BY <1>1, <1>2
<1> HIDE DEF n
<1>5. ASSUME NEW i \in 1 .. n + 1, NEW j \in 1 .. n + 1, ValidInterval(samples[i], samples[j])
      PROVE  /\ samples[i].real < samples[j].real
             /\ CounterRate(samples[i], samples[j]).bytes * (samples[j].real - samples[i].real)
                  <= (samples[j].sent - samples[i].sent) * CounterRate(samples[i], samples[j]).seconds
  <2> DEFINE p == samples[i]
             row == samples[j]
  <2>1. /\ p.at \in Int /\ p.real \in Nat /\ p.sent \in Nat /\ p.boot \in Nat /\ p.mono \in Nat /\ p.counter \in Nat
        /\ row.at \in Int /\ row.real \in Nat /\ row.sent \in Nat /\ row.boot \in Nat /\ row.mono \in Nat /\ row.counter \in Nat
    BY <1>4 DEF HostSamples
  <2>2. p.boot = row.boot /\ row.mono > p.mono
    BY <1>5 DEF ValidInterval
  <2>3. i < j
    <3>1. i # j
      BY <2>1, <2>2
    <3>2. ~(j < i)
      <4>1. j < i => Between(row, p, FALSE)
        BY <1>2, <1>3
      <4> HIDE DEF p, row
      <4>2. Between(row, p, FALSE) => p.mono - row.mono = p.real - row.real /\ row.real <= p.real
        BY <2>2 DEF Between
      <4>3. ~(p.mono - row.mono = p.real - row.real /\ row.real <= p.real)
        <5>1. p.mono \in Nat /\ p.real \in Nat /\ row.mono \in Nat /\ row.real \in Nat
          BY <2>1
        <5>2. QED
          BY <2>2, <5>1
      <4>4. QED
        BY <4>1, <4>2, <4>3
    <3>3. QED
      BY <1>1, <3>1, <3>2
  <2>4. Between(p, row, FALSE) /\ p.real < row.real
    BY <1>2, <1>3, <2>3
  <2> HIDE DEF p, row
  <2>5. row.mono - p.mono = row.real - p.real /\ row.counter - p.counter <= row.sent - p.sent
    BY <2>2, <2>4 DEF Between
  <2>6. CounterRate(p, row).bytes = row.counter - p.counter /\ CounterRate(p, row).seconds = row.mono - p.mono
    BY DEF CounterRate
  <2>7. (row.counter - p.counter) * (row.real - p.real) <= (row.sent - p.sent) * (row.real - p.real)
    <3>1. row.counter - p.counter \in Int /\ row.sent - p.sent \in Int /\ row.real - p.real \in Nat
      <4>1. p.real < row.real
        BY <2>4
      <4>2. row.real - p.real \in Nat
        BY <2>1, <4>1
      <4>3. row.counter - p.counter \in Int
        BY <2>1
      <4>4. row.sent - p.sent \in Int
        BY <2>1
      <4>5. QED
        BY <4>2, <4>3, <4>4
    <3>2. QED
      BY <2>5, <3>1, NoFaster
  <2>8. QED
    BY <2>4, <2>5, <2>6, <2>7 DEF p, row
<1>6. ASSUME \A e \in DOMAIN events : events[e].jump = 0, NEW e \in DOMAIN events, ~events[e].reboot, ~events[e].reset
      PROVE  <<e, e + 1>> \in RatedIntervals(samples)
  <2> DEFINE p == samples[e]
             row == samples[e + 1]
  <2>1. e \in 1 .. n + 1 /\ e + 1 \in 1 .. n + 1 /\ e \in 1 .. n
    BY <1>1
  <2>2. \A i, j \in 1 .. n + 1 : i < j => samples[i].at < samples[j].at
    <3>1. \A i, j \in 1 .. n + 1 : i < j => Between(samples[i], samples[j], TRUE) /\ samples[i].real < samples[j].real
      BY <1>2, <1>3, <1>6
    <3>2. ASSUME NEW i \in 1 .. n + 1, NEW j \in 1 .. n + 1, i < j PROVE samples[i].at < samples[j].at
      <4>1. samples[i].at \in Int /\ samples[j].at \in Int /\ samples[i].real \in Nat /\ samples[j].real \in Nat
        BY <1>4 DEF HostSamples
      <4>2. samples[j].at - samples[i].at = samples[j].real - samples[i].real /\ samples[i].real < samples[j].real
        BY <3>1, <3>2 DEF Between
      <4>3. QED
        BY <4>1, <4>2
    <3>3. QED
      BY <3>2
  <2>3. \A i, j \in 1 .. n + 1 : Before(samples, i, j) <=> i < j
    <3>1. \A i \in 1 .. n + 1 : samples[i].at \in Int
      BY <1>4 DEF HostSamples
    <3>2. QED
      BY <1>1, <2>2, <3>1 DEF Before
  <2>4. RightAfter(samples, e, e + 1)
    BY <1>1, <1>4, <2>1, <2>3 DEF RightAfter
  <2>5. p \in HostSamples /\ events[e] \in HostHistory /\ row = HostStep(p, events[e])
    BY <1>1, <1>2, <1>4, <2>1
  <2>6. events[e].jump = 0
    BY <1>6
  <2>7. ValidInterval(p, row) /\ row.counter >= p.counter
    <3> HIDE DEF p, row
    <3>1. /\ row.at = p.at + events[e].seconds + events[e].jump
          /\ row.boot = IF events[e].reboot THEN p.boot + 1 ELSE p.boot
          /\ row.mono = IF events[e].reboot THEN events[e].seconds ELSE p.mono + events[e].seconds
          /\ row.counter = IF events[e].reboot \/ events[e].reset THEN events[e].bytes ELSE p.counter + events[e].bytes
      BY <2>5, StepIsSample
    <3>2. events[e].seconds \in Nat \ {0} /\ events[e].bytes \in Nat
      BY <2>5 DEF HostHistory
    <3>3. p.at \in Int /\ p.mono \in Nat /\ p.counter \in Nat
      BY <2>5 DEF HostSamples
    <3>4. row.boot = p.boot /\ row.mono = p.mono + events[e].seconds /\ row.counter = p.counter + events[e].bytes
          /\ row.at = p.at + events[e].seconds
      BY <1>6, <2>6, <3>1, <3>2, <3>3
    <3>5. Difference(row.at - p.at, row.mono - p.mono) = 0 /\ Tolerance \in Nat \ {0}
      BY <3>2, <3>3, <3>4, ReportAssumption DEF Difference
    <3>6. QED
      BY <3>2, <3>3, <3>4, <3>5 DEF ValidInterval
  <2>8. <<e, e + 1>> \in (DOMAIN samples) \X (DOMAIN samples) /\ <<e, e + 1>>[1] = e /\ <<e, e + 1>>[2] = e + 1
    BY <1>4, <2>1
  <2>9. QED
    BY <2>4, <2>7, <2>8 DEF RatedIntervals
<1>7. ASSUME NEW r \in RatedIntervals(samples)
      PROVE  /\ samples[r[2]].real > samples[r[1]].real
             /\ CounterRate(samples[r[1]], samples[r[2]]).bytes * (samples[r[2]].real - samples[r[1]].real)
                  <= (samples[r[2]].sent - samples[r[1]].sent) * CounterRate(samples[r[1]], samples[r[2]]).seconds
  <2>1. r[1] \in 1 .. n + 1 /\ r[2] \in 1 .. n + 1 /\ ValidInterval(samples[r[1]], samples[r[2]])
    BY <1>4 DEF RatedIntervals
  <2>2. samples[r[2]].real \in Nat /\ samples[r[1]].real \in Nat
    BY <1>4, <2>1 DEF HostSamples
  <2>3. QED
    BY <1>5, <2>1, <2>2
<1>8. QED
  BY <1>6, <1>7 DEF RatesAreReal, samples

-----------------------------------------------------------------------------
(* The findings of analyze().                                               *)

\* The least and the greatest of a finite set of times.
LEMMA LowestIs ==
  ASSUME NEW S, IsFiniteSet(S), S \subseteq Nat, S # {}
  PROVE  Lowest(S) \in S /\ \A m \in S : Lowest(S) <= m
  BY LeastIs DEF Lowest

LEMMA HighestIs ==
  ASSUME NEW S, IsFiniteSet(S), S \subseteq Nat, S # {}
  PROVE  Highest(S) \in S /\ \A m \in S : m <= Highest(S)
<1> DEFINE From(n) == {m \in S : n <= m}
           T == {From(n) : n \in S}
<1>1. IsWellFoundedOn(StrictSubsetOrdering(S), SUBSET S)
  <2>1. IsWellFoundedOn(StrictSubsetOrdering(S), FiniteSubsetsOf(S))
    BY FS_StrictSubsetOrderingWellFounded
  <2>2. QED
    BY <2>1, FS_FiniteSubsetsOfFinite
<1>2. PICK x \in T : \A y \in T : ~ (<<y, x>> \in StrictSubsetOrdering(S))
  <2>1. T \subseteq SUBSET S /\ T # {}
    OBVIOUS
  <2> HIDE DEF T
  <2>2. QED
    BY <1>1, <2>1, WFMin
<1>3. PICK n \in S : x = From(n)
  BY <1>2
<1>4. \A m \in S : m <= n
  <2> SUFFICES ASSUME NEW m \in S, n < m PROVE FALSE
    OBVIOUS
  <2>1. m \in Nat /\ n \in Nat
    OBVIOUS
  <2>2. n \in From(n) /\ n \notin From(m)
    BY <2>1
  <2>3. \A k \in Nat : m <= k => n <= k
    BY <2>1
  <2>4. From(m) \subseteq From(n)
    BY <2>3
  <2>5. <<From(m), From(n)>> \in StrictSubsetOrdering(S)
    BY <2>2, <2>4 DEF StrictSubsetOrdering
  <2>6. QED
    BY <1>2, <1>3, <2>5
<1>5. QED
  BY <1>4 DEF Highest

\* A tag makes different things of different things.
Tagged(tag, S) == {<<tag, x>> : x \in S}

LEMMA TagsCount ==
  ASSUME NEW tag, NEW S, IsFiniteSet(S)
  PROVE  IsFiniteSet(Tagged(tag, S)) /\ Cardinality(Tagged(tag, S)) = Cardinality(S)
<1> DEFINE f == [x \in S |-> <<tag, x>>]
           T == Tagged(tag, S)
<1>1. f \in Surjection(S, T)
  BY DEF Surjection, Tagged
<1>2. f \in Injection(S, T)
  BY DEF Injection, IsInjective, Tagged
<1> HIDE DEF f, T
<1>3. IsFiniteSet(T) /\ Cardinality(T) = Cardinality(S)
  BY <1>1, <1>2, FS_Surjection
<1>4. QED
  BY <1>3 DEF T

\* The elements of a sequence are finitely many.
LEMMA ElementsAreFinite ==
  ASSUME NEW S, NEW s \in Seq(S)
  PROVE  IsFiniteSet(ToSet(s)) /\ ToSet(s) \subseteq S
<1> DEFINE n == Len(s)
           T == ToSet(s)
<1>1. n \in Nat /\ DOMAIN s = 1 .. n /\ s \in [1 .. n -> S]
  OBVIOUS
<1>2. T = {s[i] : i \in 1 .. n}
  BY <1>1 DEF ToSet
<1>3. s \in Surjection(1 .. n, T)
  BY <1>1, <1>2 DEF Surjection
<1>4. IsFiniteSet(1 .. n)
  BY <1>1, FS_Interval
<1>5. T \subseteq S
  BY <1>1, <1>2
<1> HIDE DEF T
<1>6. IsFiniteSet(T)
  BY <1>3, <1>4, FS_Surjection
<1>7. QED
  BY <1>5, <1>6 DEF T

-----------------------------------------------------------------------------
\* What is said of a finding, and the findings by their keys.
Levels == {"info", "warning", "critical"}
FindingSet == [severity : Levels, first : Nat, last : Nat, observations : Nat]
FindingsOver(K) == UNION {[D -> FindingSet] : D \in SUBSET K}

\* The levels have different ranks.
LEMMA RanksDiffer ==
  /\ Rank("info") = 1 /\ Rank("warning") = 2 /\ Rank("critical") = 3
<1>1. Severities[1] = "info" /\ Severities[2] = "warning" /\ Severities[3] = "critical"
  BY DEF Severities
<1>2. \A n \in 1 .. 3 : n = 1 \/ n = 2 \/ n = 3
  OBVIOUS
<1>3. 1 \in 1 .. 3 /\ 2 \in 1 .. 3 /\ 3 \in 1 .. 3
  OBVIOUS
<1>4. QED
  BY <1>1, <1>2, <1>3 DEF Rank

\* Findings are functions of keys.
LEMMA FindingsAre ==
  ASSUME NEW K
  PROVE  \A findings : findings \in FindingsOver(K)
           <=> /\ findings = [k \in DOMAIN findings |-> findings[k]] /\ DOMAIN findings \subseteq K
               /\ \A k \in DOMAIN findings : findings[k] \in FindingSet
<1>1. ASSUME NEW findings \in FindingsOver(K)
      PROVE  /\ findings = [k \in DOMAIN findings |-> findings[k]] /\ DOMAIN findings \subseteq K
             /\ \A k \in DOMAIN findings : findings[k] \in FindingSet
  <2>1. PICK D \in SUBSET K : findings \in [D -> FindingSet]
    BY DEF FindingsOver
  <2>2. QED
    BY <2>1
<1>2. ASSUME NEW findings, findings = [k \in DOMAIN findings |-> findings[k]], DOMAIN findings \subseteq K,
             \A k \in DOMAIN findings : findings[k] \in FindingSet
      PROVE  findings \in FindingsOver(K)
  <2>1. findings \in [DOMAIN findings -> FindingSet]
    BY <1>2
  <2>2. QED
    BY <1>2, <2>1 DEF FindingsOver
<1>3. QED
  BY <1>1, <1>2

\* One finding is added or brought up to date, the others are as they were.
IsAdded(findings, after, key, severity, first, last, count) ==
  /\ DOMAIN after = DOMAIN findings \cup {key}
  /\ \A k \in DOMAIN findings : k # key => after[k] = findings[k]
  /\ key \notin DOMAIN findings =>
       /\ after[key].severity = severity /\ after[key].observations = count
       /\ after[key].first = first /\ after[key].last = last
  /\ key \in DOMAIN findings =>
       /\ after[key].severity = IF Rank(severity) > Rank(findings[key].severity)
                                THEN severity ELSE findings[key].severity
       /\ after[key].first = IF first < findings[key].first THEN first ELSE findings[key].first
       /\ after[key].last = IF last > findings[key].last THEN last ELSE findings[key].last
       /\ after[key].observations = findings[key].observations + count

LEMMA FindingIsAdded ==
  ASSUME NEW K, NEW findings \in FindingsOver(K), NEW key \in K, NEW severity \in Levels,
         NEW first \in Nat, NEW last \in Nat, NEW count \in Nat,
         NEW after, after = AddFinding(findings, key, severity, first, last, count)
  PROVE  after \in FindingsOver(K) /\ IsAdded(findings, after, key, severity, first, last, count)
<1> DEFINE D == DOMAIN findings \cup {key}
           new == [severity |-> severity, first |-> first, last |-> last, observations |-> count]
           f == findings[key]
           changed == [severity |-> IF Rank(severity) > Rank(f.severity) THEN severity ELSE f.severity,
                       first |-> IF first < f.first THEN first ELSE f.first,
                       last |-> IF last > f.last THEN last ELSE f.last,
                       observations |-> f.observations + count]
<1>1. DOMAIN findings \subseteq K /\ \A k \in DOMAIN findings : findings[k] \in FindingSet
  BY FindingsAre
<1>2. after = [k \in D |-> IF k # key THEN findings[k] ELSE IF k \notin DOMAIN findings THEN new ELSE
                             [severity |-> IF Rank(severity) > Rank(findings[k].severity) THEN severity ELSE findings[k].severity,
                              first |-> IF first < findings[k].first THEN first ELSE findings[k].first,
                              last |-> IF last > findings[k].last THEN last ELSE findings[k].last,
                              observations |-> findings[k].observations + count]]
  BY DEF AddFinding
<1>3. DOMAIN after = D /\ D \subseteq K /\ after = [k \in D |-> after[k]]
  BY <1>1, <1>2
<1>4. \A k \in DOMAIN findings : k # key => after[k] = findings[k]
  BY <1>2
<1>5. key \notin DOMAIN findings => after[key] = new
  BY <1>2
<1>6. key \in DOMAIN findings => after[key] = changed
  BY <1>2
<1>7. new \in FindingSet
  BY DEF FindingSet
<1>8. key \in DOMAIN findings => changed \in FindingSet
  <2> SUFFICES ASSUME key \in DOMAIN findings PROVE changed \in FindingSet
    OBVIOUS
  <2>1. f.severity \in Levels /\ f.first \in Nat /\ f.last \in Nat /\ f.observations \in Nat
    BY <1>1 DEF FindingSet
  <2> HIDE DEF f
  <2>2. QED
    BY <2>1 DEF FindingSet
<1>9. \A k \in D : after[k] \in FindingSet
  <2> HIDE DEF new, changed
  <2>1. QED
    BY <1>1, <1>4, <1>5, <1>6, <1>7, <1>8
<1>10. after \in FindingsOver(K)
  <2> HIDE DEF D
  <2>1. QED
    BY <1>3, <1>9, FindingsAre
<1>11. QED
  BY <1>3, <1>4, <1>5, <1>6, <1>10 DEF IsAdded

\* Records of events with identities of I, of summaries, which have entries with
\* identities of X, and of checks; their keys are of K.
EventRecords(I, K) == [kind : {"event"}, id : I, key : K, severity : Levels, at : Nat]
SummaryRecords(X, K) == [kind : {"summary"}, key : K, entries : Seq(X \X Nat) \ {<<>>}]
CheckRecords(K) == [kind : {"check"}, key : K, severity : Levels, at : Nat]
Records(I, X, K) == EventRecords(I, K) \cup SummaryRecords(X, K) \cup CheckRecords(K)

\* What analyze() remembers.
Watches(I, X, K) == [events : SUBSET I, entries : SUBSET (X \X Nat), findings : FindingsOver(K)]

\* What analyze() remembers after each of the records.
PartialWatches(g, evidence, W) ==
  /\ g \in [0 .. Len(evidence) -> W] /\ g[0] = NothingSeen
  /\ \A k \in 1 .. Len(evidence) : g[k] = Observe(g[k - 1], evidence[k])

\* A record has times, finitely many, and a severity.
LEMMA RecordsAre ==
  ASSUME NEW I, NEW X, NEW K, NEW r \in Records(I, X, K)
  PROVE  /\ r.key \in K /\ r.kind \in {"event", "summary", "check"}
         /\ IsFiniteSet(TimesOf(r)) /\ TimesOf(r) \subseteq Nat /\ TimesOf(r) # {}
         /\ SeverityOf(r) \in Levels
         /\ r.kind = "summary" => r.entries \in Seq(X \X Nat) /\ ToSet(r.entries) # {}
         /\ r.kind = "event" => r.id \in I
         /\ r.kind # "summary" => r.at \in Nat /\ r.severity \in Levels
<1>1. CASE r \in SummaryRecords(X, K)
  <2>1. r.key \in K /\ r.kind = "summary" /\ r.entries \in Seq(X \X Nat) /\ r.entries # <<>>
    BY <1>1 DEF SummaryRecords
  <2> DEFINE S == ToSet(r.entries)
             f == [x \in S |-> x[2]]
             T == {x[2] : x \in S}
  <2>2. IsFiniteSet(S) /\ S \subseteq X \X Nat
    BY <2>1, ElementsAreFinite
  <2>3. S # {}
    <3> DEFINE s == r.entries
    <3>1. Len(s) \in Nat /\ Len(s) # 0
      BY <2>1
    <3>2. 1 \in DOMAIN s
      BY <2>1, <3>1
    <3>3. s[1] \in ToSet(s)
      BY <3>2 DEF ToSet
    <3>4. QED
      BY <3>3
  <2> HIDE DEF S
  <2>4. T \subseteq Nat /\ T # {}
    BY <2>2, <2>3
  <2>5. f \in Surjection(S, T)
    BY DEF Surjection
  <2> HIDE DEF f, T
  <2>6. IsFiniteSet(T)
    BY <2>2, <2>5, FS_Surjection
  <2>7. TimesOf(r) = T /\ SeverityOf(r) = "warning"
    BY <2>1 DEF TimesOf, SeverityOf, T, S
  <2>8. QED
    BY <2>1, <2>3, <2>4, <2>6, <2>7 DEF Levels, S
<1>2. CASE r \in EventRecords(I, K) \cup CheckRecords(K)
  <2>1. /\ r.key \in K /\ r.kind \in {"event", "check"} /\ r.severity \in Levels /\ r.at \in Nat
        /\ r.kind = "event" => r.id \in I
    BY <1>2 DEF EventRecords, CheckRecords
  <2>2. TimesOf(r) = {r.at} /\ SeverityOf(r) = r.severity
    BY <2>1 DEF TimesOf, SeverityOf
  <2>3. IsFiniteSet({r.at})
    BY FS_Singleton
  <2>4. QED
    BY <2>1, <2>2, <2>3
<1>3. QED
  BY <1>1, <1>2 DEF Records

\* What of a record is new, and when that was: the cases of Observe in one form.
Fresh(a, r) == ToSet(r.entries) \ a.entries
Counted(a, r) == IF r.kind = "summary" THEN Cardinality(Fresh(a, r)) ELSE 1
IsStale(a, r) ==
  \/ r.kind = "event" /\ r.id \in a.events
  \/ r.kind = "summary" /\ Fresh(a, r) = {}
FreshTimes(a, r) == IF r.kind = "summary" THEN {x[2] : x \in Fresh(a, r)} ELSE {r.at}
EventsOf(r) == IF r.kind = "event" THEN {r.id} ELSE {}
EntriesOf(r) == IF r.kind = "summary" THEN ToSet(r.entries) ELSE {}

\* Of its times the earliest and the latest go into the finding.
Updates(a, r, findings) ==
  \E first, last \in FreshTimes(a, r) :
    /\ \A t \in FreshTimes(a, r) : first <= t /\ t <= last
    /\ findings = AddFinding(a.findings, r.key, SeverityOf(r), first, last, Counted(a, r))

\* Its events and entries are remembered.
Sees(a, r, b) == b.events = a.events \cup EventsOf(r) /\ b.entries = a.entries \cup EntriesOf(r)

\* One round of the loop changes nothing or adds what is new to one finding.
LEMMA ObservingIs ==
  ASSUME NEW I, NEW X, NEW K, NEW a \in Watches(I, X, K), NEW r \in Records(I, X, K)
  PROVE  /\ Observe(a, r) \in Watches(I, X, K)
         /\ Sees(a, r, Observe(a, r))
         /\ IsStale(a, r) => Observe(a, r).findings = a.findings
         /\ ~IsStale(a, r) => Updates(a, r, Observe(a, r).findings)
         /\ FreshTimes(a, r) \subseteq TimesOf(r)
         /\ Counted(a, r) \in Nat
<1> DEFINE W == Watches(I, X, K)
           b == Observe(a, r)
<1>1. /\ r.key \in K /\ r.kind \in {"event", "summary", "check"}
      /\ SeverityOf(r) \in Levels
      /\ r.kind = "summary" => r.entries \in Seq(X \X Nat) /\ ToSet(r.entries) # {}
      /\ r.kind = "event" => r.id \in I
      /\ r.kind # "summary" => r.at \in Nat /\ r.severity \in Levels
  BY RecordsAre
<1>2. /\ a.events \subseteq I /\ a.entries \subseteq X \X Nat /\ a.findings \in FindingsOver(K)
      /\ a = [events |-> a.events, entries |-> a.entries, findings |-> a.findings]
  BY DEF Watches
<1>3. CASE r.kind = "summary"
  <2> DEFINE fresh == Fresh(a, r)
             times == {x[2] : x \in fresh}
             f == [x \in fresh |-> x[2]]
  <2>1. IsFiniteSet(ToSet(r.entries)) /\ ToSet(r.entries) \subseteq X \X Nat
    BY <1>1, <1>3, ElementsAreFinite
  <2>2. IsFiniteSet(fresh) /\ fresh \subseteq X \X Nat
    BY <2>1, FS_Subset DEF Fresh
  <2>3. IsFiniteSet(times) /\ times \subseteq Nat /\ (fresh # {} => times # {})
    <3> HIDE DEF fresh
    <3>1. f \in Surjection(fresh, times)
      BY DEF Surjection
    <3>2. times \subseteq Nat /\ (fresh # {} => times # {})
      BY <2>2
    <3> HIDE DEF f, times
    <3>3. IsFiniteSet(times)
      BY <2>2, <3>1, FS_Surjection
    <3>4. QED
      BY <3>2, <3>3
  <2>4. Cardinality(fresh) \in Nat
    BY <2>2, FS_CardinalityType
  <2>5. Counted(a, r) = Cardinality(fresh) /\ FreshTimes(a, r) = times /\ SeverityOf(r) = "warning"
    BY <1>3 DEF Counted, FreshTimes, SeverityOf
  <2>6. NewEntries(a.entries, r.entries) = Cardinality(fresh)
    BY DEF NewEntries, Fresh
  <2>7. times \subseteq TimesOf(r)
    BY <1>3 DEF TimesOf, Fresh
  <2>8. EventsOf(r) = {} /\ EntriesOf(r) = ToSet(r.entries)
    BY <1>3 DEF EventsOf, EntriesOf
  <2>9. CASE fresh = {}
    <3>1. b = a
      BY <1>3, <2>9 DEF Observe, Fresh
    <3>2. a.entries \cup EntriesOf(r) = a.entries /\ IsStale(a, r)
      BY <1>3, <2>8, <2>9 DEF Fresh, IsStale
    <3>3. QED
      BY <2>4, <2>5, <2>7, <2>8, <3>1, <3>2 DEF Sees
  <2>10. CASE fresh # {}
    <3> DEFINE first == Lowest(times)
               last == Highest(times)
               after == AddFinding(a.findings, r.key, "warning", first, last, Cardinality(fresh))
    <3>1. b = [a EXCEPT !.entries = @ \cup fresh, !.findings = AddFinding(@, r.key, "warning", first, last, NewEntries(a.entries, r.entries))]
      BY <1>3, <2>10 DEF Observe, Fresh
    <3>2. b = [a EXCEPT !.entries = @ \cup fresh, !.findings = after]
      BY <2>6, <3>1
    <3>3. first \in times /\ last \in times /\ \A t \in times : first <= t /\ t <= last
      <4> HIDE DEF times
      <4>1. QED
        BY <2>3, <2>10, LowestIs, HighestIs
    <3>4. first \in Nat /\ last \in Nat
      BY <2>3, <3>3
    <3> HIDE DEF first, last, times
    <3>5. after \in FindingsOver(K)
      <4>1. "warning" \in Levels
        BY DEF Levels
      <4> HIDE DEF fresh
      <4>2. QED
        BY <1>1, <1>2, <2>4, <3>4, <4>1, FindingIsAdded
    <3> HIDE DEF after
    <3>6. b.events = a.events /\ b.entries = a.entries \cup fresh /\ b.findings = after
          /\ b = [events |-> b.events, entries |-> b.entries, findings |-> b.findings]
      <4> HIDE DEF b, fresh
      <4>1. QED
        BY <1>2, <3>2
    <3>7. a.entries \cup fresh = a.entries \cup EntriesOf(r) /\ ~IsStale(a, r)
      BY <1>3, <2>8, <2>10 DEF Fresh, IsStale
    <3>8. b \in W
      <4> HIDE DEF b, fresh
      <4>1. QED
        BY <1>2, <2>2, <3>5, <3>6 DEF Watches
    <3>9. b.findings = AddFinding(a.findings, r.key, SeverityOf(r), first, last, Counted(a, r))
      BY <2>5, <3>6 DEF after
    <3>10. \E lo, hi \in FreshTimes(a, r) :
             /\ \A t \in FreshTimes(a, r) : lo <= t /\ t <= hi
             /\ b.findings = AddFinding(a.findings, r.key, SeverityOf(r), lo, hi, Counted(a, r))
      BY <2>5, <3>3, <3>9
    <3>11. QED
      BY <2>4, <2>5, <2>7, <2>8, <3>6, <3>7, <3>8, <3>10 DEF Updates, Sees
  <2>11. QED
    BY <2>9, <2>10
<1>4. CASE r.kind # "summary"
  <2> DEFINE after == AddFinding(a.findings, r.key, r.severity, r.at, r.at, 1)
  <2>1. r.at \in Nat /\ r.severity \in Levels /\ SeverityOf(r) = r.severity /\ TimesOf(r) = {r.at}
    BY <1>1, <1>4 DEF SeverityOf, TimesOf
  <2>2. FreshTimes(a, r) = {r.at} /\ Counted(a, r) = 1 /\ EntriesOf(r) = {}
    BY <1>4 DEF FreshTimes, Counted, EntriesOf
  <2>3. after \in FindingsOver(K)
    BY <1>1, <1>2, <2>1, FindingIsAdded
  <2>4. r.at <= r.at
    BY <2>1
  <2>5. CASE r.kind = "event" /\ r.id \in a.events
    <3>1. b = a
      BY <2>5 DEF Observe
    <3>2. a.events \cup EventsOf(r) = a.events /\ IsStale(a, r)
      BY <2>5 DEF EventsOf, IsStale
    <3>3. QED
      BY <2>1, <2>2, <3>1, <3>2 DEF Sees
  <2>6. CASE r.kind = "event" /\ r.id \notin a.events
    <3>1. b = [a EXCEPT !.events = @ \cup {r.id}, !.findings = after]
      BY <2>6 DEF Observe
    <3>2. EventsOf(r) = {r.id} /\ ~IsStale(a, r)
      BY <2>6 DEF EventsOf, IsStale
    <3> HIDE DEF after
    <3>3. b.events = a.events \cup {r.id} /\ b.entries = a.entries /\ b.findings = after
          /\ b = [events |-> b.events, entries |-> b.entries, findings |-> b.findings]
      <4> HIDE DEF b
      <4>1. QED
        BY <1>2, <3>1
    <3>4. b \in W
      <4> HIDE DEF b
      <4>1. QED
        BY <1>1, <1>2, <2>3, <2>6, <3>3 DEF Watches
    <3>5. b.findings = AddFinding(a.findings, r.key, SeverityOf(r), r.at, r.at, Counted(a, r))
      BY <2>1, <2>2, <3>3 DEF after
    <3>6. QED
      BY <2>1, <2>2, <2>4, <3>2, <3>3, <3>4, <3>5 DEF Updates, Sees
  <2>7. CASE r.kind = "check"
    <3>1. b = [a EXCEPT !.findings = after]
      BY <2>7 DEF Observe
    <3>2. EventsOf(r) = {} /\ ~IsStale(a, r)
      BY <2>7 DEF EventsOf, IsStale
    <3> HIDE DEF after
    <3>3. b.events = a.events /\ b.entries = a.entries /\ b.findings = after
          /\ b = [events |-> b.events, entries |-> b.entries, findings |-> b.findings]
      <4> HIDE DEF b
      <4>1. QED
        BY <1>2, <3>1
    <3>4. b \in W
      <4> HIDE DEF b
      <4>1. QED
        BY <1>2, <2>3, <3>3 DEF Watches
    <3>5. b.findings = AddFinding(a.findings, r.key, SeverityOf(r), r.at, r.at, Counted(a, r))
      BY <2>1, <2>2, <3>3 DEF after
    <3>6. QED
      BY <2>1, <2>2, <2>4, <3>2, <3>3, <3>4, <3>5 DEF Updates, Sees
  <2>8. QED
    BY <1>1, <1>4, <2>5, <2>6, <2>7
<1>5. QED
  BY <1>3, <1>4

\* The records are observed one by one.
LEMMA RecordsAreObserved ==
  ASSUME NEW I, NEW X, NEW K, NEW evidence \in Seq(Records(I, X, K))
  PROVE  \E g : PartialWatches(g, evidence, Watches(I, X, K)) /\ Findings(evidence) = g[Len(evidence)].findings
<1> DEFINE R == Records(I, X, K)
           n == Len(evidence)
           W == Watches(I, X, K)
           base == NothingSeen
           step == [p \in W \X (1 .. n) |-> Observe(p[1], evidence[p[2]])]
           D == SUBSET (1 .. n)
           iter[s \in SUBSET DOMAIN evidence] ==
             IF s = {} THEN NothingSeen ELSE Observe(iter[s \ {Max(s)}], evidence[Max(s)])
           g == [k \in 0 .. n |-> iter[1 .. k]]
<1>1. n \in Nat /\ DOMAIN evidence = 1 .. n /\ \A i \in 1 .. n : evidence[i] \in R
  OBVIOUS
<1>2. base \in W
  <2>1. <<>> \in [{} -> FindingSet]
    OBVIOUS
  <2>2. <<>> \in FindingsOver(K)
    BY <2>1 DEF FindingsOver
  <2>3. QED
    BY <2>2 DEF NothingSeen, Watches
<1>3. \A w \in W : \A i \in 1 .. n : Observe(w, evidence[i]) \in W
  BY <1>1, ObservingIs
<1> HIDE DEF R, W, base
<1>4. step \in FoldSteps(W, n)
  BY <1>3 DEF FoldSteps
<1>5. PICK f : IsFold(f, W, n, step, base)
  <2> HIDE DEF step
  <2>1. QED
    BY <1>1, <1>2, <1>4, FoldExists
<1>6. f \in [D -> W] /\ \A s \in D : f[s] = IF s = {} THEN base ELSE step[<<f[s \ {Max(s)}], Max(s)>>]
  BY <1>5 DEF IsFold
<1>7. ASSUME NEW s \in D
      PROVE  f[s] = IF s = {} THEN base ELSE Observe(f[s \ {Max(s)}], evidence[Max(s)])
  <2>1. CASE s = {}
    BY <1>6, <2>1
  <2>2. CASE s # {}
    <3>1. Max(s) \in 1 .. n /\ s \ {Max(s)} \in D
      BY <1>1, <2>2, GreatestIs
    <3>2. f[s \ {Max(s)}] \in W
      BY <1>6, <3>1
    <3>3. step[<<f[s \ {Max(s)}], Max(s)>>] = Observe(f[s \ {Max(s)}], evidence[Max(s)])
      BY <3>1, <3>2
    <3> HIDE DEF step
    <3>4. QED
      BY <1>6, <2>2, <3>3
  <2>3. QED
    BY <2>1, <2>2
<1>8. f = [s \in SUBSET DOMAIN evidence |->
             IF s = {} THEN NothingSeen ELSE Observe(f[s \ {Max(s)}], evidence[Max(s)])]
  <2>1. f = [s \in D |-> f[s]]
    BY <1>6
  <2>2. [s \in D |-> f[s]] = [s \in D |-> IF s = {} THEN base ELSE Observe(f[s \ {Max(s)}], evidence[Max(s)])]
    BY <1>7, Zenon
  <2>3. QED
    BY <1>1, <2>1, <2>2, Zenon DEF base
<1>9. iter = [s \in SUBSET DOMAIN evidence |->
                IF s = {} THEN NothingSeen ELSE Observe(iter[s \ {Max(s)}], evidence[Max(s)])]
  BY <1>8
<1>10. Findings(evidence) = iter[1 .. n].findings
  BY <1>1 DEF Findings, FoldLeft, MapThenFoldSet
<1> HIDE DEF iter, step
<1>11. iter[1 .. 0] = base
  <2>1. 1 .. 0 = {} /\ {} \in SUBSET DOMAIN evidence
    OBVIOUS
  <2>2. QED
    BY <1>9, <2>1 DEF base
<1>12. ASSUME NEW k \in 1 .. n PROVE iter[1 .. k] = Observe(iter[1 .. k - 1], evidence[k])
  <2>1. Max(1 .. k) = k /\ (1 .. k) \ {k} = 1 .. k - 1
    BY <1>1, GreatestOfInterval
  <2>2. (\A i \in 1 .. k : i \in 1 .. n) /\ 1 \in 1 .. k
    BY <1>1
  <2>3. 1 .. k \in SUBSET DOMAIN evidence
    BY <1>1, <2>2
  <2>4. QED
    BY <1>9, <2>1, <2>2, <2>3
<1> DEFINE T == {i \in 0 .. n : iter[1 .. i] \in W}
<1>13. \A k \in 0 .. n : k \in T
  <2>1. 0 \in T
    BY <1>1, <1>2, <1>11
  <2>2. ASSUME NEW k \in 0 .. n - 1, k \in T PROVE k + 1 \in T
    <3>1. k + 1 \in 1 .. n /\ k + 1 \in 0 .. n /\ (k + 1) - 1 = k
      BY <1>1
    <3>2. iter[1 .. k + 1] = Observe(iter[1 .. k], evidence[k + 1])
      BY <1>12, <3>1
    <3>3. QED
      BY <1>3, <2>2, <3>1, <3>2
  <2> HIDE DEF T
  <2>3. QED
    BY <1>1, <2>1, <2>2, Upward
<1>14. g \in [0 .. n -> W] /\ g[0] = base /\ Findings(evidence) = g[n].findings
  BY <1>1, <1>10, <1>11, <1>13
<1>15. \A k \in 1 .. n : g[k] = Observe(g[k - 1], evidence[k])
  <2>1. \A k \in 1 .. n : g[k] = iter[1 .. k] /\ g[k - 1] = iter[1 .. k - 1]
    BY <1>1
  <2>2. QED
    BY <1>12, <2>1
<1> HIDE DEF g
<1>16. QED
  BY <1>14, <1>15 DEF PartialWatches, base, W

\* An identity stands for one event, an entry belongs to one kind of summary:
\* the identity of an event holds the container, the time and the action that its
\* key is made of, and an entry's summary is found by its message.
Agree(evidence) ==
  /\ \A i, j \in DOMAIN evidence :
       evidence[i].kind = "event" /\ evidence[j].kind = "event" /\ evidence[i].id = evidence[j].id
         => evidence[i] = evidence[j]
  /\ \A i, j \in DOMAIN evidence :
       evidence[i].kind = "summary" /\ evidence[j].kind = "summary"
         /\ ToSet(evidence[i].entries) \cap ToSet(evidence[j].entries) # {}
         => evidence[i].key = evidence[j].key

\* What the first k records show of a key.
ShownOf(evidence, k, key) == UNION {Shown(evidence, i) : i \in {j \in 1 .. k : evidence[j].key = key}}

\* A finding covers a record of its key, and is made of what the first k show.
Covers(f, r) == TimesOf(r) \subseteq f.first .. f.last /\ Rank(SeverityOf(r)) <= Rank(f.severity)
IsFindingOf(f, evidence, k, key) ==
  /\ IsFiniteSet(ShownOf(evidence, k, key)) /\ f.observations = Cardinality(ShownOf(evidence, k, key))
  /\ \A i \in 1 .. k : evidence[i].key = key => Covers(f, evidence[i])
  /\ \E i \in 1 .. k : evidence[i].key = key /\ SeverityOf(evidence[i]) = f.severity
  /\ \E i \in 1 .. k : evidence[i].key = key /\ f.first \in TimesOf(evidence[i])
  /\ \E i \in 1 .. k : evidence[i].key = key /\ f.last \in TimesOf(evidence[i])

Keys(evidence, k) == {evidence[i].key : i \in 1 .. k}
AreFindings(findings, evidence, k) ==
  /\ DOMAIN findings = Keys(evidence, k)
  /\ \A key \in DOMAIN findings : IsFindingOf(findings[key], evidence, k, key)

\* What was seen is what the records hold.
HasSeen(a, evidence, k) ==
  /\ \A x : x \in a.events <=> \E i \in 1 .. k : x \in EventsOf(evidence[i])
  /\ \A x : x \in a.entries <=> \E i \in 1 .. k : x \in EntriesOf(evidence[i])

\* What a record shows, each with its tag.
LEMMA ShownParts ==
  ASSUME NEW evidence, NEW i, evidence[i].kind \in {"event", "summary", "check"}
  PROVE  /\ \A t : t \in Shown(evidence, i)
              <=> \/ evidence[i].kind = "event" /\ t = <<"event", evidence[i].id>>
                  \/ evidence[i].kind = "summary" /\ \E x \in ToSet(evidence[i].entries) : t = <<"entry", x>>
                  \/ evidence[i].kind = "check" /\ t = <<"check", i>>
         /\ evidence[i].kind = "event" => Shown(evidence, i) = {<<"event", evidence[i].id>>}
         /\ evidence[i].kind = "summary" => Shown(evidence, i) = Tagged("entry", ToSet(evidence[i].entries))
         /\ evidence[i].kind = "check" => Shown(evidence, i) = {<<"check", i>>}
<1>1. evidence[i].kind = "event" => Shown(evidence, i) = {<<"event", evidence[i].id>>}
  BY DEF Shown
<1>2. evidence[i].kind = "summary" => Shown(evidence, i) = {<<"entry", x>> : x \in ToSet(evidence[i].entries)}
  BY DEF Shown
<1>3. evidence[i].kind = "check" => Shown(evidence, i) = {<<"check", i>>}
  BY DEF Shown
<1>4. QED
  BY <1>1, <1>2, <1>3 DEF Tagged

\* One more record shows more of its own key.
LEMMA ShownGrows ==
  ASSUME NEW evidence, NEW k \in Nat, NEW key
  PROVE  /\ evidence[k + 1].key = key =>
              ShownOf(evidence, k + 1, key) = ShownOf(evidence, k, key) \cup Shown(evidence, k + 1)
         /\ evidence[k + 1].key # key => ShownOf(evidence, k + 1, key) = ShownOf(evidence, k, key)
<1>1. \A i : i \in 1 .. k + 1 <=> i \in 1 .. k \/ i = k + 1
  OBVIOUS
<1>2. QED
  BY <1>1 DEF ShownOf

\* What is shown has a record that shows it.
LEMMA ShownHasRecord ==
  ASSUME NEW evidence, NEW k \in Nat, NEW key, NEW t
  PROVE  t \in ShownOf(evidence, k, key)
           <=> \E i \in 1 .. k : evidence[i].key = key /\ t \in Shown(evidence, i)
  BY DEF ShownOf

\* When a record was not new, an earlier record of the same key has said so.
KnowsTimes(evidence, k, a, r) ==
  \A t \in TimesOf(r) : (IsStale(a, r) \/ t \notin FreshTimes(a, r)) =>
    \E i \in 1 .. k : /\ evidence[i].key = r.key /\ t \in TimesOf(evidence[i])
                      /\ SeverityOf(evidence[i]) = SeverityOf(r)

\* What a record shows that was not shown before is what Observe counts; and what
\* it shows again, and when, an earlier record of the same key has said.
LEMMA FreshIsCounted ==
  ASSUME NEW I, NEW X, NEW K, NEW evidence \in Seq(Records(I, X, K)), Agree(evidence),
         NEW k \in Nat, k + 1 \in 1 .. Len(evidence), NEW a \in Watches(I, X, K), HasSeen(a, evidence, k),
         NEW r, r = evidence[k + 1]
  PROVE  /\ IsStale(a, r) => Shown(evidence, k + 1) \subseteq ShownOf(evidence, k, r.key)
         /\ ~IsStale(a, r) =>
              /\ IsFiniteSet(Shown(evidence, k + 1) \ ShownOf(evidence, k, r.key))
              /\ Cardinality(Shown(evidence, k + 1) \ ShownOf(evidence, k, r.key)) = Counted(a, r)
         /\ KnowsTimes(evidence, k, a, r)
<1> DEFINE S == ShownOf(evidence, k, r.key)
           N == Shown(evidence, k + 1) \ S
<1>1. /\ \A i \in 1 .. k : i \in DOMAIN evidence /\ evidence[i] \in Records(I, X, K)
      /\ k + 1 \in DOMAIN evidence /\ r \in Records(I, X, K)
  OBVIOUS
<1>2. /\ \A i \in 1 .. k : evidence[i].kind \in {"event", "summary", "check"}
      /\ r.kind \in {"event", "summary", "check"}
      /\ r.kind = "summary" => r.entries \in Seq(X \X Nat)
  BY <1>1, RecordsAre
<1>3. CASE r.kind = "event"
  <2>1. Shown(evidence, k + 1) = {<<"event", r.id>>}
    BY <1>3, ShownParts
  <2>2. CASE IsStale(a, r)
    <3>1. r.id \in a.events
      BY <1>3, <2>2 DEF IsStale
    <3>2. PICK i \in 1 .. k : r.id \in EventsOf(evidence[i])
      BY <3>1 DEF HasSeen
    <3>3. evidence[i].kind = "event" /\ evidence[i].id = r.id
      BY <3>2 DEF EventsOf
    <3>4. evidence[i] = r
      BY <1>1, <1>3, <3>3 DEF Agree
    <3>5. <<"event", r.id>> \in Shown(evidence, i)
      BY <1>2, <3>3, ShownParts
    <3>6. <<"event", r.id>> \in S
      BY <3>4, <3>5, ShownHasRecord
    <3>7. QED
      BY <2>1, <2>2, <3>4, <3>6 DEF KnowsTimes
  <2>3. CASE ~IsStale(a, r)
    <3>1. r.id \notin a.events
      BY <1>3, <2>3 DEF IsStale
    <3>2. <<"event", r.id>> \notin S
      <4> SUFFICES ASSUME <<"event", r.id>> \in S PROVE FALSE
        OBVIOUS
      <4>1. PICK i \in 1 .. k : <<"event", r.id>> \in Shown(evidence, i)
        BY ShownHasRecord
      <4>2. evidence[i].kind = "event" /\ <<"event", r.id>> = <<"event", evidence[i].id>>
        BY <1>2, <4>1, ShownParts
      <4>3. r.id \in EventsOf(evidence[i])
        BY <4>2 DEF EventsOf
      <4>4. QED
        BY <3>1, <4>3 DEF HasSeen
    <3>3. N = {<<"event", r.id>>}
      BY <2>1, <3>2
    <3>4. IsFiniteSet(N) /\ Cardinality(N) = 1
      BY <3>3, FS_Singleton
    <3>5. Counted(a, r) = 1 /\ FreshTimes(a, r) = {r.at} /\ TimesOf(r) = {r.at}
      BY <1>3 DEF Counted, FreshTimes, TimesOf
    <3>6. QED
      BY <2>3, <3>4, <3>5 DEF KnowsTimes
  <2>4. QED
    BY <2>2, <2>3
<1>4. CASE r.kind = "check"
  <2>1. ~IsStale(a, r) /\ Counted(a, r) = 1 /\ FreshTimes(a, r) = TimesOf(r)
    BY <1>4 DEF IsStale, Counted, FreshTimes, TimesOf
  <2>2. Shown(evidence, k + 1) = {<<"check", k + 1>>}
    BY <1>4, ShownParts
  <2>3. <<"check", k + 1>> \notin S
    <3> SUFFICES ASSUME <<"check", k + 1>> \in S PROVE FALSE
      OBVIOUS
    <3>1. PICK i \in 1 .. k : <<"check", k + 1>> \in Shown(evidence, i)
      BY ShownHasRecord
    <3>2. <<"check", k + 1>> = <<"check", i>>
      BY <1>2, <3>1, ShownParts
    <3>3. QED
      BY <3>2
  <2>4. N = {<<"check", k + 1>>}
    BY <2>2, <2>3
  <2>5. IsFiniteSet(N) /\ Cardinality(N) = 1
    BY <2>4, FS_Singleton
  <2>6. QED
    BY <2>1, <2>5 DEF KnowsTimes
<1>5. CASE r.kind = "summary"
  <2>1. \A x : <<"entry", x>> \in Shown(evidence, k + 1) <=> x \in ToSet(r.entries)
    BY <1>5, ShownParts
  <2>2. \A t : t \in Shown(evidence, k + 1) <=> \E x \in ToSet(r.entries) : t = <<"entry", x>>
    BY <1>5, ShownParts
  <2>3. ASSUME NEW x \in ToSet(r.entries), x \in a.entries
        PROVE  \E i \in 1 .. k : evidence[i].kind = "summary" /\ evidence[i].key = r.key /\ x \in ToSet(evidence[i].entries)
    <3>1. PICK i \in 1 .. k : x \in EntriesOf(evidence[i])
      BY <2>3 DEF HasSeen
    <3>2. evidence[i].kind = "summary" /\ x \in ToSet(evidence[i].entries)
      BY <3>1 DEF EntriesOf
    <3>3. i \in DOMAIN evidence /\ k + 1 \in DOMAIN evidence
          /\ ToSet(evidence[i].entries) \cap ToSet(evidence[k + 1].entries) # {}
      BY <1>1, <3>2
    <3>4. evidence[i].key = r.key
      BY <1>5, <3>2, <3>3 DEF Agree
    <3>5. QED
      BY <3>2, <3>4
  <2>4. ASSUME NEW x \in ToSet(r.entries)
        PROVE  <<"entry", x>> \in S <=> x \in a.entries
    <3>1. ASSUME <<"entry", x>> \in S PROVE x \in a.entries
      <4>1. PICK i \in 1 .. k : <<"entry", x>> \in Shown(evidence, i)
        BY <3>1, ShownHasRecord
      <4>2. evidence[i].kind = "summary" /\ \E y \in ToSet(evidence[i].entries) : <<"entry", x>> = <<"entry", y>>
        BY <1>2, <4>1, ShownParts
      <4>3. x \in EntriesOf(evidence[i])
        BY <4>2 DEF EntriesOf
      <4>4. QED
        BY <4>3 DEF HasSeen
    <3>2. ASSUME x \in a.entries PROVE <<"entry", x>> \in S
      <4>1. PICK i \in 1 .. k : evidence[i].kind = "summary" /\ evidence[i].key = r.key /\ x \in ToSet(evidence[i].entries)
        BY <2>3, <3>2
      <4>2. <<"entry", x>> \in Shown(evidence, i)
        BY <1>2, <4>1, ShownParts
      <4>3. QED
        BY <4>1, <4>2, ShownHasRecord
    <3>3. QED
      BY <3>1, <3>2
  <2>5. N = Tagged("entry", Fresh(a, r))
    <3> HIDE DEF S
    <3>1. \A t : t \in N <=> \E x \in ToSet(r.entries) \ a.entries : t = <<"entry", x>>
      BY <2>2, <2>4
    <3> HIDE DEF N
    <3>2. QED
      BY <3>1 DEF Tagged, Fresh
  <2>6. Counted(a, r) = Cardinality(Fresh(a, r)) /\ (IsStale(a, r) <=> Fresh(a, r) = {})
    BY <1>5 DEF Counted, IsStale
  <2>7. IsFiniteSet(Fresh(a, r))
    <3>1. IsFiniteSet(ToSet(r.entries))
      BY <1>2, <1>5, ElementsAreFinite
    <3>2. QED
      BY <3>1, FS_Subset DEF Fresh
  <2>8. IsFiniteSet(N) /\ Cardinality(N) = Counted(a, r)
    <3> HIDE DEF N
    <3>1. QED
      BY <2>5, <2>6, <2>7, TagsCount
  <2>9. IsStale(a, r) => Shown(evidence, k + 1) \subseteq S
    <3>1. IsStale(a, r) => N = {}
      BY <2>5, <2>6 DEF Tagged
    <3>2. QED
      BY <3>1
  <2>10. ASSUME NEW t \in TimesOf(r), IsStale(a, r) \/ t \notin FreshTimes(a, r)
         PROVE  \E i \in 1 .. k : /\ evidence[i].key = r.key /\ t \in TimesOf(evidence[i])
                                  /\ SeverityOf(evidence[i]) = SeverityOf(r)
    <3>1. PICK x \in ToSet(r.entries) : t = x[2]
      BY <1>5 DEF TimesOf
    <3>2. x \in a.entries
      <4>1. IsStale(a, r) => x \in a.entries
        BY <2>6 DEF Fresh
      <4>2. t \notin FreshTimes(a, r) => x \in a.entries
        BY <1>5, <3>1 DEF FreshTimes, Fresh
      <4>3. QED
        BY <2>10, <4>1, <4>2
    <3>3. PICK i \in 1 .. k : evidence[i].kind = "summary" /\ evidence[i].key = r.key /\ x \in ToSet(evidence[i].entries)
      BY <2>3, <3>2
    <3>4. t \in TimesOf(evidence[i]) /\ SeverityOf(evidence[i]) = SeverityOf(r)
      BY <1>5, <3>1, <3>3 DEF TimesOf, SeverityOf
    <3>5. QED
      BY <3>3, <3>4
  <2> HIDE DEF N, S
  <2>11. QED
    BY <2>8, <2>9, <2>10 DEF N, S, KnowsTimes
<1>6. QED
  BY <1>2, <1>3, <1>4, <1>5

\* A record of another key changes nothing of what is said of a finding.
LEMMA FindingStays ==
  ASSUME NEW evidence, NEW k \in Nat, NEW key, NEW f, IsFindingOf(f, evidence, k, key), evidence[k + 1].key # key
  PROVE  IsFindingOf(f, evidence, k + 1, key)
<1>1. ShownOf(evidence, k + 1, key) = ShownOf(evidence, k, key)
  BY ShownGrows
<1>2. \A i \in 1 .. k : i \in 1 .. k + 1
  OBVIOUS
<1>3. \A i \in 1 .. k + 1 : evidence[i].key = key => i \in 1 .. k
  OBVIOUS
<1>4. QED
  BY <1>1, <1>2, <1>3 DEF IsFindingOf

\* A finding with wider limits and a severity no lower covers what it covered.
LEMMA WiderCovers ==
  ASSUME NEW f \in FindingSet, NEW g \in FindingSet, g.first <= f.first, f.last <= g.last,
         Rank(f.severity) <= Rank(g.severity),
         NEW r, SeverityOf(r) \in Levels, Covers(f, r)
  PROVE  Covers(g, r)
<1>1. f.first \in Nat /\ g.first \in Nat /\ f.last \in Nat /\ g.last \in Nat /\ f.severity \in Levels /\ g.severity \in Levels
  BY DEF FindingSet
<1>2. f.first .. f.last \subseteq g.first .. g.last
  BY <1>1
<1>3. \A s \in Levels : Rank(s) \in Nat
  BY RanksDiffer DEF Levels
<1>4. Rank(SeverityOf(r)) <= Rank(g.severity)
  <2>1. Rank(SeverityOf(r)) <= Rank(f.severity)
    BY DEF Covers
  <2>2. Rank(SeverityOf(r)) \in Nat /\ Rank(f.severity) \in Nat /\ Rank(g.severity) \in Nat
    BY <1>1, <1>3
  <2>3. QED
    BY <2>1, <2>2
<1>5. TimesOf(r) \subseteq g.first .. g.last
  BY <1>2 DEF Covers
<1>6. QED
  BY <1>4, <1>5 DEF Covers

\* A record that shows nothing new leaves its finding as it is, and covered.
LEMMA StaleIsCovered ==
  ASSUME NEW I, NEW X, NEW K, NEW evidence \in Seq(Records(I, X, K)), Agree(evidence),
         NEW k \in Nat, k + 1 \in 1 .. Len(evidence), NEW a \in Watches(I, X, K), HasSeen(a, evidence, k),
         NEW r, r = evidence[k + 1], IsStale(a, r), NEW f
  PROVE  /\ \E i \in 1 .. k : evidence[i].key = r.key
         /\ IsFindingOf(f, evidence, k, r.key) => IsFindingOf(f, evidence, k + 1, r.key)
<1>1. r \in Records(I, X, K)
  OBVIOUS
<1>2. TimesOf(r) # {}
  <2>1. \A q \in Records(I, X, K) : TimesOf(q) # {}
    BY RecordsAre
  <2>2. QED
    BY <1>1, <2>1
<1>3. Shown(evidence, k + 1) \subseteq ShownOf(evidence, k, r.key)
  BY FreshIsCounted
<1>4. \A t \in TimesOf(r) :
        \E i \in 1 .. k : /\ evidence[i].key = r.key /\ t \in TimesOf(evidence[i])
                          /\ SeverityOf(evidence[i]) = SeverityOf(r)
  <2>1. KnowsTimes(evidence, k, a, r)
    BY FreshIsCounted
  <2>2. QED
    BY <2>1 DEF KnowsTimes
<1>5. \E i \in 1 .. k : evidence[i].key = r.key
  BY <1>2, <1>4
<1>6. ASSUME IsFindingOf(f, evidence, k, r.key) PROVE IsFindingOf(f, evidence, k + 1, r.key)
  <2>1. ShownOf(evidence, k + 1, r.key) = ShownOf(evidence, k, r.key)
    <3>1. ShownOf(evidence, k + 1, r.key) = ShownOf(evidence, k, r.key) \cup Shown(evidence, k + 1)
      BY ShownGrows
    <3>2. QED
      BY <1>3, <3>1
  <2>2. \A i \in 1 .. k : evidence[i].key = r.key => Covers(f, evidence[i])
    BY <1>6 DEF IsFindingOf
  <2>3. Covers(f, r)
    <3>1. \A t \in TimesOf(r) : t \in f.first .. f.last
      BY <1>4, <2>2 DEF Covers
    <3>2. Rank(SeverityOf(r)) <= Rank(f.severity)
      BY <1>2, <1>4, <2>2 DEF Covers
    <3>3. QED
      BY <3>1, <3>2 DEF Covers
  <2>4. \A i \in 1 .. k + 1 : i \in 1 .. k \/ i = k + 1
    OBVIOUS
  <2>5. \A i \in 1 .. k + 1 : evidence[i].key = r.key => Covers(f, evidence[i])
    BY <2>2, <2>3, <2>4
  <2>6. \A i \in 1 .. k : i \in 1 .. k + 1
    OBVIOUS
  <2>7. QED
    BY <1>6, <2>1, <2>5, <2>6 DEF IsFindingOf
<1>7. QED
  BY <1>5, <1>6

\* A new record brings its finding up to date, or begins it.
LEMMA FreshIsCovered ==
  ASSUME NEW I, NEW X, NEW K, NEW evidence \in Seq(Records(I, X, K)), Agree(evidence),
         NEW k \in Nat, k + 1 \in 1 .. Len(evidence), NEW a \in Watches(I, X, K), HasSeen(a, evidence, k),
         AreFindings(a.findings, evidence, k),
         NEW r, r = evidence[k + 1], ~IsStale(a, r),
         NEW first \in FreshTimes(a, r), NEW last \in FreshTimes(a, r),
         \A t \in FreshTimes(a, r) : first <= t /\ t <= last,
         NEW after, after = AddFinding(a.findings, r.key, SeverityOf(r), first, last, Counted(a, r))
  PROVE  IsFindingOf(after[r.key], evidence, k + 1, r.key)
<1> DEFINE key == r.key
           S == ShownOf(evidence, k, key)
           N == Shown(evidence, k + 1) \ S
           fs == a.findings
           f == fs[key]
           g == after[key]
<1>1. r \in Records(I, X, K) /\ \A i \in 1 .. k : evidence[i] \in Records(I, X, K)
  OBVIOUS
<1>2. /\ key \in K /\ TimesOf(r) \subseteq Nat /\ SeverityOf(r) \in Levels
      /\ \A i \in 1 .. k : SeverityOf(evidence[i]) \in Levels
  BY <1>1, RecordsAre
<1>3. FreshTimes(a, r) \subseteq TimesOf(r) /\ Counted(a, r) \in Nat
  BY <1>1, ObservingIs
<1>4. first \in TimesOf(r) /\ last \in TimesOf(r) /\ first \in Nat /\ last \in Nat
  BY <1>2, <1>3
<1>5. fs \in FindingsOver(K)
  BY DEF Watches
<1>6. /\ after \in FindingsOver(K) /\ key \in DOMAIN after
      /\ key \notin DOMAIN fs =>
           /\ g.severity = SeverityOf(r) /\ g.observations = Counted(a, r)
           /\ g.first = first /\ g.last = last
      /\ key \in DOMAIN fs =>
           /\ g.severity = IF Rank(SeverityOf(r)) > Rank(f.severity) THEN SeverityOf(r) ELSE f.severity
           /\ g.first = IF first < f.first THEN first ELSE f.first
           /\ g.last = IF last > f.last THEN last ELSE f.last
           /\ g.observations = f.observations + Counted(a, r)
  <2>1. after = AddFinding(fs, key, SeverityOf(r), first, last, Counted(a, r))
    OBVIOUS
  <2> HIDE DEF fs, key
  <2>2. after \in FindingsOver(K) /\ IsAdded(fs, after, key, SeverityOf(r), first, last, Counted(a, r))
    BY <1>2, <1>3, <1>4, <1>5, <2>1, FindingIsAdded
  <2>3. QED
    BY <2>2 DEF IsAdded
<1>7. g \in FindingSet /\ (key \in DOMAIN fs => f \in FindingSet)
  <2> HIDE DEF key, fs
  <2>1. QED
    BY <1>5, <1>6, FindingsAre
<1>8. IsFiniteSet(N) /\ Cardinality(N) = Counted(a, r)
  BY FreshIsCounted
<1>9. \A t \in TimesOf(r) : t \notin FreshTimes(a, r) =>
        \E i \in 1 .. k : evidence[i].key = key /\ t \in TimesOf(evidence[i])
  <2>1. KnowsTimes(evidence, k, a, r)
    BY FreshIsCounted
  <2>2. QED
    BY <2>1 DEF KnowsTimes
<1>10. ShownOf(evidence, k + 1, key) = S \cup N
  <2>1. ShownOf(evidence, k + 1, key) = S \cup Shown(evidence, k + 1)
    BY ShownGrows
  <2> HIDE DEF S
  <2>2. QED
    BY <2>1
<1>11. evidence[k + 1] = r /\ k + 1 \in 1 .. k + 1 /\ \A i \in 1 .. k : i \in 1 .. k + 1
  OBVIOUS
<1>12. \A i \in 1 .. k + 1 : i \in 1 .. k \/ i = k + 1
  OBVIOUS
<1>13. \A s \in Levels : Rank(s) \in Nat
  BY RanksDiffer DEF Levels
<1>14. DOMAIN fs = Keys(evidence, k) /\ (key \in DOMAIN fs => IsFindingOf(f, evidence, k, key))
  BY DEF AreFindings
<1> HIDE DEF key, S, N, fs, f, g
<1>15. CASE key \notin DOMAIN fs
  <2>1. \A i \in 1 .. k : evidence[i].key # key
    BY <1>14, <1>15 DEF Keys
  <2>2. S = {}
    BY <2>1 DEF S, ShownOf
  <2>3. ShownOf(evidence, k + 1, key) = N
    BY <1>10, <2>2
  <2>4. Covers(g, r)
    <3>1. \A t \in TimesOf(r) : t \in Nat /\ first <= t /\ t <= last
      BY <1>2, <1>9, <2>1
    <3>2. \A t \in TimesOf(r) : t \in first .. last
      <4>1. ASSUME NEW t \in TimesOf(r) PROVE t \in first .. last
        <5>1. t \in Nat /\ first <= t /\ t <= last
          BY <3>1
        <5>2. QED
          BY <1>4, <5>1
      <4>2. QED
        BY <4>1
    <3>3. Rank(SeverityOf(r)) <= Rank(SeverityOf(r))
      BY <1>2, <1>13
    <3>4. QED
      BY <1>6, <1>15, <3>2, <3>3 DEF Covers
  <2>5. \A i \in 1 .. k + 1 : evidence[i].key = key => Covers(g, evidence[i])
    BY <1>11, <1>12, <2>1, <2>4
  <2>6. evidence[k + 1].key = key
    BY <1>11 DEF key
  <2>7. IsFindingOf(g, evidence, k + 1, key)
    BY <1>4, <1>6, <1>8, <1>11, <1>15, <2>3, <2>5, <2>6 DEF IsFindingOf
  <2>8. QED
    BY <2>7 DEF g, key
<1>16. CASE key \in DOMAIN fs
  <2>1. /\ f \in FindingSet /\ IsFindingOf(f, evidence, k, key)
        /\ f.first \in Nat /\ f.last \in Nat /\ f.severity \in Levels
    BY <1>7, <1>14, <1>16 DEF FindingSet
  <2>2. /\ IsFiniteSet(S) /\ f.observations = Cardinality(S)
        /\ \A i \in 1 .. k : evidence[i].key = key => Covers(f, evidence[i])
        /\ \E i \in 1 .. k : evidence[i].key = key /\ SeverityOf(evidence[i]) = f.severity
        /\ \E i \in 1 .. k : evidence[i].key = key /\ f.first \in TimesOf(evidence[i])
        /\ \E i \in 1 .. k : evidence[i].key = key /\ f.last \in TimesOf(evidence[i])
    BY <2>1 DEF IsFindingOf, S
  <2>3. IsFiniteSet(S \cup N) /\ Cardinality(S \cup N) = f.observations + Counted(a, r)
    <3>1. S \cap N = {}
      BY DEF N
    <3>2. Cardinality(S \cap N) = 0
      BY <3>1, FS_EmptySet
    <3>3. Cardinality(S) \in Nat /\ Cardinality(N) \in Nat
      BY <1>8, <2>2, FS_CardinalityType
    <3>4. IsFiniteSet(S \cup N) /\ Cardinality(S \cup N) = Cardinality(S) + Cardinality(N) - Cardinality(S \cap N)
      BY <1>8, <2>2, FS_Union
    <3>5. QED
      BY <1>8, <2>2, <3>2, <3>3, <3>4
  <2>4. g.first <= f.first /\ g.first <= first /\ f.last <= g.last /\ last <= g.last
        /\ g.first \in Nat /\ g.last \in Nat
        /\ (g.first = first \/ g.first = f.first) /\ (g.last = last \/ g.last = f.last)
    <3>1. /\ g.first = IF first < f.first THEN first ELSE f.first
          /\ g.last = IF last > f.last THEN last ELSE f.last
      BY <1>6, <1>16
    <3>2. QED
      BY <1>4, <2>1, <3>1
  <2>5. /\ Rank(f.severity) <= Rank(g.severity) /\ Rank(SeverityOf(r)) <= Rank(g.severity)
        /\ g.severity = SeverityOf(r) \/ g.severity = f.severity
    <3>1. g.severity = IF Rank(SeverityOf(r)) > Rank(f.severity) THEN SeverityOf(r) ELSE f.severity
      BY <1>6, <1>16
    <3>2. Rank(SeverityOf(r)) \in Nat /\ Rank(f.severity) \in Nat
      BY <1>2, <1>13, <2>1
    <3>3. QED
      BY <3>1, <3>2
  <2>6. \A i \in 1 .. k : evidence[i].key = key => Covers(g, evidence[i])
    BY <1>2, <1>7, <2>1, <2>2, <2>4, <2>5, WiderCovers
  <2>7. Covers(g, r)
    <3>1. ASSUME NEW t \in TimesOf(r) PROVE t \in g.first .. g.last
      <4>1. CASE t \in FreshTimes(a, r)
        <5>1. t \in Nat /\ first <= t /\ t <= last
          BY <1>2, <4>1
        <5>2. QED
          BY <1>4, <2>4, <5>1
      <4>2. CASE t \notin FreshTimes(a, r)
        <5>1. PICK i \in 1 .. k : evidence[i].key = key /\ t \in TimesOf(evidence[i])
          BY <1>9, <4>2
        <5>2. QED
          BY <2>6, <5>1 DEF Covers
      <4>3. QED
        BY <4>1, <4>2
    <3>2. QED
      BY <2>5, <3>1 DEF Covers
  <2>8. \A i \in 1 .. k + 1 : evidence[i].key = key => Covers(g, evidence[i])
    BY <1>11, <1>12, <2>6, <2>7
  <2>9. evidence[k + 1].key = key
    BY <1>11 DEF key
  <2>10. \E i \in 1 .. k + 1 : evidence[i].key = key /\ SeverityOf(evidence[i]) = g.severity
    BY <1>11, <2>2, <2>5, <2>9
  <2>11. \E i \in 1 .. k + 1 : evidence[i].key = key /\ g.first \in TimesOf(evidence[i])
    BY <1>4, <1>11, <2>2, <2>4, <2>9
  <2>12. \E i \in 1 .. k + 1 : evidence[i].key = key /\ g.last \in TimesOf(evidence[i])
    BY <1>4, <1>11, <2>2, <2>4, <2>9
  <2>13. g.observations = f.observations + Counted(a, r)
    BY <1>6, <1>16
  <2>14. IsFindingOf(g, evidence, k + 1, key)
    BY <1>10, <2>3, <2>8, <2>10, <2>11, <2>12, <2>13 DEF IsFindingOf
  <2>15. QED
    BY <2>14 DEF g, key
<1>17. QED
  BY <1>15, <1>16

\* One round of the loop keeps the findings those of the records it has seen.
LEMMA ObservingKeeps ==
  ASSUME NEW I, NEW X, NEW K, NEW evidence \in Seq(Records(I, X, K)), Agree(evidence),
         NEW k \in Nat, k + 1 \in 1 .. Len(evidence), NEW a \in Watches(I, X, K), HasSeen(a, evidence, k),
         AreFindings(a.findings, evidence, k),
         NEW b, b = Observe(a, evidence[k + 1])
  PROVE  HasSeen(b, evidence, k + 1) /\ AreFindings(b.findings, evidence, k + 1)
<1> DEFINE r == evidence[k + 1]
<1>1. r \in Records(I, X, K)
  OBVIOUS
<1>2. \A i : i \in 1 .. k + 1 <=> i \in 1 .. k \/ i = k + 1
  OBVIOUS
<1> HIDE DEF r
<1>3. b = Observe(a, r)
  BY DEF r
<1>4. /\ b.events = a.events \cup EventsOf(r) /\ b.entries = a.entries \cup EntriesOf(r)
      /\ IsStale(a, r) => b.findings = a.findings
      /\ ~IsStale(a, r) => Updates(a, r, b.findings)
      /\ FreshTimes(a, r) \subseteq TimesOf(r) /\ Counted(a, r) \in Nat
  <2>1. Sees(a, r, Observe(a, r))
    BY <1>1, ObservingIs
  <2>2. IsStale(a, r) => Observe(a, r).findings = a.findings
    BY <1>1, ObservingIs
  <2>3. ~IsStale(a, r) => Updates(a, r, Observe(a, r).findings)
    BY <1>1, ObservingIs
  <2>4. FreshTimes(a, r) \subseteq TimesOf(r) /\ Counted(a, r) \in Nat
    BY <1>1, ObservingIs
  <2>5. QED
    BY <1>3, <2>1, <2>2, <2>3, <2>4 DEF Sees
<1>5. HasSeen(b, evidence, k + 1)
  <2>1. ASSUME NEW x PROVE x \in b.events <=> \E i \in 1 .. k + 1 : x \in EventsOf(evidence[i])
    BY <1>2, <1>4 DEF HasSeen, r
  <2>2. ASSUME NEW x PROVE x \in b.entries <=> \E i \in 1 .. k + 1 : x \in EntriesOf(evidence[i])
    BY <1>2, <1>4 DEF HasSeen, r
  <2>3. QED
    BY <2>1, <2>2 DEF HasSeen
<1>6. Keys(evidence, k + 1) = Keys(evidence, k) \cup {r.key}
  BY <1>2 DEF Keys, r
<1>7. DOMAIN a.findings = Keys(evidence, k) /\ \A key \in DOMAIN a.findings : IsFindingOf(a.findings[key], evidence, k, key)
  BY DEF AreFindings
<1>8. \A key \in DOMAIN a.findings : key # r.key => IsFindingOf(a.findings[key], evidence, k + 1, key)
  BY <1>7, FindingStays DEF r
<1>9. CASE IsStale(a, r)
  <2>1. b.findings = a.findings
    BY <1>4, <1>9
  <2>2. r.key \in Keys(evidence, k)
    <3>1. \E i \in 1 .. k : evidence[i].key = r.key
      BY <1>9, StaleIsCovered DEF r
    <3>2. QED
      BY <3>1 DEF Keys
  <2>3. IsFindingOf(a.findings[r.key], evidence, k + 1, r.key)
    <3>1. IsFindingOf(a.findings[r.key], evidence, k, r.key)
      BY <1>7, <2>2
    <3>2. QED
      BY <1>9, <3>1, StaleIsCovered DEF r
  <2>4. DOMAIN b.findings = Keys(evidence, k + 1)
    BY <1>6, <1>7, <2>1, <2>2
  <2>5. QED
    BY <1>5, <1>8, <2>1, <2>3, <2>4 DEF AreFindings
<1>10. CASE ~IsStale(a, r)
  <2>1. PICK first \in FreshTimes(a, r), last \in FreshTimes(a, r) :
          /\ \A t \in FreshTimes(a, r) : first <= t /\ t <= last
          /\ b.findings = AddFinding(a.findings, r.key, SeverityOf(r), first, last, Counted(a, r))
    BY <1>4, <1>10 DEF Updates
  <2> DEFINE after == b.findings
  <2>2. IsFindingOf(after[r.key], evidence, k + 1, r.key)
    BY <1>10, <2>1, FreshIsCovered DEF r
  <2>3. after \in FindingsOver(K) /\ IsAdded(a.findings, after, r.key, SeverityOf(r), first, last, Counted(a, r))
    <3>1. r.key \in K /\ TimesOf(r) \subseteq Nat /\ SeverityOf(r) \in Levels
      BY <1>1, RecordsAre
    <3>2. first \in Nat /\ last \in Nat
      BY <1>4, <3>1
    <3>3. a.findings \in FindingsOver(K)
      BY DEF Watches
    <3>4. after = AddFinding(a.findings, r.key, SeverityOf(r), first, last, Counted(a, r))
      BY <2>1
    <3> HIDE DEF after
    <3>5. QED
      BY <1>4, <3>1, <3>2, <3>3, <3>4, FindingIsAdded
  <2>4. /\ DOMAIN after = DOMAIN a.findings \cup {r.key}
        /\ \A key \in DOMAIN a.findings : key # r.key => after[key] = a.findings[key]
    BY <2>3 DEF IsAdded
  <2> HIDE DEF after
  <2>5. DOMAIN after = Keys(evidence, k + 1)
    BY <1>6, <1>7, <2>4
  <2>6. \A key \in DOMAIN after : IsFindingOf(after[key], evidence, k + 1, key)
    BY <1>8, <2>2, <2>4
  <2>7. AreFindings(after, evidence, k + 1)
    BY <2>5, <2>6 DEF AreFindings
  <2>8. QED
    BY <1>5, <2>7 DEF after
<1>11. QED
  BY <1>9, <1>10

\* The findings of analyze() are those of all the records.
LEMMA FindingsAreRight ==
  ASSUME NEW I, NEW X, NEW K, NEW evidence \in Seq(Records(I, X, K)), Agree(evidence)
  PROVE  Findings(evidence) \in FindingsOver(K) /\ AreFindings(Findings(evidence), evidence, Len(evidence))
<1> DEFINE n == Len(evidence)
           W == Watches(I, X, K)
<1>1. n \in Nat
  OBVIOUS
<1>2. PICK g : PartialWatches(g, evidence, W) /\ Findings(evidence) = g[n].findings
  BY RecordsAreObserved
<1> HIDE DEF n
<1>3. g \in [0 .. n -> W] /\ g[0] = NothingSeen /\ \A k \in 1 .. n : g[k] = Observe(g[k - 1], evidence[k])
  BY <1>2 DEF PartialWatches, n
<1> DEFINE T == {k \in 0 .. n : HasSeen(g[k], evidence, k) /\ AreFindings(g[k].findings, evidence, k)}
<1> HIDE DEF W
<1>4. 0 \in T
  <2>1. NothingSeen.events = {} /\ NothingSeen.entries = {} /\ DOMAIN NothingSeen.findings = {}
    BY DEF NothingSeen
  <2>2. 1 .. 0 = {}
    OBVIOUS
  <2>3. HasSeen(NothingSeen, evidence, 0)
    BY <2>1, <2>2 DEF HasSeen
  <2>4. AreFindings(NothingSeen.findings, evidence, 0)
    BY <2>1, <2>2 DEF AreFindings, Keys
  <2>5. QED
    BY <1>1, <1>3, <2>3, <2>4
<1>5. ASSUME NEW k \in 0 .. n - 1, k \in T PROVE k + 1 \in T
  <2> DEFINE a == g[k]
             b == g[k + 1]
  <2>1. k \in Nat /\ k \in 0 .. n /\ k + 1 \in 1 .. n /\ k + 1 \in 0 .. n /\ (k + 1) - 1 = k
    BY <1>1
  <2>2. a \in Watches(I, X, K) /\ HasSeen(a, evidence, k) /\ AreFindings(a.findings, evidence, k)
    BY <1>3, <1>5, <2>1 DEF W
  <2>3. b = Observe(a, evidence[k + 1]) /\ k + 1 \in 1 .. Len(evidence)
    BY <1>3, <2>1 DEF n
  <2> HIDE DEF a, b, T
  <2>4. HasSeen(b, evidence, k + 1) /\ AreFindings(b.findings, evidence, k + 1)
    BY <2>1, <2>2, <2>3, ObservingKeeps
  <2>5. QED
    BY <2>1, <2>4 DEF T, b
<1> HIDE DEF T
<1>6. n \in T
  <2>1. \A k \in 0 .. n : k \in T
    BY <1>1, <1>4, <1>5, Upward
  <2>2. QED
    BY <1>1, <2>1
<1>7. AreFindings(g[n].findings, evidence, n) /\ g[n] \in Watches(I, X, K)
  BY <1>1, <1>3, <1>6 DEF T, W
<1>8. g[n].findings \in FindingsOver(K)
  BY <1>7 DEF Watches
<1>9. QED
  BY <1>2, <1>7, <1>8 DEF n

-----------------------------------------------------------------------------
\* Two records of the evidence exchanged.
Swapped(evidence, m, n) == [evidence EXCEPT ![m] = evidence[n], ![n] = evidence[m]]
Other(i, m, n) == IF i = m THEN n ELSE IF i = n THEN m ELSE i

\* Each of two lists is the other with two records exchanged.
AreSwapped(v, w, m, n) ==
  /\ Len(v) \in Nat /\ Len(w) = Len(v) /\ m \in 1 .. Len(v) /\ n \in 1 .. Len(v)
  /\ \A i \in 1 .. Len(v) : w[i] = v[Other(i, m, n)]
  /\ \A i \in 1 .. Len(v) : v[i] = w[Other(i, m, n)]

LEMMA SwappedIs ==
  ASSUME NEW R, NEW evidence \in Seq(R), NEW m \in 1 .. Len(evidence), NEW n \in 1 .. Len(evidence),
         NEW w, w = Swapped(evidence, m, n)
  PROVE  w \in Seq(R) /\ AreSwapped(evidence, w, m, n) /\ AreSwapped(w, evidence, m, n)
<1> DEFINE l == Len(evidence)
<1>1. l \in Nat /\ DOMAIN evidence = 1 .. l /\ evidence \in [1 .. l -> R]
  OBVIOUS
<1> HIDE DEF l
<1>2. m \in 1 .. l /\ n \in 1 .. l
  BY DEF l
<1>3. w = [[evidence EXCEPT ![m] = evidence[n]] EXCEPT ![n] = evidence[m]]
  BY DEF Swapped
<1>4. /\ w \in [1 .. l -> R]
      /\ \A i \in 1 .. l : w[i] = IF i = n THEN evidence[m] ELSE IF i = m THEN evidence[n] ELSE evidence[i]
  BY <1>1, <1>2, <1>3
<1>5. w \in Seq(R) /\ Len(w) = l
  BY <1>1, <1>4
<1>6. \A i \in 1 .. l : Other(i, m, n) \in 1 .. l
  BY <1>2 DEF Other
<1>7. \A i \in 1 .. l : w[i] = evidence[Other(i, m, n)]
  BY <1>4 DEF Other
<1>8. \A i \in 1 .. l : evidence[i] = w[Other(i, m, n)]
  BY <1>2, <1>4, <1>6 DEF Other
<1>9. QED
  BY <1>1, <1>2, <1>5, <1>7, <1>8 DEF AreSwapped, l

\* Agreement is about the records, not about their order.
LEMMA SwappedAgrees ==
  ASSUME NEW R, NEW v \in Seq(R), NEW w \in Seq(R), NEW m, NEW n, AreSwapped(v, w, m, n), Agree(v)
  PROVE  Agree(w) /\ Keys(w, Len(w)) = Keys(v, Len(v))
<1> DEFINE l == Len(v)
<1>1. l \in Nat /\ DOMAIN v = 1 .. l /\ DOMAIN w = 1 .. l /\ Len(w) = l
  BY DEF AreSwapped
<1>2. \A i \in 1 .. l : Other(i, m, n) \in 1 .. l
  BY DEF Other, AreSwapped
<1>3. \A i \in 1 .. l : \E j \in 1 .. l : w[i] = v[j]
  BY <1>2 DEF AreSwapped
<1>4. \A i \in 1 .. l : \E j \in 1 .. l : v[i] = w[j]
  BY <1>2 DEF AreSwapped
<1> HIDE DEF l
<1>5. Keys(w, l) = Keys(v, l)
  <2>1. ASSUME NEW key PROVE key \in Keys(w, l) => key \in Keys(v, l)
    BY <1>3 DEF Keys
  <2>2. ASSUME NEW key PROVE key \in Keys(v, l) => key \in Keys(w, l)
    BY <1>4 DEF Keys
  <2>3. QED
    BY <2>1, <2>2
<1>6. ASSUME NEW i \in 1 .. l, NEW j \in 1 .. l,
             w[i].kind = "event", w[j].kind = "event", w[i].id = w[j].id
      PROVE  w[i] = w[j]
  <2>1. PICK x \in 1 .. l, y \in 1 .. l : w[i] = v[x] /\ w[j] = v[y]
    BY <1>3
  <2>2. QED
    BY <1>1, <1>6, <2>1 DEF Agree
<1>7. ASSUME NEW i \in 1 .. l, NEW j \in 1 .. l,
             w[i].kind = "summary", w[j].kind = "summary", ToSet(w[i].entries) \cap ToSet(w[j].entries) # {}
      PROVE  w[i].key = w[j].key
  <2>1. PICK x \in 1 .. l, y \in 1 .. l : w[i] = v[x] /\ w[j] = v[y]
    BY <1>3
  <2>2. v[x].kind = "summary" /\ v[y].kind = "summary" /\ ToSet(v[x].entries) \cap ToSet(v[y].entries) # {}
    BY <1>7, <2>1
  <2>3. v[x].key = v[y].key
    BY <1>1, <2>2 DEF Agree
  <2>4. QED
    BY <2>1, <2>3
<1>8. Agree(w)
  BY <1>1, <1>6, <1>7 DEF Agree
<1>9. QED
  BY <1>1, <1>5, <1>8 DEF l

\* What is shown when two records are exchanged: the checks change their numbers.
Renumbered(t, m, n) == IF t[1] = "check" THEN <<"check", Other(t[2], m, n)>> ELSE t

LEMMA ShownMoves ==
  ASSUME NEW I, NEW X, NEW K, NEW v \in Seq(Records(I, X, K)), NEW w \in Seq(Records(I, X, K)),
         NEW m, NEW n, AreSwapped(v, w, m, n), NEW key, NEW t \in ShownOf(v, Len(v), key)
  PROVE  Renumbered(t, m, n) \in ShownOf(w, Len(w), key) /\ Renumbered(Renumbered(t, m, n), m, n) = t
<1> DEFINE l == Len(v)
<1>1. l \in Nat /\ Len(w) = l /\ m \in 1 .. l /\ n \in 1 .. l
  BY DEF AreSwapped
<1>2. PICK i \in 1 .. l : v[i].key = key /\ t \in Shown(v, i)
  BY <1>1, ShownHasRecord
<1> DEFINE j == Other(i, m, n)
<1>3. j \in 1 .. l /\ w[j] = v[i] /\ Other(j, m, n) = i
  BY <1>1 DEF Other, AreSwapped
<1>4. v[i].kind \in {"event", "summary", "check"}
  <2>1. v[i] \in Records(I, X, K)
    OBVIOUS
  <2>2. QED
    BY <2>1, RecordsAre
<1>5. \/ v[i].kind = "event" /\ t = <<"event", v[i].id>>
      \/ v[i].kind = "summary" /\ \E x \in ToSet(v[i].entries) : t = <<"entry", x>>
      \/ v[i].kind = "check" /\ t = <<"check", i>>
  BY <1>2, <1>4, ShownParts
<1> HIDE DEF l, j
<1>6. w[j].kind \in {"event", "summary", "check"}
  BY <1>3, <1>4
<1>7. Renumbered(t, m, n) \in Shown(w, j) /\ Renumbered(Renumbered(t, m, n), m, n) = t
  <2>1. CASE v[i].kind = "event" /\ t = <<"event", v[i].id>>
    <3>1. Renumbered(t, m, n) = t
      BY <2>1 DEF Renumbered
    <3>2. t \in Shown(w, j)
      BY <1>3, <1>6, <2>1, ShownParts
    <3>3. QED
      BY <3>1, <3>2
  <2>2. CASE v[i].kind = "summary" /\ \E x \in ToSet(v[i].entries) : t = <<"entry", x>>
    <3>1. Renumbered(t, m, n) = t
      BY <2>2 DEF Renumbered
    <3>2. t \in Shown(w, j)
      BY <1>3, <1>6, <2>2, ShownParts
    <3>3. QED
      BY <3>1, <3>2
  <2>3. CASE v[i].kind = "check" /\ t = <<"check", i>>
    <3>1. Renumbered(t, m, n) = <<"check", j>>
      BY <2>3 DEF Renumbered, j
    <3>2. Renumbered(<<"check", j>>, m, n) = t
      BY <1>3, <2>3 DEF Renumbered
    <3>3. <<"check", j>> \in Shown(w, j)
      BY <1>3, <1>6, <2>3, ShownParts
    <3>4. QED
      BY <3>1, <3>2, <3>3
  <2>4. QED
    BY <1>5, <2>1, <2>2, <2>3
<1>8. Renumbered(t, m, n) \in ShownOf(w, l, key)
  BY <1>1, <1>2, <1>3, <1>7, ShownHasRecord
<1>9. QED
  BY <1>1, <1>7, <1>8

LEMMA ShownCounts ==
  ASSUME NEW I, NEW X, NEW K, NEW v \in Seq(Records(I, X, K)), NEW w \in Seq(Records(I, X, K)),
         NEW m, NEW n, AreSwapped(v, w, m, n), AreSwapped(w, v, m, n), NEW key,
         IsFiniteSet(ShownOf(v, Len(v), key))
  PROVE  Cardinality(ShownOf(w, Len(w), key)) = Cardinality(ShownOf(v, Len(v), key))
<1> DEFINE A == ShownOf(v, Len(v), key)
           B == ShownOf(w, Len(w), key)
           f == [t \in A |-> Renumbered(t, m, n)]
<1>1. \A t \in A : Renumbered(t, m, n) \in B /\ Renumbered(Renumbered(t, m, n), m, n) = t
  BY ShownMoves
<1>2. \A t \in B : Renumbered(t, m, n) \in A /\ Renumbered(Renumbered(t, m, n), m, n) = t
  BY ShownMoves
<1>3. IsFiniteSet(A)
  OBVIOUS
<1> HIDE DEF A, B
<1>4. f \in [A -> B]
  BY <1>1
<1>5. f \in Surjection(A, B)
  BY <1>1, <1>2 DEF Surjection
<1>6. f \in Injection(A, B)
  BY <1>1, <1>4 DEF Injection, IsInjective
<1> HIDE DEF f
<1>7. Cardinality(B) = Cardinality(A)
  BY <1>3, <1>5, <1>6, FS_Surjection
<1>8. QED
  BY <1>7 DEF A, B

\* Of two findings of the same records the one is no narrower than the other.
LEMMA FindingReaches ==
  ASSUME NEW I, NEW X, NEW K, NEW v \in Seq(Records(I, X, K)), NEW w, NEW l \in Nat, l = Len(v),
         \A i \in 1 .. l : \E j \in 1 .. l : v[i] = w[j],
         NEW key, NEW f \in FindingSet, NEW g \in FindingSet,
         IsFindingOf(f, v, l, key), IsFindingOf(g, w, l, key)
  PROVE  g.first <= f.first /\ f.last <= g.last /\ Rank(f.severity) <= Rank(g.severity)
<1>1. f.first \in Nat /\ f.last \in Nat /\ g.first \in Nat /\ g.last \in Nat
  BY DEF FindingSet
<1>2. \A i \in 1 .. l : v[i].key = key => Covers(g, v[i])
  <2>1. ASSUME NEW i \in 1 .. l, v[i].key = key PROVE Covers(g, v[i])
    <3>1. PICK j \in 1 .. l : v[i] = w[j]
      OBVIOUS
    <3>2. Covers(g, w[j])
      BY <2>1, <3>1 DEF IsFindingOf
    <3>3. QED
      BY <3>1, <3>2
  <2>2. QED
    BY <2>1
<1>3. PICK i \in 1 .. l : v[i].key = key /\ f.first \in TimesOf(v[i])
  BY DEF IsFindingOf
<1>4. f.first \in g.first .. g.last
  BY <1>2, <1>3 DEF Covers
<1>5. PICK j \in 1 .. l : v[j].key = key /\ f.last \in TimesOf(v[j])
  BY DEF IsFindingOf
<1>6. f.last \in g.first .. g.last
  BY <1>2, <1>5 DEF Covers
<1>7. PICK k \in 1 .. l : v[k].key = key /\ SeverityOf(v[k]) = f.severity
  BY DEF IsFindingOf
<1>8. Rank(f.severity) <= Rank(g.severity)
  BY <1>2, <1>7 DEF Covers
<1>9. QED
  BY <1>1, <1>4, <1>6, <1>8

\* The order of two records does not matter.
LEMMA SwappedFindings ==
  ASSUME NEW I, NEW X, NEW K, NEW v \in Seq(Records(I, X, K)), Agree(v),
         NEW w \in Seq(Records(I, X, K)), NEW m, NEW n, AreSwapped(v, w, m, n), AreSwapped(w, v, m, n)
  PROVE  Findings(w) = Findings(v)
<1> DEFINE l == Len(v)
           F == Findings(v)
           G == Findings(w)
<1>1. l \in Nat /\ Len(w) = l
  BY DEF AreSwapped
<1>2. Agree(w) /\ Keys(w, l) = Keys(v, l)
  BY <1>1, SwappedAgrees
<1>3. /\ F \in FindingsOver(K) /\ AreFindings(F, v, l)
      /\ G \in FindingsOver(K) /\ AreFindings(G, w, l)
  BY <1>1, <1>2, FindingsAreRight
<1>4. \A i \in 1 .. l : Other(i, m, n) \in 1 .. l
  BY DEF Other, AreSwapped
<1>5. /\ \A i \in 1 .. l : \E j \in 1 .. l : v[i] = w[j]
      /\ \A i \in 1 .. l : \E j \in 1 .. l : w[i] = v[j]
  BY <1>1, <1>4 DEF AreSwapped
<1>6. DOMAIN F = Keys(v, l) /\ DOMAIN G = DOMAIN F
  BY <1>2, <1>3 DEF AreFindings
<1>7. ASSUME NEW key \in DOMAIN F PROVE F[key] = G[key]
  <2> DEFINE f == F[key]
             g == G[key]
  <2>1. f \in FindingSet /\ g \in FindingSet
    <3> HIDE DEF F, G
    <3>1. QED
      BY <1>3, <1>6, FindingsAre
  <2>2. IsFindingOf(f, v, l, key) /\ IsFindingOf(g, w, l, key)
    <3> HIDE DEF F, G
    <3>1. QED
      BY <1>3, <1>6 DEF AreFindings
  <2> HIDE DEF f, g, l
  <2>3. l = Len(v) /\ l = Len(w)
    BY <1>1 DEF l
  <2>4. g.first <= f.first /\ f.last <= g.last /\ Rank(f.severity) <= Rank(g.severity)
    BY <1>1, <1>5, <2>1, <2>2, <2>3, FindingReaches
  <2>5. f.first <= g.first /\ g.last <= f.last /\ Rank(g.severity) <= Rank(f.severity)
    BY <1>1, <1>5, <2>1, <2>2, <2>3, FindingReaches
  <2>6. /\ f.first \in Nat /\ f.last \in Nat /\ f.severity \in Levels
        /\ g.first \in Nat /\ g.last \in Nat /\ g.severity \in Levels
    BY <2>1 DEF FindingSet
  <2>7. f.first = g.first /\ f.last = g.last
    BY <2>4, <2>5, <2>6
  <2>8. f.severity = g.severity
    BY <2>4, <2>5, <2>6, RanksDiffer DEF Levels
  <2>9. f.observations = g.observations
    <3>1. /\ IsFiniteSet(ShownOf(v, Len(v), key)) /\ f.observations = Cardinality(ShownOf(v, Len(v), key))
          /\ g.observations = Cardinality(ShownOf(w, Len(w), key))
      BY <2>2, <2>3 DEF IsFindingOf
    <3>2. QED
      BY <3>1, ShownCounts
  <2>10. f = g
    BY <2>1, <2>7, <2>8, <2>9 DEF FindingSet
  <2>11. QED
    BY <2>10 DEF f, g
<1>8. F = [k \in DOMAIN F |-> F[k]] /\ G = [k \in DOMAIN G |-> G[k]]
  <2> HIDE DEF F, G
  <2>1. QED
    BY <1>3, FindingsAre
<1> HIDE DEF F, G
<1>9. [k \in DOMAIN F |-> F[k]] = [k \in DOMAIN F |-> G[k]]
  BY <1>7, Zenon
<1>10. F = G
  BY <1>6, <1>8, <1>9
<1>11. QED
  BY <1>10 DEF F, G

\* The report counts each event and each entry once, whatever windows hold it, and
\* says of each finding when it was first and last seen and how severe it was, in
\* whatever order the records come (report.py, analyze).
THEOREM FindingsAlwaysCountOnce ==
  ASSUME NEW I, NEW X, NEW K, NEW evidence \in Seq(Records(I, X, K)), Agree(evidence)
  PROVE  FindingsCountOnce(evidence)
<1> DEFINE l == Len(evidence)
           F == Findings(evidence)
           Of(key) == {i \in DOMAIN evidence : evidence[i].key = key}
<1>1. l \in Nat /\ DOMAIN evidence = 1 .. l
  OBVIOUS
<1>2. F \in FindingsOver(K) /\ AreFindings(F, evidence, l)
  BY FindingsAreRight
<1>3. ASSUME NEW key \in DOMAIN F
      PROVE  /\ F[key].observations = Cardinality(UNION {Shown(evidence, i) : i \in Of(key)})
             /\ \A i \in Of(key) :
                  /\ TimesOf(evidence[i]) \subseteq F[key].first .. F[key].last
                  /\ Rank(SeverityOf(evidence[i])) <= Rank(F[key].severity)
  <2>1. UNION {Shown(evidence, i) : i \in Of(key)} = ShownOf(evidence, l, key)
    BY <1>1 DEF ShownOf
  <2>2. IsFindingOf(F[key], evidence, l, key)
    <3> HIDE DEF F
    <3>1. QED
      BY <1>2, <1>3 DEF AreFindings
  <2>3. \A i \in Of(key) : Covers(F[key], evidence[i])
    BY <1>1, <2>2 DEF IsFindingOf
  <2>4. F[key].observations = Cardinality(ShownOf(evidence, l, key))
    BY <2>2 DEF IsFindingOf
  <2>5. QED
    BY <2>1, <2>3, <2>4 DEF Covers
<1>4. ASSUME NEW i \in DOMAIN evidence, NEW j \in DOMAIN evidence
      PROVE  Findings([evidence EXCEPT ![i] = evidence[j], ![j] = evidence[i]]) = F
  <2> DEFINE w == Swapped(evidence, i, j)
  <2>1. i \in 1 .. Len(evidence) /\ j \in 1 .. Len(evidence)
    BY <1>1
  <2>2. w \in Seq(Records(I, X, K)) /\ AreSwapped(evidence, w, i, j) /\ AreSwapped(w, evidence, i, j)
    BY <2>1, SwappedIs
  <2> HIDE DEF w
  <2>3. Findings(w) = Findings(evidence)
    BY <2>2, SwappedFindings
  <2>4. QED
    BY <2>3 DEF w, Swapped
<1>5. QED
  BY <1>3, <1>4 DEF FindingsCountOnce

-----------------------------------------------------------------------------
(* Sorted lists.                                                            *)

\* One of two elements comes first, and what comes before it too.
IsOrder(S, before) ==
  /\ \A x \in S : <<x, x>> \notin before
  /\ \A x, y \in S : x = y \/ <<x, y>> \in before \/ <<y, x>> \in before
  /\ \A x, y, z \in S : <<x, y>> \in before /\ <<y, z>> \in before => <<x, z>> \in before

\* A list with every element of S once, in order.
IsInOrder(s, S, before) ==
  /\ s \in Seq(S) /\ Len(s) = Cardinality(S) /\ DOMAIN s = 1 .. Cardinality(S)
  /\ \A x \in S : \E i \in DOMAIN s : s[i] = x
  /\ \A i, j \in DOMAIN s : i < j => <<s[i], s[j]>> \in before
  /\ \A i, j \in DOMAIN s : s[i] = s[j] => i = j

\* Elements in the order of how many come before them are sorted.
LEMMA InOrderIsSorted ==
  ASSUME NEW S, IsFiniteSet(S), NEW before, IsOrder(S, before)
  PROVE  IsInOrder(InOrder(S, before), S, before)
<1> DEFINE n == Cardinality(S)
           Below(x) == {y \in S : <<y, x>> \in before}
           rank == [x \in S |-> Cardinality(Below(x)) + 1]
           s == InOrder(S, before)
<1>1. n \in Nat
  BY FS_CardinalityType
<1>2. ASSUME NEW x \in S PROVE IsFiniteSet(Below(x)) /\ Cardinality(Below(x)) \in Nat /\ rank[x] \in 1 .. n
  <2>1. Below(x) \subseteq S /\ x \notin Below(x)
    BY DEF IsOrder
  <2>2. Below(x) # S
    BY <2>1
  <2> HIDE DEF Below
  <2>3. IsFiniteSet(Below(x)) /\ Cardinality(Below(x)) <= n /\ Cardinality(Below(x)) # n
    BY <2>1, <2>2, FS_Subset
  <2>4. Cardinality(Below(x)) \in Nat
    BY <2>3, FS_CardinalityType
  <2>5. QED
    BY <1>1, <2>3, <2>4
<1>3. ASSUME NEW x \in S, NEW y \in S, <<x, y>> \in before PROVE rank[x] < rank[y]
  <2>1. Below(x) \subseteq Below(y) /\ x \in Below(y) /\ x \notin Below(x)
    BY <1>3 DEF IsOrder
  <2>2. IsFiniteSet(Below(y)) /\ IsFiniteSet(Below(x))
    BY <1>2
  <2>3. Cardinality(Below(x)) \in Nat /\ Cardinality(Below(y)) \in Nat
    BY <1>2
  <2>4. rank[x] = Cardinality(Below(x)) + 1 /\ rank[y] = Cardinality(Below(y)) + 1
    OBVIOUS
  <2> HIDE DEF Below, rank
  <2>5. Cardinality(Below(x)) <= Cardinality(Below(y)) /\ Cardinality(Below(x)) # Cardinality(Below(y))
    <3>1. Below(x) # Below(y)
      BY <2>1
    <3>2. QED
      BY <2>1, <2>2, <3>1, FS_Subset
  <2>6. QED
    BY <2>3, <2>4, <2>5
<1>4. ASSUME NEW x \in S, NEW y \in S, rank[x] = rank[y] PROVE x = y
  <2> HIDE DEF rank
  <2>1. rank[x] \in Nat /\ rank[y] \in Nat
    <3>1. rank[x] \in 1 .. n /\ rank[y] \in 1 .. n
      BY <1>2
    <3> HIDE DEF n
    <3>2. QED
      BY <1>1, <3>1
  <2>2. ~(rank[x] < rank[y]) /\ ~(rank[y] < rank[x])
    BY <1>4, <2>1
  <2>3. QED
    BY <1>3, <2>2 DEF IsOrder
<1>5. \A k \in 1 .. n : \E x \in S : rank[x] = k
  <2>1. IsFiniteSet(1 .. n) /\ Cardinality(1 .. n) = n
    BY <1>1, FS_Interval
  <2>2. DOMAIN rank = S /\ rank = [x \in S |-> rank[x]]
    OBVIOUS
  <2> HIDE DEF rank
  <2>3. rank \in Injection(S, 1 .. n)
    BY <1>2, <1>4, <2>2 DEF Injection, IsInjective
  <2>4. rank \in Surjection(S, 1 .. n)
    BY <2>1, <2>3, FS_Injection
  <2>5. QED
    BY <2>4 DEF Surjection
<1>6. \A x \in S : \A k \in 1 .. n : rank[x] = k <=> Cardinality(Below(x)) = k - 1
  <2>1. \A x \in S : rank[x] = Cardinality(Below(x)) + 1 /\ Cardinality(Below(x)) \in Nat
    BY <1>2
  <2> HIDE DEF rank, Below
  <2>2. QED
    BY <1>1, <2>1
<1>7. s = [k \in 1 .. n |-> CHOOSE x \in S : Cardinality(Below(x)) = k - 1]
  BY DEF InOrder
<1>8. ASSUME NEW k \in 1 .. n PROVE s[k] \in S /\ rank[s[k]] = k
  <2>1. \E x \in S : Cardinality(Below(x)) = k - 1
    BY <1>5, <1>6
  <2>2. s[k] = CHOOSE x \in S : Cardinality(Below(x)) = k - 1
    BY <1>7
  <2> HIDE DEF Below, s, rank
  <2>3. s[k] \in S /\ Cardinality(Below(s[k])) = k - 1
    BY <2>1, <2>2
  <2>4. QED
    BY <1>6, <2>3
<1>9. DOMAIN s = 1 .. n /\ s = [k \in 1 .. n |-> s[k]]
  BY <1>7
<1> HIDE DEF s, rank
<1>10. s \in Seq(S) /\ Len(s) = n
  <2>1. s \in [1 .. n -> S]
    BY <1>8, <1>9
  <2>2. QED
    BY <1>1, <2>1
<1>11. \A x \in S : \E i \in 1 .. n : s[i] = x
  <2>1. ASSUME NEW x \in S PROVE s[rank[x]] = x
    <3>1. rank[x] \in 1 .. n
      BY <1>2
    <3>2. s[rank[x]] \in S /\ rank[s[rank[x]]] = rank[x]
      BY <1>8, <3>1
    <3>3. QED
      BY <1>4, <3>2
  <2>2. QED
    BY <1>2, <2>1
<1>12. \A i, j \in 1 .. n : s[i] = s[j] => i = j
  BY <1>8
<1>13. ASSUME NEW i \in 1 .. n, NEW j \in 1 .. n, i < j PROVE <<s[i], s[j]>> \in before
  <2>1. s[i] # s[j]
    BY <1>12, <1>13
  <2>2. <<s[j], s[i]>> \notin before
    <3> SUFFICES ASSUME <<s[j], s[i]>> \in before PROVE FALSE
      OBVIOUS
    <3>1. rank[s[j]] < rank[s[i]]
      BY <1>3, <1>8
    <3>2. QED
      BY <1>1, <1>8, <1>13, <3>1
  <2>3. QED
    BY <1>8, <2>1, <2>2 DEF IsOrder
<1>14. QED
  BY <1>9, <1>10, <1>11, <1>12, <1>13 DEF s, IsInOrder

-----------------------------------------------------------------------------
(* Summaries of journal rows.                                               *)

\* Rows with groups of G, and what the loop over the rows keeps.
JournalRows(G) == [id : Nat, group : G, at : Nat, plain : BOOLEAN, eligible : BOOLEAN]
GroupsOver(G) == UNION {[D -> Seq(JournalRows(G)) \ {<<>>}] : D \in SUBSET G}
JournalTypes(G) ==
  [seen : SUBSET Nat, duplicates : Nat, kept : Seq(JournalRows(G)), groups : GroupsOver(G)]

\* Groups are functions of their keys.
LEMMA GroupsAre ==
  ASSUME NEW G
  PROVE  \A groups : groups \in GroupsOver(G)
           <=> /\ groups = [g \in DOMAIN groups |-> groups[g]] /\ DOMAIN groups \subseteq G
               /\ \A g \in DOMAIN groups : groups[g] \in Seq(JournalRows(G)) \ {<<>>}
<1> DEFINE R == Seq(JournalRows(G)) \ {<<>>}
<1> HIDE DEF R
<1>1. ASSUME NEW groups \in UNION {[D -> R] : D \in SUBSET G}
      PROVE  /\ groups = [g \in DOMAIN groups |-> groups[g]] /\ DOMAIN groups \subseteq G
             /\ \A g \in DOMAIN groups : groups[g] \in R
  <2>1. PICK D \in SUBSET G : groups \in [D -> R]
    OBVIOUS
  <2>2. QED
    BY <2>1
<1>2. ASSUME NEW groups, groups = [g \in DOMAIN groups |-> groups[g]], DOMAIN groups \subseteq G,
             \A g \in DOMAIN groups : groups[g] \in R
      PROVE  groups \in UNION {[D -> R] : D \in SUBSET G}
  <2>1. groups \in [DOMAIN groups -> R]
    BY <1>2
  <2>2. QED
    BY <1>2, <2>1
<1>3. QED
  BY <1>1, <1>2 DEF GroupsOver, R

\* A list grows at its end.
IsLonger(s, t, x) ==
  /\ Len(t) = Len(s) + 1 /\ DOMAIN t = 1 .. Len(s) + 1 /\ DOMAIN s = 1 .. Len(s) /\ Len(s) \in Nat
  /\ \A i \in DOMAIN s : t[i] = s[i]
  /\ t[Len(t)] = x

LEMMA AppendIsLonger ==
  ASSUME NEW R, NEW s \in Seq(R), NEW x \in R
  PROVE  Append(s, x) \in Seq(R) \ {<<>>} /\ IsLonger(s, Append(s, x), x)
<1>1. /\ Append(s, x) \in Seq(R) /\ Len(Append(s, x)) = Len(s) + 1 /\ Len(s) \in Nat
      /\ \A i \in 1 .. Len(s) : Append(s, x)[i] = s[i]
      /\ Append(s, x)[Len(s) + 1] = x
  OBVIOUS
<1>2. Append(s, x) # <<>>
  BY <1>1
<1>3. QED
  BY <1>1, <1>2 DEF IsLonger

\* The row at a place of a group.
InGroup(groups, g, i) == g \in DOMAIN groups /\ i \in DOMAIN groups[g]

\* One group has got a row at its end, or begins with it.
HasGrown(groups, after, row) ==
  /\ DOMAIN after = DOMAIN groups \cup {row.group}
  /\ \A g, i : InGroup(groups, g, i) => InGroup(after, g, i) /\ after[g][i] = groups[g][i]
  /\ \E last : /\ InGroup(after, row.group, last) /\ after[row.group][last] = row
               /\ \A g, i : InGroup(after, g, i) =>
                    \/ g = row.group /\ i = last
                    \/ InGroup(groups, g, i)

LEMMA GroupGrows ==
  ASSUME NEW G, NEW groups \in GroupsOver(G), NEW row \in JournalRows(G),
         NEW after, after = WithRow(groups, row)
  PROVE  after \in GroupsOver(G) /\ HasGrown(groups, after, row)
<1> DEFINE D == DOMAIN groups \cup {row.group}
           R == JournalRows(G)
           old == IF row.group \in DOMAIN groups THEN groups[row.group] ELSE <<>>
           new == Append(old, row)
<1>1. /\ groups = [g \in DOMAIN groups |-> groups[g]] /\ DOMAIN groups \subseteq G
      /\ \A g \in DOMAIN groups : groups[g] \in Seq(R) \ {<<>>}
  BY GroupsAre
<1>2. row.group \in G
  BY DEF JournalRows
<1> HIDE DEF R
<1>3. old \in Seq(R) /\ row \in R
  <2>1. row \in R
    BY DEF R
  <2>2. QED
    BY <1>1, <2>1
<1>4. after = [g \in D |-> IF g # row.group THEN groups[g]
                           ELSE IF g \in DOMAIN groups THEN Append(groups[g], row) ELSE <<row>>]
  BY DEF WithRow
<1>5. after[row.group] = new
  <2>1. CASE row.group \in DOMAIN groups
    BY <1>4, <2>1
  <2>2. CASE row.group \notin DOMAIN groups
    <3>1. Append(<<>>, row) = <<row>>
      OBVIOUS
    <3>2. QED
      BY <1>4, <2>2, <3>1
  <2>3. QED
    BY <2>1, <2>2
<1>6. DOMAIN after = D /\ after = [g \in D |-> after[g]] /\ \A g \in D : g # row.group => after[g] = groups[g]
  BY <1>4
<1> HIDE DEF old
<1>7. new \in Seq(R) \ {<<>>} /\ IsLonger(old, new, row)
  BY <1>3, AppendIsLonger
<1> HIDE DEF new
<1>8. after \in GroupsOver(G)
  <2>1. \A g \in DOMAIN after : after[g] \in Seq(R) \ {<<>>}
    BY <1>1, <1>5, <1>6, <1>7
  <2>2. DOMAIN after \subseteq G
    BY <1>1, <1>2, <1>6
  <2>3. after = [g \in DOMAIN after |-> after[g]]
    BY <1>6
  <2>4. QED
    BY <2>1, <2>2, <2>3, GroupsAre DEF R
<1> DEFINE last == Len(new)
<1>9. /\ last \in DOMAIN new /\ new[last] = row
      /\ \A i \in DOMAIN new : i = last \/ i \in DOMAIN old
      /\ \A i \in DOMAIN old : i \in DOMAIN new /\ new[i] = old[i]
  BY <1>7 DEF IsLonger
<1>10. \A i : i \in DOMAIN old <=> InGroup(groups, row.group, i)
  <2>1. DOMAIN <<>> = {}
    OBVIOUS
  <2>2. QED
    BY <2>1 DEF old, InGroup
<1>11. row.group \in DOMAIN groups => old = groups[row.group]
  BY DEF old
<1> HIDE DEF last
<1>12. ASSUME NEW g, NEW i, InGroup(groups, g, i)
       PROVE  InGroup(after, g, i) /\ after[g][i] = groups[g][i]
  <2>1. CASE g = row.group
    BY <1>5, <1>6, <1>9, <1>10, <1>11, <1>12, <2>1 DEF InGroup
  <2>2. CASE g # row.group
    BY <1>6, <1>12, <2>2 DEF InGroup
  <2>3. QED
    BY <2>1, <2>2
<1>13. ASSUME NEW g, NEW i, InGroup(after, g, i)
       PROVE  (g = row.group /\ i = last) \/ InGroup(groups, g, i)
  <2>1. CASE g = row.group
    BY <1>5, <1>9, <1>10, <1>13, <2>1 DEF InGroup
  <2>2. CASE g # row.group
    BY <1>6, <1>13, <2>2 DEF InGroup
  <2>3. QED
    BY <2>1, <2>2
<1>14. InGroup(after, row.group, last) /\ after[row.group][last] = row
  BY <1>5, <1>6, <1>9 DEF InGroup
<1>15. QED
  BY <1>6, <1>8, <1>12, <1>13, <1>14 DEF HasGrown

\* Every row that was seen is at one place: kept, or in the group that it names.
PlacedOnce(seen, kept, groups) ==
  /\ \A n : n \in seen <=> \/ \E i \in DOMAIN kept : kept[i].id = n
                           \/ \E g, i : InGroup(groups, g, i) /\ groups[g][i].id = n
  /\ \A i, j \in DOMAIN kept : kept[i].id = kept[j].id => i = j
  /\ \A g, i, h, j : InGroup(groups, g, i) /\ InGroup(groups, h, j) /\ groups[g][i].id = groups[h][j].id
                       => g = h /\ i = j
  /\ \A i \in DOMAIN kept : \A g, j : InGroup(groups, g, j) => kept[i].id # groups[g][j].id
  /\ \A g, i : InGroup(groups, g, i) => groups[g][i].group = g

\* A row of an identity not yet seen is kept ...
LEMMA KeptIsPlaced ==
  ASSUME NEW seen, NEW kept, NEW groups, PlacedOnce(seen, kept, groups),
         NEW row, row.id \notin seen, NEW after, IsLonger(kept, after, row)
  PROVE  PlacedOnce(seen \cup {row.id}, after, groups)
<1> DEFINE last == Len(after)
<1>1. /\ last \in DOMAIN after /\ after[last] = row
      /\ \A i \in DOMAIN after : i = last \/ i \in DOMAIN kept
      /\ \A i \in DOMAIN kept : i \in DOMAIN after /\ after[i] = kept[i]
  BY DEF IsLonger
<1> HIDE DEF last
<1>2. \A n : (\E i \in DOMAIN after : after[i].id = n) <=> (n = row.id \/ \E i \in DOMAIN kept : kept[i].id = n)
  BY <1>1
<1>3. (\A i \in DOMAIN kept : kept[i].id # row.id) /\ \A g, i : InGroup(groups, g, i) => groups[g][i].id # row.id
  BY DEF PlacedOnce
<1>4. \A n : n \in seen \cup {row.id} <=> \/ \E i \in DOMAIN after : after[i].id = n
                                         \/ \E g, i : InGroup(groups, g, i) /\ groups[g][i].id = n
  <2>1. ASSUME NEW n
        PROVE  n \in seen \cup {row.id} <=> \/ \E i \in DOMAIN after : after[i].id = n
                                           \/ \E g, i : InGroup(groups, g, i) /\ groups[g][i].id = n
    <3>1. n \in seen <=> \/ \E i \in DOMAIN kept : kept[i].id = n
                         \/ \E g, i : InGroup(groups, g, i) /\ groups[g][i].id = n
      BY DEF PlacedOnce
    <3>2. (\E i \in DOMAIN after : after[i].id = n) <=> (n = row.id \/ \E i \in DOMAIN kept : kept[i].id = n)
      BY <1>2
    <3>3. QED
      BY <3>1, <3>2, Zenon
  <2>2. QED
    BY <2>1
<1>5. ASSUME NEW i \in DOMAIN after, NEW j \in DOMAIN after, after[i].id = after[j].id
      PROVE  i = j
  BY <1>1, <1>3, <1>5 DEF PlacedOnce
<1>6. \A i \in DOMAIN after : \A g, j : InGroup(groups, g, j) => after[i].id # groups[g][j].id
  BY <1>1, <1>3 DEF PlacedOnce
<1>7. QED
  BY <1>4, <1>5, <1>6 DEF PlacedOnce

\* ... or put into its group.
LEMMA GroupedIsPlaced ==
  ASSUME NEW seen, NEW kept, NEW groups, PlacedOnce(seen, kept, groups),
         NEW row, row.id \notin seen, NEW after, HasGrown(groups, after, row)
  PROVE  PlacedOnce(seen \cup {row.id}, kept, after)
<1>1. PICK last : /\ InGroup(after, row.group, last) /\ after[row.group][last] = row
                  /\ \A g, i : InGroup(after, g, i) =>
                       \/ g = row.group /\ i = last
                       \/ InGroup(groups, g, i)
  BY DEF HasGrown
<1>2. \A g, i : InGroup(groups, g, i) => InGroup(after, g, i) /\ after[g][i] = groups[g][i]
  BY DEF HasGrown
<1>3. (\A i \in DOMAIN kept : kept[i].id # row.id) /\ \A g, i : InGroup(groups, g, i) => groups[g][i].id # row.id
  BY DEF PlacedOnce
<1>4. ASSUME NEW n
      PROVE  n \in seen \cup {row.id} <=> \/ \E i \in DOMAIN kept : kept[i].id = n
                                         \/ \E g, i : InGroup(after, g, i) /\ after[g][i].id = n
  <2>1. n \in seen <=> \/ \E i \in DOMAIN kept : kept[i].id = n
                       \/ \E g, i : InGroup(groups, g, i) /\ groups[g][i].id = n
    BY DEF PlacedOnce
  <2>2. (\E g, i : InGroup(after, g, i) /\ after[g][i].id = n)
          <=> (n = row.id \/ \E g, i : InGroup(groups, g, i) /\ groups[g][i].id = n)
    <3>1. (\E g, i : InGroup(after, g, i) /\ after[g][i].id = n)
            => (n = row.id \/ \E g, i : InGroup(groups, g, i) /\ groups[g][i].id = n)
      BY <1>1, <1>2
    <3>2. n = row.id => \E g, i : InGroup(after, g, i) /\ after[g][i].id = n
      BY <1>1
    <3>3. (\E g, i : InGroup(groups, g, i) /\ groups[g][i].id = n) => \E g, i : InGroup(after, g, i) /\ after[g][i].id = n
      BY <1>2
    <3>4. QED
      BY <3>1, <3>2, <3>3
  <2>3. QED
    BY <2>1, <2>2, Zenon
<1>5. ASSUME NEW g, NEW i, NEW h, NEW j, InGroup(after, g, i), InGroup(after, h, j), after[g][i].id = after[h][j].id
      PROVE  g = h /\ i = j
  <2>1. (g = row.group /\ i = last) \/ InGroup(groups, g, i)
    BY <1>1, <1>5
  <2>2. (h = row.group /\ j = last) \/ InGroup(groups, h, j)
    BY <1>1, <1>5
  <2>3. InGroup(groups, g, i) => after[g][i] = groups[g][i]
    BY <1>2
  <2>4. InGroup(groups, h, j) => after[h][j] = groups[h][j]
    BY <1>2
  <2>5. CASE InGroup(groups, g, i) /\ InGroup(groups, h, j)
    BY <1>5, <2>3, <2>4, <2>5 DEF PlacedOnce
  <2>6. CASE InGroup(groups, g, i) /\ h = row.group /\ j = last
    BY <1>1, <1>3, <1>5, <2>3, <2>6
  <2>7. CASE InGroup(groups, h, j) /\ g = row.group /\ i = last
    BY <1>1, <1>3, <1>5, <2>4, <2>7
  <2>8. QED
    BY <2>1, <2>2, <2>5, <2>6, <2>7
<1>6. ASSUME NEW i \in DOMAIN kept, NEW g, NEW j, InGroup(after, g, j)
      PROVE  kept[i].id # after[g][j].id
  <2>1. CASE InGroup(groups, g, j)
    <3>1. after[g][j] = groups[g][j]
      BY <1>2, <2>1
    <3>2. kept[i].id # groups[g][j].id
      BY <2>1 DEF PlacedOnce
    <3>3. QED
      BY <3>1, <3>2
  <2>2. CASE g = row.group /\ j = last
    BY <1>1, <1>3, <2>2
  <2>3. QED
    BY <1>1, <1>6, <2>1, <2>2
<1>7. ASSUME NEW g, NEW i, InGroup(after, g, i) PROVE after[g][i].group = g
  <2>1. CASE InGroup(groups, g, i)
    <3>1. after[g][i] = groups[g][i]
      BY <1>2, <2>1
    <3>2. groups[g][i].group = g
      BY <2>1 DEF PlacedOnce
    <3>3. QED
      BY <3>1, <3>2
  <2>2. CASE g = row.group /\ i = last
    BY <1>1, <2>2
  <2>3. QED
    BY <1>1, <1>7, <2>1, <2>2
<1>8. \A n : n \in seen \cup {row.id} <=> \/ \E i \in DOMAIN kept : kept[i].id = n
                                         \/ \E g, i : InGroup(after, g, i) /\ after[g][i].id = n
  BY <1>4
<1>9. \A i, j \in DOMAIN kept : kept[i].id = kept[j].id => i = j
  BY DEF PlacedOnce
<1>10. QED
  BY <1>5, <1>6, <1>7, <1>8, <1>9 DEF PlacedOnce

\* What one row changes: it is counted as a duplicate, kept, or put into its group.
RowAdded(a, row, after) ==
  \/ /\ row.id \in a.seen /\ after.seen = a.seen /\ after.duplicates = a.duplicates + 1
     /\ after.kept = a.kept /\ after.groups = a.groups
  \/ /\ row.id \notin a.seen /\ after.seen = a.seen \cup {row.id} /\ after.duplicates = a.duplicates
     /\ IsLonger(a.kept, after.kept, row) /\ after.groups = a.groups
  \/ /\ row.id \notin a.seen /\ after.seen = a.seen \cup {row.id} /\ after.duplicates = a.duplicates
     /\ row.eligible /\ ~NoRoomForGroup(a, row)
     /\ after.kept = a.kept /\ HasGrown(a.groups, after.groups, row)

LEMMA AddRowIs ==
  ASSUME NEW G, NEW a \in JournalTypes(G), NEW row \in JournalRows(G),
         NEW after, after = AddRow(a, row)
  PROVE  after \in JournalTypes(G) /\ RowAdded(a, row, after)
<1>1. /\ a = [seen |-> a.seen, duplicates |-> a.duplicates, kept |-> a.kept, groups |-> a.groups]
      /\ a.seen \in SUBSET Nat /\ a.duplicates \in Nat
      /\ a.kept \in Seq(JournalRows(G)) /\ a.groups \in GroupsOver(G)
  BY DEF JournalTypes
<1>2. row.id \in Nat /\ row.eligible \in BOOLEAN
  BY DEF JournalRows
<1>3. \A seen, duplicates, kept, groups :
        /\ seen \in SUBSET Nat /\ duplicates \in Nat /\ kept \in Seq(JournalRows(G)) /\ groups \in GroupsOver(G)
        => [seen |-> seen, duplicates |-> duplicates, kept |-> kept, groups |-> groups] \in JournalTypes(G)
  BY DEF JournalTypes
<1>4. CASE row.id \in a.seen
  <2>1. after = [seen |-> a.seen, duplicates |-> a.duplicates + 1, kept |-> a.kept, groups |-> a.groups]
    BY <1>1, <1>4 DEF AddRow
  <2>2. a.duplicates + 1 \in Nat
    BY <1>1
  <2>3. QED
    BY <1>1, <1>3, <1>4, <2>1, <2>2 DEF RowAdded
<1>5. CASE row.id \notin a.seen /\ (~row.eligible \/ NoRoomForGroup(a, row))
  <2>1. after = [seen |-> a.seen \cup {row.id}, duplicates |-> a.duplicates,
                 kept |-> Append(a.kept, row), groups |-> a.groups]
    BY <1>1, <1>5 DEF AddRow
  <2>2. Append(a.kept, row) \in Seq(JournalRows(G)) /\ IsLonger(a.kept, Append(a.kept, row), row)
    BY <1>1, AppendIsLonger
  <2>3. a.seen \cup {row.id} \in SUBSET Nat
    BY <1>1, <1>2
  <2>4. QED
    BY <1>1, <1>3, <1>5, <2>1, <2>2, <2>3 DEF RowAdded
<1>6. CASE row.id \notin a.seen /\ row.eligible /\ ~NoRoomForGroup(a, row)
  <2>1. after = [seen |-> a.seen \cup {row.id}, duplicates |-> a.duplicates,
                 kept |-> a.kept, groups |-> WithRow(a.groups, row)]
    BY <1>1, <1>6 DEF AddRow
  <2>2. WithRow(a.groups, row) \in GroupsOver(G) /\ HasGrown(a.groups, WithRow(a.groups, row), row)
    BY <1>1, GroupGrows
  <2>3. a.seen \cup {row.id} \in SUBSET Nat
    BY <1>1, <1>2
  <2>4. QED
    BY <1>1, <1>3, <1>6, <2>1, <2>2, <2>3 DEF RowAdded
<1>7. QED
  BY <1>4, <1>5, <1>6

\* Rows of one identity are one row, read more than once.
OneIdentity(rows) == \A i, j \in DOMAIN rows : rows[i].id = rows[j].id => rows[i] = rows[j]

\* What was read so far, counted and kept.
RowsCounted(rows, k, a) ==
  /\ \A n : n \in a.seen <=> \E i \in 1 .. k : rows[i].id = n
  /\ IsFiniteSet(a.seen) /\ a.duplicates = k - Cardinality(a.seen)
  /\ IsFiniteSet(DOMAIN a.groups) /\ Cardinality(DOMAIN a.groups) <= MaxGroups
  /\ \A i \in 1 .. k : ~rows[i].eligible => \E j \in DOMAIN a.kept : a.kept[j].id = rows[i].id

RowsPlaced(rows, k, a) == PlacedOnce(a.seen, a.kept, a.groups) /\ RowsCounted(rows, k, a)

LEMMA NothingIsPlaced ==
  ASSUME NEW G, NEW rows
  PROVE  NoRows \in JournalTypes(G) /\ RowsPlaced(rows, 0, NoRows)
<1>1. <<>> \in Seq(JournalRows(G)) /\ DOMAIN <<>> = {} /\ <<>> = [x \in {} |-> x]
  OBVIOUS
<1>2. <<>> \in GroupsOver(G)
  <2>1. <<>> = [g \in DOMAIN <<>> |-> <<>>[g]]
    OBVIOUS
  <2>2. QED
    BY <1>1, <2>1, GroupsAre
<1>3. NoRows \in JournalTypes(G)
  BY <1>1, <1>2 DEF NoRows, JournalTypes
<1>4. NoRows.seen = {} /\ NoRows.duplicates = 0 /\ NoRows.kept = <<>> /\ NoRows.groups = <<>>
  BY DEF NoRows
<1>5. PlacedOnce(NoRows.seen, NoRows.kept, NoRows.groups)
  BY <1>1, <1>4 DEF PlacedOnce, InGroup
<1>6. RowsCounted(rows, 0, NoRows)
  <2>1. IsFiniteSet({}) /\ Cardinality({}) = 0 /\ 1 .. 0 = {}
    BY FS_EmptySet
  <2>2. 0 <= MaxGroups
    BY NoiseAssumption
  <2>3. QED
    BY <1>1, <1>4, <2>1, <2>2 DEF RowsCounted
<1>7. QED
  BY <1>3, <1>5, <1>6 DEF RowsPlaced

\* Every row that is read is at one place, and counted.
LEMMA RowIsPlaced ==
  ASSUME NEW G, NEW rows \in Seq(JournalRows(G)), OneIdentity(rows), NEW k \in 1 .. Len(rows),
         NEW a \in JournalTypes(G), RowsPlaced(rows, k - 1, a),
         NEW after \in JournalTypes(G), RowAdded(a, rows[k], after)
  PROVE  RowsPlaced(rows, k, after)
<1> DEFINE row == rows[k]
<1>1. /\ Len(rows) \in Nat /\ DOMAIN rows = 1 .. Len(rows) /\ row \in JournalRows(G)
      /\ 1 .. k \subseteq DOMAIN rows /\ \A i : i \in 1 .. k <=> (i \in 1 .. k - 1 \/ i = k)
  OBVIOUS
<1>2. PlacedOnce(a.seen, a.kept, a.groups) /\ RowsCounted(rows, k - 1, a)
  BY DEF RowsPlaced
<1>3. /\ \A n : n \in a.seen <=> \E i \in 1 .. k - 1 : rows[i].id = n
      /\ IsFiniteSet(a.seen) /\ a.duplicates = (k - 1) - Cardinality(a.seen)
      /\ IsFiniteSet(DOMAIN a.groups) /\ Cardinality(DOMAIN a.groups) <= MaxGroups
      /\ \A i \in 1 .. k - 1 : ~rows[i].eligible => \E j \in DOMAIN a.kept : a.kept[j].id = rows[i].id
  BY <1>2 DEF RowsCounted
<1>4. Cardinality(a.seen) \in Nat /\ Cardinality(DOMAIN a.groups) \in Nat
  BY <1>3, FS_CardinalityType
<1>5. row.id \notin a.seen => /\ IsFiniteSet(a.seen \cup {row.id})
                              /\ Cardinality(a.seen \cup {row.id}) = Cardinality(a.seen) + 1
  BY <1>3, FS_AddElement
<1> HIDE DEF row
<1>6. rows[k] = row
  BY DEF row
<1>7. CASE /\ row.id \in a.seen /\ after.seen = a.seen /\ after.duplicates = a.duplicates + 1
           /\ after.kept = a.kept /\ after.groups = a.groups
  <2>1. \A n : n \in after.seen <=> \E i \in 1 .. k : rows[i].id = n
    BY <1>1, <1>3, <1>6, <1>7
  <2>2. after.duplicates = k - Cardinality(after.seen)
    BY <1>3, <1>4, <1>7
  <2>3. \A i \in 1 .. k : ~rows[i].eligible => \E j \in DOMAIN after.kept : after.kept[j].id = rows[i].id
    <3>1. PICK m \in 1 .. k - 1 : rows[m].id = row.id
      BY <1>3, <1>7
    <3>2. rows[m] = rows[k]
      BY <1>1, <1>6, <3>1 DEF OneIdentity
    <3>3. QED
      BY <1>1, <1>3, <1>6, <1>7, <3>1, <3>2
  <2>4. RowsCounted(rows, k, after)
    BY <1>3, <1>7, <2>1, <2>2, <2>3 DEF RowsCounted
  <2>5. PlacedOnce(after.seen, after.kept, after.groups)
    BY <1>2, <1>7
  <2>6. QED
    BY <2>4, <2>5 DEF RowsPlaced
<1>8. CASE /\ row.id \notin a.seen /\ after.seen = a.seen \cup {row.id} /\ after.duplicates = a.duplicates
           /\ IsLonger(a.kept, after.kept, row) /\ after.groups = a.groups
  <2>1. \A n : n \in after.seen <=> \E i \in 1 .. k : rows[i].id = n
    BY <1>1, <1>3, <1>6, <1>8
  <2>2. IsFiniteSet(after.seen) /\ after.duplicates = k - Cardinality(after.seen)
    BY <1>3, <1>4, <1>5, <1>8
  <2>3. \A i \in 1 .. k : ~rows[i].eligible => \E j \in DOMAIN after.kept : after.kept[j].id = rows[i].id
    <3>1. /\ \A i \in DOMAIN a.kept : i \in DOMAIN after.kept /\ after.kept[i] = a.kept[i]
          /\ Len(after.kept) \in DOMAIN after.kept /\ after.kept[Len(after.kept)] = row
      BY <1>8 DEF IsLonger
    <3>2. QED
      BY <1>1, <1>3, <1>6, <3>1
  <2>4. RowsCounted(rows, k, after)
    BY <1>3, <1>8, <2>1, <2>2, <2>3 DEF RowsCounted
  <2>5. PlacedOnce(after.seen, after.kept, after.groups)
    BY <1>2, <1>8, KeptIsPlaced
  <2>6. QED
    BY <2>4, <2>5 DEF RowsPlaced
<1>9. CASE /\ row.id \notin a.seen /\ after.seen = a.seen \cup {row.id} /\ after.duplicates = a.duplicates
           /\ row.eligible /\ ~NoRoomForGroup(a, row)
           /\ after.kept = a.kept /\ HasGrown(a.groups, after.groups, row)
  <2>1. \A n : n \in after.seen <=> \E i \in 1 .. k : rows[i].id = n
    BY <1>1, <1>3, <1>6, <1>9
  <2>2. IsFiniteSet(after.seen) /\ after.duplicates = k - Cardinality(after.seen)
    BY <1>3, <1>4, <1>5, <1>9
  <2>3. \A i \in 1 .. k : ~rows[i].eligible => \E j \in DOMAIN after.kept : after.kept[j].id = rows[i].id
    BY <1>1, <1>3, <1>6, <1>9
  <2>4. IsFiniteSet(DOMAIN after.groups) /\ Cardinality(DOMAIN after.groups) <= MaxGroups
    <3>1. DOMAIN after.groups = DOMAIN a.groups \cup {row.group}
      BY <1>9 DEF HasGrown
    <3>2. CASE row.group \in DOMAIN a.groups
      <4>1. DOMAIN after.groups = DOMAIN a.groups
        BY <3>1, <3>2
      <4>2. QED
        BY <1>3, <4>1
    <3>3. CASE row.group \notin DOMAIN a.groups
      <4>1. ~(Cardinality(DOMAIN a.groups) >= MaxGroups)
        BY <1>9, <3>3 DEF NoRoomForGroup
      <4>2. /\ IsFiniteSet(DOMAIN a.groups \cup {row.group})
            /\ Cardinality(DOMAIN a.groups \cup {row.group}) = Cardinality(DOMAIN a.groups) + 1
        BY <1>3, <3>3, FS_AddElement
      <4>3. QED
        BY <1>4, <3>1, <4>1, <4>2, NoiseAssumption
    <3>4. QED
      BY <3>2, <3>3
  <2>5. RowsCounted(rows, k, after)
    BY <2>1, <2>2, <2>3, <2>4 DEF RowsCounted
  <2>6. PlacedOnce(after.seen, after.kept, after.groups)
    BY <1>2, <1>9, GroupedIsPlaced
  <2>7. QED
    BY <2>5, <2>6 DEF RowsPlaced
<1>10. QED
  BY <1>6, <1>7, <1>8, <1>9 DEF RowAdded

\* The rows are read one by one.
LEMMA RowsArePlaced ==
  ASSUME NEW G, NEW rows \in Seq(JournalRows(G)), OneIdentity(rows)
  PROVE  /\ FoldLeft(AddRow, NoRows, rows) \in JournalTypes(G)
         /\ RowsPlaced(rows, Len(rows), FoldLeft(AddRow, NoRows, rows))
<1> DEFINE R == JournalRows(G)
           n == Len(rows)
           W == JournalTypes(G)
           base == NoRows
           step == [p \in W \X (1 .. n) |-> AddRow(p[1], rows[p[2]])]
           D == SUBSET (1 .. n)
           iter[s \in SUBSET DOMAIN rows] ==
             IF s = {} THEN NoRows ELSE AddRow(iter[s \ {Max(s)}], rows[Max(s)])
<1>1. n \in Nat /\ DOMAIN rows = 1 .. n /\ \A i \in 1 .. n : rows[i] \in R
  OBVIOUS
<1>2. base \in W /\ RowsPlaced(rows, 0, base)
  BY NothingIsPlaced
<1>3. \A w \in W : \A i \in 1 .. n : AddRow(w, rows[i]) \in W
  BY <1>1, AddRowIs
<1> HIDE DEF R, W, base
<1>4. step \in FoldSteps(W, n)
  BY <1>3 DEF FoldSteps
<1>5. PICK f : IsFold(f, W, n, step, base)
  <2> HIDE DEF step
  <2>1. QED
    BY <1>1, <1>2, <1>4, FoldExists
<1>6. f \in [D -> W] /\ \A s \in D : f[s] = IF s = {} THEN base ELSE step[<<f[s \ {Max(s)}], Max(s)>>]
  BY <1>5 DEF IsFold
<1>7. ASSUME NEW s \in D
      PROVE  f[s] = IF s = {} THEN base ELSE AddRow(f[s \ {Max(s)}], rows[Max(s)])
  <2>1. CASE s = {}
    BY <1>6, <2>1
  <2>2. CASE s # {}
    <3>1. Max(s) \in 1 .. n /\ s \ {Max(s)} \in D
      BY <1>1, <2>2, GreatestIs
    <3>2. f[s \ {Max(s)}] \in W
      BY <1>6, <3>1
    <3>3. step[<<f[s \ {Max(s)}], Max(s)>>] = AddRow(f[s \ {Max(s)}], rows[Max(s)])
      BY <3>1, <3>2
    <3> HIDE DEF step
    <3>4. QED
      BY <1>6, <2>2, <3>3
  <2>3. QED
    BY <2>1, <2>2
<1>8. f = [s \in SUBSET DOMAIN rows |->
             IF s = {} THEN NoRows ELSE AddRow(f[s \ {Max(s)}], rows[Max(s)])]
  <2>1. f = [s \in D |-> f[s]]
    BY <1>6
  <2>2. [s \in D |-> f[s]] = [s \in D |-> IF s = {} THEN base ELSE AddRow(f[s \ {Max(s)}], rows[Max(s)])]
    BY <1>7, Zenon
  <2>3. QED
    BY <1>1, <2>1, <2>2, Zenon DEF base
<1>9. iter = [s \in SUBSET DOMAIN rows |->
                IF s = {} THEN NoRows ELSE AddRow(iter[s \ {Max(s)}], rows[Max(s)])]
  BY <1>8
<1>10. FoldLeft(AddRow, NoRows, rows) = iter[1 .. n]
  BY <1>1 DEF FoldLeft, MapThenFoldSet
<1> HIDE DEF iter, step
<1>11. iter[1 .. 0] = base
  <2>1. 1 .. 0 = {} /\ {} \in SUBSET DOMAIN rows
    OBVIOUS
  <2>2. QED
    BY <1>9, <2>1 DEF base
<1>12. ASSUME NEW k \in 1 .. n PROVE iter[1 .. k] = AddRow(iter[1 .. k - 1], rows[k])
  <2>1. Max(1 .. k) = k /\ (1 .. k) \ {k} = 1 .. k - 1
    BY <1>1, GreatestOfInterval
  <2>2. (\A i \in 1 .. k : i \in 1 .. n) /\ 1 \in 1 .. k
    BY <1>1
  <2>3. 1 .. k \in SUBSET DOMAIN rows
    BY <1>1, <2>2
  <2>4. QED
    BY <1>9, <2>1, <2>2, <2>3
<1> DEFINE T == {i \in 0 .. n : iter[1 .. i] \in W /\ RowsPlaced(rows, i, iter[1 .. i])}
<1>13. \A k \in 0 .. n : k \in T
  <2>1. 0 \in T
    BY <1>1, <1>2, <1>11
  <2>2. ASSUME NEW k \in 0 .. n - 1, k \in T PROVE k + 1 \in T
    <3>1. k + 1 \in 1 .. n /\ k + 1 \in 0 .. n /\ (k + 1) - 1 = k
      BY <1>1
    <3>2. iter[1 .. k + 1] = AddRow(iter[1 .. k], rows[k + 1])
      BY <1>12, <3>1
    <3>3. iter[1 .. k] \in W /\ RowsPlaced(rows, (k + 1) - 1, iter[1 .. k])
      BY <2>2, <3>1
    <3> HIDE DEF T
    <3>4. rows[k + 1] \in R
      BY <1>1, <3>1
    <3>5. iter[1 .. k + 1] \in W /\ RowAdded(iter[1 .. k], rows[k + 1], iter[1 .. k + 1])
      BY <3>2, <3>3, <3>4, AddRowIs DEF W, R
    <3>6. RowsPlaced(rows, k + 1, iter[1 .. k + 1])
      BY <3>1, <3>3, <3>5, RowIsPlaced DEF W
    <3>7. QED
      BY <3>1, <3>5, <3>6 DEF T
  <2> HIDE DEF T
  <2>3. QED
    BY <1>1, <2>1, <2>2, Upward
<1>14. n \in T
  BY <1>1, <1>13
<1>15. QED
  BY <1>10, <1>14 DEF W

\* The rows of t are those of s, at other places, by time.
IsSortedFrom(t, s) ==
  /\ DOMAIN t = DOMAIN s /\ Len(t) = Len(s) /\ t = [i \in DOMAIN t |-> t[i]]
  /\ \A i \in DOMAIN t : \E j \in DOMAIN s : t[i] = s[j]
  /\ \A j \in DOMAIN s : \E i \in DOMAIN t : t[i] = s[j]
  /\ (\A i, j \in DOMAIN s : s[i].id = s[j].id => i = j) => \A i, j \in DOMAIN t : t[i].id = t[j].id => i = j
  /\ \A i, j \in DOMAIN t : i < j => t[i].at <= t[j].at

\* Three numbers in lexicographic order.
IsFirst(a, b, c, d, e, f) == a < d \/ (a = d /\ (b < e \/ (b = e /\ c < f)))

LEMMA FirstOfFirst ==
  ASSUME NEW a \in Nat, NEW b \in Nat, NEW c \in Nat, NEW d \in Nat, NEW e \in Nat, NEW f \in Nat,
         NEW g \in Nat, NEW h \in Nat, NEW i \in Nat,
         IsFirst(a, b, c, d, e, f), IsFirst(d, e, f, g, h, i)
  PROVE  IsFirst(a, b, c, g, h, i)
<1>1. CASE a < d \/ d < g
  BY <1>1 DEF IsFirst
<1>2. CASE a = d /\ d = g
  BY <1>2 DEF IsFirst
<1>3. QED
  BY <1>1, <1>2 DEF IsFirst

LEMMA RowsAreSorted ==
  ASSUME NEW G, NEW s \in Seq(JournalRows(G))
  PROVE  SortedRows(s) \in Seq(JournalRows(G)) /\ IsSortedFrom(SortedRows(s), s)
<1> DEFINE n == Len(s)
           S == DOMAIN s
           First(i, j) == Earlier(s[i], s[j]) \/ (~Earlier(s[j], s[i]) /\ i < j)
           before == {p \in S \X S : First(p[1], p[2])}
           o == InOrder(S, before)
           t == SortedRows(s)
<1>1. n \in Nat /\ S = 1 .. n /\ \A i \in S : s[i] \in JournalRows(G)
  OBVIOUS
<1>2. \A i \in S : s[i].at \in Nat /\ s[i].id \in Nat
  BY <1>1 DEF JournalRows
<1> HIDE DEF n, S
<1>3. \A i, j : <<i, j>> \in before <=> i \in S /\ j \in S /\ First(i, j)
  OBVIOUS
<1>4. \A i, j \in S : Earlier(s[i], s[j]) <=> s[i].at < s[j].at \/ (s[i].at = s[j].at /\ s[i].id < s[j].id)
  BY DEF Earlier
<1>5. IsOrder(S, before)
  <2>1. \A i \in S : ~First(i, i)
    BY <1>1, <1>2, <1>4
  <2>2. ASSUME NEW i \in S, NEW j \in S PROVE i = j \/ First(i, j) \/ First(j, i)
    BY <1>1, <1>2, <1>4
  <2>3. ASSUME NEW i \in S, NEW j \in S, NEW k \in S, First(i, j), First(j, k) PROVE First(i, k)
    <3>1. i \in Nat /\ j \in Nat /\ k \in Nat
      BY <1>1
    <3>2. /\ s[i].at \in Nat /\ s[j].at \in Nat /\ s[k].at \in Nat
          /\ s[i].id \in Nat /\ s[j].id \in Nat /\ s[k].id \in Nat
      BY <1>2
    <3>3. ASSUME NEW l \in S, NEW m \in S
          PROVE  First(l, m) <=> IsFirst(s[l].at, s[l].id, l, s[m].at, s[m].id, m)
      <4>1. l \in Nat /\ m \in Nat /\ s[l].at \in Nat /\ s[m].at \in Nat /\ s[l].id \in Nat /\ s[m].id \in Nat
        BY <1>1, <1>2
      <4>2. Earlier(s[l], s[m]) <=> s[l].at < s[m].at \/ (s[l].at = s[m].at /\ s[l].id < s[m].id)
        BY <1>4
      <4>3. Earlier(s[m], s[l]) <=> s[m].at < s[l].at \/ (s[m].at = s[l].at /\ s[m].id < s[l].id)
        BY <1>4
      <4>4. QED
        BY <4>1, <4>2, <4>3 DEF IsFirst
    <3>4. /\ IsFirst(s[i].at, s[i].id, i, s[j].at, s[j].id, j)
          /\ IsFirst(s[j].at, s[j].id, j, s[k].at, s[k].id, k)
      BY <2>3, <3>3
    <3> HIDE DEF First, before
    <3>5. IsFirst(s[i].at, s[i].id, i, s[k].at, s[k].id, k)
      BY <3>1, <3>2, <3>4, FirstOfFirst
    <3>6. QED
      BY <3>3, <3>5
  <2> HIDE DEF First, before
  <2>4. QED
    BY <1>3, <2>1, <2>2, <2>3 DEF IsOrder
<1>6. IsFiniteSet(S) /\ Cardinality(S) = n
  BY <1>1, FS_Interval
<1>7. t = [i \in S |-> s[o[i]]]
  BY DEF SortedRows, S
<1> HIDE DEF before, t
<1>8. IsInOrder(o, S, before)
  BY <1>5, <1>6, InOrderIsSorted
<1> HIDE DEF o
<1>9. /\ DOMAIN o = S
      /\ \A i \in S : o[i] \in S
      /\ \A j \in S : \E i \in S : o[i] = j
      /\ \A i, j \in S : i < j => <<o[i], o[j]>> \in before
      /\ \A i, j \in S : o[i] = o[j] => i = j
  <2>1. DOMAIN o = S
    BY <1>1, <1>6, <1>8 DEF IsInOrder
  <2>2. \A i \in S : o[i] \in S
    BY <1>8, <2>1 DEF IsInOrder
  <2>3. QED
    BY <1>8, <2>1, <2>2 DEF IsInOrder
<1>10. DOMAIN t = S /\ t = [i \in DOMAIN t |-> t[i]] /\ \A i \in S : t[i] = s[o[i]]
  BY <1>7
<1>11. t \in Seq(JournalRows(G)) /\ Len(t) = n
  <2>1. t \in [1 .. n -> JournalRows(G)]
    BY <1>1, <1>7, <1>9
  <2>2. QED
    BY <1>1, <2>1
<1>12. ASSUME NEW i \in S, NEW j \in S, i < j PROVE t[i].at <= t[j].at
  <2>1. First(o[i], o[j])
    BY <1>3, <1>9, <1>12
  <2>2. /\ o[i] \in S /\ o[j] \in S /\ s[o[i]].at \in Nat /\ s[o[j]].at \in Nat
        /\ s[o[i]].id \in Nat /\ s[o[j]].id \in Nat
    BY <1>2, <1>9
  <2>3. s[o[i]].at <= s[o[j]].at
    BY <1>4, <2>1, <2>2
  <2>4. QED
    BY <1>10, <2>3
<1>13. ASSUME \A i, j \in S : s[i].id = s[j].id => i = j
       PROVE  \A i, j \in S : t[i].id = t[j].id => i = j
  BY <1>9, <1>10, <1>13
<1>14. \A i \in S : \E j \in S : t[i] = s[j]
  BY <1>9, <1>10
<1>15. \A j \in S : \E i \in S : t[i] = s[j]
  BY <1>9, <1>10
<1>16. QED
  BY <1>10, <1>11, <1>12, <1>13, <1>14, <1>15 DEF IsSortedFrom, S, n, t

\* The occurrences of a summary are read as they were packed.
LEMMA OccurrencesRestore ==
  ASSUME NEW s \in Seq([id : Nat, at : Nat, plain : BOOLEAN])
  PROVE  UnpackOccurrences(PackOccurrences(s)) = s
<1> DEFINE O == [id : Nat, at : Nat, plain : BOOLEAN]
<1>0. Len(s) \in Nat /\ DOMAIN s = 1 .. Len(s) /\ \A i \in DOMAIN s : s[i] \in O
  <2> HIDE DEF O
  <2>1. s \in Seq(O)
    BY DEF O
  <2>2. QED
    BY <2>1
<1>1. CASE ~(/\ Len(s) \in 1 .. MaxOccurrences /\ Len(s) >= Worth /\ \A i \in DOMAIN s : IsOccurrence(s[i]))
  <2>1. PackOccurrences(s) = [form |-> "list", list |-> s]
    BY <1>1 DEF PackOccurrences
  <2>2. QED
    BY <2>1 DEF UnpackOccurrences
<1>2. CASE /\ Len(s) \in 1 .. MaxOccurrences /\ Len(s) >= Worth /\ \A i \in DOMAIN s : IsOccurrence(s[i])
  <2> DEFINE base == s[1].at
             pairs == [i \in DOMAIN s |-> <<s[i].id, s[i].at - base>>]
             v == [form |-> "packed", base |-> base, pairs |-> pairs]
             t == [i \in DOMAIN pairs |-> [id |-> pairs[i][1], at |-> base + pairs[i][2], plain |-> TRUE]]
  <2>1. PackOccurrences(s) = v
    BY <1>2 DEF PackOccurrences
  <2>2. Len(s) \in Nat /\ DOMAIN s = 1 .. Len(s) /\ \A i \in DOMAIN s : s[i] \in O
    BY <1>0
  <2>3. \A i \in DOMAIN s : s[i].at \in Nat /\ s[i].at < Width /\ s[i].plain
    BY <1>2, <2>2 DEF IsOccurrence
  <2>4. base \in Nat /\ base < Width /\ Width \in Nat
    BY <1>2, <2>2, <2>3, FieldsAssumption
  <2>5. DOMAIN pairs = DOMAIN s /\ Len(pairs) = Len(s)
    <3>1. DOMAIN pairs = 1 .. Len(s)
      BY <2>2
    <3> HIDE DEF pairs
    <3>2. QED
      BY <2>2, <3>1
  <2> HIDE DEF base
  <2>6. \A i \in DOMAIN s : pairs[i][1] = s[i].id /\ base + pairs[i][2] = s[i].at
    <3>1. \A i \in DOMAIN s : pairs[i][1] = s[i].id /\ pairs[i][2] = s[i].at - base
      OBVIOUS
    <3> HIDE DEF pairs
    <3>2. QED
      BY <2>3, <2>4, <3>1
  <2> HIDE DEF pairs
  <2>7. \A i \in DOMAIN pairs : base + pairs[i][2] \in 0 .. Width - 1
    BY <2>3, <2>4, <2>5, <2>6
  <2>8. UnpackOccurrences(v) = t
    <3>1. v.form = "packed" /\ v.form # "list" /\ v.base = base /\ v.pairs = pairs
      OBVIOUS
    <3>2. v.base < Width /\ Len(v.pairs) \in 1 .. MaxOccurrences
      BY <1>2, <2>4, <2>5, <3>1
    <3> HIDE DEF v
    <3>3. QED
      BY <2>7, <3>1, <3>2 DEF UnpackOccurrences
  <2>9. t = s
    <3>1. \A i \in DOMAIN s : s[i] = [id |-> s[i].id, at |-> s[i].at, plain |-> s[i].plain]
      BY <2>2
    <3>2. \A i \in DOMAIN s : s[i].plain = TRUE
      BY <2>2, <2>3
    <3>3. \A i \in DOMAIN s : t[i] = s[i]
      BY <2>5, <2>6, <3>1, <3>2
    <3>4. t = [i \in DOMAIN s |-> t[i]]
      BY <2>5
    <3>5. s = [i \in DOMAIN s |-> s[i]]
      BY <2>2
    <3> HIDE DEF t
    <3>6. [i \in DOMAIN s |-> t[i]] = [i \in DOMAIN s |-> s[i]]
      BY <3>3, Zenon
    <3>7. QED
      BY <3>4, <3>5, <3>6, Zenon
  <2>10. QED
    BY <2>1, <2>8, <2>9
<1>3. QED
  BY <1>1, <1>2

\* A list in which no identity repeats has as many identities as entries.
LEMMA IdsAreCounted ==
  ASSUME NEW R, NEW s \in Seq(R), \A i, j \in DOMAIN s : s[i].id = s[j].id => i = j
  PROVE  Len(s) = Cardinality(Ids(s))
<1> DEFINE f == [i \in DOMAIN s |-> s[i].id]
<1>1. DOMAIN s = 1 .. Len(s) /\ Len(s) \in Nat
  OBVIOUS
<1>2. IsFiniteSet(1 .. Len(s)) /\ Cardinality(1 .. Len(s)) = Len(s)
  BY <1>1, FS_Interval
<1>3. DOMAIN f = DOMAIN s /\ f = [i \in DOMAIN f |-> f[i]] /\ \A i \in DOMAIN s : f[i] = s[i].id
  OBVIOUS
<1> HIDE DEF f
<1>4. f \in [DOMAIN s -> Ids(s)]
  BY <1>3 DEF Ids
<1>5. f \in Bijection(DOMAIN s, Ids(s))
  <2>1. f \in Injection(DOMAIN s, Ids(s))
    BY <1>3, <1>4 DEF Injection, IsInjective
  <2>2. f \in Surjection(DOMAIN s, Ids(s))
    BY <1>3, <1>4 DEF Surjection, Ids
  <2>3. QED
    BY <2>1, <2>2 DEF Bijection
<1>6. QED
  BY <1>1, <1>2, <1>5, FS_Bijection DEF ExistsBijection

LEMMA OneEntry == ASSUME NEW R, NEW q \in Seq(R), Len(q) = 1 PROVE 1 \in DOMAIN q /\ q[1] \in R
OBVIOUS

\* Two lists, one after the other.
AreJoined(s, q, t) ==
  /\ DOMAIN s = 1 .. Len(q) + Len(t) /\ Len(s) = Len(q) + Len(t)
  /\ \A i \in 1 .. Len(q) : s[i] = q[i]
  /\ \A i \in 1 .. Len(t) : s[Len(q) + i] = t[i]

LEMMA JoinedAre ==
  ASSUME NEW R, NEW q \in Seq(R), NEW t \in Seq(R)
  PROVE  q \o t \in Seq(R) /\ AreJoined(q \o t, q, t)
<1>1. q \o t \in Seq(R) /\ Len(q \o t) = Len(q) + Len(t) /\ Len(q) \in Nat /\ Len(t) \in Nat
  OBVIOUS
<1>2. DOMAIN (q \o t) = 1 .. Len(q) + Len(t)
  BY <1>1
<1>3. \A i \in 1 .. Len(q) : (q \o t)[i] = q[i]
  OBVIOUS
<1>4. \A i \in 1 .. Len(t) : (q \o t)[Len(q) + i] = t[i]
  OBVIOUS
<1>5. QED
  BY <1>1, <1>2, <1>3, <1>4 DEF AreJoined

\* The rows that are alone in their groups.
AloneIn(groups) == {groups[g][1] : g \in {h \in DOMAIN groups : Len(groups[h]) = 1}}

KeptAre(s, kept, groups) ==
  /\ Len(s) = Cardinality(Ids(s))
  /\ \A n : n \in Ids(s) <=> \/ \E i \in DOMAIN kept : kept[i].id = n
                             \/ \E r \in AloneIn(groups) : r.id = n

\* The rows that are kept: those that no group took, and those alone in theirs.
LEMMA RowsAreKept ==
  ASSUME NEW G, NEW seen, NEW kept \in Seq(JournalRows(G)), NEW groups \in GroupsOver(G),
         IsFiniteSet(DOMAIN groups), PlacedOnce(seen, kept, groups),
         NEW s, s = kept \o Singles(groups)
  PROVE  KeptAre(s, kept, groups)
<1> DEFINE R == JournalRows(G)
           H == {h \in DOMAIN groups : Len(groups[h]) = 1}
           A == AloneIn(groups)
           f == [g \in H |-> groups[g][1]]
           e == SetToSeq(A)
           m == Len(kept)
           k == Cardinality(A)
<1>1. \A g \in DOMAIN groups : groups[g] \in Seq(R) \ {<<>>}
  BY GroupsAre
<1>2. IsFiniteSet(A)
  <2>1. IsFiniteSet(H)
    <3>1. H \in SUBSET DOMAIN groups
      OBVIOUS
    <3> HIDE DEF H
    <3>2. QED
      BY <3>1, FS_Subset
  <2>2. f \in Surjection(H, A)
    BY DEF Surjection, AloneIn
  <2>3. QED
    BY <2>1, <2>2, FS_Surjection
<1>3. ASSUME NEW r \in A
      PROVE  \E g : InGroup(groups, g, 1) /\ groups[g][1] = r /\ r \in R
  <2>1. PICK g \in H : r = groups[g][1]
    BY DEF AloneIn
  <2>2. groups[g] \in Seq(R) /\ Len(groups[g]) = 1 /\ g \in DOMAIN groups
    BY <1>1, <2>1
  <2> HIDE DEF R
  <2>3. 1 \in DOMAIN groups[g] /\ groups[g][1] \in R
    BY <2>2, OneEntry
  <2>4. QED
    BY <2>1, <2>2, <2>3 DEF InGroup
<1>4. /\ e \in Seq(A) /\ Len(e) = k /\ DOMAIN e = 1 .. k /\ k \in Nat
      /\ \A i, j \in 1 .. k : e[i] = e[j] => i = j
      /\ \A x \in A : \E i \in 1 .. k : e[i] = x
  BY <1>2, Enumerates
<1>5. m \in Nat /\ DOMAIN kept = 1 .. m /\ \A i \in 1 .. m : kept[i] \in R
  OBVIOUS
<1>6. s = kept \o e
  BY DEF Singles, AloneIn
<1> HIDE DEF R, A, e, k
<1>7. \A i \in 1 .. k : e[i] \in A
  BY <1>4
<1>8. e \in Seq(R)
  <2>1. \A x \in A : x \in R
    BY <1>3
  <2>2. \A i \in 1 .. k : e[i] \in R
    BY <1>7, <2>1
  <2>3. QED
    BY <1>4, <2>2
<1>9. /\ s \in Seq(R) /\ DOMAIN s = 1 .. m + k /\ Len(s) = m + k
      /\ \A i \in 1 .. m : s[i] = kept[i]
      /\ \A i \in 1 .. k : s[m + i] = e[i]
  <2>1. kept \in Seq(R)
    BY DEF R
  <2>2. s \in Seq(R) /\ AreJoined(s, kept, e)
    BY <1>6, <1>8, <2>1, JoinedAre
  <2>3. QED
    BY <1>4, <2>2 DEF AreJoined
<1> HIDE DEF m
<1>10. \A i \in 1 .. m + k : i \in 1 .. m \/ \E j \in 1 .. k : i = m + j
  <2>1. ASSUME NEW i \in 1 .. m + k PROVE i \in 1 .. m \/ (i - m \in 1 .. k /\ i = m + (i - m))
    BY <1>4, <1>5
  <2>2. QED
    BY <2>1
<1>11. /\ \A i \in 1 .. m : i \in 1 .. m + k
       /\ \A i \in 1 .. k : m + i \in 1 .. m + k
  BY <1>4, <1>5
<1>12. /\ \A i, j \in DOMAIN kept : kept[i].id = kept[j].id => i = j
       /\ \A g, i, h, j : InGroup(groups, g, i) /\ InGroup(groups, h, j) /\ groups[g][i].id = groups[h][j].id
                            => g = h /\ i = j
       /\ \A i \in DOMAIN kept : \A g, j : InGroup(groups, g, j) => kept[i].id # groups[g][j].id
  BY DEF PlacedOnce
<1>13. \A r, q \in A : r.id = q.id => r = q
  BY <1>3, <1>12
<1>14. \A i \in 1 .. m : \A r \in A : kept[i].id # r.id
  BY <1>3, <1>5, <1>12
<1>15. ASSUME NEW i \in DOMAIN s, NEW j \in DOMAIN s, s[i].id = s[j].id PROVE i = j
  <2>1. CASE i \in 1 .. m /\ j \in 1 .. m
    BY <1>5, <1>9, <1>12, <1>15, <2>1
  <2>2. CASE i \in 1 .. m /\ \E n \in 1 .. k : j = m + n
    BY <1>7, <1>9, <1>14, <1>15, <2>2
  <2>3. CASE j \in 1 .. m /\ \E n \in 1 .. k : i = m + n
    BY <1>7, <1>9, <1>14, <1>15, <2>3
  <2>4. CASE (\E n \in 1 .. k : i = m + n) /\ (\E n \in 1 .. k : j = m + n)
    <3>1. PICK n \in 1 .. k : i = m + n
      BY <2>4
    <3>2. PICK l \in 1 .. k : j = m + l
      BY <2>4
    <3>3. e[n].id = e[l].id
      BY <1>9, <1>15, <3>1, <3>2
    <3>4. n = l
      BY <1>4, <1>7, <1>13, <3>3
    <3>5. QED
      BY <3>1, <3>2, <3>4
  <2>5. QED
    BY <1>9, <1>10, <1>15, <2>1, <2>2, <2>3, <2>4
<1>16. Len(s) = Cardinality(Ids(s))
  BY <1>9, <1>15, IdsAreCounted
<1>17. ASSUME NEW n
       PROVE  n \in Ids(s) <=> \/ \E i \in DOMAIN kept : kept[i].id = n
                               \/ \E r \in A : r.id = n
  <2>1. n \in Ids(s) <=> \E i \in 1 .. m + k : s[i].id = n
    BY <1>9 DEF Ids
  <2>2. (\E i \in 1 .. m + k : s[i].id = n)
          => (\E i \in DOMAIN kept : kept[i].id = n) \/ \E r \in A : r.id = n
    BY <1>5, <1>7, <1>9, <1>10
  <2>3. (\E i \in DOMAIN kept : kept[i].id = n) => \E i \in 1 .. m + k : s[i].id = n
    BY <1>5, <1>9, <1>11
  <2>4. (\E r \in A : r.id = n) => \E i \in 1 .. m + k : s[i].id = n
    <3> SUFFICES ASSUME NEW r \in A, r.id = n PROVE \E i \in 1 .. m + k : s[i].id = n
      OBVIOUS
    <3>1. PICK i \in 1 .. k : e[i] = r
      BY <1>4
    <3>2. s[m + i] = r /\ m + i \in 1 .. m + k
      BY <1>9, <1>11, <3>1
    <3>3. QED
      BY <3>2
  <2>5. QED
    BY <2>1, <2>2, <2>3, <2>4
<1>18. QED
  BY <1>16, <1>17 DEF KeptAre, A

IsSummary(s, G, groups, g) ==
  /\ s \in Seq(JournalRows(G)) /\ Len(s) = Len(groups[g])
  /\ \A n : n \in Ids(s) <=> \E i : InGroup(groups, g, i) /\ groups[g][i].id = n
  /\ \A i \in DOMAIN s : s[i].group = g
  /\ \A i, j \in DOMAIN s : i < j => s[i].id # s[j].id /\ s[i].at <= s[j].at

\* The identities of a group are those of its summary.
LEMMA SummaryIs ==
  ASSUME NEW G, NEW seen, NEW kept, NEW groups \in GroupsOver(G),
         PlacedOnce(seen, kept, groups), NEW g \in DOMAIN groups,
         NEW s, s = SortedRows(groups[g])
  PROVE  IsSummary(s, G, groups, g)
<1> DEFINE r == groups[g]
<1>1. r \in Seq(JournalRows(G))
  BY GroupsAre
<1>2. s \in Seq(JournalRows(G)) /\ IsSortedFrom(s, r)
  BY <1>1, RowsAreSorted
<1>3. \A i : InGroup(groups, g, i) <=> i \in DOMAIN r
  BY DEF InGroup
<1>4. /\ \A i, j \in DOMAIN r : r[i].id = r[j].id => i = j
      /\ \A i \in DOMAIN r : r[i].group = g
  BY <1>3 DEF PlacedOnce
<1> HIDE DEF r
<1>5. /\ DOMAIN s = DOMAIN r /\ Len(s) = Len(r)
      /\ \A i, j \in DOMAIN s : s[i].id = s[j].id => i = j
      /\ \A i, j \in DOMAIN s : i < j => s[i].at <= s[j].at
  BY <1>2, <1>4 DEF IsSortedFrom
<1>6. \A i \in DOMAIN s : \E j \in DOMAIN r : s[i] = r[j]
  BY <1>2 DEF IsSortedFrom
<1>7. \A j \in DOMAIN r : \E i \in DOMAIN s : s[i] = r[j]
  BY <1>2 DEF IsSortedFrom
<1>8. ASSUME NEW i \in DOMAIN s, NEW j \in DOMAIN s, i < j PROVE s[i].id # s[j].id
  <2>1. DOMAIN s = 1 .. Len(s) /\ Len(s) \in Nat
    BY <1>2
  <2>2. i # j
    BY <1>8, <2>1
  <2>3. QED
    BY <1>5, <2>2
<1>9. ASSUME NEW n PROVE n \in Ids(s) <=> \E i \in DOMAIN r : r[i].id = n
  <2>1. n \in Ids(s) <=> \E i \in DOMAIN s : s[i].id = n
    BY DEF Ids
  <2>2. (\E i \in DOMAIN s : s[i].id = n) <=> \E i \in DOMAIN r : r[i].id = n
    <3>1. ASSUME NEW i \in DOMAIN s, s[i].id = n PROVE \E j \in DOMAIN r : r[j].id = n
      <4>1. PICK j \in DOMAIN r : s[i] = r[j]
        BY <1>6
      <4>2. r[j].id = n
        BY <3>1, <4>1
      <4>3. QED
        BY <4>2
    <3>2. ASSUME NEW j \in DOMAIN r, r[j].id = n PROVE \E i \in DOMAIN s : s[i].id = n
      <4>1. PICK i \in DOMAIN s : s[i] = r[j]
        BY <1>7
      <4>2. s[i].id = n
        BY <3>2, <4>1
      <4>3. QED
        BY <4>2
    <3>3. QED
      BY <3>1, <3>2
  <2>3. QED
    BY <2>1, <2>2
<1>10. \A i \in DOMAIN s : s[i].group = g
  BY <1>4, <1>6, Zenon
<1>11. \A n : n \in Ids(s) <=> \E i : InGroup(groups, g, i) /\ groups[g][i].id = n
  BY <1>3, <1>9, Zenon DEF r
<1>12. Len(s) = Len(groups[g])
  BY <1>5 DEF r
<1>13. QED
  BY <1>2, <1>5, <1>8, <1>10, <1>11, <1>12 DEF IsSummary

\* No journal row is lost or counted twice by a summary, and an importer reads
\* its occurrences as they were.
THEOREM JournalsAreKept ==
  ASSUME NEW G, NEW rows \in Seq(JournalRows(G)), OneIdentity(rows)
  PROVE  JournalKeeps(rows)
<1> DEFINE a == FoldLeft(AddRow, NoRows, rows)
           c == CompactJournal(rows)
           groups == DOMAIN c.summaries
           all == Ids(rows)
<1>1. a \in JournalTypes(G) /\ RowsPlaced(rows, Len(rows), a)
  BY RowsArePlaced
<1>2. /\ c.kept = a.kept \o Singles(a.groups) /\ c.duplicates = a.duplicates
      /\ groups = {g \in DOMAIN a.groups : Len(a.groups[g]) > 1}
      /\ \A g \in groups : c.summaries[g] = SortedRows(a.groups[g])
  BY DEF CompactJournal
<1> HIDE DEF a, c
<1>3. a.kept \in Seq(JournalRows(G)) /\ a.groups \in GroupsOver(G)
  BY <1>1 DEF JournalTypes
<1>4. PlacedOnce(a.seen, a.kept, a.groups) /\ RowsCounted(rows, Len(rows), a)
  BY <1>1 DEF RowsPlaced
<1>5. /\ \A n : n \in a.seen <=> \E i \in 1 .. Len(rows) : rows[i].id = n
      /\ a.duplicates = Len(rows) - Cardinality(a.seen)
      /\ IsFiniteSet(DOMAIN a.groups) /\ Cardinality(DOMAIN a.groups) <= MaxGroups
      /\ \A i \in 1 .. Len(rows) : ~rows[i].eligible => \E j \in DOMAIN a.kept : a.kept[j].id = rows[i].id
  BY <1>4 DEF RowsCounted
<1>6. a.seen = all
  BY <1>5 DEF Ids
<1> HIDE DEF all
<1>7. /\ Len(c.kept) = Cardinality(Ids(c.kept))
      /\ \A n : n \in Ids(c.kept) <=> \/ \E i \in DOMAIN a.kept : a.kept[i].id = n
                                      \/ \E r \in AloneIn(a.groups) : r.id = n
  <2>1. KeptAre(c.kept, a.kept, a.groups)
    BY <1>2, <1>3, <1>4, <1>5, RowsAreKept
  <2>2. QED
    BY <2>1 DEF KeptAre
<1>8. \A g \in DOMAIN a.groups : /\ a.groups[g] \in Seq(JournalRows(G)) \ {<<>>}
                                 /\ DOMAIN a.groups[g] = 1 .. Len(a.groups[g]) /\ Len(a.groups[g]) \in Nat \ {0}
  <2>1. ASSUME NEW g \in DOMAIN a.groups
        PROVE  /\ a.groups[g] \in Seq(JournalRows(G)) \ {<<>>}
               /\ DOMAIN a.groups[g] = 1 .. Len(a.groups[g]) /\ Len(a.groups[g]) \in Nat \ {0}
    <3>1. a.groups[g] \in Seq(JournalRows(G)) \ {<<>>}
      BY <1>3, GroupsAre
    <3>2. QED
      BY <3>1
  <2>2. QED
    BY <2>1
<1>9. ASSUME NEW g \in groups
      PROVE  IsSummary(c.summaries[g], G, a.groups, g) /\ Len(a.groups[g]) > 1 /\ g \in DOMAIN a.groups
  <2>1. g \in DOMAIN a.groups /\ Len(a.groups[g]) > 1 /\ c.summaries[g] = SortedRows(a.groups[g])
    BY <1>2
  <2>2. IsSummary(c.summaries[g], G, a.groups, g)
    BY <1>3, <1>4, <2>1, SummaryIs
  <2>3. QED
    BY <2>1, <2>2
<1>10. \A n : (\E r \in AloneIn(a.groups) : r.id = n)
                <=> \E g \in DOMAIN a.groups : Len(a.groups[g]) = 1 /\ a.groups[g][1].id = n
  BY DEF AloneIn
<1>11. ASSUME NEW n
       PROVE  n \in all <=> n \in Ids(c.kept) \/ \E g \in groups : n \in Ids(c.summaries[g])
  <2>1. n \in all <=> \/ \E i \in DOMAIN a.kept : a.kept[i].id = n
                      \/ \E g, i : InGroup(a.groups, g, i) /\ a.groups[g][i].id = n
    BY <1>4, <1>6 DEF PlacedOnce
  <2>2. (\E g, i : InGroup(a.groups, g, i) /\ a.groups[g][i].id = n)
          => (\E r \in AloneIn(a.groups) : r.id = n) \/ \E g \in groups : n \in Ids(c.summaries[g])
    <3> SUFFICES ASSUME NEW g, NEW i, InGroup(a.groups, g, i), a.groups[g][i].id = n
                 PROVE  (\E r \in AloneIn(a.groups) : r.id = n) \/ \E h \in groups : n \in Ids(c.summaries[h])
      OBVIOUS
    <3>1. g \in DOMAIN a.groups /\ i \in 1 .. Len(a.groups[g]) /\ Len(a.groups[g]) \in Nat \ {0}
      BY <1>8 DEF InGroup
    <3>2. CASE Len(a.groups[g]) = 1
      <4>1. i = 1
        BY <3>1, <3>2
      <4>2. QED
        BY <1>10, <3>1, <3>2, <4>1
    <3>3. CASE Len(a.groups[g]) > 1
      <4>1. g \in groups
        BY <1>2, <3>1, <3>3
      <4>2. n \in Ids(c.summaries[g])
        <5>1. IsSummary(c.summaries[g], G, a.groups, g)
          BY <1>9, <4>1
        <5>2. QED
          BY <5>1 DEF IsSummary
      <4>3. QED
        BY <4>1, <4>2
    <3> DEFINE l == Len(a.groups[g])
    <3>4. l = 1 \/ l > 1
      <4>1. l \in Nat \ {0}
        BY <3>1
      <4> HIDE DEF l
      <4>2. QED
        BY <4>1
    <3>5. QED
      BY <3>2, <3>3, <3>4
  <2>3. (\E r \in AloneIn(a.groups) : r.id = n)
          => \E g, i : InGroup(a.groups, g, i) /\ a.groups[g][i].id = n
    <3> SUFFICES ASSUME \E r \in AloneIn(a.groups) : r.id = n
                 PROVE  \E g, i : InGroup(a.groups, g, i) /\ a.groups[g][i].id = n
      OBVIOUS
    <3>1. PICK g \in DOMAIN a.groups : Len(a.groups[g]) = 1 /\ a.groups[g][1].id = n
      BY <1>10
    <3>2. InGroup(a.groups, g, 1)
      BY <1>8, <3>1 DEF InGroup
    <3>3. QED
      BY <3>1, <3>2
  <2>4. (\E g \in groups : n \in Ids(c.summaries[g]))
          => \E g, i : InGroup(a.groups, g, i) /\ a.groups[g][i].id = n
    <3> SUFFICES ASSUME NEW g \in groups, n \in Ids(c.summaries[g])
                 PROVE  \E h, i : InGroup(a.groups, h, i) /\ a.groups[h][i].id = n
      OBVIOUS
    <3>1. IsSummary(c.summaries[g], G, a.groups, g)
      BY <1>9
    <3>2. \E i : InGroup(a.groups, g, i) /\ a.groups[g][i].id = n
      BY <3>1 DEF IsSummary
    <3>3. QED
      BY <3>2
  <2>5. QED
    BY <1>7, <2>1, <2>2, <2>3, <2>4, Zenon
<1>12. all = Ids(c.kept) \cup UNION {Ids(c.summaries[g]) : g \in groups}
  <2>1. \A n : n \in UNION {Ids(c.summaries[g]) : g \in groups} <=> \E g \in groups : n \in Ids(c.summaries[g])
    BY Zenon
  <2> DEFINE U == UNION {Ids(c.summaries[g]) : g \in groups}
  <2> HIDE DEF U
  <2>2. \A n : n \in all <=> n \in Ids(c.kept) \/ n \in U
    BY <1>11, <2>1, Zenon DEF U
  <2>3. all = Ids(c.kept) \cup U
    BY <2>2
  <2>4. QED
    BY <2>3 DEF U
<1>13. c.duplicates = Len(rows) - Cardinality(all)
  BY <1>2, <1>5, <1>6
<1>14. \A i \in DOMAIN rows : ~rows[i].eligible => rows[i].id \in Ids(c.kept)
  <2>1. DOMAIN rows = 1 .. Len(rows)
    OBVIOUS
  <2>2. QED
    BY <1>5, <1>7, <2>1
<1>15. ASSUME NEW g \in groups
       PROVE  Ids(c.summaries[g]) \cap Ids(c.kept) = {}
  <2> SUFFICES ASSUME NEW n \in Ids(c.summaries[g]), n \in Ids(c.kept)
               PROVE  FALSE
    OBVIOUS
  <2>1. PICK i : InGroup(a.groups, g, i) /\ a.groups[g][i].id = n
    <3>1. IsSummary(c.summaries[g], G, a.groups, g)
      BY <1>9
    <3>2. QED
      BY <3>1 DEF IsSummary
  <2>2. CASE \E j \in DOMAIN a.kept : a.kept[j].id = n
    BY <1>4, <2>1, <2>2 DEF PlacedOnce
  <2>3. CASE \E r \in AloneIn(a.groups) : r.id = n
    <3>1. PICK h \in DOMAIN a.groups : Len(a.groups[h]) = 1 /\ a.groups[h][1].id = n
      BY <1>10, <2>3
    <3>2. InGroup(a.groups, h, 1)
      BY <1>8, <3>1 DEF InGroup
    <3>3. g = h
      BY <1>4, <2>1, <3>1, <3>2 DEF PlacedOnce
    <3>4. Len(a.groups[h]) > 1
      BY <1>2, <3>3
    <3> DEFINE l == Len(a.groups[h])
    <3>5. l = 1 /\ l > 1
      BY <3>1, <3>4
    <3> HIDE DEF l
    <3>6. QED
      BY <3>5
  <2>4. QED
    BY <1>7, <2>2, <2>3
<1>16. ASSUME NEW g \in groups, NEW occurrences,
              occurrences = [i \in DOMAIN c.summaries[g] |-> Occurrence(c.summaries[g][i])]
       PROVE  UnpackOccurrences(PackOccurrences(occurrences)) = occurrences
  <2> DEFINE s == c.summaries[g]
             O == [id : Nat, at : Nat, plain : BOOLEAN]
  <2>1. s \in Seq(JournalRows(G))
    BY <1>9 DEF IsSummary
  <2> HIDE DEF s
  <2>2. Len(s) \in Nat /\ DOMAIN s = 1 .. Len(s) /\ \A i \in DOMAIN s : s[i] \in JournalRows(G)
    BY <2>1
  <2>3. \A i \in DOMAIN s : Occurrence(s[i]) \in O
    BY <2>2 DEF Occurrence, JournalRows
  <2>4. occurrences = [i \in 1 .. Len(s) |-> Occurrence(s[i])]
    BY <1>16, <2>2 DEF s
  <2>5. occurrences \in Seq(O)
    <3> HIDE DEF O
    <3>1. QED
      BY <2>2, <2>3, <2>4
  <2>6. QED
    BY <2>5, OccurrencesRestore
<1>17. Cardinality(groups) <= MaxGroups
  <2>1. groups \in SUBSET DOMAIN a.groups
    BY <1>2
  <2>2. IsFiniteSet(groups) /\ Cardinality(groups) <= Cardinality(DOMAIN a.groups)
    BY <1>5, <2>1, FS_Subset
  <2>3. Cardinality(groups) \in Nat /\ Cardinality(DOMAIN a.groups) \in Nat /\ MaxGroups \in Nat
    BY <1>5, <2>2, FS_CardinalityType, NoiseAssumption
  <2>4. QED
    BY <1>5, <2>2, <2>3
<1> HIDE DEF groups
<1>18. \A g \in groups :
          LET s == c.summaries[g]
              occurrences == [i \in DOMAIN s |-> Occurrence(s[i])]
          IN /\ Ids(s) \cap Ids(c.kept) = {} /\ Len(s) > 1
             /\ \A i \in DOMAIN s : s[i].group = g
             /\ \A i, j \in DOMAIN s : i < j => s[i].id # s[j].id /\ s[i].at <= s[j].at
             /\ UnpackOccurrences(PackOccurrences(occurrences)) = occurrences
  <2>1. ASSUME NEW g \in groups
        PROVE  LET s == c.summaries[g]
                   occurrences == [i \in DOMAIN s |-> Occurrence(s[i])]
               IN /\ Ids(s) \cap Ids(c.kept) = {} /\ Len(s) > 1
                  /\ \A i \in DOMAIN s : s[i].group = g
                  /\ \A i, j \in DOMAIN s : i < j => s[i].id # s[j].id /\ s[i].at <= s[j].at
                  /\ UnpackOccurrences(PackOccurrences(occurrences)) = occurrences
    <3> DEFINE s == c.summaries[g]
    <3>1. /\ Len(s) > 1 /\ \A i \in DOMAIN s : s[i].group = g
          /\ \A i, j \in DOMAIN s : i < j => s[i].id # s[j].id /\ s[i].at <= s[j].at
      BY <1>9 DEF IsSummary
    <3>2. Ids(s) \cap Ids(c.kept) = {}
      BY <1>15
    <3>3. LET occurrences == [i \in DOMAIN s |-> Occurrence(s[i])]
          IN UnpackOccurrences(PackOccurrences(occurrences)) = occurrences
      BY <1>16
    <3>4. QED
      BY <3>1, <3>2, <3>3
  <2>2. QED
    BY <2>1
<1>19. QED
  BY <1>7, <1>12, <1>13, <1>14, <1>17, <1>18 DEF JournalKeeps, all, c, groups

-----------------------------------------------------------------------------
(* Summaries of exec events.                                                *)

ExecEventsOf(C) == [container : C, action : Nat, time : Int, code : Int]

\* The pairs of a container, and how a record holds one.
PairsOf(events, c) == {<<e.action, e.time>> : e \in {f \in events : f.container = c}}
PairField(p) == List(<<ExecActions[p[1]], Num(p[2])>>)

LEMMA PairsAreSorted ==
  ASSUME NEW P, IsFiniteSet(P), P \subseteq (1 .. 3) \X Int
  PROVE  IsInOrder(InOrder(P, {p \in P \X P : PairBefore(p[1], p[2])}), P, {p \in P \X P : PairBefore(p[1], p[2])})
<1> DEFINE before == {p \in P \X P : PairBefore(p[1], p[2])}
<1>1. \A p, q : <<p, q>> \in before <=> p \in P /\ q \in P /\ PairBefore(p, q)
  OBVIOUS
<1>2. \A p \in P : p[1] \in 1 .. 3 /\ p[2] \in Int /\ p = <<p[1], p[2]>>
  OBVIOUS
<1> HIDE DEF before
<1>3. \A p \in P : ~PairBefore(p, p)
  BY <1>2 DEF PairBefore
<1>4. ASSUME NEW p \in P, NEW q \in P PROVE p = q \/ PairBefore(p, q) \/ PairBefore(q, p)
  <2>1. p[1] \in 1 .. 3 /\ q[1] \in 1 .. 3 /\ p[2] \in Int /\ q[2] \in Int
    BY <1>2
  <2>2. (p[1] = q[1] /\ p[2] = q[2]) \/ PairBefore(p, q) \/ PairBefore(q, p)
    BY <2>1 DEF PairBefore
  <2>3. p = <<p[1], p[2]>> /\ q = <<q[1], q[2]>>
    BY <1>2
  <2>4. p[1] = q[1] /\ p[2] = q[2] => p = q
    BY <2>3, Zenon
  <2>5. QED
    BY <2>2, <2>4
<1>5. ASSUME NEW p \in P, NEW q \in P, NEW r \in P, PairBefore(p, q), PairBefore(q, r) PROVE PairBefore(p, r)
  <2>1. /\ p[1] \in 1 .. 3 /\ q[1] \in 1 .. 3 /\ r[1] \in 1 .. 3
        /\ p[2] \in Int /\ q[2] \in Int /\ r[2] \in Int
    BY <1>2
  <2>2. QED
    BY <1>5, <2>1 DEF PairBefore
<1>6. IsOrder(P, before)
  BY <1>1, <1>3, <1>4, <1>5 DEF IsOrder
<1>7. QED
  BY <1>6, InOrderIsSorted DEF before

LEMMA SummariesAreRestored ==
  ASSUME NEW V, IsJson(V), NEW data, data \in [{"events"} -> V],
         NEW r, r.kind = "exec", r.data = data
  PROVE  FieldsRestore(r)
<1>1. r.data \in [{"events"} -> V]
  OBVIOUS
<1>2. r.kind \in {"exec", "stats", "state"} /\ (r.kind = "exec" => "events" \in {"events"})
  OBVIOUS
<1>3. QED
  BY <1>1, <1>2, FieldsAreRestored

\* A field of pairs is read as it was written.
LEMMA PairsAreRead ==
  ASSUME NEW s \in Seq((1 .. 3) \X Int)
  PROVE  Imported(Exported([kind |-> "exec", data |-> [events |-> ExecField(s)]]))["events"] = ExecField(s)
<1> DEFINE A == {ExecActions[a] : a \in 1 .. 3}
           N == {Num(n) : n \in Int}
           L == {PairField(p) : p \in (1 .. 3) \X Int}
           F == ExecField(s)
           V == A \cup N \cup L \cup {F}
           data == [events |-> F]
           r == [kind |-> "exec", data |-> data]
<1>1. F = List([i \in DOMAIN s |-> PairField(s[i])])
  BY DEF ExecField, PairField
<1>2. Len(s) \in Nat /\ DOMAIN s = 1 .. Len(s) /\ \A i \in DOMAIN s : s[i] \in (1 .. 3) \X Int
  OBVIOUS
<1>3. \A v \in A : \E x : v = Str(x)
  BY DEF ExecActions
<1>4. \A v \in L : \E t \in Seq(V) : v = List(t)
  <2> SUFFICES ASSUME NEW p \in (1 .. 3) \X Int
               PROVE  \E t \in Seq(V) : PairField(p) = List(t)
    OBVIOUS
  <2>1. ExecActions[p[1]] \in V /\ Num(p[2]) \in V
    OBVIOUS
  <2> HIDE DEF V
  <2>2. <<ExecActions[p[1]], Num(p[2])>> \in Seq(V)
    BY <2>1
  <2>3. QED
    BY <2>2 DEF PairField
<1>5. \E t \in Seq(V) : F = List(t)
  <2>1. \A i \in DOMAIN s : PairField(s[i]) \in V
    BY <1>2
  <2> HIDE DEF V
  <2>2. [i \in DOMAIN s |-> PairField(s[i])] \in Seq(V)
    BY <1>2, <2>1
  <2>3. QED
    BY <1>1, <2>2
<1>6. IsJson(V)
  <2>1. \A v \in V : v \in A \/ v \in N \/ v \in L \/ v = F
    OBVIOUS
  <2>2. \A v \in N : \E n \in Int : v = Num(n)
    OBVIOUS
  <2> HIDE DEF V, A, N, L, F
  <2>3. QED
    BY <1>3, <1>4, <1>5, <2>1, <2>2 DEF IsJson
<1>7. data \in [{"events"} -> V] /\ r.kind = "exec" /\ r.data = data
  <2>1. F \in V
    OBVIOUS
  <2> HIDE DEF V, F
  <2>2. QED
    BY <2>1
<1> HIDE DEF V, F
<1>8. data["events"] = F
  OBVIOUS
<1> HIDE DEF data
<1>9. FieldsRestore(r)
  <2> HIDE DEF r
  <2>1. QED
    BY <1>6, <1>7, SummariesAreRestored
<1>10. Imported(Exported(r)) = data
  BY <1>9 DEF FieldsRestore
<1>11. QED
  BY <1>8, <1>10 DEF F, data

LEMMA ActionsDiffer == ASSUME NEW a \in 1 .. 3, NEW b \in 1 .. 3, ExecActions[a] = ExecActions[b] PROVE a = b
  BY DEF ExecActions, Str

LEMMA PairFieldsDiffer ==
  ASSUME NEW p \in (1 .. 3) \X Int, NEW q \in (1 .. 3) \X Int, PairField(p) = PairField(q)
  PROVE  p = q
<1>1. <<ExecActions[p[1]], Num(p[2])>> = <<ExecActions[q[1]], Num(q[2])>>
  BY FieldParts DEF PairField
<1>2. ExecActions[p[1]] = ExecActions[q[1]] /\ Num(p[2]) = Num(q[2])
  BY <1>1
<1>3. p[1] = q[1]
  <2>1. p[1] \in 1 .. 3 /\ q[1] \in 1 .. 3
    OBVIOUS
  <2>2. QED
    BY <1>2, <2>1, ActionsDiffer
<1>4. p[2] = q[2]
  BY <1>2, FieldParts
<1>5. p = <<p[1], p[2]>> /\ q = <<q[1], q[2]>>
  OBVIOUS
<1>6. QED
  BY <1>3, <1>4, <1>5, Zenon

\* Every routine event is found once in the summary of its own container, and
\* nothing else is, also after an export.
THEOREM ExecsAreKept ==
  ASSUME NEW C, NEW events \in Seq(ExecEventsOf(C))
  PROVE  ExecKeeps(events)
<1> DEFINE E == {e \in ToSet(events) : IsRoutine(e)}
           groups == CompactExec(E)
           Read(c) == Imported(Exported([kind |-> "exec", data |-> [events |-> ExecField(groups[c])]]))["events"].list
           Ended(e) == e.action \in {1, 2} \/ (e.action = 3 /\ e.code = 0)
           told == {e \in ToSet(events) : Ended(e) /\ e.time > 0}
           PairsBefore(P) == {p \in P \X P : PairBefore(p[1], p[2])}
<1>1. IsFiniteSet(ToSet(events)) /\ ToSet(events) \subseteq ExecEventsOf(C)
  BY ElementsAreFinite
<1>2. IsFiniteSet(E) /\ \A e \in E : e \in ExecEventsOf(C) /\ IsRoutine(e)
  <2>1. E \in SUBSET ToSet(events)
    OBVIOUS
  <2>2. IsFiniteSet(E)
    <3> HIDE DEF E
    <3>1. QED
      BY <1>1, <2>1, FS_Subset
  <2>3. QED
    BY <1>1, <2>2
<1>3. told = E
  <2>1. \A e \in ToSet(events) : Ended(e) /\ e.time > 0 <=> IsRoutine(e)
    <3> SUFFICES ASSUME NEW e \in ToSet(events) PROVE Ended(e) /\ e.time > 0 <=> IsRoutine(e)
      OBVIOUS
    <3>1. e.action \in Nat /\ e.code \in Int /\ e.time \in Int
      BY <1>1 DEF ExecEventsOf
    <3>2. QED
      BY <3>1 DEF IsRoutine
  <2> HIDE DEF Ended
  <2>2. QED
    BY <2>1
<1>4. DOMAIN groups = {e.container : e \in E}
  BY DEF CompactExec
<1>5. ASSUME NEW c \in DOMAIN groups PROVE groups[c] = InOrder(PairsOf(E, c), PairsBefore(PairsOf(E, c)))
  BY DEF CompactExec, PairsOf
<1> HIDE DEF told, E, groups
<1>6. ASSUME NEW c \in DOMAIN groups
      PROVE  /\ ToSet(Read(c)) = {List(<<ExecActions[e.action], Num(e.time)>>) : e \in {f \in told : f.container = c}}
             /\ IsInjective(Read(c))
  <2> DEFINE P == PairsOf(E, c)
             s == groups[c]
             D == {f \in E : f.container = c}
             g == [e \in D |-> <<e.action, e.time>>]
  <2>1. \A e \in E : e.action \in 1 .. 3 /\ e.time \in Int
    <3> SUFFICES ASSUME NEW e \in E PROVE e.action \in 1 .. 3 /\ e.time \in Int
      OBVIOUS
    <3>1. e.action \in Nat /\ e.time \in Int /\ IsRoutine(e)
      BY <1>2 DEF ExecEventsOf
    <3>2. QED
      BY <3>1 DEF IsRoutine
  <2>2. P \subseteq (1 .. 3) \X Int
    BY <2>1 DEF PairsOf
  <2>3. IsFiniteSet(P)
    <3>1. D \in SUBSET E
      OBVIOUS
    <3>2. IsFiniteSet(D)
      <4> HIDE DEF D
      <4>1. QED
        BY <1>2, <3>1, FS_Subset
    <3>3. g \in Surjection(D, P)
      BY DEF Surjection, PairsOf
    <3>4. QED
      BY <3>2, <3>3, FS_Surjection
  <2>4. s = InOrder(P, PairsBefore(P))
    BY <1>5
  <2> HIDE DEF P, s
  <2>5. IsInOrder(s, P, PairsBefore(P))
    BY <2>2, <2>3, <2>4, PairsAreSorted
  <2>6. s \in Seq(P) /\ (\A x \in P : \E i \in DOMAIN s : s[i] = x) /\ \A i, j \in DOMAIN s : s[i] = s[j] => i = j
    BY <2>5 DEF IsInOrder
  <2>7. \A i \in DOMAIN s : s[i] \in P
    BY <2>6
  <2>8. s \in Seq((1 .. 3) \X Int)
    <3>1. \A i \in 1 .. Len(s) : s[i] \in (1 .. 3) \X Int
      BY <2>2, <2>6
    <3>2. s \in [1 .. Len(s) -> (1 .. 3) \X Int] /\ Len(s) \in Nat
      BY <2>6, <3>1
    <3>3. QED
      BY <3>2
  <2>9. Read(c) = [i \in DOMAIN s |-> PairField(s[i])]
    <3>1. Imported(Exported([kind |-> "exec", data |-> [events |-> ExecField(s)]]))["events"] = ExecField(s)
      BY <2>8, PairsAreRead
    <3>2. ExecField(s) = List([i \in DOMAIN s |-> PairField(s[i])])
      BY DEF ExecField, PairField
    <3>3. ExecField(s).list = [i \in DOMAIN s |-> PairField(s[i])]
      BY <3>2, FieldParts
    <3>4. QED
      BY <3>1, <3>3 DEF s
  <2>10. IsInjective(Read(c))
    <3>1. ASSUME NEW i \in DOMAIN s, NEW j \in DOMAIN s, PairField(s[i]) = PairField(s[j]) PROVE i = j
      <4>1. s[i] \in (1 .. 3) \X Int /\ s[j] \in (1 .. 3) \X Int
        BY <2>2, <2>7
      <4>2. s[i] = s[j]
        BY <3>1, <4>1, PairFieldsDiffer
      <4>3. QED
        BY <2>6, <4>2
    <3> DEFINE q == [i \in DOMAIN s |-> PairField(s[i])]
    <3>2. IsInjective(q)
      BY <3>1 DEF IsInjective
    <3>3. QED
      BY <2>9, <3>2
  <2>11. ToSet(Read(c)) = {PairField(p) : p \in P}
    <3> DEFINE q == [i \in DOMAIN s |-> PairField(s[i])]
    <3>1. ToSet(q) = {PairField(s[i]) : i \in DOMAIN s}
      BY DEF ToSet
    <3>2. {PairField(s[i]) : i \in DOMAIN s} = {PairField(p) : p \in P}
      BY <2>6, <2>7
    <3>3. QED
      BY <2>9, <3>1, <3>2
  <2>12. {PairField(p) : p \in P} = {List(<<ExecActions[e.action], Num(e.time)>>) : e \in D}
    <3> DEFINE F(e) == List(<<ExecActions[e.action], Num(e.time)>>)
    <3>1. P = {<<e.action, e.time>> : e \in D}
      BY DEF P, PairsOf
    <3>2. \A e \in D : PairField(<<e.action, e.time>>) = F(e)
      BY DEF PairField
    <3> HIDE DEF D, F
    <3>3. {PairField(p) : p \in P} = {F(e) : e \in D}
      BY <3>1, <3>2
    <3>4. QED
      BY <3>3 DEF F
  <2>13. QED
    BY <1>3, <2>10, <2>11, <2>12
<1>7. QED
  BY <1>3, <1>4, <1>6 DEF ExecKeeps, groups, told, E

-----------------------------------------------------------------------------
(* Tables of samples.                                                       *)

\* The nodes on the way to a node are the beginnings of its path.
LEMMA WayIs ==
  ASSUME NEW K, NEW p \in Seq(K), NEW q
  PROVE  q \in WayTo(p) <=> q \in Seq(K) /\ Len(q) <= Len(p) /\ \A i \in 1 .. Len(q) : q[i] = p[i]
<1>1. ASSUME q \in WayTo(p) PROVE q \in Seq(K) /\ Len(q) <= Len(p) /\ \A i \in 1 .. Len(q) : q[i] = p[i]
  <2>1. PICK n \in 0 .. Len(p) : q = SubSeq(p, 1, n)
    BY <1>1 DEF WayTo
  <2>2. QED
    BY <2>1
<1>2. ASSUME q \in Seq(K), Len(q) <= Len(p), \A i \in 1 .. Len(q) : q[i] = p[i] PROVE q \in WayTo(p)
  <2>1. Len(q) \in 0 .. Len(p)
    BY <1>2
  <2>2. SubSeq(p, 1, Len(q)) \in Seq(K) /\ Len(SubSeq(p, 1, Len(q))) = Len(q)
    BY <1>2, <2>1
  <2>3. \A i \in 1 .. Len(q) : SubSeq(p, 1, Len(q))[i] = q[i]
    BY <1>2, <2>1
  <2>4. q = SubSeq(p, 1, Len(q))
    BY <1>2, <2>2, <2>3, SeqEqual
  <2>5. QED
    BY <2>1, <2>4 DEF WayTo
<1>3. QED
  BY <1>1, <1>2

\* The way leads from the root to the node.
LEMMA WayEnds ==
  ASSUME NEW K, NEW p \in Seq(K)
  PROVE  p \in WayTo(p) /\ <<>> \in WayTo(p) /\ WayTo(<<>>) = {<<>>} /\ (Len(p) = 0 => p = <<>>)
<1>1. p \in WayTo(p)
  BY WayIs
<1>2. <<>> \in WayTo(p)
  <2>1. 0 \in 0 .. Len(p) /\ SubSeq(p, 1, 0) = <<>>
    OBVIOUS
  <2>2. QED
    BY <2>1 DEF WayTo
<1>3. WayTo(<<>>) = {<<>>}
  <2>1. <<>> \in Seq({})
    OBVIOUS
  <2>2. \A q : q \in WayTo(<<>>) <=> q \in Seq({}) /\ Len(q) <= Len(<<>>) /\ \A i \in 1 .. Len(q) : q[i] = <<>>[i]
    BY <2>1, WayIs
  <2>3. \A q : q \in Seq({}) => q = <<>>
    OBVIOUS
  <2>4. <<>> \in WayTo(<<>>)
    <3>1. 0 \in 0 .. Len(<<>>) /\ SubSeq(<<>>, 1, 0) = <<>>
      OBVIOUS
    <3>2. QED
      BY <3>1 DEF WayTo
  <2>5. QED
    BY <2>2, <2>3, <2>4
<1>4. QED
  BY <1>1, <1>2, <1>3

\* The way to a node begins with the way to every node on it.
LEMMA WayGoesOn ==
  ASSUME NEW K, NEW p \in Seq(K), NEW q \in WayTo(p)
  PROVE  q \in Seq(K) /\ WayTo(q) \subseteq WayTo(p) /\ (p \in WayTo(q) => p = q)
<1>1. q \in Seq(K) /\ Len(q) <= Len(p) /\ \A i \in 1 .. Len(q) : q[i] = p[i]
  BY WayIs
<1>2. ASSUME NEW r \in WayTo(q) PROVE r \in WayTo(p)
  <2>1. r \in Seq(K) /\ Len(r) <= Len(q) /\ \A i \in 1 .. Len(r) : r[i] = q[i]
    BY <1>1, WayIs
  <2>2. Len(r) <= Len(p) /\ \A i \in 1 .. Len(r) : r[i] = p[i]
    BY <1>1, <2>1
  <2>3. QED
    BY <2>1, <2>2, WayIs
<1>3. ASSUME p \in WayTo(q) PROVE p = q
  <2>1. Len(p) <= Len(q)
    BY <1>1, <1>3, WayIs
  <2>2. Len(p) = Len(q)
    BY <1>1, <2>1
  <2>3. QED
    BY <1>1, <2>2, SeqEqual
<1>4. QED
  BY <1>1, <1>2, <1>3

\* Columns that the reader accepts.
IsColumns(columns, K) ==
  /\ columns \in Seq(Seq(K)) /\ ~ConflictingColumns(columns)
  /\ \A c \in DOMAIN columns : Len(columns[c]) >= 1

LEMMA ColumnsApart ==
  ASSUME NEW K, NEW columns, IsColumns(columns, K), NEW c \in DOMAIN columns
  PROVE  /\ columns[c] \in Seq(K) /\ columns[c] # <<>> /\ columns[c] \in WayTo(columns[c])
         /\ \A d \in DOMAIN columns : columns[c] \in WayTo(columns[d]) => c = d
<1>1. columns[c] \in Seq(K) /\ Len(columns[c]) >= 1
  BY DEF IsColumns
<1>2. columns[c] # <<>>
  BY <1>1
<1>3. columns[c] \in WayTo(columns[c])
  BY <1>1, WayEnds
<1>4. QED
  BY <1>1, <1>2, <1>3 DEF IsColumns, ConflictingColumns

\* The sample that has the cells s of a row.
NodesOf(columns, s) == {<<>>} \cup UNION {WayTo(columns[c]) : c \in s}
LabelOf(columns, row, s, p) ==
  IF \E c \in s : columns[c] = p THEN row[CHOOSE c \in DOMAIN columns : columns[c] = p] ELSE Object
TreeOf(columns, row, s) == [p \in NodesOf(columns, s) |-> LabelOf(columns, row, s, p)]

\* The label of a column is its cell.
LEMMA CellIs ==
  ASSUME NEW K, NEW columns, IsColumns(columns, K), NEW row, NEW s \in SUBSET DOMAIN columns, NEW c \in s
  PROVE  LabelOf(columns, row, s, columns[c]) = row[c]
<1>1. \A d \in DOMAIN columns : columns[d] = columns[c] => d = c
  BY ColumnsApart
<1>2. (CHOOSE d \in DOMAIN columns : columns[d] = columns[c]) = c
  BY <1>1
<1>3. QED
  BY <1>2 DEF LabelOf

\* One more cell is put into the sample.
LEMMA TreeGrows ==
  ASSUME NEW K, NEW columns, IsColumns(columns, K), NEW row, NEW s \in SUBSET DOMAIN columns, NEW m \in s
  PROVE  PutAt(TreeOf(columns, row, s \ {m}), columns[m], row[m]) = TreeOf(columns, row, s)
<1> DEFINE t == s \ {m}
           path == columns[m]
           D == {q \in NodesOf(columns, t) : path \notin WayTo(q)} \cup WayTo(path)
           Old(p) == TreeOf(columns, row, t)[p]
           New(p) == IF p = path THEN row[m] ELSE IF p \in WayTo(path) THEN Object ELSE Old(p)
<1>1. /\ path \in Seq(K) /\ path # <<>> /\ path \in WayTo(path)
      /\ \A d \in DOMAIN columns : path \in WayTo(columns[d]) => m = d
      /\ \A d \in DOMAIN columns : columns[d] \in WayTo(path) => m = d
  BY ColumnsApart
<1>2. D = NodesOf(columns, s)
  <2>1. ASSUME NEW q \in NodesOf(columns, t) PROVE path \notin WayTo(q)
    <3>1. CASE q = <<>>
      <4>1. WayTo(q) = {<<>>}
        BY <1>1, <3>1, WayEnds
      <4>2. QED
        BY <1>1, <4>1
    <3>2. CASE q # <<>>
      <4>1. PICK c \in t : q \in WayTo(columns[c])
        BY <3>2 DEF NodesOf
      <4>2. columns[c] \in Seq(K)
        BY <4>1, ColumnsApart
      <4>3. WayTo(q) \subseteq WayTo(columns[c])
        BY <4>1, <4>2, WayGoesOn
      <4>4. QED
        BY <1>1, <4>1, <4>3
    <3>3. QED
      BY <3>1, <3>2
  <2>2. D = NodesOf(columns, t) \cup WayTo(path)
    BY <2>1
  <2>3. QED
    BY <2>2 DEF NodesOf
<1>3. ASSUME NEW p \in NodesOf(columns, s) PROVE New(p) = LabelOf(columns, row, s, p)
  <2>1. CASE p = path
    BY <2>1, CellIs
  <2>2. CASE p # path /\ p \in WayTo(path)
    <3>1. ~ \E c \in s : columns[c] = p
      BY <1>1, <2>2
    <3>2. QED
      BY <2>2, <3>1 DEF LabelOf
  <2>3. CASE p \notin WayTo(path)
    <3>1. p # path /\ p \in NodesOf(columns, t)
      BY <1>1, <1>2, <2>3
    <3>2. (\E c \in s : columns[c] = p) <=> (\E c \in t : columns[c] = p)
      BY <3>1
    <3>3. Old(p) = LabelOf(columns, row, t, p)
      BY <3>1 DEF TreeOf
    <3>4. LabelOf(columns, row, t, p) = LabelOf(columns, row, s, p)
      BY <3>2 DEF LabelOf
    <3>5. QED
      BY <2>3, <3>1, <3>3, <3>4
  <2>4. QED
    BY <2>1, <2>2, <2>3
<1>4. DOMAIN TreeOf(columns, row, t) = NodesOf(columns, t)
  BY DEF TreeOf
<1>5. PutAt(TreeOf(columns, row, t), path, row[m]) = [p \in D |-> New(p)]
  BY <1>4 DEF PutAt
<1> HIDE DEF D, New
<1>6. [p \in D |-> New(p)] = [p \in NodesOf(columns, s) |-> LabelOf(columns, row, s, p)]
  BY <1>2, <1>3, Zenon
<1>7. QED
  BY <1>5, <1>6 DEF TreeOf

\* What the loop over the cells of a row builds.
LEMMA RebuildIs ==
  ASSUME NEW K, NEW columns, IsColumns(columns, K), NEW row
  PROVE  Rebuild(columns, row) = TreeOf(columns, row, DOMAIN columns)
<1> DEFINE n == Len(columns)
           D == SUBSET (1 .. n)
           cells == [c \in DOMAIN columns |-> <<columns[c], row[c]>>]
           base == [path \in {<<>>} |-> Object]
           f == [s \in D |-> TreeOf(columns, row, s)]
           iter[s \in SUBSET DOMAIN cells] ==
             IF s = {} THEN base ELSE PutCell(iter[s \ {Max(s)}], cells[Max(s)])
<1>1. n \in Nat /\ DOMAIN columns = 1 .. n /\ DOMAIN cells = 1 .. n
  BY DEF IsColumns
<1>2. TreeOf(columns, row, {}) = base
  <2>1. NodesOf(columns, {}) = {<<>>}
    BY DEF NodesOf
  <2>2. \A p : LabelOf(columns, row, {}, p) = Object
    BY DEF LabelOf
  <2>3. [p \in {<<>>} |-> LabelOf(columns, row, {}, p)] = [p \in {<<>>} |-> Object]
    BY <2>2, Zenon
  <2>4. QED
    BY <2>1, <2>3 DEF TreeOf
<1>3. ASSUME NEW s \in D, NEW m \in s PROVE PutCell(TreeOf(columns, row, s \ {m}), cells[m]) = TreeOf(columns, row, s)
  <2>1. s \in SUBSET DOMAIN columns /\ m \in DOMAIN columns
    BY <1>1
  <2>2. cells[m][1] = columns[m] /\ cells[m][2] = row[m]
    BY <2>1
  <2>3. PutAt(TreeOf(columns, row, s \ {m}), columns[m], row[m]) = TreeOf(columns, row, s)
    BY <2>1, TreeGrows
  <2>4. QED
    BY <2>2, <2>3 DEF PutCell
<1> HIDE DEF base
<1>4. ASSUME NEW s \in D
      PROVE  f[s] = IF s = {} THEN base ELSE PutCell(f[s \ {Max(s)}], cells[Max(s)])
  <2>1. CASE s = {}
    BY <1>2, <2>1
  <2>2. CASE s # {}
    <3>1. Max(s) \in s /\ s \ {Max(s)} \in D
      BY <1>1, <2>2, GreatestIs
    <3>2. PutCell(TreeOf(columns, row, s \ {Max(s)}), cells[Max(s)]) = TreeOf(columns, row, s)
      BY <1>3, <3>1
    <3>3. f[s \ {Max(s)}] = TreeOf(columns, row, s \ {Max(s)}) /\ f[s] = TreeOf(columns, row, s)
      BY <3>1
    <3> HIDE DEF f, cells
    <3>4. QED
      BY <2>2, <3>2, <3>3
  <2>3. QED
    BY <2>1, <2>2
<1>5. f = [s \in SUBSET DOMAIN cells |->
             IF s = {} THEN base ELSE PutCell(f[s \ {Max(s)}], cells[Max(s)])]
  <2>1. f = [s \in D |-> f[s]]
    OBVIOUS
  <2> HIDE DEF f
  <2>2. [s \in D |-> f[s]] = [s \in D |-> IF s = {} THEN base ELSE PutCell(f[s \ {Max(s)}], cells[Max(s)])]
    BY <1>4, Zenon
  <2>3. QED
    BY <1>1, <2>1, <2>2, Zenon
<1>6. iter = [s \in SUBSET DOMAIN cells |->
                IF s = {} THEN base ELSE PutCell(iter[s \ {Max(s)}], cells[Max(s)])]
  <2> HIDE DEF f, cells
  <2>1. QED
    BY <1>5
<1>7. Rebuild(columns, row) = iter[1 .. n]
  <2>1. DOMAIN cells = 1 .. n
    BY <1>1
  <2>2. FoldLeft(PutCell, base, cells) = iter[1 .. n]
    <3> HIDE DEF cells
    <3>1. QED
      BY <2>1 DEF FoldLeft, MapThenFoldSet
  <2>3. QED
    BY <2>2 DEF Rebuild, base
<1> HIDE DEF iter
<1>8. iter[1 .. 0] = TreeOf(columns, row, 1 .. 0)
  <2>1. 1 .. 0 = {} /\ {} \in SUBSET DOMAIN cells
    OBVIOUS
  <2> HIDE DEF cells
  <2>2. QED
    BY <1>2, <1>6, <2>1
<1>9. ASSUME NEW k \in 1 .. n PROVE iter[1 .. k] = PutCell(iter[1 .. k - 1], cells[k])
  <2>1. Max(1 .. k) = k /\ (1 .. k) \ {k} = 1 .. k - 1
    BY <1>1, GreatestOfInterval
  <2>2. (\A i \in 1 .. k : i \in 1 .. n) /\ 1 \in 1 .. k
    BY <1>1
  <2>3. 1 .. k \in SUBSET DOMAIN cells
    BY <1>1, <2>2
  <2> HIDE DEF cells
  <2>4. QED
    BY <1>6, <2>1, <2>2, <2>3
<1> HIDE DEF cells
<1> DEFINE T == {i \in 0 .. n : iter[1 .. i] = TreeOf(columns, row, 1 .. i)}
<1>10. \A k \in 0 .. n : k \in T
  <2>1. 0 \in T
    BY <1>1, <1>8
  <2>2. ASSUME NEW k \in 0 .. n - 1, k \in T PROVE k + 1 \in T
    <3>1. k + 1 \in 1 .. n /\ k + 1 \in 0 .. n /\ (k + 1) - 1 = k
      BY <1>1
    <3>2. iter[1 .. k + 1] = PutCell(TreeOf(columns, row, 1 .. k), cells[k + 1])
      BY <1>9, <2>2, <3>1
    <3>3. 1 .. k + 1 \in D /\ k + 1 \in 1 .. k + 1 /\ (1 .. k + 1) \ {k + 1} = 1 .. k
      <4>1. k + 1 \in Nat \ {0}
        BY <1>1
      <4>2. (1 .. k + 1) \ {k + 1} = 1 .. k
        BY <3>1, <4>1, GreatestOfInterval
      <4>3. \A i \in 1 .. k + 1 : i \in 1 .. n
        BY <1>1
      <4>4. QED
        BY <4>1, <4>2, <4>3
    <3>4. PutCell(TreeOf(columns, row, 1 .. k), cells[k + 1]) = TreeOf(columns, row, 1 .. k + 1)
      BY <1>3, <3>3
    <3>5. QED
      BY <3>1, <3>2, <3>4
  <2> HIDE DEF T
  <2>3. QED
    BY <1>1, <2>1, <2>2, Upward
<1>11. n \in T
  BY <1>1, <1>10
<1>12. QED
  BY <1>1, <1>7, <1>11

\* The leaves of the sample are the cells of its row.
LEMMA RebuiltLeaves ==
  ASSUME NEW K, NEW columns, IsColumns(columns, K), columns # <<>>, NEW row
  PROVE  LeavesOf(Rebuild(columns, row)) = {<<columns[c], row[c]>> : c \in DOMAIN columns}
<1> DEFINE C == DOMAIN columns
           N == NodesOf(columns, C)
           t == TreeOf(columns, row, C)
<1>1. DOMAIN t = N /\ \A p \in N : t[p] = LabelOf(columns, row, C, p)
  BY DEF TreeOf
<1> HIDE DEF t
<1>2. ASSUME NEW c \in C PROVE columns[c] \in N /\ t[columns[c]] = row[c] /\ ~IsNonempty(t, columns[c])
  <2> DEFINE p == columns[c]
  <2>1. /\ p \in Seq(K) /\ p # <<>> /\ p \in WayTo(p)
        /\ \A d \in C : p \in WayTo(columns[d]) => c = d
    BY ColumnsApart
  <2>2. p \in N
    BY <2>1 DEF NodesOf
  <2>3. t[p] = row[c]
    BY <1>1, <2>2, CellIs
  <2>4. ASSUME NEW r \in N, r # p, p \in WayTo(r) PROVE FALSE
    <3>1. CASE r = <<>>
      <4>1. WayTo(r) = {<<>>}
        BY <2>1, <3>1, WayEnds
      <4>2. QED
        BY <2>1, <2>4, <4>1
    <3>2. CASE r # <<>>
      <4>1. PICK d \in C : r \in WayTo(columns[d])
        BY <3>2 DEF NodesOf
      <4>2. columns[d] \in Seq(K)
        BY <4>1, ColumnsApart
      <4>3. r \in Seq(K) /\ WayTo(r) \subseteq WayTo(columns[d])
        BY <4>1, <4>2, WayGoesOn
      <4>4. c = d
        BY <2>1, <2>4, <4>3
      <4>5. p \in WayTo(r) => r = p
        BY <2>1, <4>1, <4>4, WayGoesOn
      <4>6. QED
        BY <2>4, <4>5
    <3>3. QED
      BY <3>1, <3>2
  <2>5. ~IsNonempty(t, p)
    BY <1>1, <2>4 DEF IsNonempty
  <2>6. QED
    BY <2>2, <2>3, <2>5
<1>3. ASSUME NEW p \in N, \A c \in C : columns[c] # p PROVE IsNonempty(t, p)
  <2>1. t[p] = Object
    BY <1>1, <1>3 DEF LabelOf
  <2>2. PICK c \in C : p \in WayTo(columns[c])
    <3>1. CASE p = <<>>
      <4>1. 1 \in C
        BY DEF IsColumns
      <4>2. columns[1] \in Seq(K)
        BY <4>1, ColumnsApart
      <4>3. QED
        BY <3>1, <4>1, <4>2, WayEnds
    <3>2. CASE p # <<>>
      BY <3>2 DEF NodesOf
    <3>3. QED
      BY <3>1, <3>2
  <2>3. columns[c] \in N /\ columns[c] # p
    BY <1>2, <1>3
  <2>4. QED
    BY <1>1, <2>1, <2>2, <2>3 DEF IsNonempty
<1>4. Paths(t) = {columns[c] : c \in C}
  BY <1>1, <1>2, <1>3 DEF Paths
<1>5. LeavesOf(t) = {<<columns[c], row[c]>> : c \in C}
  <2>1. LeavesOf(t) = {<<p, t[p]>> : p \in {columns[c] : c \in C}}
    BY <1>4 DEF LeavesOf
  <2>2. {<<p, t[p]>> : p \in {columns[c] : c \in C}} = {<<columns[c], row[c]>> : c \in C}
    BY <1>2
  <2>3. QED
    BY <2>1, <2>2
<1>6. QED
  BY <1>5, RebuildIs DEF t

\* A table that was read: keys of K and values of V, otherwise anything.
TableGroups(K, V) == [columns : Seq(Seq(K)), rows : Seq(Seq(V)), indexes : Seq(Int)]
TablesOver(K, V) == [samples : Int, tables : Seq(TableGroups(K, V))]

IsAccepted(data) ==
  /\ data.samples \in 1 .. MaxRows /\ Len(data.tables) \in 1 .. MaxRows
  /\ \A t \in DOMAIN data.tables : ValidGroup(data.tables[t], data.samples)
  /\ EveryIndexOnce(data)

RowAt(data, i) == CHOOSE r \in RowsOf(data) : IndexOf(data, r) = i - 1
SampleAt(data, r) == Rebuild(data.tables[r[1]].columns, data.tables[r[1]].rows[r[2]])

\* A table is rejected, or the samples are made of their rows.
LEMMA UnpackedAre ==
  ASSUME NEW data
  PROVE  UnpackStats(data) = IF IsAccepted(data) THEN [i \in 1 .. data.samples |-> SampleAt(data, RowAt(data, i))]
                             ELSE RejectedTable
  BY Zenon DEF UnpackStats, IsAccepted, RowAt, SampleAt

\* A row of a table that is accepted.
LEMMA RowIs ==
  ASSUME NEW K, NEW V, NEW data \in TablesOver(K, V), IsAccepted(data), NEW r \in RowsOf(data)
  PROVE  /\ r[1] \in DOMAIN data.tables /\ r[2] \in DOMAIN data.tables[r[1]].rows /\ r = <<r[1], r[2]>>
         /\ IndexOf(data, r) \in 0 .. data.samples - 1
         /\ IsColumns(data.tables[r[1]].columns, K) /\ data.tables[r[1]].columns # <<>>
<1>1. PICK t \in DOMAIN data.tables : \E n \in DOMAIN data.tables[t].rows : r = <<t, n>>
  BY DEF RowsOf
<1> DEFINE g == data.tables[t]
<1> PICK n \in DOMAIN g.rows : r = <<t, n>>
  BY <1>1
<1>2. g \in TableGroups(K, V)
  BY DEF TablesOver
<1>3. ValidGroup(g, data.samples)
  BY DEF IsAccepted
<1> HIDE DEF g
<1>4. g.indexes[n] \in 0 .. data.samples - 1
  <2>1. n \in 1 .. Len(g.rows) /\ Len(g.indexes) = Len(g.rows) /\ DOMAIN g.indexes = 1 .. Len(g.indexes)
    BY <1>1, <1>2, <1>3 DEF TableGroups, ValidGroup, g
  <2>2. QED
    BY <1>3, <2>1 DEF ValidGroup
<1>5. IsColumns(g.columns, K) /\ g.columns # <<>>
  <2>1. g.columns \in Seq(Seq(K)) /\ ValidColumns(g.columns)
    BY <1>2, <1>3 DEF TableGroups, ValidGroup
  <2>2. \A c \in DOMAIN g.columns : Len(g.columns[c]) >= 1
    BY <2>1, TablesAssumption DEF ValidColumns
  <2>3. g.columns # <<>>
    BY <2>1, TablesAssumption DEF ValidColumns
  <2>4. QED
    BY <2>1, <2>2, <2>3 DEF ValidColumns, IsColumns
<1>6. QED
  BY <1>1, <1>4, <1>5 DEF IndexOf, g

\* Each sample has one row.
LEMMA RowOfEach ==
  ASSUME NEW K, NEW V, NEW data \in TablesOver(K, V), IsAccepted(data)
  PROVE  \A i \in 1 .. data.samples : /\ RowAt(data, i) \in RowsOf(data) /\ IndexOf(data, RowAt(data, i)) = i - 1
                                      /\ \A r \in RowsOf(data) : IndexOf(data, r) = i - 1 => r = RowAt(data, i)
<1> DEFINE n == data.samples
           R == RowsOf(data)
           f == [r \in R |-> IndexOf(data, r)]
<1>1. n \in Nat \ {0}
  BY TablesAssumption DEF IsAccepted
<1>2. \A r, s \in R : IndexOf(data, r) = IndexOf(data, s) => r = s
  BY DEF IsAccepted, EveryIndexOnce
<1>3. Cardinality(R) = n
  BY DEF IsAccepted, EveryIndexOnce
<1>4. \A r \in R : IndexOf(data, r) \in 0 .. n - 1
  BY RowIs
<1> HIDE DEF R
<1>5. f \in Injection(R, 0 .. n - 1)
  BY <1>2, <1>4 DEF Injection, IsInjective
<1>6. IsFiniteSet(0 .. n - 1) /\ Cardinality(0 .. n - 1) = n
  <2>1. 0 \in Int /\ n - 1 \in Int /\ ~(0 > n - 1) /\ (n - 1) - 0 + 1 = n
    BY <1>1
  <2>2. QED
    BY <2>1, FS_Interval
<1> HIDE DEF n, f
<1>7. f \in Surjection(R, 0 .. n - 1)
  BY <1>3, <1>5, <1>6, FS_Injection
<1>8. ASSUME NEW i \in 1 .. n
      PROVE  /\ RowAt(data, i) \in R /\ IndexOf(data, RowAt(data, i)) = i - 1
             /\ \A r \in R : IndexOf(data, r) = i - 1 => r = RowAt(data, i)
  <2>1. i - 1 \in 0 .. n - 1
    BY <1>1
  <2>2. PICK r \in R : f[r] = i - 1
    BY <1>7, <2>1 DEF Surjection
  <2>3. IndexOf(data, r) = i - 1
    BY <2>2 DEF f
  <2>4. RowAt(data, i) \in R /\ IndexOf(data, RowAt(data, i)) = i - 1
    BY <2>3 DEF RowAt, R
  <2>5. QED
    BY <1>2, <2>4
<1>9. QED
  BY <1>8 DEF n, R

\* What is read from a table, whoever wrote it, are the cells of its rows, one
\* row for each sample (tables.py, unpack_stats: "never guess").
THEOREM NothingIsGuessed ==
  ASSUME NEW K, NEW V, NEW data \in TablesOver(K, V)
  PROVE  NeverGuesses(data)
<1> DEFINE u == UnpackStats(data)
           n == data.samples
<1> SUFFICES ASSUME u # RejectedTable
             PROVE  /\ Len(u) = n
                    /\ \A i \in DOMAIN u : Cardinality({r \in RowsOf(data) : IndexOf(data, r) = i - 1}) = 1
                    /\ \A r \in RowsOf(data) :
                         LeavesOf(u[IndexOf(data, r) + 1])
                           = {<<data.tables[r[1]].columns[c], data.tables[r[1]].rows[r[2]][c]>> :
                                c \in DOMAIN data.tables[r[1]].columns}
  BY DEF NeverGuesses
<1>1. IsAccepted(data) /\ u = [i \in 1 .. n |-> SampleAt(data, RowAt(data, i))]
  BY UnpackedAre
<1>2. n \in Nat /\ DOMAIN u = 1 .. n
  BY <1>1, TablesAssumption DEF IsAccepted
<1>3. Len(u) = n
  BY <1>1, <1>2
<1> HIDE DEF u, n
<1>4. ASSUME NEW i \in 1 .. n PROVE Cardinality({r \in RowsOf(data) : IndexOf(data, r) = i - 1}) = 1
  <2>1. {r \in RowsOf(data) : IndexOf(data, r) = i - 1} = {RowAt(data, i)}
    BY <1>1, RowOfEach DEF n
  <2>2. QED
    BY <2>1, FS_Singleton
<1>5. ASSUME NEW r \in RowsOf(data)
      PROVE  LeavesOf(u[IndexOf(data, r) + 1])
               = {<<data.tables[r[1]].columns[c], data.tables[r[1]].rows[r[2]][c]>> :
                    c \in DOMAIN data.tables[r[1]].columns}
  <2> DEFINE i == IndexOf(data, r) + 1
  <2>1. IndexOf(data, r) \in 0 .. n - 1
    BY <1>1, RowIs DEF n
  <2>2. i \in 1 .. n /\ i - 1 = IndexOf(data, r)
    BY <1>2, <2>1
  <2> HIDE DEF i
  <2>3. r = RowAt(data, i)
    BY <1>1, <2>2, RowOfEach DEF n
  <2>4. u[i] = SampleAt(data, r)
    BY <1>1, <2>2, <2>3
  <2>5. IsColumns(data.tables[r[1]].columns, K) /\ data.tables[r[1]].columns # <<>>
    BY <1>1, RowIs
  <2>6. QED
    BY <2>4, <2>5, RebuiltLeaves DEF SampleAt, i
<1>6. QED
  BY <1>2, <1>3, <1>4, <1>5

\* A nested dictionary with keys of K: a tree in which only dictionaries have
\* anything below them.
IsSample(s, K) ==
  /\ IsFiniteSet(DOMAIN s) /\ DOMAIN s \subseteq Seq(K) /\ <<>> \in DOMAIN s
  /\ \A p \in DOMAIN s : WayTo(p) \subseteq DOMAIN s /\ \A q \in WayTo(p) : q # p => s[q] = Object
SamplesOver(K, V) == {s \in UNION {[D -> V] : D \in SUBSET Seq(K)} : IsSample(s, K)}

LEMMA SampleIs ==
  ASSUME NEW K, NEW V, NEW s \in SamplesOver(K, V)
  PROVE  IsSample(s, K) /\ s = [p \in DOMAIN s |-> s[p]]
<1>1. PICK D \in SUBSET Seq(K) : s \in [D -> V]
  BY DEF SamplesOver
<1>2. s = [p \in DOMAIN s |-> s[p]]
  BY <1>1
<1>3. QED
  BY <1>2 DEF SamplesOver

\* Every node is on the way to a leaf: to one with the fewest nodes below it.
LEMMA LeafBelow ==
  ASSUME NEW K, NEW s, IsSample(s, K), NEW q \in DOMAIN s
  PROVE  \E p \in Paths(s) : q \in WayTo(p)
<1> DEFINE D == DOMAIN s
           Below(p) == {r \in D : p \in WayTo(r)}
           T == {Below(p) : p \in Below(q)}
<1>1. IsFiniteSet(D) /\ \A p \in D : p \in Seq(K)
  BY DEF IsSample
<1>2. q \in Below(q)
  BY <1>1, WayEnds
<1>3. IsWellFoundedOn(StrictSubsetOrdering(D), SUBSET D)
  <2>1. IsWellFoundedOn(StrictSubsetOrdering(D), FiniteSubsetsOf(D))
    BY FS_StrictSubsetOrderingWellFounded
  <2>2. QED
    BY <1>1, <2>1, FS_FiniteSubsetsOfFinite
<1>4. PICK x \in T : \A y \in T : ~ (<<y, x>> \in StrictSubsetOrdering(D))
  <2>1. T \subseteq SUBSET D /\ T # {}
    BY <1>2
  <2> HIDE DEF T
  <2>2. QED
    BY <1>3, <2>1, WFMin
<1>5. PICK p \in Below(q) : x = Below(p)
  BY <1>4
<1>6. ASSUME NEW r \in D, r # p, p \in WayTo(r) PROVE FALSE
  <2>1. p \in Seq(K) /\ r \in Seq(K) /\ WayTo(p) \subseteq WayTo(r)
    BY <1>1, <1>6, WayGoesOn
  <2>2. r \in Below(q)
    BY <1>5, <2>1
  <2>3. Below(r) \subseteq Below(p)
    <3>1. ASSUME NEW v \in D, r \in WayTo(v) PROVE p \in WayTo(v)
      <4>1. v \in Seq(K) /\ WayTo(r) \subseteq WayTo(v)
        BY <1>1, <3>1, WayGoesOn
      <4>2. QED
        BY <1>6, <4>1
    <3>2. QED
      BY <3>1
  <2>4. p \in Below(p) /\ p \notin Below(r)
    <3>1. p \in Below(p)
      BY <1>1, WayEnds
    <3>2. r \in WayTo(p) => r = p
      BY <1>6, <2>1, WayGoesOn
    <3>3. QED
      BY <1>6, <3>1, <3>2
  <2>5. <<Below(r), Below(p)>> \in StrictSubsetOrdering(D)
    BY <2>3, <2>4 DEF StrictSubsetOrdering
  <2>6. QED
    BY <1>4, <1>5, <2>2, <2>5
<1>7. p \in Paths(s)
  BY <1>6 DEF Paths, IsNonempty
<1>8. QED
  BY <1>5, <1>7

\* The leaves of a sample are columns that the reader accepts.
LEMMA PathsAreColumns ==
  ASSUME NEW K, NEW s, IsSample(s, K), FitsTable(s)
  PROVE  /\ IsColumns(SetToSeq(Paths(s)), K) /\ ValidColumns(SetToSeq(Paths(s)))
         /\ {SetToSeq(Paths(s))[c] : c \in DOMAIN SetToSeq(Paths(s))} = Paths(s)
<1> DEFINE P == Paths(s)
           q == SetToSeq(P)
           n == Cardinality(P)
<1>1. IsFiniteSet(P) /\ P \subseteq DOMAIN s /\ DOMAIN s \subseteq Seq(K)
  <2>1. IsFiniteSet(DOMAIN s) /\ P \subseteq DOMAIN s
    BY DEF IsSample, Paths
  <2> HIDE DEF P
  <2>2. QED
    BY <2>1, FS_Subset DEF IsSample
<1>2. P # {}
  <2>1. <<>> \in DOMAIN s
    BY DEF IsSample
  <2>2. QED
    BY <2>1, LeafBelow
<1>3. ASSUME NEW p \in P, NEW r \in P, p \in WayTo(r) PROVE p = r
  <2>1. p \in DOMAIN s /\ r \in DOMAIN s /\ ~IsNonempty(s, p)
    BY DEF Paths
  <2>2. p # r => s[p] = Object
    BY <1>3, <2>1 DEF IsSample
  <2>3. QED
    BY <1>3, <2>1, <2>2 DEF IsNonempty
<1>4. ASSUME NEW p \in P PROVE Len(p) \in 1 .. MaxDepth
  <2>1. p \in Seq(K) /\ Len(p) <= MaxDepth
    BY <1>1 DEF FitsTable
  <2>2. p # <<>>
    BY DEF FitsTable, Paths
  <2>3. Len(p) # 0 /\ Len(p) \in Nat
    BY <2>1, <2>2, WayEnds
  <2>4. QED
    BY <2>1, <2>3, TablesAssumption
<1>5. n \in 1 .. MaxColumns
  <2>1. n <= MaxColumns
    BY DEF FitsTable
  <2> HIDE DEF P
  <2>2. n \in Nat /\ n # 0
    BY <1>1, <1>2, FS_CardinalityType, FS_EmptySet
  <2>3. QED
    BY <2>1, <2>2, TablesAssumption
<1> HIDE DEF P, q, n
<1>6. /\ q \in Seq(P) /\ Len(q) = n /\ DOMAIN q = 1 .. n
      /\ \A i, j \in 1 .. n : q[i] = q[j] => i = j
      /\ \A p \in P : \E i \in 1 .. n : q[i] = p
  BY <1>1, Enumerates DEF q, n
<1>7. \A c \in DOMAIN q : q[c] \in P /\ q[c] \in Seq(K) /\ Len(q[c]) \in 1 .. MaxDepth
  BY <1>1, <1>4, <1>6
<1>8. q \in Seq(Seq(K))
  BY <1>6, <1>7
<1>9. ~ConflictingColumns(q)
  BY <1>3, <1>6, <1>7 DEF ConflictingColumns
<1>10. \A c \in DOMAIN q : Len(q[c]) >= 1
  BY <1>7, TablesAssumption
<1>11. {q[c] : c \in DOMAIN q} = P
  BY <1>6, <1>7
<1>12. ValidColumns(q)
  BY <1>5, <1>6, <1>7, <1>9 DEF ValidColumns
<1>13. IsColumns(q, K)
  BY <1>8, <1>9, <1>10 DEF IsColumns
<1>14. QED
  BY <1>11, <1>12, <1>13 DEF q, P

\* From the columns and the cells of a sample, the sample is built.
LEMMA SampleIsRebuilt ==
  ASSUME NEW K, NEW V, NEW s \in SamplesOver(K, V),
         NEW columns, IsColumns(columns, K), {columns[c] : c \in DOMAIN columns} = Paths(s),
         NEW row, \A c \in DOMAIN columns : row[c] = s[columns[c]]
  PROVE  Rebuild(columns, row) = s
<1> DEFINE C == DOMAIN columns
           N == NodesOf(columns, C)
<1>1. IsSample(s, K) /\ s = [p \in DOMAIN s |-> s[p]]
  BY SampleIs
<1>2. N = DOMAIN s
  <2>1. ASSUME NEW p \in N PROVE p \in DOMAIN s
    <3>1. CASE p = <<>>
      BY <1>1, <3>1 DEF IsSample
    <3>2. CASE p # <<>>
      <4>1. PICK c \in C : p \in WayTo(columns[c])
        BY <3>2 DEF NodesOf
      <4>2. columns[c] \in DOMAIN s
        BY DEF Paths
      <4>3. QED
        BY <1>1, <4>1, <4>2 DEF IsSample
    <3>3. QED
      BY <3>1, <3>2
  <2>2. ASSUME NEW p \in DOMAIN s PROVE p \in N
    <3>1. PICK r \in Paths(s) : p \in WayTo(r)
      BY <1>1, LeafBelow
    <3>2. PICK c \in C : r = columns[c]
      OBVIOUS
    <3>3. QED
      BY <3>1, <3>2 DEF NodesOf
  <2>3. QED
    BY <2>1, <2>2
<1>3. ASSUME NEW p \in DOMAIN s PROVE LabelOf(columns, row, C, p) = s[p]
  <2>1. CASE \E c \in C : columns[c] = p
    <3>1. PICK c \in C : columns[c] = p
      BY <2>1
    <3>2. LabelOf(columns, row, C, p) = row[c]
      BY <3>1, CellIs
    <3>3. QED
      BY <3>1, <3>2
  <2>2. CASE ~ \E c \in C : columns[c] = p
    <3>1. p \notin Paths(s)
      BY <2>2
    <3>2. s[p] = Object
      BY <3>1 DEF Paths, IsNonempty
    <3>3. QED
      BY <2>2, <3>2 DEF LabelOf
  <2>3. QED
    BY <2>1, <2>2
<1>4. [p \in DOMAIN s |-> LabelOf(columns, row, C, p)] = [p \in DOMAIN s |-> s[p]]
  BY <1>3, Zenon
<1>5. TreeOf(columns, row, C) = s
  BY <1>1, <1>2, <1>4 DEF TreeOf
<1>6. QED
  BY <1>5, RebuildIs

\* The samples with given paths, and a group that says each of them once.
Alike(samples, paths) == {i \in DOMAIN samples : Paths(samples[i]) = paths}
RowOfSample(columns, s) == [c \in DOMAIN columns |-> s[columns[c]]]
IsGroup(g, samples, paths, K) ==
  /\ IsColumns(g.columns, K) /\ ValidColumns(g.columns) /\ {g.columns[c] : c \in DOMAIN g.columns} = paths
  /\ DOMAIN g.indexes = DOMAIN g.rows /\ Len(g.indexes) = Len(g.rows) /\ g.rows # <<>>
  /\ \A n \in DOMAIN g.rows : /\ g.indexes[n] + 1 \in Alike(samples, paths) /\ g.indexes[n] \in Int
                              /\ g.rows[n] = RowOfSample(g.columns, samples[g.indexes[n] + 1])
  /\ \A i \in Alike(samples, paths) : \E n \in DOMAIN g.rows : g.indexes[n] = i - 1
  /\ \A m, n \in DOMAIN g.rows : g.indexes[m] = g.indexes[n] => m = n

LEMMA GroupIs ==
  ASSUME NEW K, NEW V, NEW samples \in Seq(SamplesOver(K, V)), NEW j \in DOMAIN samples, FitsTable(samples[j])
  PROVE  IsGroup(Group(samples, Paths(samples[j])), samples, Paths(samples[j]), K)
<1> DEFINE P == Paths(samples[j])
           S == Alike(samples, P)
           D == DOMAIN samples
           before == {p \in D \X D : p[1] < p[2]}
           columns == SetToSeq(P)
           order == InOrder(S, before)
           m == Cardinality(S)
           g == Group(samples, P)
<1>1. IsSample(samples[j], K)
  BY SampleIs
<1>2. /\ IsColumns(columns, K) /\ ValidColumns(columns)
      /\ {columns[c] : c \in DOMAIN columns} = P
  BY <1>1, PathsAreColumns
<1>3. S \subseteq D /\ j \in S /\ \A i \in D : i \in Nat
  BY DEF Alike
<1>4. IsFiniteSet(S) /\ m \in Nat /\ m # 0
  <2>1. D = 1 .. Len(samples) /\ Len(samples) \in Nat
    OBVIOUS
  <2>2. IsFiniteSet(D)
    BY <2>1, FS_Interval
  <2> HIDE DEF S, D
  <2>3. IsFiniteSet(S) /\ S # {}
    BY <1>3, <2>2, FS_Subset
  <2>4. QED
    BY <2>3, FS_CardinalityType, FS_EmptySet
<1>5. IsOrder(S, before)
  <2>1. \A x, y \in S : <<x, y>> \in before <=> x < y
    BY <1>3
  <2> HIDE DEF before
  <2>2. QED
    BY <1>3, <2>1 DEF IsOrder
<1>6. IsInOrder(order, S, before)
  <2> HIDE DEF before, S
  <2>1. QED
    BY <1>4, <1>5, InOrderIsSorted
<1>7. order \in Seq(S) /\ DOMAIN order = 1 .. m /\ Len(order) = m
      /\ (\A i \in S : \E n \in DOMAIN order : order[n] = i)
      /\ \A i, k \in DOMAIN order : order[i] = order[k] => i = k
  BY <1>6 DEF IsInOrder
<1>8. /\ g.columns = columns
      /\ g.indexes = [n \in DOMAIN order |-> order[n] - 1]
      /\ g.rows = [n \in DOMAIN order |-> RowOfSample(columns, samples[order[n]])]
  BY DEF Group, RowOfSample, Alike
<1> HIDE DEF g, order, m, before, S, columns, P
<1>9. \A n \in DOMAIN order : order[n] \in S /\ order[n] \in Nat
  BY <1>3, <1>7
<1>10. /\ DOMAIN g.indexes = 1 .. m /\ DOMAIN g.rows = 1 .. m
       /\ Len(g.indexes) = m /\ Len(g.rows) = m /\ g.rows # <<>>
  <2>2. DOMAIN g.indexes = 1 .. m /\ DOMAIN g.rows = 1 .. m
    BY <1>7, <1>8
  <2>3. Len(g.indexes) = m /\ Len(g.rows) = m
    BY <1>4, <1>7, <1>8
  <2>4. g.rows # <<>>
    BY <1>4, <2>2
  <2>5. QED
    BY <2>2, <2>3, <2>4
<1>11. ASSUME NEW n \in 1 .. m
       PROVE  /\ g.indexes[n] + 1 = order[n] /\ g.indexes[n] = order[n] - 1 /\ g.indexes[n] \in Int
              /\ g.rows[n] = RowOfSample(columns, samples[order[n]])
  <2>1. g.indexes[n] = order[n] - 1 /\ order[n] \in Nat /\ g.rows[n] = RowOfSample(columns, samples[order[n]])
    BY <1>7, <1>8, <1>9
  <2>2. QED
    BY <2>1
<1>12. ASSUME NEW i \in S PROVE \E n \in 1 .. m : g.indexes[n] = i - 1
  BY <1>7, <1>11
<1>13. ASSUME NEW i \in 1 .. m, NEW k \in 1 .. m, g.indexes[i] = g.indexes[k] PROVE i = k
  <2>1. order[i] = order[k]
    BY <1>11, <1>13
  <2>2. QED
    BY <1>7, <2>1
<1>14. \A n \in 1 .. m : /\ g.indexes[n] + 1 \in S /\ g.indexes[n] \in Int
                         /\ g.rows[n] = RowOfSample(columns, samples[g.indexes[n] + 1])
  <2>1. TAKE n \in 1 .. m
  <2>2. /\ g.indexes[n] + 1 = order[n] /\ g.indexes[n] \in Int
        /\ g.rows[n] = RowOfSample(columns, samples[order[n]])
    BY <1>11
  <2>3. order[n] \in S
    BY <1>7, <1>9
  <2>4. QED
    BY <2>2, <2>3, Zenon
<1>15. IsGroup(g, samples, P, K)
  <2>1. IsColumns(g.columns, K) /\ ValidColumns(g.columns) /\ {g.columns[c] : c \in DOMAIN g.columns} = P
    BY <1>2, <1>8, Zenon
  <2>2. \A n \in DOMAIN g.rows : /\ g.indexes[n] + 1 \in S /\ g.indexes[n] \in Int
                                 /\ g.rows[n] = RowOfSample(g.columns, samples[g.indexes[n] + 1])
    BY <1>8, <1>10, <1>14
  <2>3. \A i \in S : \E n \in DOMAIN g.rows : g.indexes[n] = i - 1
    BY <1>10, <1>12
  <2>4. \A i, k \in DOMAIN g.rows : g.indexes[i] = g.indexes[k] => i = k
    BY <1>10, <1>13
  <2>5. QED
    BY <1>10, <2>1, <2>2, <2>3, <2>4, Zenon DEF IsGroup, S
<1>16. QED
  BY <1>15 DEF g, P

\* Samples that were packed: each shape of a sample has one group.
IsPacked(samples, data, shapes, K) ==
  /\ data.samples = Len(samples) /\ Len(samples) \in 1 .. MaxRows
  /\ DOMAIN data.tables = DOMAIN shapes /\ Len(data.tables) \in 1 .. MaxRows
  /\ \A t \in DOMAIN shapes : IsGroup(data.tables[t], samples, shapes[t], K)
  /\ \A t, u \in DOMAIN shapes : shapes[t] = shapes[u] => t = u
  /\ \A i \in DOMAIN samples : \E t \in DOMAIN shapes : shapes[t] = Paths(samples[i])

LEMMA PackedIs ==
  ASSUME NEW K, NEW V, NEW samples \in Seq(SamplesOver(K, V)), PackStats(samples) # RejectedTable
  PROVE  \E shapes : IsPacked(samples, PackStats(samples), shapes, K)
<1> DEFINE n == Len(samples)
           D == DOMAIN samples
           S == {Paths(samples[i]) : i \in D}
           shapes == SetToSeq(S)
           data == PackStats(samples)
           f == [i \in D |-> Paths(samples[i])]
<1>1. n \in 1 .. MaxRows /\ n \in Nat /\ D = 1 .. n /\ \A i \in D : FitsTable(samples[i])
  BY DEF PackStats
<1>2. data.samples = n /\ data.tables = [t \in DOMAIN shapes |-> Group(samples, shapes[t])]
  BY <1>1 DEF PackStats
<1> HIDE DEF data
<1>3. IsFiniteSet(S) /\ Cardinality(S) \in 1 .. MaxRows
  <2>1. IsFiniteSet(D) /\ Cardinality(D) = n
    BY <1>1, FS_Interval
  <2>2. f \in Surjection(D, S)
    BY DEF Surjection
  <2>3. S # {}
    BY <1>1
  <2> HIDE DEF f, D, S, n
  <2>4. IsFiniteSet(S) /\ Cardinality(S) <= n
    BY <2>1, <2>2, FS_Surjection
  <2>5. Cardinality(S) \in Nat /\ Cardinality(S) # 0
    BY <2>3, <2>4, FS_CardinalityType, FS_EmptySet
  <2>6. QED
    BY <1>1, <2>4, <2>5, TablesAssumption
<1> DEFINE m == Cardinality(S)
<1>4. /\ shapes \in Seq(S) /\ Len(shapes) = m /\ DOMAIN shapes = 1 .. m
      /\ \A t, u \in 1 .. m : shapes[t] = shapes[u] => t = u
      /\ \A p \in S : \E t \in 1 .. m : shapes[t] = p
  <2> HIDE DEF S
  <2>1. QED
    BY <1>3, Enumerates
<1> HIDE DEF shapes
<1>5. ASSUME NEW t \in DOMAIN shapes PROVE IsGroup(data.tables[t], samples, shapes[t], K)
  <2>1. shapes[t] \in S
    <3> HIDE DEF S
    <3>1. QED
      BY <1>4
  <2>2. PICK i \in D : shapes[t] = Paths(samples[i])
    BY <2>1
  <2>3. FitsTable(samples[i])
    BY <1>1
  <2>4. IsGroup(Group(samples, Paths(samples[i])), samples, Paths(samples[i]), K)
    BY <2>3, GroupIs
  <2>5. data.tables[t] = Group(samples, shapes[t])
    BY <1>2
  <2>6. QED
    BY <2>2, <2>4, <2>5
<1>6. DOMAIN data.tables = DOMAIN shapes /\ Len(data.tables) \in 1 .. MaxRows
  <2> HIDE DEF S
  <2>1. m \in Nat
    BY <1>3, TablesAssumption
  <2> HIDE DEF m
  <2>2. Len(data.tables) = m
    BY <1>2, <1>4, <2>1
  <2>3. QED
    BY <1>2, <1>3, <2>2 DEF m
<1>7. \A i \in D : \E t \in DOMAIN shapes : shapes[t] = Paths(samples[i])
  BY <1>4
<1>8. \A t, u \in DOMAIN shapes : shapes[t] = shapes[u] => t = u
  BY <1>4
<1> HIDE DEF m, S
<1>9. IsPacked(samples, data, shapes, K)
  BY <1>1, <1>2, <1>5, <1>6, <1>7, <1>8 DEF IsPacked
<1>10. QED
  BY <1>9 DEF data

\* The rows of a packed table: one for each sample, in the group of its shape.
PlaceOf(data, r, samples, shapes, i) ==
  /\ r \in RowsOf(data) /\ IndexOf(data, r) = i - 1
  /\ r[1] \in DOMAIN shapes /\ r[2] \in DOMAIN data.tables[r[1]].rows /\ shapes[r[1]] = Paths(samples[i])

LEMMA SampleHasRow ==
  ASSUME NEW K, NEW samples, NEW data, NEW shapes, IsPacked(samples, data, shapes, K), NEW i \in DOMAIN samples
  PROVE  \E r : PlaceOf(data, r, samples, shapes, i)
<1>1. PICK t \in DOMAIN shapes : shapes[t] = Paths(samples[i])
  BY DEF IsPacked
<1>2. IsGroup(data.tables[t], samples, shapes[t], K) /\ DOMAIN data.tables = DOMAIN shapes
  BY DEF IsPacked
<1>3. i \in Alike(samples, shapes[t])
  BY <1>1 DEF Alike
<1>4. PICK n \in DOMAIN data.tables[t].rows : data.tables[t].indexes[n] = i - 1
  BY <1>2, <1>3 DEF IsGroup
<1> DEFINE r == <<t, n>>
<1>5. r \in RowsOf(data) /\ r[1] = t /\ r[2] = n
  BY <1>2 DEF RowsOf
<1>6. IndexOf(data, r) = i - 1
  BY <1>4 DEF IndexOf
<1>7. PlaceOf(data, r, samples, shapes, i)
  BY <1>1, <1>4, <1>5, <1>6 DEF PlaceOf
<1>8. QED
  BY <1>7

LEMMA RowHasSample ==
  ASSUME NEW K, NEW samples, NEW data, NEW shapes, IsPacked(samples, data, shapes, K), NEW r \in RowsOf(data)
  PROVE  /\ IndexOf(data, r) \in Int /\ IndexOf(data, r) + 1 \in DOMAIN samples
         /\ PlaceOf(data, r, samples, shapes, IndexOf(data, r) + 1)
         /\ data.tables[r[1]].rows[r[2]]
              = RowOfSample(data.tables[r[1]].columns, samples[IndexOf(data, r) + 1])
         /\ r = <<r[1], r[2]>>
<1>1. PICK t \in DOMAIN data.tables : \E n \in DOMAIN data.tables[t].rows : r = <<t, n>>
  BY DEF RowsOf
<1>2. PICK n \in DOMAIN data.tables[t].rows : r = <<t, n>>
  BY <1>1
<1>3. t \in DOMAIN shapes /\ IsGroup(data.tables[t], samples, shapes[t], K)
  BY DEF IsPacked
<1> DEFINE g == data.tables[t]
           i == g.indexes[n]
<1>4. i + 1 \in Alike(samples, shapes[t]) /\ i \in Int /\ g.rows[n] = RowOfSample(g.columns, samples[i + 1])
  BY <1>2, <1>3 DEF IsGroup
<1> HIDE DEF g, i
<1>5. r[1] = t /\ r[2] = n /\ IndexOf(data, r) = i
  BY <1>2 DEF IndexOf, i, g
<1>6. i + 1 \in DOMAIN samples /\ Paths(samples[i + 1]) = shapes[t]
  BY <1>4 DEF Alike
<1>7. i = (i + 1) - 1
  BY <1>4
<1>8. PlaceOf(data, r, samples, shapes, i + 1)
  BY <1>2, <1>3, <1>5, <1>6, <1>7 DEF PlaceOf, g
<1>9. QED
  BY <1>2, <1>4, <1>5, <1>6, <1>8 DEF g

\* No two rows have one index.
LEMMA RowsDiffer ==
  ASSUME NEW K, NEW samples, NEW data, NEW shapes, IsPacked(samples, data, shapes, K),
         NEW r \in RowsOf(data), NEW s \in RowsOf(data), IndexOf(data, r) = IndexOf(data, s)
  PROVE  r = s
<1>1. shapes[r[1]] = shapes[s[1]] /\ r[1] \in DOMAIN shapes /\ s[1] \in DOMAIN shapes
  BY RowHasSample DEF PlaceOf
<1>2. r[1] = s[1]
  BY <1>1 DEF IsPacked
<1>3. r[2] \in DOMAIN data.tables[r[1]].rows /\ s[2] \in DOMAIN data.tables[r[1]].rows
  BY <1>2, RowHasSample DEF PlaceOf
<1>4. data.tables[r[1]].indexes[r[2]] = data.tables[r[1]].indexes[s[2]]
  BY <1>2 DEF IndexOf
<1>5. IsGroup(data.tables[r[1]], samples, shapes[r[1]], K)
  BY <1>1 DEF IsPacked
<1>6. r[2] = s[2]
  BY <1>3, <1>4, <1>5 DEF IsGroup
<1>7. r = <<r[1], r[2]>> /\ s = <<s[1], s[2]>>
  BY RowHasSample
<1>8. QED
  BY <1>2, <1>6, <1>7

\* What was packed is accepted.
LEMMA PackedIsAccepted ==
  ASSUME NEW K, NEW samples, NEW data, NEW shapes, IsPacked(samples, data, shapes, K),
         DOMAIN samples = 1 .. Len(samples)
  PROVE  IsAccepted(data)
<1> DEFINE n == Len(samples)
           R == RowsOf(data)
           f == [r \in R |-> IndexOf(data, r) + 1]
<1>1. n \in Nat /\ data.samples = n /\ n \in 1 .. MaxRows
  BY TablesAssumption DEF IsPacked
<1>2. ASSUME NEW t \in DOMAIN data.tables PROVE ValidGroup(data.tables[t], data.samples)
  <2> DEFINE g == data.tables[t]
  <2>1. IsGroup(g, samples, shapes[t], K)
    BY DEF IsPacked
  <2> HIDE DEF g
  <2>2. ASSUME NEW k \in DOMAIN g.indexes PROVE g.indexes[k] \in 0 .. n - 1
    <3>1. g.indexes[k] + 1 \in 1 .. n /\ g.indexes[k] \in Int
      BY <2>1 DEF IsGroup, Alike
    <3>2. QED
      BY <1>1, <3>1
  <2>3. ASSUME NEW k \in DOMAIN g.rows PROVE Len(g.rows[k]) = Len(g.columns)
    <3>1. g.rows[k] = RowOfSample(g.columns, samples[g.indexes[k] + 1])
      BY <2>1 DEF IsGroup
    <3>2. g.columns \in Seq(Seq(K))
      BY <2>1 DEF IsGroup, IsColumns
    <3>3. DOMAIN g.columns = 1 .. Len(g.columns) /\ Len(g.columns) \in Nat
      BY <3>2
    <3>4. Len(RowOfSample(g.columns, samples[g.indexes[k] + 1])) = Len(g.columns)
      BY <3>3 DEF RowOfSample
    <3>5. QED
      BY <3>1, <3>4
  <2>4. ValidColumns(g.columns) /\ g.rows # <<>> /\ Len(g.indexes) = Len(g.rows)
    BY <2>1 DEF IsGroup
  <2>5. QED
    BY <1>1, <2>2, <2>3, <2>4 DEF ValidGroup, g
<1>3. \A r, s \in R : IndexOf(data, r) = IndexOf(data, s) => r = s
  BY RowsDiffer
<1>4. Cardinality(R) = n
  <2>1. \A r \in R : IndexOf(data, r) \in Int /\ IndexOf(data, r) + 1 \in 1 .. n
    BY RowHasSample
  <2>2. \A i \in 1 .. n : \E r \in R : IndexOf(data, r) = i - 1
    BY SampleHasRow DEF PlaceOf
  <2> HIDE DEF R
  <2>3. f \in Injection(R, 1 .. n)
    <3>1. \A r, s \in R : f[r] = f[s] => r = s
      BY <1>3, <2>1
    <3>2. f \in [R -> 1 .. n]
      BY <2>1
    <3>3. QED
      BY <3>1, <3>2 DEF Injection, IsInjective
  <2>4. f \in Surjection(R, 1 .. n)
    <3>1. ASSUME NEW i \in 1 .. n PROVE \E r \in R : f[r] = i
      <4>1. PICK r \in R : IndexOf(data, r) = i - 1
        BY <2>2
      <4>2. f[r] = i
        BY <2>1, <4>1
      <4>3. QED
        BY <4>2
    <3>2. f \in [R -> 1 .. n]
      BY <2>1
    <3>3. QED
      BY <3>1, <3>2 DEF Surjection
  <2>5. IsFiniteSet(1 .. n) /\ Cardinality(1 .. n) = n
    BY <1>1, FS_Interval
  <2> HIDE DEF f, n
  <2>6. Cardinality(R) = Cardinality(1 .. n)
    BY <2>3, <2>4, <2>5, FS_Injection
  <2>7. QED
    BY <2>5, <2>6
<1>5. Len(data.tables) \in 1 .. MaxRows
  BY DEF IsPacked
<1>6. QED
  BY <1>1, <1>2, <1>3, <1>4, <1>5 DEF IsAccepted, EveryIndexOnce

\* Samples that were packed in a table are unpacked as they were, whatever their
\* shapes (tables.py: "self-contained, lossless").
THEOREM TablesAreRestored ==
  ASSUME NEW K, NEW V, NEW samples \in Seq(SamplesOver(K, V))
  PROVE  TableRestores(samples)
<1> DEFINE data == PackStats(samples)
           n == Len(samples)
<1> SUFFICES ASSUME data # RejectedTable PROVE UnpackStats(data) = samples
  BY DEF TableRestores
<1>1. PICK shapes : IsPacked(samples, data, shapes, K)
  BY PackedIs
<1> HIDE DEF data
<1>2. DOMAIN samples = 1 .. n /\ n \in Nat /\ data.samples = n
  BY <1>1 DEF IsPacked
<1>3. UnpackStats(data) = [i \in 1 .. n |-> SampleAt(data, RowAt(data, i))]
  BY <1>1, <1>2, PackedIsAccepted, UnpackedAre
<1>4. ASSUME NEW i \in 1 .. n PROVE SampleAt(data, RowAt(data, i)) = samples[i]
  <2> DEFINE r == RowAt(data, i)
             g == data.tables[r[1]]
  <2>1. PICK q : PlaceOf(data, q, samples, shapes, i)
    BY <1>1, <1>2, SampleHasRow
  <2>2. r \in RowsOf(data) /\ IndexOf(data, r) = i - 1
    BY <2>1 DEF PlaceOf, RowAt
  <2> HIDE DEF r
  <2>3. IndexOf(data, r) + 1 = i
    BY <2>2
  <2>4. PlaceOf(data, r, samples, shapes, i) /\ g.rows[r[2]] = RowOfSample(g.columns, samples[i])
    BY <1>1, <2>2, <2>3, RowHasSample
  <2>5. IsGroup(g, samples, shapes[r[1]], K) /\ shapes[r[1]] = Paths(samples[i])
    BY <1>1, <2>4 DEF IsPacked, PlaceOf
  <2>6. IsColumns(g.columns, K) /\ {g.columns[c] : c \in DOMAIN g.columns} = Paths(samples[i])
    BY <2>5 DEF IsGroup
  <2> DEFINE row == g.rows[r[2]]
  <2>7. \A c \in DOMAIN g.columns : row[c] = samples[i][g.columns[c]]
    BY <2>4 DEF RowOfSample
  <2>8. samples[i] \in SamplesOver(K, V)
    BY <1>2
  <2> HIDE DEF g, row
  <2>9. Rebuild(g.columns, row) = samples[i]
    BY <2>6, <2>7, <2>8, SampleIsRebuilt
  <2>10. QED
    BY <2>9 DEF SampleAt, g, row, r
<1>5. [i \in 1 .. n |-> SampleAt(data, RowAt(data, i))] = [i \in 1 .. n |-> samples[i]]
  BY <1>4, Zenon
<1>6. samples = [i \in 1 .. n |-> samples[i]]
  BY <1>2
<1>7. QED
  BY <1>3, <1>5, <1>6

-----------------------------------------------------------------------------
(* The properties of Subjects.                                              *)

\* Files that the writer of a bundle is given: their names are safe and none is
\* the manifest's, and there are no more of them than the reader takes members.
IsSources(sources) ==
  \E N, B : /\ Manifest \notin N /\ N \cap UnsafeNames = {}
            /\ sources \in Seq(FilesOver(N, B))
            /\ Len(sources) < MembersMax /\ Len(sources) <= MemberMax

\* Anything that can be read as an archive with a manifest.
IsArchive(archive) == \E M, L : archive.members \in Seq(M) /\ archive.listed \in Seq(L)

\* An archive, and the marker of the archive that is expected.
IsUpload(upload) ==
  \E S : /\ upload.source \in Seq(S)
         /\ \E archive \in Seq(S) \ {<<>>} : upload.marker = Marker(archive)

\* What a host goes through between its samples.
IsHistory(events) == events \in Seq(HostHistory)

\* Records in which an identity stands for one thing.
IsEvidence(evidence) == \E I, X, K : evidence \in Seq(Records(I, X, K)) /\ Agree(evidence)

\* Nested dictionaries of one cycle, in their order.
IsSamples(samples) == \E K, V : samples \in Seq(SamplesOver(K, V))

\* Anything with the fields of a table.
IsTable(data) == \E K, V : data \in TablesOver(K, V)

\* A record of one of three kinds, with fields of JSON values.
IsRecord(r) ==
  \E V, K : /\ IsJson(V) /\ r.kind \in {"exec", "stats", "state"}
            /\ r.data \in [K -> V] /\ (r.kind = "exec" => "events" \in K)

\* Journal rows in which an identity stands for one row.
IsJournal(rows) == OneIdentity(rows) /\ \E G : rows \in Seq(JournalRows(G))

\* Exec events of any containers.
IsExecHistory(events) == \E C : events \in Seq(ExecEventsOf(C))

\* A command that was cut short is told from a whole one and leaves nothing
\* behind, whatever its limits and whatever the program does (common.py, command).
THEOREM CutsAreAlwaysTold ==
  ASSUME Is("command") => subject.input \in Programs
  PROVE  CutsAreTold
  BY CommandsTell DEF CutsAreTold

\* What is stored in a shorter form is read as it was collected, and a shorter
\* form that nobody wrote is rejected or means one thing, whatever the samples,
\* the fields, the journal and the exec events are (tables.py,
\* docker_compaction.py, noise.py).
THEOREM PackingIsAlwaysExact ==
  ASSUME Is("samples") => IsSamples(subject.input),
         Is("table") => IsTable(subject.input),
         Is("record") => IsRecord(subject.input),
         Is("journal") => IsJournal(subject.input),
         Is("events") => IsExecHistory(subject.input)
  PROVE  PackingIsExact
<1>1. Is("samples") => TableRestores(subject.input)
  BY TablesAreRestored DEF IsSamples
<1>2. Is("table") => NeverGuesses(subject.input)
  BY NothingIsGuessed DEF IsTable
<1>3. ASSUME Is("record") PROVE FieldsRestore(subject.input)
  <2> DEFINE r == subject.input
  <2>1. IsRecord(r)
    BY <1>3
  <2> HIDE DEF r
  <2>2. PICK V, K : /\ IsJson(V) /\ r.kind \in {"exec", "stats", "state"}
                    /\ r.data \in [K -> V] /\ (r.kind = "exec" => "events" \in K)
    BY <2>1 DEF IsRecord
  <2>3. FieldsRestore(r)
    BY <2>2, FieldsAreRestored
  <2>4. QED
    BY <2>3 DEF r
<1>4. ExecStaysInRange(subject.input)
  BY ExecsAreInRange
<1>5. Is("journal") => JournalKeeps(subject.input)
  BY JournalsAreKept DEF IsJournal
<1>6. Is("events") => ExecKeeps(subject.input)
  BY ExecsAreKept DEF IsExecHistory
<1>7. QED
  BY <1>1, <1>2, <1>3, <1>4, <1>5, <1>6 DEF PackingIsExact

\* Evidence that went into a bundle comes out of it, or the bundle says that it
\* did not, or a member is larger than the reader takes: then the reader refuses
\* the bundle and restore() its mirror.  Whatever the files, the archive, the
\* mirror and the destination of a restoration are (bundle.py, transport.py).
THEOREM BundlesAlwaysRestore ==
  ASSUME BundleValues, TransportValues,
         Is("sources") => IsSources(subject.input),
         Is("archive") => IsArchive(subject.input),
         Is("upload") => IsUpload(subject.input),
         Is("restoration") => subject.input.moves \in Nat
  PROVE  BundlesRestore
<1>1. Is("sources") => PublishedIsRead(subject.input)
  BY BundlesAreRead DEF IsSources
<1>2. Is("archive") => AcceptedIsListed(subject.input)
  BY ListsAreComplete DEF IsArchive
<1>3. Is("upload") => MirrorRestores(subject.input.source, subject.input.marker)
  BY MirrorsRestore DEF IsUpload
<1>4. Is("restoration") => RestoreIsSafe(subject.input)
  BY RestorationsAreSafe
<1>5. QED
  BY <1>1, <1>2, <1>3, <1>4 DEF BundlesRestore

\* The report invents no rate and counts nothing twice, whatever a host has gone
\* through and however its records overlap (report.py, host_trends and analyze).
THEOREM ReportNeverInvents ==
  ASSUME Is("host") => IsHistory(subject.input),
         Is("evidence") => IsEvidence(subject.input)
  PROVE  ReportInventsNothing
<1>1. Is("host") => RatesAreReal(subject.input)
  BY RatesAreAlwaysReal DEF IsHistory
<1>2. Is("evidence") => FindingsCountOnce(subject.input)
  BY FindingsAlwaysCountOnce DEF IsEvidence
<1>3. QED
  BY <1>1, <1>2 DEF ReportInventsNothing
===============================================================================
