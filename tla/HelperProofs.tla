----------------------------- MODULE HelperProofs -----------------------------
(* Theorems about the host helper, for every length of a window, of its      *)
(* overlap and of a date, and for any number of entries, faults, crashes and *)
(* jumps of the clock within the overlap.                                    *)
EXTENDS HostHelper, FiniteSetTheorems, TLAPS

-----------------------------------------------------------------------------
(* Dates and types. *)

\* Dates grow with time.
LEMMA DatesGrow == \A s, t \in Nat : s <= t => Date(s) <= Date(t)
<1> SUFFICES ASSUME NEW s \in Nat, NEW t \in Nat, s <= t PROVE Date(s) <= Date(t)
  OBVIOUS
<1>1. Day \in Nat /\ Day > 0
  BY HostHelperAssumption
<1>2. QED
  BY <1>1 DEF Date

\* A time has a date.
LEMMA DateIsDate == \A t \in 0 .. MaxTime : Date(t) \in Dates
<1> SUFFICES ASSUME NEW t \in 0 .. MaxTime PROVE Date(t) \in Dates
  OBVIOUS
<1>1. Day \in Nat /\ Day > 0 /\ MaxTime \in Nat
  BY HostHelperAssumption
<1>2. Date(t) \in Nat
  BY <1>1 DEF Date
<1>3. Date(MaxTime) \in Nat
  BY <1>1 DEF Date
<1>4. QED
  BY <1>1, <1>2, <1>3, DatesGrow DEF Dates

InRound == {"journal", "advance", "daily", "save"}

\* TypeOK, made inductive: times are taken before they are used, and the clock
\* never goes back behind the time at which the model starts.
Types ==
  /\ TypeOK
  /\ IsFiniteSet(journal) /\ Interval <= now
  /\ pc # "down" => last # Never
  /\ pc \in InRound => end # Never

LEMMA TypesInit == Init => Types
<1> SUFFICES ASSUME Init PROVE Types
  OBVIOUS
<1>1. IsFiniteSet({})
  BY FS_EmptySet
<1>2. QED
  BY <1>1, HostHelperAssumption DEF Init, Types, TypeOK, States, Blank, Never, InRound

LEMMA TypesStart == ASSUME Types, Start \/ StartUnread PROVE Types'
<1>1. PICK s \in {file, Blank} : Resume(s)
  BY DEF Start, StartUnread
<1>2. Blank \in States
  BY DEF Blank, States
<1>3. now - Interval \in 0 .. MaxTime /\ now - Interval # Never
  BY HostHelperAssumption DEF Types, TypeOK, Never
<1>4. faults' \in 0 .. MaxFaults /\ crashes' = crashes /\ jumps' = jumps
  BY HostHelperAssumption DEF Start, StartUnread, Fault, boundVars, Types, TypeOK
<1>5. QED
  BY <1>1, <1>2, <1>3, <1>4
  DEF Resume, worldVars, fateVars, Types, TypeOK, States, InRound

LEMMA TypesRound == ASSUME Types, Round PROVE Types'
<1> USE DEF Types, TypeOK, worldVars, fateVars, memoryVars, boundVars, InRound, Never
<1>1. CASE Once
  BY <1>1, HostHelperAssumption DEF Once
<1>2. CASE ReadJournal
  BY <1>2 DEF ReadJournal, Window
<1>3. CASE Advance
  <2>1. state' \in States
    BY <1>3 DEF Advance, States
  <2>2. told' \subseteq journal /\ cut' \subseteq journal
    BY <1>3 DEF Advance, ReportAbsence, Absence, LostOverlap
  <2>3. QED
    BY <1>3, <2>1, <2>2 DEF Advance, ReportAbsence
<1>4. CASE Daily
  <2>1. Date(end) \in Dates
    BY <1>4, DateIsDate DEF Daily
  <2>2. probes' \in [Dates -> Nat] /\ state' \in States
    BY <1>4, <2>1 DEF Daily, States
  <2>3. QED
    BY <1>4, <2>2 DEF Daily
<1>5. CASE Save
  BY <1>5 DEF Save
<1>6. CASE Wait
  BY <1>6 DEF Wait
<1>7. QED
  BY <1>1, <1>2, <1>3, <1>4, <1>5, <1>6 DEF Round

LEMMA TypesEnd == ASSUME Types, Fails \/ Stop \/ Crash PROVE Types'
<1> USE DEF Types, TypeOK, worldVars, fateVars, memoryVars, boundVars, InRound, Exit, Fault
<1>1. Blank \in States
  BY DEF Blank, States
<1>2. CASE Fails
  BY <1>1, <1>2, HostHelperAssumption DEF Fails
<1>3. CASE Stop
  BY <1>1, <1>3 DEF Stop
<1>4. CASE Crash
  BY <1>1, <1>4, HostHelperAssumption DEF Crash
<1>5. QED
  BY <1>2, <1>3, <1>4

LEMMA TypesSystem == ASSUME Types, Log \/ Tick \/ JumpBack PROVE Types'
<1> USE DEF Types, TypeOK, otherVars, fateVars, memoryVars, InRound
<1>1. CASE Log
  <2> DEFINE e == [n |-> Cardinality(journal) + 1, at |-> now]
  <2>1. Cardinality(journal) \in Nat
    BY FS_CardinalityType
  <2>2. e \in [n : 1 .. MaxEntries, at : 0 .. MaxTime]
    BY <1>1, <2>1, HostHelperAssumption DEF Log
  <2>3. IsFiniteSet(journal \cup {e})
    BY FS_AddElement
  <2>4. journal' = journal \cup {e}
    BY <1>1 DEF Log
  <2>5. QED
    BY <1>1, <2>2, <2>3, <2>4 DEF Log
<1>2. CASE Tick
  BY <1>2, HostHelperAssumption DEF Tick
<1>3. CASE JumpBack
  BY <1>3, HostHelperAssumption DEF JumpBack
<1>4. QED
  BY <1>1, <1>2, <1>3

LEMMA TypesStep == Types /\ [Next]_vars => Types'
<1> SUFFICES ASSUME Types, [Next]_vars PROVE Types'
  OBVIOUS
<1>1. CASE UNCHANGED vars
  BY <1>1 DEF vars, worldVars, fateVars, memoryVars, boundVars, Types, TypeOK
<1>2. QED
  BY <1>1, TypesStart, TypesRound, TypesEnd, TypesSystem DEF Next

\* Every variable of the helper keeps its type (host.py, HostHelper.run).
THEOREM TypeCorrect == Spec => []TypeOK
<1>1. Types => TypeOK
  BY DEF Types
<1>2. QED
  BY <1>1, TypesInit, TypesStep, PTL DEF Spec

-----------------------------------------------------------------------------
(* The journal. *)

\* Of the entries J, those before t - Overlap are among C, but for entries so
\* early that no history starts before them: not the one from b, and not one
\* that is yet to start, since m (the clock and its jumps) never decreases.
Accounted(t, b, m, J, C) ==
  \E low \in Int :
    /\ low <= b /\ low + Interval + Overlap <= m
    /\ \A e \in J : (low <= e.at /\ e.at < t - Overlap) => e \in C

Told == read \cup told \cup cut
AccountedUpTo(t) == Accounted(t, base, now + jumps, journal, Told)

\* The window of this round has been copied, or the spool says what happened.
WindowRead ==
  \A e \in journal : (WindowStart <= e.at /\ e.at < end - Overlap) => e \in read \cup told

\* No time that was taken lies further ahead than the clock was set back.
TimesPast == \A t \in {last, state.last, file.last, end} : t <= now + jumps

JournalInv ==
  /\ Types /\ TimesPast
  /\ AccountedUpTo(last) /\ AccountedUpTo(state.last) /\ AccountedUpTo(file.last)
  /\ pc = "advance" => WindowRead

LEMMA NumbersAreNumbers ==
  ASSUME Types
  PROVE  /\ now \in Nat /\ base \in Nat /\ jumps \in Nat /\ jumps <= Overlap /\ Interval <= now
         /\ last \in Int /\ end \in Int /\ state.last \in Int /\ file.last \in Int
         /\ Interval \in Nat /\ Overlap \in Nat /\ MaxBack \in Nat /\ 0 < Interval /\ 0 < Overlap
         /\ \A e \in journal : e.at \in Nat
  BY HostHelperAssumption DEF Types, TypeOK, States, Never

\* What is accounted for up to t is accounted for up to u as well, when the
\* entries between the two are.
LEMMA AccountedFrom ==
  ASSUME Interval \in Int, Overlap \in Int,
         NEW t \in Int, NEW b \in Int, NEW m \in Int, NEW J, NEW C, Accounted(t, b, m, J, C),
         NEW u \in Int, NEW b2 \in Int, NEW m2 \in Int, NEW J2, NEW C2,
         m <= m2, b <= b2 \/ m - Interval - Overlap <= b2, C \subseteq C2,
         \A e \in J2 : e.at < u - Overlap => (e \in J /\ e.at < t - Overlap) \/ e \in C2
  PROVE  Accounted(u, b2, m2, J2, C2)
<1>1. PICK low \in Int :
        /\ low <= b /\ low + Interval + Overlap <= m
        /\ \A e \in J : (low <= e.at /\ e.at < t - Overlap) => e \in C
  BY DEF Accounted
<1>2. low <= b2 /\ low + Interval + Overlap <= m2
  BY <1>1
<1>3. \A e \in J2 : (low <= e.at /\ e.at < u - Overlap) => e \in C2
  BY <1>1
<1>4. QED
  BY <1>2, <1>3 DEF Accounted

\* A history that starts at b has nothing to account for at that time.
LEMMA AccountedAtStart ==
  ASSUME Interval \in Int, Overlap \in Int, NEW t \in Int, NEW b \in Int, NEW m \in Int, NEW J, NEW C,
         t <= b, 0 <= Overlap, b + Interval <= m, \A e \in J : e.at \in Int
  PROVE  Accounted(t, b, m, J, C)
<1> DEFINE low == b - Overlap
<1>1. low \in Int /\ low <= b /\ low + Interval + Overlap <= m
  OBVIOUS
<1>2. \A e \in J : ~(low <= e.at /\ e.at < t - Overlap)
  OBVIOUS
<1>3. QED
  BY <1>1, <1>2 DEF Accounted

LEMMA JournalInit == Init => JournalInv
<1> SUFFICES ASSUME Init PROVE JournalInv
  OBVIOUS
<1>1. Types
  BY TypesInit
<1>2. /\ journal = {} /\ base = 0 /\ now = Interval /\ jumps = 0
      /\ last = Never /\ state.last = Never /\ file.last = Never /\ end = Never /\ pc = "down"
  BY DEF Init, Blank
<1>3. AccountedUpTo(Never)
  BY <1>1, <1>2, NumbersAreNumbers, AccountedAtStart DEF AccountedUpTo, Never
<1>4. TimesPast
  BY <1>1, <1>2, NumbersAreNumbers DEF TimesPast, Never
<1>5. QED
  BY <1>1, <1>2, <1>3, <1>4 DEF JournalInv

\* A step of the system: the clock ticks or is set back, or an entry is logged,
\* which is never so old that a window missed it.
LEMMA JournalSystem == ASSUME JournalInv, Types', Log \/ Tick \/ JumpBack PROVE JournalInv'
<1> USE DEF JournalInv
<1>1. /\ now' \in Nat /\ now + jumps <= now' + jumps' /\ jumps' \in Nat /\ base' = base /\ Told' = Told
      /\ UNCHANGED <<last, state, file, end, pc, read, told>>
  BY NumbersAreNumbers DEF Log, Tick, JumpBack, otherVars, fateVars, memoryVars, Told
<1>2. \A e \in journal' : e \in journal \/ e.at >= now + jumps - Overlap
  BY NumbersAreNumbers DEF Log, Tick, JumpBack
<1>3. TimesPast'
  BY <1>1, NumbersAreNumbers DEF TimesPast
<1>4. \A t \in Int : t <= now + jumps /\ AccountedUpTo(t) => Accounted(t, base', now' + jumps', journal', Told')
  <2> SUFFICES ASSUME NEW t \in Int, t <= now + jumps, AccountedUpTo(t)
               PROVE  Accounted(t, base', now' + jumps', journal', Told')
    OBVIOUS
  <2>1. \A e \in journal' : e.at < t - Overlap => e \in journal /\ e.at < t - Overlap
    BY <1>2, NumbersAreNumbers, Types' DEF Types, TypeOK
  <2>2. QED
    BY <1>1, <2>1, NumbersAreNumbers, AccountedFrom DEF AccountedUpTo
<1>5. AccountedUpTo(last)' /\ AccountedUpTo(state.last)' /\ AccountedUpTo(file.last)'
  BY <1>1, <1>4, NumbersAreNumbers DEF AccountedUpTo, TimesPast
<1>6. pc' = "advance" => WindowRead'
  <2> SUFFICES ASSUME pc = "advance", NEW e \in journal', WindowStart <= e.at, e.at < end - Overlap
               PROVE  e \in read \cup told
    BY <1>1 DEF WindowRead, WindowStart
  <2>1. e.at \in Int /\ end <= now + jumps
    BY Types' DEF Types, TypeOK, JournalInv, TimesPast
  <2>2. e \in journal
    BY <1>2, <2>1, NumbersAreNumbers
  <2>3. QED
    BY <2>2 DEF WindowRead
<1>7. QED
  BY <1>3, <1>5, <1>6

\* The process starts, from its state file or with an interval to look back on.
LEMMA JournalStart == ASSUME JournalInv, Types', Start \/ StartUnread PROVE JournalInv'
<1> USE DEF JournalInv
<1>1. PICK s \in {file, Blank} : Resume(s)
  BY DEF Start, StartUnread
<1>2. jumps' = jumps
  BY DEF Start, StartUnread, boundVars, Fault
<1>3. /\ UNCHANGED <<now, journal, read, told, cut, file, end>> /\ Told' = Told /\ pc' = "once"
      /\ state' = s /\ base' \in Nat
  BY <1>1, Types', NumbersAreNumbers DEF Resume, worldVars, fateVars, Told, Types, TypeOK
<1>4. base' = base \/ base' = now - Interval
  BY <1>1 DEF Resume
<1>5. Accounted(file.last, base', now' + jumps', journal', Told')
  BY <1>2, <1>3, <1>4, NumbersAreNumbers, AccountedFrom DEF AccountedUpTo
<1>6. Accounted(Never, base', now' + jumps', journal', Told')
  BY <1>3, <1>5, <1>2, NumbersAreNumbers, AccountedFrom DEF Never
<1>7. CASE s.last = Never
  <2>1. last' = now - Interval /\ base' = now - Interval /\ state'.last = Never
    BY <1>1, <1>3, <1>7 DEF Resume
  <2>2. Accounted(last', base', now' + jumps', journal', Told')
    BY <1>2, <1>3, <2>1, NumbersAreNumbers, AccountedAtStart
  <2>3. TimesPast'
    BY <1>2, <1>3, <2>1, NumbersAreNumbers DEF TimesPast, Never
  <2>4. QED
    BY <1>2, <1>3, <1>5, <1>6, <2>1, <2>2, <2>3 DEF AccountedUpTo
<1>8. CASE s.last # Never
  <2>1. s = file /\ last' = file.last
    BY <1>1, <1>8 DEF Resume, Blank
  <2>2. TimesPast'
    BY <1>2, <1>3, <2>1, NumbersAreNumbers DEF TimesPast
  <2>3. QED
    BY <1>2, <1>3, <1>5, <2>1, <2>2 DEF AccountedUpTo
<1>9. QED
  BY <1>7, <1>8

\* The window's end becomes the last one: what lies before it is in the window,
\* or reported as an absence, or was read with the window before.
LEMMA JournalAdvance == ASSUME JournalInv, Types', Advance PROVE JournalInv'
<1> USE DEF JournalInv
<1>1. /\ UNCHANGED <<now, journal, read, jumps, base, file, end>> /\ pc = "advance" /\ pc' = "daily"
      /\ last' = end /\ state'.last = end /\ Told \subseteq Told'
  BY Types' DEF Advance, ReportAbsence, worldVars, boundVars, Told, Types, TypeOK, States
<1>2. \A e \in journal : e.at < end - Overlap => e.at < last - Overlap \/ e \in Told'
  <2> SUFFICES ASSUME NEW e \in journal, e.at < end - Overlap, last - Overlap <= e.at
               PROVE  e \in Told'
    BY NumbersAreNumbers
  <2>1. CASE end - MaxBack <= e.at
    <3>1. WindowStart <= e.at
      BY <2>1, NumbersAreNumbers DEF WindowStart, Later
    <3>2. QED
      BY <1>1, <3>1 DEF WindowRead, Told
  <2>2. CASE e.at < end - MaxBack /\ last <= e.at
    <3>1. e \in Absence /\ end - last > MaxBack
      BY <2>2, NumbersAreNumbers DEF Absence
    <3>2. QED
      BY <3>1 DEF Advance, ReportAbsence, Told
  <2>3. CASE e.at < end - MaxBack /\ e.at < last
    <3>1. e \in LostOverlap \cup read \cup told
      BY <2>3 DEF LostOverlap
    <3>2. QED
      BY <3>1 DEF Advance, ReportAbsence, Told
  <2>4. QED
    BY <2>1, <2>2, <2>3, NumbersAreNumbers
<1>3. Accounted(end, base', now' + jumps', journal', Told')
  BY <1>1, <1>2, NumbersAreNumbers, AccountedFrom DEF AccountedUpTo
<1>4. Accounted(file.last, base', now' + jumps', journal', Told')
  BY <1>1, NumbersAreNumbers, AccountedFrom DEF AccountedUpTo
<1>5. TimesPast'
  BY <1>1 DEF TimesPast
<1>6. QED
  BY <1>1, <1>3, <1>4, <1>5 DEF AccountedUpTo

\* A step that reads the window, or changes neither the journal nor what became
\* of its entries.
LEMMA JournalOther ==
  ASSUME JournalInv, Types', Once \/ ReadJournal \/ Daily \/ Save \/ Wait \/ Fails \/ Stop \/ Crash
  PROVE  JournalInv'
<1> USE DEF JournalInv
<1>1. UNCHANGED <<now, journal, jumps, base>> /\ Told \subseteq Told'
  BY DEF Once, ReadJournal, Daily, Save, Wait, Fails, Stop, Crash, Fault, worldVars, boundVars, fateVars, Told
<1>2. /\ last' \in {last, Never} /\ state'.last \in {state.last, Never}
      /\ file'.last \in {file.last, state.last} /\ end' \in {end, now, Never}
  BY Types DEF Once, ReadJournal, Daily, Save, Wait, Fails, Stop, Crash, Exit, memoryVars, Blank,
               Types, TypeOK, States
<1>3. \A t \in Int : AccountedUpTo(t) => Accounted(t, base', now' + jumps', journal', Told')
  BY <1>1, NumbersAreNumbers, AccountedFrom DEF AccountedUpTo
<1>4. Accounted(Never, base', now' + jumps', journal', Told')
  BY <1>1, <1>3, NumbersAreNumbers, AccountedFrom DEF Never
<1>5. AccountedUpTo(last)' /\ AccountedUpTo(state.last)' /\ AccountedUpTo(file.last)'
  BY <1>2, <1>3, <1>4, NumbersAreNumbers DEF AccountedUpTo
<1>6. TimesPast'
  BY <1>1, <1>2, NumbersAreNumbers DEF TimesPast, Never
<1>7. pc' = "advance" => WindowRead'
  <2>1. CASE ReadJournal
    <3>1. Window \subseteq (read \cup told)' /\ UNCHANGED <<journal, last, end>>
      BY <2>1 DEF ReadJournal, worldVars, memoryVars
    <3>2. \A e \in journal : (WindowStart <= e.at /\ e.at < end - Overlap) => e \in Window
      BY NumbersAreNumbers DEF Window
    <3>3. QED
      BY <3>1, <3>2 DEF WindowRead, WindowStart
  <2>2. CASE pc' # "advance"
    BY <2>2
  <2>3. QED
    BY <2>1, <2>2 DEF Once, Daily, Save, Wait, Fails, Stop, Crash, Exit
<1>8. QED
  BY <1>5, <1>6, <1>7

LEMMA JournalStep == JournalInv /\ [Next]_vars => JournalInv'
<1> SUFFICES ASSUME JournalInv, [Next]_vars PROVE JournalInv'
  OBVIOUS
<1>1. Types'
  BY TypesStep DEF JournalInv
<1>2. CASE UNCHANGED vars
  BY <1>1, <1>2 DEF vars, worldVars, fateVars, memoryVars, boundVars, JournalInv, TimesPast, AccountedUpTo,
                    Told, WindowRead, WindowStart
<1>3. QED
  BY <1>1, <1>2, JournalStart, JournalSystem, JournalAdvance, JournalOther DEF Next, Round

\* Every journal entry that no later window will reach has been copied or is
\* told as possibly missing: for every length of the windows, their overlap and
\* their limit, whatever fails and as often as the helper is restarted, while
\* the clock is set back by no more than the overlap (host.py, run, snapshot).
THEOREM NothingUntold == Spec => []NoSilentHole
<1>1. JournalInv => NoSilentHole
  <2> SUFFICES ASSUME JournalInv, NEW e \in journal, base <= e.at, e.at < last - Overlap
               PROVE  e \in Told
    BY DEF NoSilentHole, Told
  <2>1. PICK low \in Int :
          low <= base /\ \A f \in journal : (low <= f.at /\ f.at < last - Overlap) => f \in Told
    BY DEF JournalInv, AccountedUpTo, Accounted
  <2>2. QED
    BY <2>1, NumbersAreNumbers DEF JournalInv
<1>2. QED
  BY <1>1, JournalInit, JournalStep, PTL DEF Spec

-----------------------------------------------------------------------------
(* The daily probes. *)

Bound == faults + crashes + jumps

\* The date that the process, or the state file while it is down, remembers.
Remembered == IF pc = "down" THEN file.date ELSE state.date

\* The date d will not be probed again, unless something fails or the clock is
\* set back: it is remembered, or a later one is, and time has come that far.
Settled(d) ==
  /\ Remembered >= d /\ Date(now) >= Remembered
  /\ pc \in InRound => Date(end) >= Remembered
  /\ pc = "wait" => file = state

\* A date is probed once more than there are reasons only when it is settled.
\* While the clock shows a date before that of the round, it was set back in the
\* round, and the date of the round was not probed for that yet.
ProbesInv ==
  /\ Types
  /\ \A d \in Dates : probes[d] <= Bound + 1 /\ (probes[d] <= Bound \/ Settled(d))
  /\ (pc \in InRound /\ Date(now) < Date(end)) =>
       /\ \A d \in Dates : probes[d] <= Bound
       /\ (pc # "save" /\ state.date # Date(end)) => probes[Date(end)] + 1 <= Bound

\* The probes of a date that is remembered have been made.
Probed(s) == s.date # Never => probes[s.date] > 0
RememberedInv == Types /\ Probed(state) /\ Probed(file)

LEMMA DatesAreNumbers ==
  ASSUME Types
  PROVE  /\ Bound \in Nat /\ Date(now) \in Nat /\ \A d \in Dates : d \in Nat /\ probes[d] \in Nat
         /\ state.date \in Int /\ file.date \in Int
         /\ pc \in InRound => Date(end) \in Dates
<1>1. Date(now) \in Dates /\ (pc \in InRound => Date(end) \in Dates)
  BY DateIsDate, HostHelperAssumption DEF Types, TypeOK, Never
<1>2. Dates \subseteq Nat
  BY DateIsDate, HostHelperAssumption DEF Dates
<1>3. Bound \in Nat
  BY HostHelperAssumption DEF Bound, Types, TypeOK
<1>4. state.date \in Int /\ file.date \in Int
  <2>1. state \in States /\ file \in States
    BY DEF Types, TypeOK
  <2>2. {Never} \cup Dates \subseteq Int
    BY <1>2 DEF Never
  <2>3. QED
    BY <2>1, <2>2 DEF States
<1>5. QED
  BY <1>1, <1>2, <1>3, <1>4 DEF Types, TypeOK

LEMMA ProbesInit == Init => ProbesInv /\ RememberedInv
<1> SUFFICES ASSUME Init PROVE ProbesInv /\ RememberedInv
  OBVIOUS
<1>1. Types
  BY TypesInit
<1>2. \A d \in Dates : probes[d] <= Bound
  BY <1>1, DatesAreNumbers DEF Init
<1>3. pc = "down" /\ state.date = Never /\ file.date = Never
  BY DEF Init, Blank
<1>4. QED
  BY <1>1, <1>2, <1>3, DatesAreNumbers DEF ProbesInv, RememberedInv, Probed, InRound

\* Where a probe is due, its date has not been probed more often than there are
\* reasons; and once less, if the clock was set back since the round began.
LEMMA ProbeIsDue ==
  ASSUME ProbesInv, pc \in InRound, pc # "save", state.date # Date(end)
  PROVE  /\ probes[Date(end)] <= Bound
         /\ Date(now) < Date(end) => probes[Date(end)] + 1 <= Bound
<1>1. Date(end) \in Dates
  BY DatesAreNumbers DEF ProbesInv
<1>2. ~Settled(Date(end))
  BY <1>1, DatesAreNumbers DEF Settled, Remembered, InRound, ProbesInv
<1>3. QED
  BY <1>1, <1>2 DEF ProbesInv

\* After a failure, a crash or a jump there is one reason more, for every date.
LEMMA ProbesReasoned ==
  ASSUME ProbesInv, Types', UNCHANGED probes, Bound' = Bound + 1,
         (pc' \in InRound /\ pc' # "save") =>
            pc \in InRound /\ pc # "save" /\ UNCHANGED <<end, state>>
  PROVE  ProbesInv'
<1>1. \A d \in Dates : probes'[d] <= Bound'
  BY DatesAreNumbers DEF ProbesInv
<1>2. (pc' \in InRound /\ pc' # "save" /\ state'.date # Date(end')) => probes'[Date(end')] + 1 <= Bound'
  BY ProbeIsDue, DatesAreNumbers DEF ProbesInv
<1>3. QED
  BY <1>1, <1>2, DatesAreNumbers DEF ProbesInv

LEMMA ProbesOther ==
  ASSUME ProbesInv, Types', Fails \/ Crash \/ StartUnread \/ JumpBack
  PROVE  ProbesInv'
<1>1. UNCHANGED probes /\ Bound' = Bound + 1
  <2>1. faults \in Int /\ crashes \in Int /\ jumps \in Int
    BY DEF ProbesInv, Types, TypeOK
  <2>2. CASE Fails
    BY <2>1, <2>2 DEF Fails, Fault, Bound
  <2>3. CASE Crash
    BY <2>1, <2>3 DEF Crash, Bound
  <2>4. CASE StartUnread
    BY <2>1, <2>4 DEF StartUnread, Resume, Fault, Bound
  <2>5. CASE JumpBack
    BY <2>1, <2>5 DEF JumpBack, otherVars, Bound
  <2>6. QED
    BY <2>2, <2>3, <2>4, <2>5
<1>2. (pc' \in InRound /\ pc' # "save") => pc \in InRound /\ pc # "save" /\ UNCHANGED <<end, state>>
  BY DEF Fails, Crash, StartUnread, JumpBack, Resume, Exit, otherVars, memoryVars, InRound
<1>3. QED
  BY <1>1, <1>2, ProbesReasoned

\* The probes are made: of a date that was due.
LEMMA ProbesDaily == ASSUME ProbesInv, Types', Daily PROVE ProbesInv'
<1> DEFINE x == Date(end)
<1>1. /\ UNCHANGED <<now, end, file>> /\ Bound' = Bound /\ pc = "daily" /\ pc' = "save"
      /\ pc \in InRound /\ pc' \in InRound /\ x \in Dates
  BY DatesAreNumbers DEF Daily, ProbesInv, worldVars, boundVars, InRound, Bound
<1>2. CASE state.date = x
  <2>1. UNCHANGED <<probes, state>>
    BY <1>2 DEF Daily
  <2>2. \A d \in Dates : Settled(d) => Settled(d)'
    BY <1>1, <2>1 DEF Settled, Remembered
  <2>3. QED
    BY <1>1, <2>1, <2>2 DEF ProbesInv
<1>3. CASE state.date # x
  <2>1. probes' = [probes EXCEPT ![x] = @ + 1] /\ state'.date = x
    BY <1>3, Types DEF Daily, ProbesInv, Types, TypeOK, States
  <2>2. probes'[x] = probes[x] + 1 /\ \A d \in Dates \ {x} : probes'[d] = probes[d]
    BY <1>1, <2>1 DEF ProbesInv, Types, TypeOK
  <2>3. CASE Date(now) < x
    <3>1. \A d \in Dates : probes'[d] <= Bound
      BY <1>1, <1>3, <2>2, <2>3, ProbeIsDue, DatesAreNumbers DEF ProbesInv
    <3>2. Bound \in Nat /\ \A d \in Dates : probes'[d] \in Nat
      BY DatesAreNumbers DEF ProbesInv, Types, TypeOK
    <3>3. \A d \in Dates : probes'[d] <= Bound + 1
      BY <3>1, <3>2
    <3>4. QED
      BY <1>1, <3>1, <3>3 DEF ProbesInv
  <2>4. CASE ~(Date(now) < x)
    <3>1. \A d \in Dates : d <= x => Settled(d)'
      BY <1>1, <2>1, <2>4, DatesAreNumbers DEF Settled, Remembered, ProbesInv
    <3>2. \A d \in Dates : Settled(d) => d <= x
      BY <1>1, DatesAreNumbers DEF Settled, Remembered, ProbesInv
    <3>3. probes'[x] <= Bound + 1
      BY <1>1, <1>3, <2>2, ProbeIsDue, DatesAreNumbers DEF ProbesInv
    <3>4. \A d \in Dates : probes'[d] <= Bound' + 1 /\ (probes'[d] <= Bound' \/ Settled(d)')
      BY <1>1, <2>2, <3>1, <3>2, <3>3, DatesAreNumbers DEF ProbesInv
    <3>5. ~(Date(now') < Date(end'))
      BY <1>1, <2>4
    <3>6. QED
      BY <3>4, <3>5 DEF ProbesInv
  <2>5. QED
    BY <2>3, <2>4
<1>4. QED
  BY <1>2, <1>3

\* Every other step keeps a settled date settled.
LEMMA ProbesKept ==
  ASSUME ProbesInv, Types', Start \/ Once \/ ReadJournal \/ Advance \/ Save \/ Wait \/ Stop \/ Log \/ Tick
  PROVE  ProbesInv'
<1>1. UNCHANGED probes /\ Bound' = Bound
  BY DEF Start, Resume, Once, ReadJournal, Advance, Save, Wait, Stop, Log, Tick, otherVars, boundVars, Bound
<1>2. Date(now) <= Date(now')
  BY DatesGrow, NumbersAreNumbers DEF ProbesInv, Start, Resume, Once, ReadJournal, Advance, Save, Wait, Stop, Log,
     Tick, worldVars
<1>3. \A d \in Dates : Settled(d) => Settled(d)'
  <2> SUFFICES ASSUME NEW d \in Dates, Settled(d) PROVE Settled(d)'
    OBVIOUS
  <2>0. d \in Int /\ Date(now) \in Int /\ Date(now') \in Int /\ state.date \in Int /\ file.date \in Int
    <3>1. now' \in 0 .. MaxTime
      BY DEF Types, TypeOK
    <3>2. Date(now') \in Dates
      BY <3>1, DateIsDate
    <3>3. QED
      BY <3>2, DatesAreNumbers DEF ProbesInv
  <2> USE DEF Settled, Remembered, InRound
  <2>1. CASE Start
    BY <2>1 DEF Start, Resume, worldVars
  <2>2. CASE Once
    BY <2>2 DEF Once, worldVars
  <2>3. CASE ReadJournal
    BY <2>3 DEF ReadJournal, worldVars, memoryVars
  <2>4. CASE Advance
    <3>1. state'.date = state.date
      BY <2>4 DEF Advance, ProbesInv, Types, TypeOK, States
    <3>2. QED
      BY <2>4, <3>1 DEF Advance, worldVars
  <2>5. CASE Save
    BY <2>5 DEF Save, worldVars
  <2>6. CASE Wait
    BY <2>6 DEF Wait, worldVars, memoryVars
  <2>7. CASE Stop
    BY <2>7 DEF Stop, Exit, worldVars
  <2>8. CASE Log \/ Tick
    BY <1>2, <2>0, <2>8 DEF Log, Tick, otherVars, memoryVars
  <2>9. QED
    BY <2>1, <2>2, <2>3, <2>4, <2>5, <2>6, <2>7, <2>8
<1>4. (pc' \in InRound /\ Date(now') < Date(end')) =>
        /\ pc \in InRound /\ Date(now) < Date(end) /\ end' = end
        /\ pc' # "save" => pc # "save" /\ state'.date = state.date
  <2> USE DEF InRound
  <2>1. CASE Start \/ Wait \/ Stop \/ Save
    BY <2>1 DEF Start, Resume, Wait, Stop, Save, Exit
  <2>2. CASE Once
    BY <2>2, DatesAreNumbers DEF Once, worldVars, ProbesInv
  <2>3. CASE ReadJournal
    BY <2>3 DEF ReadJournal, worldVars, memoryVars
  <2>4. CASE Advance
    BY <2>4 DEF Advance, worldVars, ProbesInv, Types, TypeOK, States
  <2>5. CASE Log \/ Tick
    <3>1. UNCHANGED <<pc, end, state>>
      BY <2>5 DEF Log, Tick, otherVars, memoryVars
    <3>2. Date(now) \in Int /\ Date(now') \in Int /\ (pc \in InRound => Date(end) \in Int)
      BY DatesAreNumbers, DateIsDate DEF ProbesInv, Types, TypeOK, Dates
    <3>3. QED
      BY <1>2, <3>1, <3>2
  <2>6. QED
    BY <2>1, <2>2, <2>3, <2>4, <2>5
<1>5. QED
  BY <1>1, <1>3, <1>4 DEF ProbesInv

LEMMA ProbesStep == ProbesInv /\ [Next]_vars => ProbesInv'
<1> SUFFICES ASSUME ProbesInv, [Next]_vars PROVE ProbesInv'
  OBVIOUS
<1>1. Types'
  BY TypesStep DEF ProbesInv
<1>2. CASE UNCHANGED vars
  BY <1>1, <1>2 DEF vars, worldVars, fateVars, memoryVars, boundVars, ProbesInv, Settled, Remembered, Bound
<1>3. QED
  BY <1>1, <1>2, ProbesDaily, ProbesKept, ProbesOther DEF Next, Round

\* The probes of a date are repeated only for a failure, a crash or a jump of
\* the clock, each of which repeats them at most once: for every length of a
\* date and every number of those (host.py, run).
THEOREM ProbesAreFew == Spec => []OncePerDate
<1>1. ProbesInv => OncePerDate
  <2> SUFFICES ASSUME ProbesInv, NEW d \in Dates PROVE probes[d] <= 1 + faults + crashes + jumps
    BY DEF OncePerDate
  <2>1. faults \in Int /\ crashes \in Int /\ jumps \in Int /\ probes[d] \in Int
    BY DatesAreNumbers DEF ProbesInv, Types, TypeOK
  <2>2. QED
    BY <2>1 DEF ProbesInv, Bound
<1>2. QED
  BY <1>1, ProbesInit, ProbesStep, PTL DEF Spec

\* What is remembered, in memory or in the file, was probed.
LEMMA RememberedStep == RememberedInv /\ [Next]_vars => RememberedInv'
<1> SUFFICES ASSUME RememberedInv, [Next]_vars PROVE RememberedInv'
  OBVIOUS
<1>1. Types'
  BY TypesStep DEF RememberedInv
<1> USE DEF RememberedInv, Probed
<1>2. CASE Daily
  <2>1. Date(end) \in Dates /\ UNCHANGED file
    BY <1>2, DatesAreNumbers DEF Daily, InRound
  <2>2. \A d \in Dates : probes[d] \in Nat
    BY DatesAreNumbers
  <2>3. state.date \in Dates \cup {Never} /\ file.date \in Dates \cup {Never}
    BY DEF Types, TypeOK, States
  <2>4. CASE state.date = Date(end)
    BY <1>1, <1>2, <2>1, <2>4 DEF Daily
  <2>5. CASE state.date # Date(end)
    <3>1. probes' = [probes EXCEPT ![Date(end)] = @ + 1] /\ state'.date = Date(end)
      BY <1>2, <2>5 DEF Daily, Types, TypeOK, States
    <3>2. \A d \in Dates : probes[d] > 0 \/ d = Date(end) => probes'[d] > 0
      BY <2>1, <2>2, <3>1 DEF Types, TypeOK
    <3>3. QED
      BY <1>1, <2>1, <2>3, <3>1, <3>2
  <2>6. QED
    BY <2>4, <2>5
<1>3. CASE ~Daily
  <2>1. UNCHANGED probes
    BY <1>3 DEF Next, Start, StartUnread, Resume, Round, Once, ReadJournal, Advance, Save, Wait, Fails, Stop, Crash,
       Log, Tick, JumpBack, otherVars, vars
  <2>2. state'.date \in {state.date, file.date, Never} /\ file'.date \in {file.date, state.date}
    BY <1>3 DEF Next, Start, StartUnread, Resume, Round, Once, ReadJournal, Advance, Save, Wait, Fails, Stop, Crash,
       Log, Tick, JumpBack, otherVars, memoryVars, vars, Exit, Blank, Types, TypeOK, States
  <2>3. QED
    BY <1>1, <2>1, <2>2
<1>4. QED
  BY <1>2, <1>3

\* helper-state.json names no date whose probes have not been made (host.py,
\* run).
THEOREM DatesAreProbed == Spec => []DateMeansProbed
<1>1. RememberedInv => DateMeansProbed
  BY DEF RememberedInv, Probed, DateMeansProbed
<1>2. QED
  BY <1>1, ProbesInit, RememberedStep, PTL DEF Spec
=============================================================================
