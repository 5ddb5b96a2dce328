--------------------------- MODULE CollectorProofs ---------------------------
(* Theorems about the collector's main loop and its bundles, for every       *)
(* length of a window, of its overlap and of a date, and for any number of   *)
(* records, faults and crashes.                                              *)
EXTENDS Collector, TLAPS

USE DEF Never

-----------------------------------------------------------------------------
(* Numbers. *)

LEMMA ConstantsAreNumbers ==
  /\ {Day, Hour, Overlap, Skew, Backfill, MaxDelay, MaxBuild, Slots, MaxTime, MaxRecords, MaxFaults, MaxCrashes,
      MaxJumps} \subseteq Nat
  /\ 0 < Day /\ Hour < Day /\ 0 < Overlap /\ Overlap < Backfill /\ MaxDelay <= Overlap
  BY CollectorAssumption

\* Dates and due dates are numbers, and due dates grow with time.
LEMMA DatesAreNumbers == \A t \in Nat : Date(t) \in Nat
<1> SUFFICES ASSUME NEW t \in Nat PROVE Date(t) \in Nat
  OBVIOUS
<1>1. Day \in Nat /\ 0 < Day
  BY ConstantsAreNumbers
<1>2. QED
  BY <1>1 DEF Date

LEMMA DueDatesGrow == \A s, t \in Nat : s <= t => DueDate(s) \in Nat /\ DueDate(t) \in Nat /\ DueDate(s) <= DueDate(t)
<1> SUFFICES ASSUME NEW s \in Nat, NEW t \in Nat, s <= t
             PROVE  DueDate(s) \in Nat /\ DueDate(t) \in Nat /\ DueDate(s) <= DueDate(t)
  OBVIOUS
<1> DEFINE x == s + Day - Hour
           y == t + Day - Hour
<1>1. Day \in Nat /\ 0 < Day /\ x \in Nat /\ y \in Nat /\ x <= y
  BY ConstantsAreNumbers
<1> HIDE DEF x, y
<1>2. x \div Day \in Nat /\ y \div Day \in Nat /\ x \div Day <= y \div Day
  BY <1>1
<1>3. QED
  BY <1>2 DEF DueDate, x, y

LEMMA DueDateIsDueDate == \A t \in 0 .. MaxTime : DueDate(t) \in DueDates
  BY ConstantsAreNumbers, DueDatesGrow DEF DueDates

-----------------------------------------------------------------------------
(* Types. *)

Bundling == {"open", "read", "replace", "marker", "last"}

\* TypeOK, made inductive: a bundle that is under way has its date and its place
\* in the outbox, and its archive once that has been moved there.
Types ==
  /\ TypeOK
  /\ pc \in Bundling \cup {"schedule"} => due \in DueDates
  /\ pc \in {"read", "replace"} => queued + orphans < Slots
  /\ pc = "marker" => orphans > 0

LEMMA NumbersAreNumbers ==
  ASSUME Types
  PROVE  /\ now \in Nat /\ made \in Nat /\ queued \in Nat /\ orphans \in Nat /\ to \in Nat /\ from \in Int
         /\ published \in Int /\ lastEnd \in Int /\ lastDue \in Int /\ schedule \in Int /\ due \in Int /\ hand.at \in Nat
         /\ \A r \in written : r.at \in Nat
         /\ DueDate(now) \in DueDates /\ DueDates \subseteq Nat
<1> USE DEF Types, TypeOK
<1>1. now \in Nat /\ now \in 0 .. MaxTime /\ made \in Nat
  BY ConstantsAreNumbers
<1>2. hand.at \in Nat /\ \A r \in written : r.at \in Nat
  BY DEF Record
<1>3. DueDate(now) \in DueDates
  BY <1>1, DueDateIsDueDate
<1>4. DueDates \subseteq Nat
  BY ConstantsAreNumbers, DueDatesGrow DEF DueDates
<1>5. published \in Int /\ lastEnd \in Int /\ lastDue \in Int /\ schedule \in Int /\ due \in Int
  OBVIOUS
<1>6. QED
  BY <1>1, <1>2, <1>3, <1>4, <1>5

LEMMA FaultIsTyped == ASSUME Types, Fault PROVE faults' \in 0 .. MaxFaults /\ crashes' = crashes /\ jumps' = jumps
  BY ConstantsAreNumbers DEF Types, TypeOK, Fault

LEMMA NoWorkIsTyped ==
  ASSUME NoWork PROVE to' \in Nat /\ from' \in Int /\ late' \in BOOLEAN /\ read' = {}
<1>1. to' \in Nat /\ from' \in Int
  BY DEF NoWork
<1>2. late' \in BOOLEAN /\ read' = {}
  BY DEF NoWork
<1>3. QED
  BY <1>1, <1>2

LEMMA TypesInit == Init => Types
<1> SUFFICES ASSUME Init PROVE Types
  OBVIOUS
<1>1. NoRecord \in Record
  BY DEF NoRecord, Record
<1>2. bundlesFor \in [DueDates -> Nat]
  BY DEF Init
<1>3. {lastEnd, lastDue, schedule, due} \subseteq {Never} \cup Nat
  BY DEF Init
<1>4. 0 \in Nat /\ 0 \in Int /\ 0 \in 0 .. MaxTime /\ 0 \in 0 .. MaxRecords /\ 0 + 0 <= Slots
      /\ 0 \in 0 .. MaxFaults /\ 0 \in 0 .. MaxCrashes /\ 0 \in 0 .. MaxJumps
  BY ConstantsAreNumbers
<1>5. now \in 0 .. MaxTime /\ hand \in Record /\ made \in 0 .. MaxRecords
  BY <1>1, <1>4 DEF Init
<1>6. torn \in {Never} \cup Nat /\ queued \in Nat /\ orphans \in Nat /\ queued + orphans <= Slots
      /\ from \in Int /\ to \in Nat /\ late \in BOOLEAN
      /\ faults \in 0 .. MaxFaults /\ crashes \in 0 .. MaxCrashes /\ jumps \in 0 .. MaxJumps
  BY <1>4 DEF Init
<1>7. TypeOK
  BY <1>2, <1>3, <1>5, <1>6 DEF Init, TypeOK
<1>8. QED
  BY <1>7 DEF Init, Types, Bundling

\* A record is appended.
LEMMA AppendTypes ==
  ASSUME Types, NEW r \in Record, Append(r)
  PROVE  /\ spool' \subseteq written' /\ garbled' \subseteq written' /\ written' = written \cup {r}
         /\ written' \subseteq Record /\ torn' \in {Never} \cup Nat
  BY DEF Append, Types, TypeOK

LEMMA TypesSpool ==
  ASSUME Types, Sample \/ Thread
  PROVE  Types'
<1>1. UNCHANGED <<now, fateVars, outboxVars, fileVars, schedule, due, workVars>>
  BY DEF Sample, Thread, Stamp, Land, Tear, loopVars
<1>2. pc' = pc \/ pc' = "due"
  BY DEF Sample, Thread, Stamp, Land, Tear, loopVars
<1>3. /\ hand' \in Record /\ made' \in 0 .. MaxRecords
      /\ spool' \subseteq written' /\ garbled' \subseteq written' /\ written \subseteq written' /\ written' \subseteq Record
      /\ torn' \in {Never} \cup Nat
      /\ faults' \in 0 .. MaxFaults /\ crashes' = crashes /\ jumps' = jumps
  <2> USE DEF Types, TypeOK
  <2>0. NoRecord \in Record
    BY DEF NoRecord, Record
  <2>1. CASE Sample
    <3>1. CASE UNCHANGED spoolVars
      BY <2>1, <3>1 DEF Sample, spoolVars, boundVars
    <3>2. CASE made < MaxRecords /\ made' = made + 1 /\ Append([n |-> made', at |-> now]) /\ UNCHANGED hand
      <4>1. [n |-> made', at |-> now] \in Record /\ made' \in 0 .. MaxRecords
        BY <3>2, ConstantsAreNumbers DEF Record
      <4>2. QED
        BY <2>1, <3>2, <4>1, AppendTypes DEF Sample, boundVars
    <3>3. QED
      BY <2>1, <3>1, <3>2 DEF Sample
  <2>2. CASE Stamp
    <3>1. [n |-> made', at |-> now] \in Record /\ made' \in 0 .. MaxRecords
      BY <2>2, ConstantsAreNumbers DEF Record, Stamp
    <3>2. QED
      BY <2>2, <3>1 DEF Stamp, boundVars
  <2>3. CASE Land
    BY <2>0, <2>3, AppendTypes DEF Land, boundVars
  <2>4. CASE Tear
    <3>1. torn' \in Nat
      BY <2>4, DatesAreNumbers, NumbersAreNumbers DEF Tear
    <3>2. QED
      BY <2>0, <2>4, <3>1, FaultIsTyped DEF Tear
  <2>5. QED
    BY <2>1, <2>2, <2>3, <2>4 DEF Thread
<1>4. QED
  BY <1>1, <1>2, <1>3 DEF fateVars, outboxVars, fileVars, workVars, Types, TypeOK, Bundling
\* The main loop, its failures and its death.
LEMMA TypesLoop ==
  ASSUME Types, Loop \/ Fails \/ Crash
  PROVE  Types'
<1> USE DEF Types, TypeOK, Bundling, spoolVars, fateVars, outboxVars, fileVars, workVars, boundVars
<1>1. CASE Start
  BY <1>1 DEF Start
<1>2. CASE Sample
  BY <1>2, TypesSpool
<1>3. CASE Decide
  BY <1>3, NumbersAreNumbers DEF Decide
<1>4. CASE Open
  <2>1. to' \in Nat /\ from' \in Int /\ late' \in BOOLEAN
    BY <1>4, NumbersAreNumbers, ConstantsAreNumbers DEF Open, WindowStart, PreviousEnd, Later
  <2>2. queued + orphans < Slots
    BY <1>4, NumbersAreNumbers, ConstantsAreNumbers DEF Open, QueueFull
  <2>3. QED
    BY <1>4, <2>1, <2>2 DEF Open
<1>5. CASE Refuse
  BY <1>5 DEF Refuse
<1>6. CASE Read
  BY <1>6 DEF Read
<1>7. CASE Replace
  <2>1. queued + orphans < Slots /\ UNCHANGED queued /\ orphans' = orphans + 1
    BY <1>7 DEF Replace
  <2>2. orphans' \in Nat /\ orphans' > 0 /\ queued' \in Nat /\ queued' + orphans' <= Slots
    BY <2>1, NumbersAreNumbers, ConstantsAreNumbers
  <2>3. pc = "replace" /\ pc' = "marker"
    BY <1>7 DEF Replace
  <2>4. QED
    BY <1>7, <2>2, <2>3 DEF Replace
<1>8. CASE Publish
  <2>1. due \in DueDates /\ orphans > 0
    BY <1>8 DEF Publish
  <2>2. orphans' \in Nat /\ queued' \in Nat /\ queued' + orphans' <= Slots
    BY <1>8, <2>1, NumbersAreNumbers, ConstantsAreNumbers DEF Publish
  <2>3. bundlesFor' \in [DueDates -> Nat]
    BY <1>8, <2>1 DEF Publish
  <2>4. bundled' \subseteq written /\ noticed' \subseteq written
        /\ published' \in {Never} \cup Nat /\ early' \subseteq written /\ unsaved' \subseteq written /\ cut' \subseteq written
    BY <1>8, NumbersAreNumbers DEF Publish
  <2>5. pc = "marker" /\ pc' = "last"
        /\ UNCHANGED <<now, spoolVars, fileVars, schedule, due, workVars, boundVars>>
    BY <1>8 DEF Publish
  <2>6. QED
    BY <2>1, <2>2, <2>3, <2>4, <2>5
<1>9. CASE RefuseMarker
  <2>1. to' \in Nat /\ from' \in Int /\ late' \in BOOLEAN /\ read' = {}
    BY <1>9, NoWorkIsTyped DEF RefuseMarker
  <2>2. pc' = "wait" /\ UNCHANGED <<now, spoolVars, fateVars, outboxVars, fileVars, schedule, due, boundVars>>
    BY <1>9 DEF RefuseMarker
  <2>3. QED
    BY <2>1, <2>2
<1>10. CASE SaveLast
  <2>1. to' \in Nat /\ from' \in Int /\ late' \in BOOLEAN /\ read' = {}
    BY <1>10, NoWorkIsTyped DEF SaveLast
  <2>2. pc' = "schedule" /\ due \in DueDates /\ lastEnd' = to /\ schedule' = due
        /\ UNCHANGED <<now, spoolVars, fateVars, outboxVars, lastDue, due, boundVars>>
    BY <1>10 DEF SaveLast
  <2>3. {lastEnd', lastDue, schedule', due} \subseteq {Never} \cup Nat
    BY <2>2, NumbersAreNumbers
  <2>4. lastEnd' \in {Never} \cup Nat /\ schedule' \in {Never} \cup Nat /\ pc' = "schedule" /\ due' \in DueDates
    BY <2>2, <2>3
  <2>5. QED
    BY <2>1, <2>2, <2>3, <2>4
<1>11. CASE SaveSchedule
  <2>1. pc' = "wait" /\ lastDue' = schedule
        /\ UNCHANGED <<now, spoolVars, fateVars, outboxVars, lastEnd, schedule, due, workVars, boundVars>>
    BY <1>11 DEF SaveSchedule
  <2>2. {lastEnd', lastDue', schedule', due'} \subseteq {Never} \cup Nat
    BY <2>1
  <2>3. QED
    BY <2>1, <2>2
<1>12. CASE Wait
  BY <1>12 DEF Wait
<1>13. CASE Fails
  <2>1. to' \in Nat /\ from' \in Int /\ late' \in BOOLEAN /\ read' = {}
    BY <1>13, NoWorkIsTyped DEF Fails
  <2>2. faults' \in 0 .. MaxFaults /\ crashes' = crashes /\ jumps' = jumps
    BY <1>13, FaultIsTyped DEF Fails
  <2>3. pc' = "wait" /\ UNCHANGED <<now, spoolVars, fateVars, outboxVars, fileVars, schedule, due>>
    BY <1>13 DEF Fails
  <2>4. QED
    BY <2>1, <2>2, <2>3
<1>14. CASE Crash
  <2>1. crashes' \in 0 .. MaxCrashes
    BY <1>14, ConstantsAreNumbers DEF Crash
  <2>2. torn' \in {Never} \cup Nat
    BY <1>14, NumbersAreNumbers, DatesAreNumbers DEF Crash
  <2>3. NoRecord \in Record
    BY DEF NoRecord, Record
  <2>4. to' \in Nat /\ from' \in Int /\ late' \in BOOLEAN /\ read' = {}
    BY <1>14, NoWorkIsTyped DEF Crash
  <2>5. {lastEnd', lastDue', schedule', due'} \subseteq {Never} \cup Nat
    BY <1>14 DEF Crash
  <2>6. hand' \in Record /\ pc' = "start" /\ UNCHANGED <<faults, jumps>>
        /\ UNCHANGED <<now, made, spool, written, garbled, fateVars, outboxVars>>
    BY <1>14, <2>3 DEF Crash
  <2>7. QED
    BY <2>1, <2>2, <2>4, <2>5, <2>6
<1>15. QED
  BY <1>1, <1>2, <1>3, <1>4, <1>5, <1>6, <1>7, <1>8, <1>9, <1>10, <1>11, <1>12, <1>13, <1>14 DEF Loop

\* The uploader and the clock.
LEMMA TypesWorld ==
  ASSUME Types, Retire \/ Tick \/ Jump
  PROVE  Types'
<1> USE DEF Types, TypeOK, Bundling, spoolVars, fateVars, outboxVars, fileVars, workVars, boundVars, loopVars
<1>1. CASE Retire
  <2>1. queued' \in Nat /\ queued' + orphans <= Slots /\ queued' <= queued
    BY <1>1, NumbersAreNumbers, ConstantsAreNumbers DEF Retire
  <2>2. pc \in {"read", "replace"} => queued' + orphans < Slots
    BY <2>1, NumbersAreNumbers, ConstantsAreNumbers
  <2>3. QED
    BY <1>1, <2>1, <2>2 DEF Retire
<1>2. CASE Tick
  <2>1. now' \in 0 .. MaxTime
    BY <1>2, NumbersAreNumbers, ConstantsAreNumbers DEF Tick
  <2>2. QED
    BY <1>2, <2>1 DEF Tick
<1>3. CASE Jump
  <2>1. now' \in 0 .. MaxTime /\ jumps' \in 0 .. MaxJumps
    BY <1>3, NumbersAreNumbers, ConstantsAreNumbers DEF Jump
  <2>2. QED
    BY <1>3, <2>1 DEF Jump
<1>4. QED
  BY <1>1, <1>2, <1>3

LEMMA TypesStay == ASSUME Types, UNCHANGED vars PROVE Types'
  BY DEF Types, TypeOK, Bundling, vars, spoolVars, fateVars, outboxVars, fileVars, loopVars, workVars, boundVars

LEMMA TypesStep == ASSUME Types, [Next]_vars PROVE Types'
  BY TypesSpool, TypesLoop, TypesWorld, TypesStay DEF Next

LEMMA TypesAlways == Spec => []Types
<1>1. Types /\ [Next]_vars => Types'
  BY TypesStep
<1>2. QED
  BY <1>1, TypesInit, PTL DEF Spec

\* Every variable has its type, and what lies in the outbox fits into the queue,
\* archives that never got a marker included (collector.py, bundle, 131-133).
THEOREM TypeCorrect == Spec => []TypeOK
<1>1. Types => TypeOK
  BY DEF Types
<1>2. QED
  BY <1>1, TypesAlways, PTL

-----------------------------------------------------------------------------
(* Dates: a date has one bundle more than there were failures only while the *)
(* loop knows that it is done.                                               *)

Failures == crashes + faults
DateDone(d) == (pc = "last" /\ due = d) \/ (pc # "start" /\ schedule >= d)
Settled(d) == bundlesFor[d] <= Failures \/ (bundlesFor[d] <= Failures + 1 /\ DateDone(d))

DatesInv ==
  /\ pc \in Bundling => schedule < due
  /\ \A d \in DueDates : Settled(d)

LEMMA DatesInit == Init => DatesInv
  BY ConstantsAreNumbers DEF Init, DatesInv, Settled, Failures, Bundling

LEMMA Counts ==
  ASSUME Types
  PROVE  /\ crashes \in Nat /\ faults \in Nat /\ schedule \in Int /\ due \in Int /\ DueDates \subseteq Nat
         /\ \A d \in DueDates : bundlesFor[d] \in Nat
  BY NumbersAreNumbers, ConstantsAreNumbers DEF Types, TypeOK

\* Another failure allows another bundle.
LEMMA DatesAfterFailure ==
  ASSUME Types, Types', DatesInv, UNCHANGED bundlesFor, Failures' = Failures + 1,
         pc' \notin Bundling \/ UNCHANGED <<pc, schedule, due>>
  PROVE  DatesInv'
<1>1. pc' \in Bundling => schedule' < due'
  BY DEF DatesInv
<1>2. \A d \in DueDates : Settled(d)'
  BY Counts DEF DatesInv, Settled, Failures
<1>3. QED
  BY <1>1, <1>2 DEF DatesInv

\* Steps after which at least the same dates are done.
LEMMA DatesAfterProgress ==
  ASSUME Types, DatesInv, UNCHANGED <<bundlesFor, crashes, faults>>,
         pc' \in Bundling => schedule' < due',
         \A d \in DueDates : DateDone(d) => DateDone(d)'
  PROVE  DatesInv'
  BY Counts DEF DatesInv, Settled, Failures

LEMMA DatesStep ==
  ASSUME Types, Types', DatesInv, [Next]_vars
  PROVE  DatesInv'
<1> USE DEF spoolVars, fateVars, outboxVars, fileVars, workVars, loopVars, boundVars
<1>0. \A d \in DueDates : d \in Nat
  BY Counts
<1>1. CASE Start
  <2>1. /\ crashes \in Nat /\ faults \in Nat /\ \A d \in DueDates : bundlesFor[d] <= Failures
    BY <1>1, Counts DEF Start, DatesInv, Settled, DateDone
  <2>2. QED
    BY <1>1, <2>1 DEF Start, DatesInv, Settled, Failures, Bundling
<1>2. CASE Sample \/ Decide \/ Open \/ Refuse \/ Read \/ Replace \/ RefuseMarker \/ SaveSchedule \/ Wait
  <2>1. pc # "last" /\ pc # "start" /\ pc' # "start" /\ UNCHANGED <<schedule, bundlesFor, crashes, faults>>
    BY <1>2 DEF Sample, Decide, Open, Refuse, Read, Replace, RefuseMarker, SaveSchedule, Wait
  <2>2. pc' \in Bundling => schedule' < due'
    BY <1>2 DEF Sample, Decide, Open, Refuse, Read, Replace, RefuseMarker, SaveSchedule, Wait, Bundling, DatesInv
  <2>3. \A d \in DueDates : DateDone(d) => DateDone(d)'
    BY <2>1 DEF DateDone
  <2>4. QED
    BY <2>1, <2>2, <2>3, DatesAfterProgress
<1>3. CASE Publish
  <2>1. pc = "marker" /\ pc' = "last" /\ due \in DueDates /\ schedule < due
        /\ UNCHANGED <<schedule, due, crashes, faults>>
    BY <1>3 DEF Publish, DatesInv, Bundling, Types
  <2>2. bundlesFor' = [bundlesFor EXCEPT ![due] = @ + 1] /\ DOMAIN bundlesFor = DueDates
    BY <1>3 DEF Publish, Types, TypeOK
  <2>3. ASSUME NEW d \in DueDates PROVE Settled(d)'
    <3>1. CASE d = due
      <4>1. bundlesFor[d] <= Failures
        BY <2>1, <3>1, Counts DEF DatesInv, Settled, DateDone
      <4>2. bundlesFor'[d] <= Failures + 1
        BY <2>2, <3>1, <4>1, Counts DEF Failures
      <4>3. QED
        BY <2>1, <3>1, <4>2 DEF Settled, DateDone, Failures
    <3>2. CASE d # due
      <4>1. bundlesFor'[d] = bundlesFor[d]
        BY <2>2, <3>2
      <4>2. QED
        BY <2>1, <4>1 DEF DatesInv, Settled, DateDone, Failures
    <3>3. QED
      BY <3>1, <3>2
  <2>4. QED
    BY <2>1, <2>3 DEF DatesInv
<1>4. CASE SaveLast
  <2>1. pc = "last" /\ schedule < due /\ pc' = "schedule" /\ schedule' = due /\ UNCHANGED <<bundlesFor, crashes, faults>>
    BY <1>4 DEF SaveLast, DatesInv, Bundling
  <2>2. \A d \in DueDates : DateDone(d) => DateDone(d)'
    BY <1>0, <2>1, Counts DEF DateDone
  <2>3. QED
    BY <2>1, <2>2, DatesAfterProgress DEF Bundling
<1>5. CASE Fails \/ Crash \/ Tear
  <2>1. UNCHANGED bundlesFor /\ Failures' = Failures + 1
    BY <1>5, Counts DEF Fails, Crash, Tear, Fault, Failures
  <2>2. pc' \notin Bundling \/ UNCHANGED <<pc, schedule, due>>
    BY <1>5 DEF Fails, Crash, Tear, Bundling
  <2>3. QED
    BY <2>1, <2>2, DatesAfterFailure
<1>6. CASE Stamp \/ Land \/ Retire \/ Tick \/ Jump \/ UNCHANGED vars
  <2>1. UNCHANGED <<pc, schedule, due, bundlesFor, crashes, faults>>
    BY <1>6 DEF Stamp, Land, Retire, Tick, Jump, vars
  <2>2. QED
    BY <2>1 DEF DatesInv, Settled, DateDone, Failures, Bundling
<1>7. QED
  BY <1>1, <1>2, <1>3, <1>4, <1>5, <1>6 DEF Next, Loop, Thread

\* A date gets another bundle only if the collector died, or a write failed,
\* before it noted the first, whatever the clock does, for any number of dates,
\* failures and crashes (collector.py, run, 212-216).
THEOREM DatesAreBundledOnce == Spec => []OncePerDate
<1>1. Init => Types /\ DatesInv
  BY TypesInit, DatesInit
<1>2. Types /\ DatesInv /\ [Next]_vars => (Types /\ DatesInv)'
  BY TypesStep, DatesStep
<1>3. Types /\ DatesInv => OncePerDate
  <2>1. SUFFICES ASSUME Types, DatesInv, NEW d \in DueDates PROVE bundlesFor[d] <= 1 + crashes + faults
    BY DEF OncePerDate
  <2>2. QED
    BY <2>1, Counts DEF DatesInv, Settled, Failures
<1>4. QED
  BY <1>1, <1>2, <1>3, PTL DEF Spec

-----------------------------------------------------------------------------
(* Windows: while the clock is not set, every record that is older than the  *)
(* overlap before a bundle's end is accounted for when the bundle counts.    *)

Accounted(r) == r \in bundled \cup garbled \cup noticed \cup early \cup unsaved \cup cut

\* No stamp and no end lies in the future, a record lands soon after its stamp,
\* and the end that was saved is not later than the end of the last bundle.
ClockOK ==
  /\ hand # NoRecord => hand.at <= now /\ now <= hand.at + MaxDelay
  /\ published <= now /\ lastEnd <= published
  /\ pc \in {"read", "replace", "marker", "last"} => to <= now /\ lastEnd <= to
  /\ pc = "last" => published = to

\* The window of a bundle under way.
WindowOK ==
  pc \in {"read", "replace", "marker"} =>
    from = WindowStart(to) /\ late = (to - PreviousEnd(to) > Backfill)

\* What lies in the window, before its overlap, was read, or the spool has lost it.
ReadOK ==
  pc \in {"replace", "marker"} =>
    \A r \in written : from <= r.at /\ r.at < to - Overlap => r \in read \cup garbled \/ r \notin spool

\* The end of a bundle is unknown only after a failure, and until it is saved.
SavedOK ==
  /\ published # Never /\ lastEnd = Never => pc = "last" \/ Failures > 0
  /\ unsaved # {} => Failures > 0

PublishedOK == published # Never => \A r \in written : r.at < published - Overlap => Accounted(r)

WindowsOK == ClockOK /\ WindowOK /\ ReadOK /\ SavedOK /\ PublishedOK
WindowsInv == jumps = 0 => WindowsOK

LEMMA WindowsInit == Init => WindowsInv
  BY ConstantsAreNumbers DEF Init, WindowsInv, WindowsOK, ClockOK, WindowOK, ReadOK, SavedOK, PublishedOK

LEMMA Times ==
  ASSUME Types
  PROVE  /\ {now, to, Overlap, Backfill, MaxDelay, Day, hand.at} \subseteq Nat /\ {from, lastEnd, published} \subseteq Int
         /\ lastEnd = Never \/ lastEnd \in Nat
         /\ published = Never \/ published \in Nat
         /\ \A r \in written : r.at \in Nat
         /\ crashes \in Nat /\ faults \in Nat
  BY NumbersAreNumbers, ConstantsAreNumbers DEF Types, TypeOK

\* A record that lands late still lies in the overlap of every window so far.
LEMMA WindowsAppend ==
  ASSUME Types, WindowsOK, NEW r \in Record, Append(r), now <= r.at + MaxDelay,
         pc' = pc \/ (pc = "sample" /\ pc' = "due"), hand' = hand \/ hand' = NoRecord,
         UNCHANGED <<now, fateVars, fileVars, workVars, boundVars>>
  PROVE  WindowsOK'
<1> USE DEF fateVars, fileVars, workVars, boundVars
<1>1. r.at \in Nat
  BY DEF Record
<1>2. ClockOK' /\ SavedOK'
  BY DEF WindowsOK, ClockOK, SavedOK, Failures
<1>3. WindowOK'
  BY DEF WindowsOK, WindowOK, WindowStart, PreviousEnd
<1>4. written' = written \cup {r} /\ spool' \subseteq spool \cup {r} /\ garbled \subseteq garbled'
  BY DEF Append
<1>5. ASSUME pc' \in {"replace", "marker"}, NEW q \in written', from <= q.at, q.at < to - Overlap
      PROVE  q \in read \cup garbled' \/ q \notin spool'
  <2>1. pc \in {"replace", "marker"} /\ to <= now
    BY <1>5 DEF WindowsOK, ClockOK
  <2>2. r.at >= to - Overlap
    BY <1>1, <2>1, Times, ConstantsAreNumbers
  <2>3. q # r
    BY <1>1, <1>5, <2>2, Times
  <2>4. QED
    BY <1>4, <1>5, <2>1, <2>3 DEF WindowsOK, ReadOK
<1>6. ASSUME published # Never, NEW q \in written', q.at < published - Overlap
      PROVE  Accounted(q)'
  <2>1. published <= now
    BY DEF WindowsOK, ClockOK
  <2>2. r.at >= published - Overlap
    BY <1>1, <2>1, Times, ConstantsAreNumbers
  <2>3. q # r
    BY <1>1, <1>6, <2>2, Times
  <2>4. QED
    BY <1>4, <1>6, <2>3 DEF WindowsOK, PublishedOK, Accounted
<1>7. QED
  BY <1>2, <1>3, <1>5, <1>6 DEF WindowsOK, ReadOK, PublishedOK

\* A bundle that counts accounts for all that precedes its overlap.
LEMMA WindowsPublish ==
  ASSUME Types, WindowsOK, Publish
  PROVE  WindowsOK'
<1> USE DEF fileVars, workVars, spoolVars, boundVars
<1> DEFINE outside == {r \in written \ bundled' : r.at < from}
           between == {r \in outside : published # Never /\ published - Overlap <= r.at}
<1>0. /\ pc = "marker" /\ pc' = "last" /\ published' = to
      /\ UNCHANGED <<now, hand, written, spool, garbled, lastEnd, from, to, late, read, crashes, faults>>
      /\ bundled' = bundled \cup read /\ noticed \subseteq noticed' /\ cut \subseteq cut'
      /\ early \subseteq early' /\ unsaved \subseteq unsaved'
  BY DEF Publish
<1>1. ClockOK' /\ WindowOK' /\ ReadOK'
  <2> HIDE DEF outside, between
  <2>1. ClockOK'
    BY <1>0 DEF WindowsOK, ClockOK
  <2>2. WindowOK' /\ ReadOK'
    BY <1>0 DEF WindowOK, ReadOK
  <2>3. QED
    BY <2>1, <2>2
<1>2. SavedOK'
  <2>1. unsaved' = unsaved \cup (IF lastEnd = Never THEN between ELSE {})
    BY DEF Publish
  <2>2. published # Never /\ lastEnd = Never => Failures > 0
    BY <1>0 DEF WindowsOK, SavedOK
  <2>3. between # {} => published # Never
    OBVIOUS
  <2> HIDE DEF between
  <2>4. QED
    BY <1>0, <2>1, <2>2, <2>3 DEF WindowsOK, SavedOK, Failures
<1>3. ASSUME NEW r \in written, r.at < to - Overlap PROVE Accounted(r)'
  <2>0. r.at \in Nat
    BY Times
  <2>1. CASE r \in bundled' \cup garbled
    BY <1>0, <2>1 DEF Accounted
  <2>2. CASE r \notin bundled' \cup garbled /\ from <= r.at
    <3>1. r \notin spool
      BY <1>0, <1>3, <2>2 DEF WindowsOK, ReadOK
    <3>2. r \in noticed'
      BY <2>2, <3>1 DEF Publish
    <3>3. QED
      BY <3>2 DEF Accounted
  <2>3. CASE r \notin bundled' \cup garbled /\ ~(from <= r.at)
    <3>1. r \in outside /\ r.at < from
      BY <2>0, <2>3, Times
    <3>2. CASE late
      <4>1. r \in noticed'
        BY <3>1, <3>2 DEF Publish
      <4>2. QED
        BY <4>1 DEF Accounted
    <3>3. CASE published = Never
      <4>1. r \in early'
        BY <3>1, <3>3 DEF Publish
      <4>2. QED
        BY <4>1 DEF Accounted
    <3>4. CASE published # Never /\ r.at < published - Overlap
      <4>1. Accounted(r)
        BY <3>4 DEF WindowsOK, PublishedOK
      <4>2. QED
        BY <1>0, <4>1 DEF Accounted
    <3>5. CASE published # Never /\ ~(r.at < published - Overlap) /\ ~late
      <4>1. r \in between
        BY <2>0, <3>1, <3>5, Times
      <4>2. CASE lastEnd = Never
        <5>1. r \in unsaved'
          BY <4>1, <4>2 DEF Publish
        <5>2. QED
          BY <5>1 DEF Accounted
      <4>3. CASE lastEnd # Never
        <5>1. /\ ~(to - lastEnd > Backfill)
              /\ from = Later(lastEnd - Overlap, to - Backfill)
          BY <1>0, <3>5, <4>3 DEF WindowsOK, WindowOK, WindowStart, PreviousEnd
        <5>2. lastEnd <= published
          BY DEF WindowsOK, ClockOK
        <5>3. r.at < to - Backfill
          BY <2>0, <3>1, <3>5, <5>1, <5>2, Times DEF Later
        <5>4. r.at < lastEnd /\ to - lastEnd \in Backfill - Overlap + 1 .. Backfill
          BY <2>0, <3>5, <5>1, <5>2, <5>3, Times
        <5>5. r \in cut'
          BY <4>1, <5>4 DEF Publish
        <5>6. QED
          BY <5>5 DEF Accounted
      <4>4. QED
        BY <4>2, <4>3
    <3>6. QED
      BY <3>2, <3>3, <3>4, <3>5
  <2>4. QED
    BY <2>1, <2>2, <2>3
<1>4. PublishedOK'
  BY <1>0, <1>3 DEF PublishedOK
<1>5. QED
  BY <1>1, <1>2, <1>4 DEF WindowsOK

\* Steps that change neither records nor their fate, nor what windows are made of.
LEMMA WindowsKept ==
  ASSUME Types, WindowsOK, ClockOK', UNCHANGED <<written, spool, garbled, fateVars, lastEnd>>,
         pc' \notin {"read", "replace", "marker", "last"} \/ UNCHANGED <<pc, workVars>>,
         (Failures' = Failures /\ (pc = "last" => pc' = "last")) \/ Failures' = Failures + 1
  PROVE  WindowsOK'
<1> USE DEF fateVars, workVars
<1>1. WindowOK' /\ ReadOK'
  BY DEF WindowsOK, WindowOK, ReadOK, WindowStart, PreviousEnd
<1>2. PublishedOK'
  BY DEF WindowsOK, PublishedOK, Accounted
<1>3. Failures \in Nat
  BY Times DEF Failures
<1>4. SavedOK'
  BY <1>3 DEF WindowsOK, SavedOK
<1>5. QED
  BY <1>1, <1>2, <1>4 DEF WindowsOK

LEMMA WindowsStep ==
  ASSUME Types, WindowsInv, [Next]_vars
  PROVE  WindowsInv'
<1> USE DEF spoolVars, fateVars, outboxVars, fileVars, workVars, loopVars, boundVars
<1>0. CASE Jump
  <2>1. jumps' # 0
    BY <1>0, NumbersAreNumbers DEF Jump, Types, TypeOK
  <2>2. QED
    BY <2>1 DEF WindowsInv
<1>1. SUFFICES ASSUME ~Jump, jumps' = 0 PROVE WindowsOK'
  BY <1>0 DEF WindowsInv
<1>2. jumps = 0
  BY <1>1 DEF Next, Loop, Thread, Start, Sample, Decide, Open, Refuse, Read, Replace, Publish, RefuseMarker, SaveLast,
              SaveSchedule, Wait, Fails, Crash, Stamp, Land, Tear, Fault, Retire, Tick, vars
<1>3. WindowsOK
  BY <1>2 DEF WindowsInv
<1>4. CASE Sample
  <2>1. CASE UNCHANGED spoolVars
    <3>1. ClockOK'
      BY <1>3, <1>4, <2>1 DEF Sample, WindowsOK, ClockOK
    <3>2. Failures' = Failures /\ pc # "last"
      BY <1>4 DEF Sample, Failures
    <3>3. QED
      BY <1>3, <1>4, <2>1, <3>1, <3>2, WindowsKept DEF Sample
  <2>2. CASE Append([n |-> made', at |-> now]) /\ UNCHANGED hand /\ made' = made + 1
    <3>1. [n |-> made', at |-> now] \in Record
      BY <2>2, NumbersAreNumbers DEF Record
    <3>2. now <= [n |-> made', at |-> now].at + MaxDelay
      BY NumbersAreNumbers, ConstantsAreNumbers
    <3>3. QED
      BY <1>3, <1>4, <2>2, <3>1, <3>2, WindowsAppend DEF Sample
  <2>3. QED
    BY <1>4, <2>1, <2>2 DEF Sample
<1>5. CASE Start \/ Decide \/ Refuse \/ RefuseMarker \/ SaveSchedule \/ Wait \/ Fails \/ Crash \/ Tear
  <2>1. /\ UNCHANGED <<now, written, spool, garbled, fateVars, lastEnd>>
        /\ hand' = hand \/ hand' = NoRecord
    BY <1>5 DEF Start, Decide, Refuse, RefuseMarker, SaveSchedule, Wait, Fails, Crash, Tear
  <2>2. pc' \notin {"read", "replace", "marker", "last"} \/ UNCHANGED <<pc, workVars>>
    BY <1>5 DEF Start, Decide, Refuse, RefuseMarker, SaveSchedule, Wait, Fails, Crash, Tear
  <2>3. ClockOK'
    BY <1>3, <2>1, <2>2 DEF WindowsOK, ClockOK
  <2>4. (Failures' = Failures /\ pc # "last") \/ Failures' = Failures + 1
    BY <1>5, Times DEF Start, Decide, Refuse, RefuseMarker, SaveSchedule, Wait, Fails, Crash, Tear, Fault, Failures
  <2>5. QED
    BY <1>3, <2>1, <2>2, <2>3, <2>4, WindowsKept
<1>6. CASE Open
  <2>1. /\ pc' = "read" /\ to' = now /\ from' = WindowStart(now) /\ late' = (now - PreviousEnd(now) > Backfill)
        /\ UNCHANGED <<now, hand, written, spool, garbled, fateVars, lastEnd, crashes, faults>>
        /\ pc = "open"
    BY <1>6 DEF Open
  <2>2. ClockOK'
    BY <1>3, <2>1, NumbersAreNumbers DEF WindowsOK, ClockOK
  <2>3. WindowOK'
    BY <2>1 DEF WindowOK, WindowStart, PreviousEnd
  <2>4. ReadOK' /\ SavedOK' /\ PublishedOK'
    BY <1>3, <2>1 DEF WindowsOK, ReadOK, SavedOK, PublishedOK, Accounted, Failures
  <2>5. QED
    BY <2>2, <2>3, <2>4 DEF WindowsOK
<1>7. CASE Read
  <2>1. /\ pc = "read" /\ pc' = "replace" /\ read' = {r \in spool : from <= r.at /\ r.at <= to}
        /\ UNCHANGED <<now, hand, written, spool, garbled, fateVars, lastEnd, from, to, late, crashes, faults>>
    BY <1>7 DEF Read
  <2>2. ClockOK' /\ WindowOK' /\ SavedOK' /\ PublishedOK'
    BY <1>3, <2>1 DEF WindowsOK, ClockOK, WindowOK, WindowStart, PreviousEnd, SavedOK, PublishedOK, Accounted, Failures
  <2>3. ASSUME NEW r \in written, from <= r.at, r.at < to - Overlap, r \in spool PROVE r \in read'
    <3>1. r.at <= to
      BY <2>3, Times
    <3>2. QED
      BY <2>1, <2>3, <3>1
  <2>4. ReadOK'
    BY <2>1, <2>3 DEF ReadOK
  <2>5. QED
    BY <2>2, <2>4 DEF WindowsOK
<1>8. CASE Replace
  BY <1>3, <1>8 DEF Replace, WindowsOK, ClockOK, WindowOK, WindowStart, PreviousEnd, ReadOK, SavedOK,
                  PublishedOK, Accounted, Failures
<1>9. CASE Publish
  BY <1>3, <1>9, WindowsPublish
<1>10. CASE SaveLast
  <2>1. /\ pc = "last" /\ pc' = "schedule" /\ lastEnd' = to
        /\ UNCHANGED <<now, hand, written, spool, garbled, fateVars, crashes, faults>>
    BY <1>10 DEF SaveLast
  <2>2. ClockOK' /\ WindowOK' /\ ReadOK'
    BY <1>3, <2>1, Times DEF WindowsOK, ClockOK, WindowOK, ReadOK
  <2>3. SavedOK' /\ PublishedOK'
    BY <1>3, <2>1, Times DEF WindowsOK, SavedOK, PublishedOK, Accounted, Failures
  <2>4. QED
    BY <2>2, <2>3 DEF WindowsOK
<1>11. CASE Stamp
  <2>1. hand' = [n |-> made', at |-> now]
        /\ UNCHANGED <<now, written, spool, garbled, fateVars, lastEnd, pc, workVars, crashes, faults>>
    BY <1>11 DEF Stamp
  <2>2. hand'.at = now
    BY <2>1
  <2>3. ClockOK'
    BY <1>3, <2>1, <2>2, NumbersAreNumbers, ConstantsAreNumbers DEF WindowsOK, ClockOK
  <2>4. QED
    BY <1>3, <2>1, <2>3, WindowsKept DEF Failures
<1>12. CASE Land
  <2>1. hand \in Record /\ now <= hand.at + MaxDelay
    BY <1>3, <1>12 DEF Land, Types, TypeOK, WindowsOK, ClockOK
  <2>2. QED
    BY <1>3, <1>12, <2>1, WindowsAppend DEF Land
<1>13. CASE Tick
  <2>1. now' = now + 1 /\ (hand # NoRecord => now < hand.at + MaxDelay)
        /\ UNCHANGED <<hand, written, spool, garbled, fateVars, lastEnd, pc, workVars, crashes, faults>>
    BY <1>13 DEF Tick
  <2>2. ClockOK'
    BY <1>3, <2>1, Times DEF WindowsOK, ClockOK
  <2>3. QED
    BY <1>3, <2>1, <2>2, WindowsKept DEF Failures
<1>14. CASE Retire \/ UNCHANGED vars
  <2>1. UNCHANGED <<now, hand, written, spool, garbled, fateVars, lastEnd, pc, workVars, crashes, faults>>
    BY <1>14 DEF Retire, vars
  <2>2. ClockOK'
    BY <1>3, <2>1 DEF WindowsOK, ClockOK
  <2>3. QED
    BY <1>3, <2>1, <2>2, WindowsKept DEF Failures
<1>15. QED
  BY <1>1, <1>4, <1>5, <1>6, <1>7, <1>8, <1>9, <1>10, <1>11, <1>12, <1>13, <1>14 DEF Next, Loop, Thread

\* While the clock is not set, a record that is older than the overlap before the
\* end of the last bundle is in a bundle, or a notice covers it, or it precedes the
\* first window, or it lies in one of the two holes that NothingMissed names, of
\* which one takes a failure before last-bundle.json exists: for any lengths of
\* windows and any interleaving of the two threads, their failures and crashes
\* (collector.py, bundle, 123-128, 184-185).
THEOREM NoRecordIsMissed == Spec => []NothingMissed
<1>1. Init => Types /\ WindowsInv
  BY TypesInit, WindowsInit
<1>2. Types /\ WindowsInv /\ [Next]_vars => (Types /\ WindowsInv)'
  BY TypesStep, WindowsStep
<1>3. WindowsInv => NothingMissed
  BY DEF WindowsInv, WindowsOK, SavedOK, PublishedOK, Accounted, Failures, NothingMissed
<1>4. QED
  BY <1>1, <1>2, <1>3, PTL DEF Spec
=============================================================================
