------------------------------ MODULE Collector ------------------------------
(***************************************************************************)
(* The collector's main loop (collector.py, run and bundle), the writer    *)
(* that publishes an archive (bundle.py, BundleWriter) and the event       *)
(* thread that appends to the same spool meanwhile (common.py,             *)
(* Spool.append).                                                          *)
(*                                                                         *)
(* Which record ends up in which bundle depends on time stamps alone: a    *)
(* record is stamped before it waits for the spool's lock, a bundle asks   *)
(* for a window of stamps, and the window's start depends on what an       *)
(* earlier bundle left in last-bundle.json.  A step ends at every durable  *)
(* write, because the collector may die or raise there.                    *)
(***************************************************************************)
EXTENDS Integers, FiniteSets

CONSTANTS
  Day,         \* length of a date
  Hour,        \* bundle_hour: when a date's bundle becomes due
  Overlap,     \* 5 minutes: a window starts that much before the last one's end
  Skew,        \* 5 minutes: how far a marker may end after it is finished
  Backfill,    \* 7 days: longest window, and age of the oldest spool file
  MaxDelay,    \* bound: time between a record's stamp and its append
  MaxBuild,    \* bound: time between a bundle's end and its last write
  Slots,       \* bundles that fit into queue_mib
  MaxTime, MaxRecords, MaxFaults, MaxCrashes, MaxJumps   \* bounds

ASSUME CollectorAssumption ==
  /\ {Day, Overlap, Skew, Backfill, Slots} \subseteq Nat \ {0}
  /\ {Hour, MaxDelay, MaxBuild, MaxTime, MaxRecords, MaxFaults, MaxCrashes, MaxJumps} \subseteq Nat
  /\ Hour < Day /\ Overlap < Backfill /\ Day < Backfill /\ MaxDelay <= Overlap

VARIABLES
  now,                           \* the wall clock
  hand, made, spool, torn,       \* appended now, records so far, readable lines, date of a torn line
  written, garbled,              \* records that append() took; those a torn line swallowed
  bundled, noticed,              \* records in bundles, records left out with a notice
  published,                     \* history: end of the last bundle that got its marker
  early, unsaved, cut,           \* history: records left out without a notice, see Publish
  queued, orphans,               \* outbox: pairs, archives without a marker
  lastEnd, lastDue,              \* last-bundle.json, schedule.json
  pc, schedule, due,             \* main loop: step, last date done, date under way
  from, to, late, read,          \* the bundle: window, is it too long?, records read
  bundlesFor,                    \* bundles published for each due date
  faults, crashes, jumps         \* what has been used of the bounds

spoolVars == <<hand, made, spool, torn, written, garbled>>
fateVars == <<bundled, noticed, published, early, unsaved, cut, bundlesFor>>
outboxVars == <<queued, orphans>>
fileVars == <<lastEnd, lastDue>>
workVars == <<from, to, late, read>>
loopVars == <<pc, schedule, due, workVars>>
boundVars == <<faults, crashes, jumps>>
vars == <<now, spoolVars, fateVars, outboxVars, fileVars, loopVars, boundVars>>

Never == -1
NoRecord == [n |-> 0, at |-> 0]
Date(t) == t \div Day
DueDate(t) == (t + Day - Hour) \div Day
DueDates == 0 .. DueDate(MaxTime)
Later(s, t) == IF s < t THEN t ELSE s

Init ==
  /\ now = 0
  /\ hand = NoRecord /\ made = 0 /\ spool = {} /\ torn = Never /\ written = {} /\ garbled = {}
  /\ bundled = {} /\ noticed = {} /\ bundlesFor = [d \in DueDates |-> 0]
  /\ published = Never /\ early = {} /\ unsaved = {} /\ cut = {}
  /\ queued = 0 /\ orphans = 0 /\ lastEnd = Never /\ lastDue = Never
  /\ pc = "start" /\ schedule = Never /\ due = Never
  /\ from = 0 /\ to = 0 /\ late = FALSE /\ read = {}
  /\ faults = 0 /\ crashes = 0 /\ jumps = 0

\* What a bundle under way keeps in memory.
NoWork == from' = 0 /\ to' = 0 /\ late' = FALSE /\ read' = {}

Fault == faults < MaxFaults /\ faults' = faults + 1 /\ UNCHANGED <<crashes, jumps>>

\* Spool.append writes r to the file of its stamp, where a torn line would
\* swallow it, and removes the files that are too old.
Append(r) ==
  LET kept == {q \in spool : Date(q.at) >= Date(r.at - Backfill)}
  IN /\ written' = written \cup {r}
     /\ IF torn = Date(r.at)
        THEN garbled' = garbled \cup {r} /\ spool' = kept /\ torn' = Never
        ELSE spool' = kept \cup {r} /\ UNCHANGED <<garbled, torn>>

-----------------------------------------------------------------------------
(* The main loop *)

Start ==
  /\ pc = "start" /\ pc' = "sample" /\ schedule' = lastDue
  /\ UNCHANGED <<now, spoolVars, fateVars, outboxVars, fileVars, due, workVars, boundVars>>

Sample ==
  /\ pc = "sample" /\ pc' = "due"
  /\ \/ UNCHANGED spoolVars
     \/ /\ made < MaxRecords /\ made' = made + 1 /\ Append([n |-> made', at |-> now])
        /\ UNCHANGED hand
  /\ UNCHANGED <<now, fateVars, outboxVars, fileVars, schedule, due, workVars, boundVars>>

\* Whatever raises, run() reports it and goes on after the wait: the list of
\* containers (no bundle is tried then), the disk check, a bundle member, a
\* durable write.  An archive that is in the outbox already stays there.
Fails ==
  /\ pc \in {"sample", "open", "read", "replace", "marker", "last", "schedule"}
  /\ Fault /\ pc' = "wait" /\ NoWork
  /\ UNCHANGED <<now, spoolVars, fateVars, outboxVars, fileVars, schedule, due>>

\* A slip: the date counts as done before its bundle is.
DecideForGood ==
  /\ pc = "due" /\ due' = DueDate(now) /\ schedule' = Later(schedule, due')
  /\ pc' = IF schedule < due' THEN "open" ELSE "wait"
  /\ UNCHANGED <<now, spoolVars, fateVars, outboxVars, fileVars, workVars, boundVars>>

Decide ==
  /\ pc = "due" /\ due' = DueDate(now)
  /\ pc' = IF schedule < due' THEN "open" ELSE "wait"
  /\ UNCHANGED <<now, spoolVars, fateVars, outboxVars, fileVars, schedule, workVars, boundVars>>

\* What bundle() takes for the end of the bundle before.
PreviousEnd(end) == IF lastEnd = Never THEN end - Day ELSE lastEnd

\* A slip: a window starts where the last one ended.
StartAtLastEnd(end) == Later(PreviousEnd(end), end - Backfill)
WindowStart(end) == Later(PreviousEnd(end) - Overlap, end - Backfill)

\* A slip: only complete pairs take up space.
PairsFillQueue == queued >= Slots
QueueFull == queued + orphans >= Slots

Open ==
  /\ pc = "open" /\ WindowStart(now) < now /\ ~QueueFull
  /\ to' = now /\ from' = WindowStart(now) /\ late' = (now - PreviousEnd(now) > Backfill)
  /\ read' = {} /\ pc' = "read"
  /\ UNCHANGED <<now, spoolVars, fateVars, outboxVars, fileVars, schedule, due, boundVars>>

\* The clock moved backwards, or the outbox is full.
Refuse ==
  /\ pc = "open" /\ (WindowStart(now) >= now \/ QueueFull) /\ pc' = "wait"
  /\ UNCHANGED <<now, spoolVars, fateVars, outboxVars, fileVars, schedule, due, workVars, boundVars>>

\* spool_chunks takes no lock: what lands afterwards is not in this bundle.
Read ==
  /\ pc = "read" /\ pc' = "replace"
  /\ read' = {r \in spool : from <= r.at /\ r.at <= to}
  /\ UNCHANGED <<now, spoolVars, fateVars, outboxVars, fileVars, schedule, due, from, to, late, boundVars>>

Replace ==
  /\ pc = "replace" /\ pc' = "marker" /\ orphans' = orphans + 1
  /\ UNCHANGED <<now, spoolVars, fateVars, queued, fileVars, schedule, due, workVars, boundVars>>

\* The marker makes the bundle count.  A bundle of a window that was too long
\* says so in its manifest, and carries pruned.json if the spool lost a file
\* while it was built.  What falls out without a word lies before the first
\* window, or between two windows: when nobody saved the end of the bundle
\* before, or when the backfill limit cuts off part of the overlap.
Publish ==
  /\ pc = "marker" /\ to <= now + Skew /\ pc' = "last"
  /\ orphans' = orphans - 1 /\ queued' = queued + 1
  /\ bundled' = bundled \cup read /\ published' = to
  /\ LET outside == {r \in written \ bundled' : r.at < from}
         between == {r \in outside : published # Never /\ published - Overlap <= r.at}
         pruned == {r \in written \ (bundled' \cup spool \cup garbled) : from <= r.at}
     IN /\ noticed' = noticed \cup pruned \cup (IF late THEN outside ELSE {})
        /\ early' = early \cup (IF published = Never THEN outside ELSE {})
        /\ unsaved' = unsaved \cup (IF lastEnd = Never THEN between ELSE {})
        /\ cut' = cut \cup {r \in between : r.at < lastEnd /\ to - lastEnd \in Backfill - Overlap + 1 .. Backfill}
  /\ bundlesFor' = [bundlesFor EXCEPT ![due] = @ + 1]
  /\ UNCHANGED <<now, spoolVars, fileVars, schedule, due, workVars, boundVars>>

\* validate_marker refuses a window that ends in the future.
RefuseMarker ==
  /\ pc = "marker" /\ to > now + Skew /\ pc' = "wait" /\ NoWork
  /\ UNCHANGED <<now, spoolVars, fateVars, outboxVars, fileVars, schedule, due, boundVars>>

\* A slip: the loop forgets the date it has done.
SaveLastOnly ==
  /\ pc = "last" /\ pc' = "schedule" /\ lastEnd' = to /\ NoWork
  /\ UNCHANGED <<now, spoolVars, fateVars, outboxVars, lastDue, schedule, due, boundVars>>

\* A slip: the loop notes the date, and the end of the bundle is not saved.
SaveDateOnly ==
  /\ pc = "last" /\ pc' = "schedule" /\ schedule' = due /\ NoWork
  /\ UNCHANGED <<now, spoolVars, fateVars, outboxVars, fileVars, due, boundVars>>

SaveLast ==
  /\ pc = "last" /\ pc' = "schedule" /\ lastEnd' = to /\ schedule' = due /\ NoWork
  /\ UNCHANGED <<now, spoolVars, fateVars, outboxVars, lastDue, due, boundVars>>

SaveSchedule ==
  /\ pc = "schedule" /\ pc' = "wait" /\ lastDue' = schedule
  /\ UNCHANGED <<now, spoolVars, fateVars, outboxVars, lastEnd, schedule, due, workVars, boundVars>>

Wait ==
  /\ pc = "wait" /\ pc' = "sample" /\ due' = Never
  /\ UNCHANGED <<now, spoolVars, fateVars, outboxVars, fileVars, schedule, workVars, boundVars>>

\* What the event thread had in hand is gone; a line may be left torn.
Crash ==
  /\ pc # "start" /\ crashes < MaxCrashes
  /\ crashes' = crashes + 1 /\ UNCHANGED <<faults, jumps>>
  /\ pc' = "start" /\ schedule' = Never /\ due' = Never /\ NoWork
  /\ hand' = NoRecord
  /\ torn' \in {torn} \cup (IF hand = NoRecord THEN {} ELSE {Date(hand.at)})
  /\ UNCHANGED <<now, made, spool, written, garbled, fateVars, outboxVars, fileVars>>

-----------------------------------------------------------------------------
(* The event thread, the uploader and the clock *)

Stamp ==
  /\ hand = NoRecord /\ made < MaxRecords /\ made' = made + 1
  /\ hand' = [n |-> made', at |-> now]
  /\ UNCHANGED <<now, spool, torn, written, garbled, fateVars, outboxVars, fileVars, loopVars, boundVars>>

Land ==
  /\ hand # NoRecord /\ Append(hand) /\ hand' = NoRecord
  /\ UNCHANGED <<now, made, fateVars, outboxVars, fileVars, loopVars, boundVars>>

\* The disk is full in the middle of a line.
Tear ==
  /\ hand # NoRecord /\ Fault /\ torn' = Date(hand.at) /\ hand' = NoRecord
  /\ UNCHANGED <<now, made, spool, written, garbled, fateVars, outboxVars, fileVars, loopVars>>

Retire ==
  /\ queued > 0 /\ queued' = queued - 1
  /\ UNCHANGED <<now, spoolVars, fateVars, orphans, fileVars, loopVars, boundVars>>

Building == pc \in {"read", "replace", "marker", "last"}
Tick ==
  /\ now < MaxTime /\ (hand # NoRecord => now < hand.at + MaxDelay)
  /\ Building => now < to + MaxBuild
  /\ now' = now + 1
  /\ UNCHANGED <<spoolVars, fateVars, outboxVars, fileVars, loopVars, boundVars>>

\* The clock is set.
Jump ==
  /\ jumps < MaxJumps /\ jumps' = jumps + 1 /\ UNCHANGED <<faults, crashes>>
  /\ now' \in (0 .. MaxTime) \ {now}
  /\ UNCHANGED <<spoolVars, fateVars, outboxVars, fileVars, loopVars>>

-----------------------------------------------------------------------------
Loop ==
  \/ Start \/ Sample \/ Decide \/ Open \/ Refuse \/ Read \/ Replace \/ Publish
  \/ RefuseMarker \/ SaveLast \/ SaveSchedule \/ Wait
Thread == Stamp \/ Land \/ Tear
Next == Loop \/ Fails \/ Crash \/ Thread \/ Retire \/ Tick \/ Jump

Spec == Init /\ [][Next]_vars

\* Both threads run, time passes, and what is processed leaves the outbox.
FairSpec == Spec /\ WF_vars(Loop) /\ WF_vars(Land) /\ WF_vars(Tick) /\ WF_vars(Retire)

-----------------------------------------------------------------------------
Record == [n : Nat, at : Nat]

\* Every variable has its type; what lies in the outbox, archives that never got
\* a marker included, fits into the queue (collector.py, bundle, 131-133).
TypeOK ==
  /\ now \in 0 .. MaxTime /\ hand \in Record /\ made \in 0 .. MaxRecords
  /\ spool \subseteq written /\ garbled \subseteq written /\ written \subseteq Record
  /\ torn \in {Never} \cup Nat
  /\ bundled \subseteq written /\ noticed \subseteq written
  /\ published \in {Never} \cup Nat /\ early \subseteq written /\ unsaved \subseteq written /\ cut \subseteq written
  /\ bundlesFor \in [DueDates -> Nat]
  /\ queued \in Nat /\ orphans \in Nat /\ queued + orphans <= Slots
  /\ {lastEnd, lastDue, schedule, due} \subseteq {Never} \cup Nat
  /\ pc \in {"start", "sample", "due", "open", "read", "replace", "marker", "last",
            "schedule", "wait"}
  /\ from \in Int /\ to \in Nat /\ late \in BOOLEAN /\ read \subseteq written
  /\ faults \in 0 .. MaxFaults /\ crashes \in 0 .. MaxCrashes /\ jumps \in 0 .. MaxJumps

\* While the clock is not set: as soon as a bundle has its marker, each record
\* that append() took, and that is older than the overlap before the bundle's end,
\* is in a bundle, or a bundle says that its window was limited or that a line was
\* unreadable, or it precedes the first window there was.  There are two holes,
\* and no other: records between two bundles of which the first was published by
\* a collector that died or failed before last-bundle.json existed, and records
\* of the overlap that landed late, when the backfill limit reaches to within
\* the overlap (collector.py, bundle, 123-128, 141, 184-185; bundle.py, _spool_records).
NothingMissed ==
  jumps = 0 =>
    /\ published # Never =>
         \A r \in written : r.at < published - Overlap =>
           r \in bundled \cup garbled \cup noticed \cup early \cup unsaved \cup cut
    /\ unsaved # {} => crashes + faults > 0

\* A date gets another bundle only if the collector died, or a write failed,
\* before it noted the first, whatever the clock does (collector.py, run, 212-216).
OncePerDate == \A d \in DueDates : bundlesFor[d] <= 1 + crashes + faults

\* While the outbox can take another bundle and the clock is not set, each date
\* that becomes due gets its bundle at last, or a later date does, also when
\* attempts fail or the collector restarts (collector.py, run, 204-216).
EveryDateDone ==
  \A d \in DueDates :
    DueDate(now) = d ~> (jumps > 0 \/ \E e \in DueDates : e >= d /\ bundlesFor[e] > 0)
=============================================================================
