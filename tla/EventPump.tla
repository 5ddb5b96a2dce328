------------------------------ MODULE EventPump ------------------------------
(***************************************************************************)
(* The Docker event thread of the collector (docker.py, EventPump) and the *)
(* spool it appends to (common.py, Spool.append).                          *)
(*                                                                         *)
(* Events are numbered in the order the daemon emits them.  The thread     *)
(* reads a stream that starts with the events the daemon still retains,    *)
(* appends an event to the spool, or keeps a routine exec event pending    *)
(* for its container's next summary, remembers what it has seen and saves  *)
(* cursor, pending and seen in a checkpoint.  A step ends at every durable *)
(* write, because the collector may die there.                             *)
(***************************************************************************)
EXTENDS Integers, Sequences, FiniteSets

CONSTANTS
  NEvents,       \* bound: events the daemon emits
  Time,          \* the second of each event
  Container,     \* the container of each event
  Routine,       \* the events that may be summarised
  Excluded,      \* the events of containers the configuration leaves out
  Retained,      \* events the daemon keeps for a new stream (256)
  Lookback,      \* seconds a first start looks back (120)
  PendingLimit,  \* pending entries (256)
  SeenLimit,     \* replay identities (512)
  MaxCrashes,    \* bound: restarts of the collector
  MaxErrors,     \* bound: appends and checkpoints that raise
  MaxTight       \* bound: times the day's spool file runs full

Events == 1 .. NEvents

ASSUME PumpAssumption ==
  /\ NEvents \in Nat \ {0} /\ Time \in [Events -> Nat]
  /\ \A d, e \in Events : d <= e => Time[d] <= Time[e]
  /\ DOMAIN Container = Events
  /\ Routine \subseteq Events /\ Excluded \subseteq Events
  /\ {Retained, PendingLimit, SeenLimit} \subseteq Nat \ {0} /\ Retained <= SeenLimit
  /\ Lookback \in Nat
  /\ {MaxCrashes, MaxErrors, MaxTight} \subseteq Nat

VARIABLES
  emitted,                        \* daemon: events so far
  spooled, dropped, tight,        \* spool: records of each event, cap losses, is it near full?
  ck, handled,                    \* event-cursor.json; the events some checkpoint has covered
  pc, after,                      \* where the thread is, and where a flush returns to
  next, ev,                       \* stream position, event in hand
  pending, seen, cursor,          \* the fields of the thread
  groups, kept,                   \* flush_exec: groups to go, rejected entries
  crashes, errors, tights         \* what has been used of the bounds

spoolVars == <<spooled, dropped, tight>>
diskVars == <<spoolVars, ck, handled>>
fieldVars == <<pending, seen, cursor>>
boundVars == <<crashes, errors, tights>>
vars == <<emitted, diskVars, pc, after, next, ev, fieldVars, groups, kept, boundVars>>

Elems(s) == {s[i] : i \in DOMAIN s}
Of(c, set) == {e \in set : Container[e] = c}
Later(s, t) == IF s < t THEN t ELSE s
\* The wall clock lies between the last event and the next one.
Clock == Time[IF emitted = 0 THEN 1 ELSE emitted] ..
         Time[IF emitted = NEvents THEN NEvents ELSE emitted + 1]

Init ==
  /\ emitted = 0 /\ handled = {}
  /\ spooled = [e \in Events |-> 0] /\ dropped = {} /\ tight = FALSE
  /\ ck = [saved |-> FALSE, cursor |-> 0, pending |-> {}, seen |-> <<>>]
  /\ pc = "start" /\ after = "start" /\ next = 0 /\ ev = 0
  /\ pending = {} /\ seen = <<>> /\ cursor = 0 /\ groups = {} /\ kept = {}
  /\ crashes = 0 /\ errors = 0 /\ tights = 0

\* Spool.append of one record about the events in es: it fits, or the daily
\* limit refuses it with a notice in gap.json.
Accept(es) ==
  /\ spooled' = [e \in Events |-> IF e \in es THEN spooled[e] + 1 ELSE spooled[e]]
  /\ UNCHANGED <<dropped, tight>>
Refuse(lost) == tight /\ dropped' = dropped \cup lost /\ UNCHANGED <<spooled, tight>>

Checkpoint == ck' = [saved |-> TRUE, cursor |-> cursor', pending |-> pending', seen |-> seen']

\* flush_exec() begins, and run() or record_event() goes on at to.
GoFlush(to, held) ==
  pc' = "flush" /\ after' = to /\ groups' = {Container[e] : e \in held} /\ kept' = {}
GoOn(to) == pc' = to /\ UNCHANGED <<after, groups, kept>>

-----------------------------------------------------------------------------
\* Slip: a restart takes over the cursor but not the pending list.
RestoreCursor ==
  /\ pc = "start"
  /\ pending' = {} /\ seen' = ck.seen /\ cursor' = ck.cursor
  /\ GoFlush("connect", {})
  /\ UNCHANGED <<emitted, diskVars, next, ev, boundVars>>

Restore ==
  /\ pc = "start"
  /\ pending' = ck.pending /\ seen' = ck.seen
  /\ \/ ck.saved /\ cursor' = ck.cursor
     \/ ~ck.saved /\ \E t \in Clock : cursor' = Later(0, t - Lookback)
  /\ GoFlush("connect", ck.pending)
  /\ UNCHANGED <<emitted, diskVars, next, ev, boundVars>>

FlushGroup(c) ==
  /\ pc = "flush" /\ c \in groups /\ groups' = groups \ {c}
  /\ \/ Accept(Of(c, pending)) /\ UNCHANGED kept
     \/ Refuse({}) /\ kept' = kept \cup Of(c, pending)
  /\ UNCHANGED <<emitted, ck, handled, pc, after, next, ev, fieldVars, boundVars>>

\* Slip: a flush clears the pending list, whatever the spool said.
ForgetRefused ==
  /\ pc = "flush" /\ groups = {}
  /\ pending' = {} /\ UNCHANGED <<seen, cursor>>
  /\ IF pending = {} THEN UNCHANGED ck ELSE Checkpoint
  /\ pc' = after /\ after' = "start" /\ kept' = {}
  /\ UNCHANGED <<emitted, spoolVars, handled, next, ev, groups, boundVars>>

\* Only what was refused stays pending; an empty flush saves nothing.
FlushDone ==
  /\ pc = "flush" /\ groups = {}
  /\ pending' = kept /\ UNCHANGED <<seen, cursor>>
  /\ IF pending = {} THEN UNCHANGED ck ELSE Checkpoint
  /\ pc' = after /\ after' = "start" /\ kept' = {}
  /\ UNCHANGED <<emitted, spoolVars, handled, next, ev, groups, boundVars>>

\* since = cursor - 1, among the events that the daemon still retains.
Retains(e) == e <= emitted /\ emitted - e < Retained
\* Slip: since = cursor + 1.
ReplayedLater(e) == Retains(e) /\ Time[e] > cursor
Replayed(e) == Retains(e) /\ Time[e] >= cursor - 1
Connect ==
  /\ pc = "connect" /\ GoOn("read")
  /\ LET again == {e \in Events : Replayed(e)}
     IN next' = IF again = {} THEN emitted + 1 ELSE CHOOSE e \in again : \A d \in again : e <= d
  /\ UNCHANGED <<emitted, diskVars, ev, fieldVars, boundVars>>

\* An event already seen, or excluded, only moves the cursor; a routine one may
\* have to wait for a flush.
Take ==
  /\ pc = "read" /\ next <= emitted
  /\ ev' = next /\ next' = next + 1
  /\ \/ next \in Elems(seen) \cup Excluded /\ GoOn("checkpoint")
     \/ /\ next \notin Elems(seen) \cup Excluded
        /\ IF next \in Routine /\ Cardinality(pending) >= PendingLimit
           THEN GoFlush("add", pending) ELSE GoOn("add")
  /\ UNCHANGED <<emitted, diskVars, fieldVars, boundVars>>

\* Slips: nothing is forgotten; the newest identity is.
RememberAll(e) == Append(seen, e)
ForgetNewest(e) == IF Len(seen) = SeenLimit THEN seen ELSE Append(seen, e)

\* At the limit the oldest identity is forgotten.
Remember(e) == LET s == Append(seen, e)
               IN IF Len(s) > SeenLimit THEN Tail(s) ELSE s

\* A routine event goes to pending while there is room, anything else to the
\* spool; an event that the spool refuses is dropped, and still remembered.
Add ==
  /\ pc = "add" /\ GoOn("checkpoint")
  /\ IF ev \in Routine /\ Cardinality(pending) < PendingLimit
     THEN pending' = pending \cup {ev} /\ UNCHANGED spoolVars
     ELSE UNCHANGED pending /\ (Accept({ev}) \/ Refuse({ev}))
  /\ seen' = Remember(ev)
  /\ UNCHANGED <<emitted, ck, handled, next, ev, cursor, boundVars>>

\* The flush comes at the limit, or when a minute has passed.
SaveEvent ==
  /\ pc = "checkpoint"
  /\ cursor' = Later(cursor, Time[ev]) /\ UNCHANGED <<pending, seen>> /\ Checkpoint
  /\ handled' = handled \cup {ev}
  /\ \/ GoFlush("read", pending)
     \/ Cardinality(pending) < PendingLimit /\ GoOn("read")
  /\ UNCHANGED <<emitted, spoolVars, next, ev, boundVars>>

\* The daemon closes the stream.
StreamCloses ==
  /\ pc = "read" /\ GoFlush("connect", pending)
  /\ UNCHANGED <<emitted, diskVars, next, ev, fieldVars, boundVars>>

\* Nothing can be read for 70 seconds, the line is bad, or nobody answers.
StreamFails ==
  /\ pc \in {"connect", "read"} /\ GoOn("gap")
  /\ UNCHANGED <<emitted, diskVars, next, ev, fieldVars, boundVars>>

\* The event_connection_gap record is kept or refused; then run() flushes.
RecordGap ==
  /\ pc = "gap" /\ GoFlush("connect", pending)
  /\ UNCHANGED <<emitted, diskVars, next, ev, fieldVars, boundVars>>

\* An exception while an event is handled is reported as a gap and the thread
\* goes on; run() catches none elsewhere, and the thread ends.
Caught == pc \in {"add", "checkpoint"} \/ after \in {"add", "read"}
Throw ==
  /\ errors < MaxErrors /\ errors' = errors + 1
  /\ pc' = IF Caught THEN "gap" ELSE "dead"
  /\ after' = "start" /\ groups' = {} /\ kept' = {}
  /\ UNCHANGED <<emitted, diskVars, next, ev, crashes, tights>>

\* Spool.append raises, or the checkpoint cannot be read.
AppendRaises ==
  /\ pc \in {"start", "gap", "add"} \/ (pc = "flush" /\ groups # {})
  /\ Throw /\ UNCHANGED fieldVars

\* checkpoint() raises: the fields have already changed.
SaveRaises ==
  /\ \/ /\ pc = "checkpoint"
        /\ cursor' = Later(cursor, Time[ev]) /\ UNCHANGED <<pending, seen>>
     \/ /\ pc = "flush" /\ groups = {} /\ pending # {}
        /\ pending' = kept /\ UNCHANGED <<seen, cursor>>
  /\ Throw

\* The collector restarts: what only the thread knew is gone.
Crash ==
  /\ pc # "start" /\ crashes < MaxCrashes
  /\ crashes' = crashes + 1 /\ UNCHANGED <<errors, tights>>
  /\ pc' = "start" /\ after' = "start" /\ next' = 0 /\ ev' = 0
  /\ pending' = {} /\ seen' = <<>> /\ cursor' = 0 /\ groups' = {} /\ kept' = {}
  /\ UNCHANGED <<emitted, diskVars>>

Emit ==
  /\ emitted < NEvents /\ emitted' = emitted + 1
  /\ UNCHANGED <<diskVars, pc, after, next, ev, fieldVars, groups, kept, boundVars>>

\* Other records fill the day's file; a new day starts another one.
FillSpool ==
  /\ ~tight /\ tights < MaxTight /\ tight' = TRUE
  /\ tights' = tights + 1 /\ UNCHANGED <<crashes, errors>>
  /\ UNCHANGED <<emitted, spooled, dropped, ck, handled, pc, after, next, ev, fieldVars, groups, kept>>

NewDay ==
  /\ tight /\ tight' = FALSE
  /\ UNCHANGED <<emitted, spooled, dropped, ck, handled, pc, after, next, ev, fieldVars, groups, kept,
                 boundVars>>

FlushStep == FlushDone \/ \E c \in {Container[e] : e \in Events} : FlushGroup(c)
Handle == Restore \/ FlushStep \/ Take \/ Add \/ SaveEvent \/ RecordGap
StreamEnds == StreamCloses \/ StreamFails
Next == Handle \/ Connect \/ StreamEnds \/ AppendRaises \/ SaveRaises \/ Crash
        \/ Emit \/ FillSpool \/ NewDay

Spec == Init /\ [][Next]_vars

\* The thread runs, each day ends, and no connection or read blocks for ever:
\* both have a timeout.
FairSpec ==
  Spec /\ WF_vars(Handle) /\ WF_vars(NewDay) /\ WF_vars(Connect \/ StreamEnds)

-----------------------------------------------------------------------------
\* Every variable has its type; the lists stay within the limits that keep the
\* checkpoint readable (docker.py, record_event, 174-184).
TypeOK ==
  /\ emitted \in 0 .. NEvents /\ handled \subseteq Events
  /\ spooled \in [Events -> Nat] /\ dropped \subseteq Events /\ tight \in BOOLEAN
  /\ ck.saved \in BOOLEAN /\ {ck.cursor, cursor} \subseteq Nat
  /\ \A state \in {ck, [pending |-> pending, seen |-> seen]} :
       /\ state.pending \subseteq Routine /\ Cardinality(state.pending) <= PendingLimit
       /\ Elems(state.seen) \subseteq Events /\ Len(state.seen) <= SeenLimit
  /\ pc \in {"start", "flush", "connect", "read", "add", "checkpoint", "gap", "dead"}
  /\ after \in {"start", "connect", "add", "read"}
  /\ next \in 0 .. NEvents + 1 /\ ev \in 0 .. NEvents
  /\ groups \subseteq {Container[e] : e \in Events} /\ kept \subseteq pending
  /\ crashes \in 0 .. MaxCrashes /\ errors \in 0 .. MaxErrors /\ tights \in 0 .. MaxTight

\* Once a checkpoint covers an event that the configuration includes, the event
\* is in the spool, in the pending list on disk, or was refused by the daily
\* limit: no crash, failed append or partly refused flush loses it
\* (docker.py, flush_exec and record_event).
NothingLost ==
  \A e \in handled \ Excluded : spooled[e] > 0 \/ e \in ck.pending \/ e \in dropped

\* The spool holds an event more often than once only as often as the collector
\* was restarted or a write raised between the append and the checkpoint: a
\* reconnection alone duplicates nothing, however little seen remembers
\* (docker.py, 148-149 and 182-184).
DuplicatesNeedFailures ==
  \A e \in Events : spooled[e] <= 1 + crashes + errors

\* A new stream starts early enough: an event after one that a checkpoint covers,
\* and that no checkpoint covers itself, is replayed while the daemon retains it,
\* also when both happened in the same second, after a restart or with the event
\* half handled (docker.py, 182-186 and 208).
ReconnectLeavesNoHole ==
  [][pc = "connect" /\ pc' = "read" =>
       \A h \in handled, e \in Events \ handled : h < e /\ Retains(e) => next' <= e]_vars

\* A routine event of the checkpoint does not wait for ever: it reaches the
\* spool, unless the thread has died (docker.py, run, 200-221).
PendingFlushed ==
  \A e \in Routine : e \in ck.pending ~> spooled[e] > 0 \/ pc = "dead"
=============================================================================
