----------------------------- MODULE HostHelper -----------------------------
(***************************************************************************)
(* The host helper's loop (host.py, HostHelper.run): each round samples    *)
(* the host, copies a window of the systemd journal into the spool when    *)
(* snapshot_seconds have gone by, makes the daily probes once per date     *)
(* and saves in helper-state.json how far it got.                          *)
(*                                                                         *)
(* The journal is the system's, so it grows while the helper works, waits  *)
(* or is down.  What the helper's evidence lacks it must have reported: in *)
(* the window's own record, in a helper_gap record, or (a full spool) in   *)
(* gap.json.  A step ends at every append and at every durable write.      *)
(***************************************************************************)
EXTENDS Integers, FiniteSets

CONSTANTS
  Interval,    \* snapshot_seconds
  Overlap,     \* 60 s: a window starts that much before the last one's end
  MaxBack,     \* 24 hours: the longest window
  Day,         \* length of a date
  MaxTime, MaxEntries, MaxFaults, MaxCrashes, MaxJumps   \* bounds

ASSUME HostHelperAssumption ==
  /\ {Interval, Overlap, MaxBack, Day} \subseteq Nat \ {0}
  /\ {MaxTime, MaxEntries, MaxFaults, MaxCrashes, MaxJumps} \subseteq Nat
  /\ MaxJumps <= Overlap /\ Overlap < MaxBack /\ Interval <= MaxBack /\ Interval <= MaxTime

VARIABLES
  now, journal,            \* the wall clock; entries the system logged
  read, told, cut,         \* entries copied, reported as possibly missing, left out unsaid
  probes,                  \* completed daily probes of each date
  base,                    \* where the history that the state file speaks for begins
  file,                    \* helper-state.json
  pc, last, state, end,    \* run(): step, last_snapshot, state, end of this round
  faults, crashes, jumps   \* what has been used of the bounds

worldVars == <<now, journal>>
fateVars == <<read, told, cut>>
memoryVars == <<last, state, end>>
boundVars == <<faults, crashes, jumps>>
vars == <<worldVars, fateVars, probes, base, file, pc, memoryVars, boundVars>>

Never == -1
Blank == [last |-> Never, date |-> Never]
Date(t) == t \div Day
Dates == 0 .. Date(MaxTime)
Later(s, t) == IF s < t THEN t ELSE s

Init ==
  /\ now = Interval /\ journal = {} /\ read = {} /\ told = {} /\ cut = {}
  /\ probes = [d \in Dates |-> 0] /\ base = 0 /\ file = Blank
  /\ pc = "down" /\ last = Never /\ state = Blank /\ end = Never
  /\ faults = 0 /\ crashes = 0 /\ jumps = 0

Fault == faults < MaxFaults /\ faults' = faults + 1 /\ UNCHANGED <<crashes, jumps>>

\* What a process keeps only in memory is gone when it ends.
Exit == pc' = "down" /\ last' = Never /\ state' = Blank /\ end' = Never

-----------------------------------------------------------------------------
(* Starting: an absent or unreadable state file counts as an empty one *)

Resume(s) ==
  /\ pc = "down" /\ pc' = "once" /\ state' = s
  /\ last' = IF s.last = Never THEN now - Interval ELSE s.last
  /\ base' = IF s.last = Never THEN now - Interval ELSE base
  /\ UNCHANGED <<worldVars, fateVars, probes, file, end>>

Start == Resume(file) /\ UNCHANGED boundVars
StartUnread == Resume(Blank) /\ Fault

-----------------------------------------------------------------------------
(* A round *)

\* The sample and its status are written; then the round's time is taken.
Once ==
  /\ pc = "once" /\ end' = now
  /\ pc' = IF end' - last >= Interval THEN "journal" ELSE "daily"
  /\ UNCHANGED <<worldVars, fateVars, probes, base, file, last, state, boundVars>>

\* A slip: a window starts where the last one ended.
StartAtLast == Later(last, end - MaxBack)

WindowStart == Later(last - Overlap, end - MaxBack)
Window == {e \in journal : WindowStart <= e.at /\ e.at <= end}

\* A snapshot's journal records: whole, or with a failed command, a line limit
\* or unparsed lines noted in them, or refused by a full spool, which gap.json
\* then tells.  The records that follow them do not matter here, except that
\* the snapshot may still fail ("advance").
ReadJournal ==
  /\ pc = "journal" /\ pc' = "advance"
  /\ \/ read' = read \cup Window /\ UNCHANGED <<told, cut>>
     \/ told' = told \cup Window /\ UNCHANGED <<read, cut>>
  /\ UNCHANGED <<worldVars, probes, base, file, memoryVars, boundVars>>

\* The longest window may lack part of its overlap, which nothing reports.
LostOverlap ==
  {e \in journal \ (read \cup told) : last - Overlap <= e.at /\ e.at < last /\ e.at < end - MaxBack}

Absence == {e \in journal : last <= e.at /\ e.at < end - MaxBack}

\* A slip: a cut window goes without a helper_gap.
ReportNothing == UNCHANGED fateVars

\* helper_gap, or the gap.json of its refusal, for what lies before the window.
ReportAbsence ==
  /\ told' = IF end - last > MaxBack THEN told \cup Absence ELSE told
  /\ cut' = cut \cup LostOverlap /\ UNCHANGED read

Advance ==
  /\ pc = "advance" /\ pc' = "daily" /\ ReportAbsence
  /\ last' = end /\ state' = [state EXCEPT !.last = end]
  /\ UNCHANGED <<worldVars, probes, base, file, end, boundVars>>

\* A slip: the probes are made whenever a round gets there.
DailyAlways ==
  /\ pc = "daily" /\ pc' = "save"
  /\ probes' = [probes EXCEPT ![Date(end)] = @ + 1]
  /\ state' = [state EXCEPT !.date = Date(end)]
  /\ UNCHANGED <<worldVars, fateVars, base, file, last, end, boundVars>>

\* A slip: the date counts as done before its probes are made.
DailyMarkedFirst ==
  /\ pc = "daily"
  /\ IF state.date = Date(end)
     THEN pc' = "save" /\ UNCHANGED <<state, probes>>
     ELSE /\ state' = [state EXCEPT !.date = Date(end)]
          /\ \/ pc' = "save" /\ probes' = [probes EXCEPT ![Date(end)] = @ + 1]
             \/ pc' = "wait" /\ UNCHANGED probes
  /\ UNCHANGED <<worldVars, fateVars, base, file, last, end, boundVars>>

Daily ==
  /\ pc = "daily" /\ pc' = "save"
  /\ IF state.date = Date(end)
     THEN UNCHANGED <<probes, state>>
     ELSE /\ probes' = [probes EXCEPT ![Date(end)] = @ + 1]
          /\ state' = [state EXCEPT !.date = Date(end)]
  /\ UNCHANGED <<worldVars, fateVars, base, file, last, end, boundVars>>

Save ==
  /\ pc = "save" /\ pc' = "wait" /\ file' = state /\ end' = Never
  /\ UNCHANGED <<worldVars, fateVars, probes, base, last, state, boundVars>>

Wait ==
  /\ pc = "wait" /\ pc' = "once"
  /\ UNCHANGED <<worldVars, fateVars, probes, base, file, memoryVars, boundVars>>

Round == Once \/ ReadJournal \/ Advance \/ Daily \/ Save \/ Wait

-----------------------------------------------------------------------------
(* Faults: whatever raises in a round is reported, and the loop goes on, *)
(* unless the report raises as well                                      *)

Fails ==
  /\ pc \in {"once", "journal", "advance", "daily", "save"} /\ Fault
  /\ \/ pc' = "wait" /\ end' = Never /\ UNCHANGED <<last, state>>
     \/ Exit
  /\ UNCHANGED <<worldVars, fateVars, probes, base, file>>

Stop ==
  /\ pc = "wait" /\ Exit
  /\ UNCHANGED <<worldVars, fateVars, probes, base, file, boundVars>>

Crash ==
  /\ pc # "down" /\ crashes < MaxCrashes /\ crashes' = crashes + 1 /\ Exit
  /\ UNCHANGED <<worldVars, fateVars, probes, base, file, faults, jumps>>

-----------------------------------------------------------------------------
(* The system *)

otherVars == <<fateVars, probes, base, file, pc, memoryVars, faults, crashes>>

Log ==
  /\ Cardinality(journal) < MaxEntries
  /\ journal' = journal \cup {[n |-> Cardinality(journal) + 1, at |-> now]}
  /\ UNCHANGED <<now, jumps, otherVars>>

Tick ==
  /\ now < MaxTime /\ now' = now + 1 /\ UNCHANGED <<journal, jumps, otherVars>>

\* The clock is set back a little; all the jumps together are at most Overlap.
JumpBack ==
  /\ jumps < MaxJumps /\ jumps' = jumps + 1
  /\ now > Interval /\ now' = now - 1 /\ UNCHANGED <<journal, otherVars>>

Next ==
  \/ Start \/ StartUnread \/ Round \/ Fails \/ Stop \/ Crash
  \/ Log \/ Tick \/ JumpBack

Spec == Init /\ [][Next]_vars

-----------------------------------------------------------------------------
(* Properties *)

\* Every variable has its type.
States == [last : {Never} \cup 0 .. MaxTime, date : {Never} \cup Dates]
TypeOK ==
  /\ now \in 0 .. MaxTime /\ base \in 0 .. MaxTime
  /\ journal \subseteq [n : 1 .. MaxEntries, at : 0 .. MaxTime]
  /\ read \subseteq journal /\ told \subseteq journal /\ cut \subseteq journal
  /\ probes \in [Dates -> Nat] /\ {file, state} \subseteq States
  /\ pc \in {"down", "once", "journal", "advance", "daily", "save", "wait"}
  /\ last \in {Never} \cup 0 .. MaxTime /\ end \in {Never} \cup 0 .. MaxTime
  /\ faults \in 0 .. MaxFaults /\ crashes \in 0 .. MaxCrashes /\ jumps \in 0 .. MaxJumps

\* An entry that no later window will reach has been copied, or the spool says
\* that it may be missing: whatever round failed, however long the helper was
\* down, whichever of its steps a crash undid and although the clock is set
\* back by no more than the overlap (host.py, run and snapshot).  Excepted are
\* entries from before the history that helper-state.json speaks for, which begins
\* anew when the helper dies before it has saved that file once (base), and the
\* overlap that an absence of a day or more cuts off after the clock was set back
\* (cut).
NoSilentHole ==
  \A e \in journal :
    (base <= e.at /\ e.at < last - Overlap) => e \in read \cup told \cup cut

\* The probes of a date are made once, and once more at most for each failure
\* that kept helper-state.json from telling and for each jump over midnight
\* (host.py:228-231).
OncePerDate == \A d \in Dates : probes[d] <= 1 + faults + crashes + jumps

\* helper-state.json names a date only when all of its probes have been made,
\* so a failed probe is made again (host.py:228-231).
DateMeansProbed == file.date # Never => probes[file.date] > 0
=============================================================================
