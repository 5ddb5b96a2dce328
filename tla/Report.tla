------------------------------- MODULE Report -------------------------------
(***************************************************************************)
(* Two computations of report.py: the rates that host_trends derives from  *)
(* the counters of the host's samples, and the findings that analyze()     *)
(* collects from records of which overlapping windows, replayed events and *)
(* repeated snapshots show it many more than once.                         *)
(***************************************************************************)
EXTENDS Integers, Sequences, FiniteSets, SequencesExt

CONSTANTS Tolerance   \* 5 s: how far wall and monotonic clock may differ over an interval

ASSUME ReportAssumption == Tolerance \in Nat \ {0}

-----------------------------------------------------------------------------
(* host_trends.  A sample has its time stamp, its boot, the monotonic clock *)
(* and one counter; `real` and `sent` are the time and the total that no    *)
(* clock change, reboot or exchanged device can disturb.                    *)

\* What a host went through between two samples.
HostStep(s, e) ==
  LET real == s.real + e.seconds
  IN [at |-> s.at + e.seconds + e.jump, real |-> real, sent |-> s.sent + e.bytes,
      boot |-> IF e.reboot THEN s.boot + 1 ELSE s.boot,
      mono |-> IF e.reboot THEN e.seconds ELSE s.mono + e.seconds,
      counter |-> IF e.reboot \/ e.reset THEN e.bytes ELSE s.counter + e.bytes]

FirstSample == [at |-> 0, real |-> 0, sent |-> 0, boot |-> 0, mono |-> 1, counter |-> 1]
AddSample(samples, e) == Append(samples, HostStep(samples[Len(samples)], e))
Samples(events) == FoldLeft(AddSample, <<FirstSample>>, events)

\* sorted() by time stamp, which keeps the order of equal ones: m comes right
\* after n.
Before(samples, m, n) ==
  samples[m].at < samples[n].at \/ (samples[m].at = samples[n].at /\ m < n)
RightAfter(samples, m, n) ==
  Before(samples, m, n) /\ ~\E k \in DOMAIN samples : Before(samples, m, k) /\ Before(samples, k, n)

Difference(m, n) == IF m < n THEN n - m ELSE m - n

\* A slip: a boot is taken for the same as long as the clock went on.
ValidByClock(p, row) ==
  /\ row.at > p.at /\ row.mono > p.mono
  /\ Difference(row.at - p.at, row.mono - p.mono) < Tolerance
ValidInterval(p, row) ==
  /\ p.boot = row.boot /\ row.at > p.at /\ row.mono > p.mono
  /\ Difference(row.at - p.at, row.mono - p.mono) < Tolerance

\* A slip: the rate is per second of the wall clock.
WallRate(p, row) == [bytes |-> row.counter - p.counter, seconds |-> row.at - p.at]
CounterRate(p, row) == [bytes |-> row.counter - p.counter, seconds |-> row.mono - p.mono]

\* The intervals that have a rate, each as the two samples it lies between.
RatedIntervals(samples) ==
  {r \in (DOMAIN samples) \X (DOMAIN samples) :
     LET p == samples[r[1]]
         row == samples[r[2]]
     IN RightAfter(samples, r[1], r[2]) /\ ValidInterval(p, row) /\ row.counter >= p.counter}

\* The peak is one of these.
Rates(samples) == {CounterRate(samples[r[1]], samples[r[2]]) : r \in RatedIntervals(samples)}

\* No rate is invented: however the clock was set, the host booted or a device
\* changed, each rate is one that the host reached on average between the two
\* samples, or less.  With an undisturbed clock no interval within one boot of
\* one device is left out (report.py, host_trends).
RatesAreReal(events) ==
  LET samples == Samples(events)
  IN /\ \A r \in RatedIntervals(samples) :
          LET p == samples[r[1]]
              row == samples[r[2]]
              rate == CounterRate(p, row)
          IN /\ row.real > p.real
             /\ rate.bytes * (row.real - p.real) <= (row.sent - p.sent) * rate.seconds
     /\ (\A e \in DOMAIN events : events[e].jump = 0) =>
          \A e \in DOMAIN events :
            ~events[e].reboot /\ ~events[e].reset => <<e, e + 1>> \in RatedIntervals(samples)

-----------------------------------------------------------------------------
(* analyze.  A record is an event with its identity, a summary of journal   *)
(* entries with theirs, or a check that counts each time.                   *)

Severities == <<"info", "warning", "critical">>
Rank(severity) == CHOOSE n \in 1 .. 3 : Severities[n] = severity

\* A slip: the latest observation decides.
AddLatest(findings, key, severity, first, last, count) ==
  [k \in DOMAIN findings \cup {key} |->
     IF k # key THEN findings[k]
     ELSE IF k \notin DOMAIN findings
     THEN [severity |-> severity, first |-> first, last |-> last, observations |-> count]
     ELSE [severity |-> severity, first |-> findings[k].first, last |-> last,
           observations |-> findings[k].observations + count]]

\* add() once, or a summary's add() and the end of its entries.
AddFinding(findings, key, severity, first, last, count) ==
  [k \in DOMAIN findings \cup {key} |->
     IF k # key THEN findings[k]
     ELSE IF k \notin DOMAIN findings
     THEN [severity |-> severity, first |-> first, last |-> last, observations |-> count]
     ELSE LET f == findings[k]
          IN [severity |-> IF Rank(severity) > Rank(f.severity) THEN severity ELSE f.severity,
              first |-> IF first < f.first THEN first ELSE f.first,
              last |-> IF last > f.last THEN last ELSE f.last,
              observations |-> f.observations + count]]

Lowest(S) == CHOOSE n \in S : \A m \in S : n <= m
Highest(S) == CHOOSE n \in S : \A m \in S : m <= n

\* A slip: an entry is looked up among those of earlier summaries only.
NewInSummary(seen, entries) == Cardinality({i \in DOMAIN entries : entries[i] \notin seen})
\* The entries not seen before are counted, each once.
NewEntries(seen, entries) == Cardinality(ToSet(entries) \ seen)

\* One round of the loop over the evidence; an entry is <<identity, time>>.
Observe(a, r) ==
  CASE r.kind = "event" ->
         IF r.id \in a.events THEN a
         ELSE [a EXCEPT !.events = @ \cup {r.id},
                        !.findings = AddFinding(@, r.key, r.severity, r.at, r.at, 1)]
    [] r.kind = "summary" ->
         LET fresh == ToSet(r.entries) \ a.entries
             times == {x[2] : x \in fresh}
         IN IF fresh = {} THEN a
            ELSE [a EXCEPT !.entries = @ \cup fresh,
                           !.findings = AddFinding(@, r.key, "warning", Lowest(times), Highest(times),
                                                   NewEntries(a.entries, r.entries))]
    [] r.kind = "check" ->
         [a EXCEPT !.findings = AddFinding(@, r.key, r.severity, r.at, r.at, 1)]

NothingSeen == [events |-> {}, entries |-> {}, findings |-> <<>>]
Findings(evidence) == FoldLeft(Observe, NothingSeen, evidence).findings

\* What a record shows, at what times and how severe: an event or an entry is the
\* same thing in every record, a check is one of its own each time.
Shown(evidence, i) ==
  LET r == evidence[i]
  IN CASE r.kind = "event" -> {<<"event", r.id>>}
       [] r.kind = "summary" -> {<<"entry", x>> : x \in ToSet(r.entries)}
       [] r.kind = "check" -> {<<"check", i>>}
TimesOf(r) == IF r.kind = "summary" THEN {x[2] : x \in ToSet(r.entries)} ELSE {r.at}
SeverityOf(r) == IF r.kind = "summary" THEN "warning" ELSE r.severity

\* Counts are of distinct events and entries however often windows overlap, and
\* a finding covers all its observations and has the worst of their severities,
\* so that the order of the records does not matter (report.py, analyze).
FindingsCountOnce(evidence) ==
  LET findings == Findings(evidence)
      Of(key) == {i \in DOMAIN evidence : evidence[i].key = key}
  IN \A key \in DOMAIN findings :
       /\ findings[key].observations = Cardinality(UNION {Shown(evidence, i) : i \in Of(key)})
       /\ \A i \in Of(key) :
            /\ TimesOf(evidence[i]) \subseteq findings[key].first .. findings[key].last
            /\ Rank(SeverityOf(evidence[i])) <= Rank(findings[key].severity)
       /\ \A i, j \in DOMAIN evidence : i < j =>
            Findings([evidence EXCEPT ![i] = evidence[j], ![j] = evidence[i]]) = findings
=============================================================================
