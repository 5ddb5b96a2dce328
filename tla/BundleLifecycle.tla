--------------------------- MODULE BundleLifecycle ---------------------------
(***************************************************************************)
(* What delivery and retention promise about a bundle, told by where its   *)
(* completion marker stands: it is published in the outbox, delivered to   *)
(* Drive while the outbox still has it, leaves the outbox only while Drive *)
(* has it, and leaves Drive last; it leaves either place only after its    *)
(* review and after the days configured for that place.                    *)
(***************************************************************************)
EXTENDS Integers

CONSTANTS Bundles, LocalDays, DriveDays

VARIABLES
  places,     \* where each bundle stands complete
  finished,   \* the day its collection finished, for a published bundle
  published,  \* the bundles that were ever published
  reviewed,   \* the bundles that were ever reviewed
  day

lifecycleVars == <<places, finished, published, reviewed, day>>

Init ==
  /\ places = [b \in Bundles |-> {}] /\ finished = [b \in Bundles |-> 0]
  /\ published = {} /\ reviewed = {} /\ day = 0

Publish(b) ==
  /\ b \notin published /\ published' = published \cup {b}
  /\ places' = [places EXCEPT ![b] = {"outbox"}]
  /\ \E d \in 0 .. day : finished' = [finished EXCEPT ![b] = d]
  /\ UNCHANGED <<reviewed, day>>

Deliver(b) ==
  /\ places[b] = {"outbox"}
  /\ places' = [places EXCEPT ![b] = {"outbox", "drive"}]
  /\ UNCHANGED <<finished, published, reviewed, day>>

Review(b) ==
  /\ "drive" \in places[b] /\ reviewed' = reviewed \cup {b}
  /\ UNCHANGED <<places, finished, published, day>>

LeaveOutbox(b) ==
  /\ places[b] = {"outbox", "drive"} /\ b \in reviewed /\ day - finished[b] >= LocalDays
  /\ places' = [places EXCEPT ![b] = {"drive"}]
  /\ UNCHANGED <<finished, published, reviewed, day>>

LeaveDrive(b) ==
  /\ places[b] = {"drive"} /\ b \in reviewed /\ day - finished[b] >= DriveDays
  /\ places' = [places EXCEPT ![b] = {}]
  /\ UNCHANGED <<finished, published, reviewed, day>>

NextDay == day' = day + 1 /\ UNCHANGED <<places, finished, published, reviewed>>

Next ==
  \/ NextDay
  \/ \E b \in Bundles : Publish(b) \/ Deliver(b) \/ Review(b) \/ LeaveOutbox(b) \/ LeaveDrive(b)

Spec == Init /\ [][Next]_lifecycleVars

=============================================================================
