------------------------------- MODULE Sampling -------------------------------
(***************************************************************************)
(* Collector.inventory and Collector.sample of collector.py on top of the  *)
(* Gateway: the main thread lists the containers, worker threads inspect   *)
(* them and ask for the statistics of the running ones, and the main       *)
(* thread appends their records in the order of the list.  The state of a  *)
(* container that is as it was is left out for 300 s; statistics are kept  *)
(* back and appended as one table at the end.                              *)
(*                                                                         *)
(* Statistics are always packed (compact_stats).  What redaction and       *)
(* compaction do to a record is left out, and so are the one request for   *)
(* the API's version and the event thread's calls: Slots stands for those  *)
(* that it leaves.                                                         *)
(***************************************************************************)
EXTENDS Gateway

CONSTANTS
  Main,            \* the main thread as a caller
  Workers,         \* the threads of the pool, 4
  MaxContainers,   \* max_containers
  Containers,      \* containers by the place that they would have in a list
  Repeat           \* samples until an unchanged state is told again, 300 s

ASSUME SamplingAssumption ==
  /\ Callers = {Main} \cup Workers /\ Main \notin Workers
  /\ Containers \subseteq Nat \ {0} /\ IsFiniteSet(Containers)
  /\ {MaxContainers, Repeat} \subseteq Nat \ {0}

VARIABLES
  phase,           \* "waiting", "listing", "sampling" or "failing"
  items, limited,  \* inventory()
  unasked,         \* containers that no worker has taken
  work,            \* the container and the source that each worker asks for
  result,          \* what the workers found
  unread,          \* containers whose results were not read
  ok,              \* of the sample
  last,            \* last_states: the state of each container, and how long ago
  offered,         \* the last state of each listed container that append() got
  refused          \* was any record of this sample refused?

sampleVars == <<phase, items, limited, unasked, work, result, unread, ok, last, offered, refused>>
vars == <<gatewayVars, sampleVars>>

\* Docker's state of a container, without its time.
States == {"running", "exited"}
Idle == [item |-> 0, source |-> "none"]
Told == [state : States \cup {"none"}, age : 0 .. Repeat]
None == [state |-> "none", age |-> Repeat]

\* The result of a worker: nothing yet, an inspect error, or a state, which for a
\* running container comes with statistics or with an error instead.
NoResult == [state |-> "none", stats |-> FALSE]
InspectError == [state |-> "error", stats |-> FALSE]
Found == [state : States, stats : BOOLEAN]

First(S) == CHOOSE n \in S : \A m \in S : n <= m

Init ==
  /\ GatewayInit
  /\ phase = "waiting" /\ items = {} /\ limited = FALSE
  /\ unasked = {} /\ work = [w \in Workers |-> Idle]
  /\ result = [i \in Containers |-> NoResult] /\ unread = {}
  /\ ok = FALSE /\ refused = FALSE
  /\ last = [i \in Containers |-> None] /\ offered = [i \in Containers |-> None]

-----------------------------------------------------------------------------
(* The main thread. *)

Older(age) == IF age < Repeat THEN age + 1 ELSE Repeat
Age(f) == [i \in Containers |-> [f[i] EXCEPT !.age = Older(@)]]

\* The main loop has waited for sample_seconds and asks for the list.
Begin ==
  /\ phase = "waiting"
  /\ Connect(Main)
  /\ phase' = "listing"
  /\ items' = {} /\ limited' = FALSE /\ refused' = FALSE
  /\ result' = [i \in Containers |-> NoResult]
  /\ last' = Age(last) /\ offered' = Age(offered)
  /\ UNCHANGED <<unasked, work, unread, ok>>

\* The list: what is selected of it, up to the greatest number.
Listed ==
  /\ phase = "listing" /\ call[Main] = "whole" /\ Takes(Main)
  /\ \E S \in SUBSET Containers, more \in BOOLEAN :
       /\ Cardinality(S) <= MaxContainers
       /\ more => Cardinality(S) = MaxContainers
       /\ items' = S /\ limited' = more /\ ok' = ~more
       /\ unasked' = S /\ unread' = S
  /\ phase' = "sampling"
  /\ UNCHANGED <<work, result, last, offered, refused>>

\* An exception: no container is sampled, and the main loop writes a status that
\* is not ok.
NotListed ==
  /\ phase = "listing" /\ call[Main] \in {"cut", "error"} /\ Takes(Main)
  /\ phase' = "waiting" /\ ok' = FALSE
  /\ UNCHANGED <<items, limited, unasked, work, result, unread, last, offered, refused>>

\* A slip: the last record decides.
AppendsForgetful(accepted, error) ==
  /\ ok' = (accepted /\ ~error)
  /\ refused' = (refused \/ ~accepted)

\* ok = append(...) and kind != "docker_source_error" and ok
Appends(accepted, error) ==
  /\ ok' = (accepted /\ ~error /\ ok)
  /\ refused' = (refused \/ ~accepted)

\* A slip: any look at a state counts as telling it.
SkipsRefreshed(i, state) ==
  /\ last[i].state = state /\ last[i].age < Repeat
  /\ last' = [last EXCEPT ![i].age = 0]

\* The state was told less than 300 s ago, and is as it was.
Recent(i, state) == last[i].state = state /\ last[i].age < Repeat
Skips(i, state) == Recent(i, state) /\ UNCHANGED last

Remembers(f, i, state) == [f EXCEPT ![i] = [state |-> state, age |-> 0]]

\* The results of the next container: an inspect error is one record, a state is
\* told or left out, and missing statistics are another record.
Reads ==
  /\ phase = "sampling" /\ unread # {}
  /\ LET i == First(unread)
         r == result[i]
     IN /\ r # NoResult
        /\ unread' = unread \ {i}
        /\ \E accepted \in BOOLEAN :
             \/ r = InspectError /\ Appends(accepted, TRUE) /\ UNCHANGED <<last, offered>>
             \/ /\ r # InspectError /\ Skips(i, r.state)
                /\ IF r.state = "running" /\ ~r.stats THEN Appends(accepted, TRUE) ELSE UNCHANGED <<ok, refused>>
                /\ UNCHANGED offered
             \/ /\ r # InspectError /\ ~Recent(i, r.state)
                /\ last' = Remembers(last, i, r.state) /\ offered' = Remembers(offered, i, r.state)
                /\ Appends(accepted, r.state = "running" /\ ~r.stats)
  /\ UNCHANGED <<gatewayVars, phase, items, limited, unasked, work, result>>

\* The containers of this sample.
Prunes(f) == [i \in Containers |-> IF i \in items THEN f[i] ELSE None]

\* append() raises, for a record, the table or the notice of a list that was cut:
\* what no worker has taken is dropped.  The state that was to be written is in
\* last_states already, and before the notice last_states is pruned.
Raises ==
  /\ phase = "sampling" /\ phase' = "failing"
  /\ ok' = FALSE /\ unasked' = {}
  /\ \/ /\ unread = {} /\ \E i \in items : result[i].stats
        /\ UNCHANGED <<last, offered>>
     \/ unread = {} /\ limited /\ last' = Prunes(last) /\ offered' = Prunes(offered)
     \/ /\ unread # {}
        /\ LET i == First(unread)
               r == result[i]
           IN \/ /\ \/ r = InspectError
                    \/ Recent(i, r.state) /\ r.state = "running" /\ ~r.stats
                 /\ UNCHANGED <<last, offered>>
              \/ /\ r \in Found /\ ~Recent(i, r.state)
                 /\ last' = Remembers(last, i, r.state) /\ offered' = Remembers(offered, i, r.state)
  /\ UNCHANGED <<gatewayVars, items, limited, work, result, unread, refused>>

\* The pool has waited for its workers, and the exception reaches the main loop.
Fails ==
  /\ phase = "failing" /\ \A w \in Workers : work[w] = Idle
  /\ phase' = "waiting"
  /\ items' = {} /\ unread' = {}
  /\ UNCHANGED <<gatewayVars, limited, unasked, work, result, ok, last, offered, refused>>

\* All results were read: the table of the statistics, if there are any, and the
\* notice of a list that was cut, whose refusal changes nothing.
Ends ==
  /\ phase = "sampling" /\ unread = {}
  /\ phase' = "waiting"
  /\ \E accepted \in BOOLEAN :
       IF \E i \in items : result[i].stats THEN Appends(accepted, FALSE) ELSE UNCHANGED <<ok, refused>>
  /\ last' = Prunes(last) /\ offered' = Prunes(offered)
  /\ UNCHANGED <<gatewayVars, items, limited, unasked, work, result, unread>>

-----------------------------------------------------------------------------
(* The workers. *)

Taken(queue) == queue \ {First(queue)}

\* A worker takes the next container, in the order of the list.
Inspects(w) ==
  /\ unasked # {} /\ work[w] = Idle
  /\ Connect(w)
  /\ work' = [work EXCEPT ![w] = [item |-> First(unasked), source |-> "inspect"]]
  /\ unasked' = Taken(unasked)
  /\ UNCHANGED <<phase, items, limited, result, unread, ok, last, offered, refused>>

Finishes(w, r) ==
  /\ work' = [work EXCEPT ![w] = Idle]
  /\ result' = [result EXCEPT ![work[w].item] = r]
  /\ UNCHANGED <<phase, items, limited, unasked, unread, ok, last, offered, refused>>

\* What was cut is no JSON.
InspectFails(w) ==
  /\ work[w].source = "inspect" /\ call[w] \in {"cut", "error"} /\ Takes(w)
  /\ Finishes(w, InspectError)

FoundExited(w) ==
  /\ work[w].source = "inspect" /\ call[w] = "whole" /\ Takes(w)
  /\ Finishes(w, [state |-> "exited", stats |-> FALSE])

FoundRunning(w) ==
  /\ work[w].source = "inspect" /\ call[w] = "whole" /\ Takes(w)
  /\ work' = [work EXCEPT ![w].source = "stats"]
  /\ UNCHANGED <<phase, items, limited, unasked, result, unread, ok, last, offered, refused>>

AsksStats(w) ==
  /\ work[w].source = "stats" /\ Connect(w)
  /\ UNCHANGED sampleVars

GetsStats(w) ==
  /\ work[w].source = "stats" /\ call[w] \in Replies /\ Takes(w)
  /\ Finishes(w, [state |-> "running", stats |-> call[w] = "whole"])

-----------------------------------------------------------------------------
(* Docker and the gateway. *)

Calls(c) ==
  /\ Answers(c) \/ Unanswered(c) \/ Copied(c) \/ CutOff(c) \/ GivesUp(c)
  /\ UNCHANGED sampleVars

Handlers == (Notices \/ Release) /\ UNCHANGED sampleVars

MainStep == Begin \/ Listed \/ NotListed \/ Reads \/ Raises \/ Fails \/ Ends
WorkerStep(w) ==
  \/ Inspects(w) \/ InspectFails(w) \/ FoundExited(w) \/ FoundRunning(w)
  \/ AsksStats(w) \/ GetsStats(w)

Next == MainStep \/ (\E w \in Workers : WorkerStep(w)) \/ (\E c \in Callers : Calls(c)) \/ Handlers

Spec == Init /\ [][Next]_vars

\* Threads that can go on do, and time limits run out; Docker answers or does not.
Fairness ==
  /\ WF_vars(MainStep) /\ WF_vars(\E w \in Workers : WorkerStep(w))
  /\ HandlersGoOn /\ TimeRunsOut

FairSpec == Spec /\ Fairness

-----------------------------------------------------------------------------
TypeOK ==
  /\ GatewayTypeOK
  /\ phase \in {"waiting", "listing", "sampling", "failing"}
  /\ items \subseteq Containers /\ unasked \subseteq unread /\ unread \subseteq items
  /\ work \in [Workers -> [item : Containers \cup {0}, source : {"none", "inspect", "stats"}]]
  /\ result \in [Containers -> {NoResult, InspectError} \cup Found]
  /\ ok \in BOOLEAN /\ refused \in BOOLEAN /\ limited \in BOOLEAN
  /\ last \in [Containers -> Told] /\ offered \in [Containers -> Told]

\* A sample that says it is ok has the state of every selected container and the
\* statistics of every running one, and every record of it was taken
\* (collector.py, sample: ok).
OkMeansComplete ==
  (phase = "waiting" /\ ok) =>
    /\ ~limited /\ ~refused
    /\ \A i \in items : result[i].state \in States /\ (result[i].state = "running" => result[i].stats)

\* Leaving out unchanged states hides nothing: when a sample has ended, the last
\* state that was offered of each container it found is the one it found, and was
\* offered less than 300 s ago.  It may have been refused, and that sample was not
\* ok (collector.py, sample: last_states).
StatesAreTold ==
  phase = "waiting" =>
    \A i \in items : result[i].state \in States =>
      offered[i].state = result[i].state /\ offered[i].age < Repeat

\* Whatever Docker does, a sample ends, with as many slots as there are left.
SampleEnds == phase # "waiting" ~> phase = "waiting"

\* The collector uses the gateway only as the gateway allows: it takes what a call
\* has come to before it makes the next one.
ImplementsGateway == GatewaySpec
=============================================================================
