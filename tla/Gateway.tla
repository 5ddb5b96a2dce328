------------------------------- MODULE Gateway -------------------------------
(***************************************************************************)
(* The Docker GET gateway (Server and Handler of proxy.py) and the calls   *)
(* that Docker.get of docker.py makes through it.  A semaphore bounds the  *)
(* handler threads; whoever comes when no slot is free is disconnected.    *)
(* A handler asks Docker for 65 s at most between two bytes and copies an  *)
(* answer for about 60 s; a caller waits for 15 s.  A handler whose caller *)
(* has left keeps its slot until it finds out, so slots may be held by     *)
(* handlers that nobody waits for.                                         *)
(*                                                                         *)
(* All callers ask for permitted paths only; the 403 answers are left out. *)
(***************************************************************************)
EXTENDS Integers, FiniteSets

CONSTANTS
  Callers,    \* who may call at the same time; each makes one call at a time
  Slots,      \* the semaphore's value, 8
  MaxLost     \* bound: threads that cannot be started

ASSUME GatewayAssumption == IsFiniteSet(Callers) /\ Slots \in Nat \ {0} /\ MaxLost \in Nat

VARIABLES
  slots,      \* the value of the semaphore
  call,       \* what each caller's call has come to
  left,       \* handlers whose callers have left
  ending,     \* handlers that have disconnected their callers and hold a slot
  lost        \* slots taken for threads that never ran

gatewayVars == <<slots, call, left, ending, lost>>

\* A call that is under way: Docker was asked, or its answer is being copied.
UnderWay == {"asking", "copying"}
\* How a call ends.  A connection that is closed early ends like one whose answer
\* is complete, since an answer's length is not announced to the caller.
Replies == {"whole", "cut", "error"}

Live == {c \in Callers : call[c] \in UnderWay}

GatewayInit ==
  /\ slots = Slots /\ left = 0 /\ ending = 0 /\ lost = 0
  /\ call = [c \in Callers |-> "none"]

-----------------------------------------------------------------------------
\* process_request with a free slot: the handler's thread runs.
Admit(c) ==
  /\ call[c] = "none" /\ slots > 0
  /\ slots' = slots - 1
  /\ call' = [call EXCEPT ![c] = "asking"]
  /\ UNCHANGED <<left, ending, lost>>

\* process_request without one: the connection is shut.
Refuse(c) ==
  /\ call[c] = "none" /\ slots = 0
  /\ call' = [call EXCEPT ![c] = "error"]
  /\ UNCHANGED <<slots, left, ending, lost>>

\* The thread cannot be started: socketserver shuts the connection, and nothing
\* releases the slot.
NeverStarts(c) ==
  /\ call[c] = "none" /\ slots > 0 /\ lost < MaxLost
  /\ slots' = slots - 1 /\ lost' = lost + 1
  /\ call' = [call EXCEPT ![c] = "error"]
  /\ UNCHANGED <<left, ending>>

Connect(c) == Admit(c) \/ Refuse(c) \/ NeverStarts(c)

\* Docker's status and headers are passed on.
Answers(c) ==
  /\ call[c] = "asking"
  /\ call' = [call EXCEPT ![c] = "copying"]
  /\ UNCHANGED <<slots, left, ending, lost>>

\* A handler's last write, after which its connection is shut: the slot is
\* released only then.
Disconnect(c, reply) ==
  /\ call' = [call EXCEPT ![c] = reply]
  /\ ending' = ending + 1
  /\ UNCHANGED <<slots, left, lost>>

\* Docker refuses the connection or is silent for 65 s: 502.
Unanswered(c) == call[c] = "asking" /\ Disconnect(c, "error")

Copied(c) == call[c] = "copying" /\ Disconnect(c, "whole")

\* Docker fails in the middle of its answer, or the 60 s or 16 MiB are used up:
\* the status was sent, so nothing tells the caller.
CutOff(c) == call[c] = "copying" /\ Disconnect(c, "cut")

\* A slip: a caller's time runs out only while nothing has come.
GivesUpUnanswered(c) ==
  /\ call[c] = "asking"
  /\ call' = [call EXCEPT ![c] = "error"]
  /\ left' = left + 1
  /\ UNCHANGED <<slots, ending, lost>>

\* The caller leaves: 15 s without a byte, a status that is an error, or more
\* bytes than it takes.
GivesUp(c) ==
  /\ call[c] \in UnderWay
  /\ call' = [call EXCEPT ![c] = "error"]
  /\ left' = left + 1
  /\ UNCHANGED <<slots, ending, lost>>

\* A slip: a handler whose write fails is not released.
NoticesUnreleased ==
  /\ left > 0
  /\ left' = left - 1
  /\ UNCHANGED <<slots, call, ending, lost>>

\* A handler whose caller has left is done: a write fails, or Docker or its own
\* time ends.
Notices ==
  /\ left > 0
  /\ left' = left - 1 /\ ending' = ending + 1
  /\ UNCHANGED <<slots, call, lost>>

\* A slip: the slot is released twice, by the handler and by the server.
ReleaseTwice ==
  /\ ending > 0
  /\ ending' = ending - 1 /\ slots' = slots + 2
  /\ UNCHANGED <<call, left, lost>>

\* process_request_thread, finally.
Release ==
  /\ ending > 0
  /\ ending' = ending - 1 /\ slots' = slots + 1
  /\ UNCHANGED <<call, left, lost>>

\* The caller takes what its call has come to.
Takes(c) ==
  /\ call[c] \in Replies
  /\ call' = [call EXCEPT ![c] = "none"]
  /\ UNCHANGED <<slots, left, ending, lost>>

GatewayNext ==
  \/ \E c \in Callers : \/ Connect(c) \/ Answers(c) \/ Unanswered(c) \/ Copied(c)
                        \/ CutOff(c) \/ GivesUp(c) \/ Takes(c)
  \/ Notices
  \/ Release

GatewaySpec == GatewayInit /\ [][GatewayNext]_gatewayVars

\* Handlers and callers have time limits of their own; Docker owes nothing.
HandlersGoOn == WF_gatewayVars(Notices) /\ WF_gatewayVars(Release)
TimeRunsOut == WF_gatewayVars(\E c \in Callers : GivesUp(c))

-----------------------------------------------------------------------------
GatewayTypeOK ==
  /\ {slots, left, ending, lost} \subseteq Nat
  /\ call \in [Callers -> {"none"} \cup UnderWay \cup Replies]

\* Every slot that is not free is held once: by the handler of one call, by a
\* handler that nobody waits for, or by a thread that never ran (proxy.py,
\* process_request and process_request_thread).
SlotsAccounted == slots + Cardinality(Live) + left + ending + lost = Slots

\* As long as the slots outnumber the callers, nobody is refused because of the
\* others' calls: a refusal takes as many handlers without a caller, ended calls
\* or lost slots as there are slots to spare (proxy.py, Server, 8 slots).
RefusalsHaveACause ==
  [][\A c \in Callers : Refuse(c) => left + ending + lost > Slots - Cardinality(Callers)]_gatewayVars

\* Held slots come back, unless every one of them is lost, whatever Docker does.
SlotsComeBack == slots = 0 ~> slots > 0 \/ lost = Slots
=============================================================================
