------------------------------- MODULE Command -------------------------------
(***************************************************************************)
(* command() of common.py: run a program with a limit on its output and on *)
(* its time.  The function is sequential, so what it returns follows from  *)
(* what the program does.  A program is a record                           *)
(*                                                                         *)
(*   wrote   the bytes it and its descendants have written by each time,   *)
(*   eof     when the last process that holds the pipe lets it go,         *)
(*   exit    when the program itself ends (its descendants may go on),     *)
(*   code    its exit status.                                              *)
(*                                                                         *)
(* Time is in units of the 0.25 s for which select waits at most, and the  *)
(* least wait of 0.1 s counts as none.  SIGKILL is taken to end the whole  *)
(* group at once.  A program that is not installed is left out: its result *)
(* is an error and nothing runs.                                           *)
(***************************************************************************)
EXTENDS Integers

CONSTANTS
  Timeout,    \* the timeout argument
  Limit,      \* the limit argument, in bytes
  MaxWait     \* bound: how long after the timeout a program may go on by itself

ASSUME CommandAssumption == {Timeout, Limit, MaxWait} \subseteq Nat \ {0}

LastTime == Timeout + MaxWait
Times == 0 .. LastTime
Killed == -9
Output(p) == p.wrote[LastTime]

\* A descendant that inherited the pipe may write and hold it after the program
\* has ended; nothing is written after the pipe was let go.
Programs ==
  {p \in [wrote : [Times -> 0 .. Limit + 1], eof : Times, exit : Times, code : {0, 1}] :
     /\ \A t \in Times \ {0} : p.wrote[t - 1] <= p.wrote[t]
     /\ p.wrote[p.eof] = Output(p)}

Least(s, t) == IF s < t THEN s ELSE t
Greatest(s, t) == IF s < t THEN t ELSE s

\* A slip: output is cut off only beyond the limit, where the buffer never gets.
OverLimit(p, t) == Least(p.wrote[t], Limit) > Limit
LimitReached(p, t) == Least(p.wrote[t], Limit) >= Limit

\* The loop reads until the pipe is at its end, the limit or the timeout is
\* reached.  A read that fills the limit comes before the one that sees the end.
LoopEnd(p) ==
  CHOOSE t \in 0 .. Timeout :
    /\ t = Timeout \/ p.eof = t \/ LimitReached(p, t)
    /\ \A s \in 0 .. t - 1 : p.eof # s /\ ~LimitReached(p, s)

LoopTimedOut(p) == LoopEnd(p) = Timeout
Truncated(p) == ~LoopTimedOut(p) /\ LimitReached(p, LoopEnd(p))

\* At the timeout the loop does not read again.
Text(p) ==
  Least(Limit, p.wrote[IF LoopTimedOut(p) THEN Timeout - 1 ELSE LoopEnd(p)])

\* A slip: only a program that reached a limit is killed before the wait.
KillsTruncated(p) == Truncated(p)
KilledAfterLoop(p) == Truncated(p) \/ LoopTimedOut(p)

\* A slip: a program whose pipe has ended is waited for as long as it takes.
WaitsForExit(p) == IF KilledAfterLoop(p) THEN LoopEnd(p) ELSE p.exit
\* proc.poll, or proc.wait for what is left of the time.
WaitEnd(p) == IF KilledAfterLoop(p) THEN LoopEnd(p)
              ELSE Least(Greatest(p.exit, LoopEnd(p)), Timeout)

KilledAfterWait(p) == ~KilledAfterLoop(p) /\ p.exit > WaitEnd(p)
TimedOut(p) == LoopTimedOut(p) \/ KilledAfterWait(p)

\* A program that has ended by itself keeps its status until it is fetched.
Returncode(p) == IF p.exit > WaitEnd(p) THEN Killed ELSE p.code

\* A slip: the status alone decides.
OkByStatus(p) == Returncode(p) = 0
Ok(p) == Returncode(p) = 0 /\ ~Truncated(p) /\ ~TimedOut(p)

-----------------------------------------------------------------------------
\* What a caller may conclude: with ok the program ended by itself with status
\* zero and the text is everything that it or a descendant wrote; text that is
\* missing is never passed off as whole, and a failure is never without a
\* reason (common.py, command, 175-177).
TellsAll(p) ==
  /\ Ok(p) => p.exit <= WaitEnd(p) /\ p.code = 0 /\ Text(p) = Output(p)
  /\ Text(p) < Output(p) => Truncated(p) \/ TimedOut(p)
  /\ ~Ok(p) => Returncode(p) # 0 \/ Truncated(p) \/ TimedOut(p)

\* "bound output, wall time, and subprocess descendants": the text stays within
\* the limit, the call returns within its time, and no process that still holds
\* the pipe survives it, whatever descendants do (common.py, command, 133-174).
IsBounded(p) ==
  /\ Text(p) <= Limit /\ WaitEnd(p) <= Timeout
  /\ p.eof <= WaitEnd(p) \/ KilledAfterLoop(p) \/ KilledAfterWait(p)
=============================================================================
