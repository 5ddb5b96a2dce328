----------------------------- MODULE NvmeCache ------------------------------
(***************************************************************************)
(* The privileged NVMe probe (nvme.py, capture and main) and the host      *)
(* helper that reads its cache and copies it into the spool (nvme.py,      *)
(* read_cache; host.py, nvme_smart).                                       *)
(*                                                                         *)
(* A controller's name says nothing about the device behind it: devices    *)
(* are exchanged while either process looks at them, and names change      *)
(* owners over a reboot.  An identity, a digest of the boot and of the     *)
(* device, is the pair of them here.  A step ends at every look at a       *)
(* device, at the write and the read of the cache and at every append.     *)
(***************************************************************************)
EXTENDS Integers, FiniteSets

CONSTANTS
  Names,       \* names of controllers
  Coverage,    \* the key of the row about the probe itself
  MaxAge,      \* 7 hours
  Day,         \* length of a date
  Devices,     \* the drives that there are, as positive numbers
  MaxTime, MaxBoots, MaxFaults   \* bounds

ASSUME NvmeCacheAssumption ==
  /\ Coverage \notin Names /\ IsFiniteSet(Names)
  /\ {Day, MaxBoots} \cup Devices \subseteq Nat \ {0}
  /\ {MaxAge, MaxTime, MaxFaults} \subseteq Nat

VARIABLES
  now, boot, plugged,            \* clock, current boot, device behind each name
  cache,                         \* smart.json
  ppc, todo, name, id, data, diagnostic, rows, issue,   \* the probe
  hpc, begun, names, copy, left, out, sig, seen,   \* the helper's round, and _nvme_seen
  heard,                         \* latest date whose spool speaks of a key, or was full
  faults

worldVars == <<now, boot, plugged>>
probeVars == <<ppc, todo, name, id, data, diagnostic, rows, issue>>
roundVars == <<hpc, begun, names, copy, left, out, sig>>
helperVars == <<roundVars, seen>>
vars == <<worldVars, cache, probeVars, helperVars, heard, faults>>

None == <<>>
NoName == Coverage
NoDevice == 0
Never == -1
NoSignature == [key |-> Coverage, date |-> Never, row |-> None]
Keys == Names \cup {Coverage}
Date(t) == t \div Day
Present == {n \in Names : plugged[n] # NoDevice}
Identity(n) == <<boot, n, plugged[n]>>
NoCache == [boot |-> 0, at |-> 0, rows |-> None, issue |-> FALSE]

Init ==
  /\ now = 0 /\ boot = 1 /\ plugged = [n \in Names |-> NoDevice]
  /\ cache = NoCache
  /\ ppc = "idle" /\ todo = {} /\ name = NoName /\ id = None /\ data = None
  /\ diagnostic = None /\ rows = None /\ issue = FALSE
  /\ hpc = "idle" /\ begun = 0 /\ names = {} /\ copy = NoCache /\ left = {} /\ out = None
  /\ sig = NoSignature /\ seen = [k \in Keys |-> NoSignature]
  /\ heard = [k \in Keys |-> Never] /\ faults = 0

Fault == faults < MaxFaults /\ faults' = faults + 1

-----------------------------------------------------------------------------
(* The probe: one run of its timer *)

\* The probe is over; what it found is gone with it.
ProbeIdle ==
  /\ ppc' = "idle" /\ todo' = {} /\ name' = NoName /\ id' = None /\ data' = None
  /\ diagnostic' = None /\ rows' = None /\ issue' = FALSE

Probe == UNCHANGED <<worldVars, helperVars, heard>>

ProbeStart ==
  /\ ppc = "idle" /\ ppc' = "next"
  /\ \/ todo' = Present /\ UNCHANGED <<issue, faults>>
     \/ issue' = TRUE /\ Fault /\ UNCHANGED todo
  /\ UNCHANGED <<cache, name, id, data, diagnostic, rows>> /\ Probe

\* A row with what has been found about a controller.
Keep(n, i, d) ==
  /\ ppc' = "next" /\ name' = NoName /\ id' = None /\ data' = None /\ diagnostic' = None
  /\ rows' = [m \in {n} \cup IF rows = None THEN {} ELSE DOMAIN rows |->
                IF m = n THEN [id |-> i, data |-> d, diagnostic |-> diagnostic, at |-> now] ELSE rows[m]]

LookBefore ==
  /\ ppc = "next"
  /\ \E n \in todo :
       /\ todo' = todo \ {n}
       /\ IF plugged[n] = NoDevice
          THEN Keep(n, None, None)
          ELSE ppc' = "smart" /\ name' = n /\ id' = Identity(n) /\ UNCHANGED <<data, diagnostic, rows>>
  /\ UNCHANGED <<cache, issue, faults>> /\ Probe

\* smartctl reads whatever device is there, or fails; an answer without the health
\* log, which counts as a fault, is a diagnostic.
Smartctl ==
  /\ ppc = "smart" /\ ppc' = "again"
  /\ \/ plugged[name] # NoDevice /\ data' = Identity(name) /\ UNCHANGED <<diagnostic, faults>>
     \/ plugged[name] # NoDevice /\ data' = None /\ diagnostic' = Identity(name) /\ Fault
     \/ data' = None /\ UNCHANGED <<diagnostic, faults>>
  /\ UNCHANGED <<cache, todo, name, id, rows, issue>> /\ Probe

\* A slip: the identity before the reading is taken for good.
TrustFirstLook ==
  /\ ppc = "again" /\ Keep(name, id, data)
  /\ UNCHANGED <<cache, todo, issue, faults>> /\ Probe

\* Data of a device that left meanwhile are dropped; the row stays, and so does a
\* diagnostic, whosever it is.
LookAfter ==
  /\ ppc = "again"
  /\ Keep(name, id, IF Identity(name) = id THEN data ELSE None)
  /\ UNCHANGED <<cache, todo, issue, faults>> /\ Probe

\* The cache is replaced whatever was found; too large a one keeps no rows.
ProbeWrite ==
  /\ ppc = "next" /\ todo = {}
  /\ \/ cache' = [boot |-> boot, at |-> now, rows |-> rows, issue |-> issue] /\ UNCHANGED faults
     \/ cache' = [boot |-> boot, at |-> now, rows |-> None, issue |-> TRUE] /\ Fault
  /\ ProbeIdle /\ Probe

\* A failed write, or the end of the process.
ProbeDies == ppc # "idle" /\ Fault /\ ProbeIdle /\ UNCHANGED cache /\ Probe

ProbeStep == ProbeStart \/ LookBefore \/ Smartctl \/ LookAfter \/ ProbeWrite \/ ProbeDies

-----------------------------------------------------------------------------
(* The helper *)

HelperIdle ==
  /\ hpc' = "idle" /\ begun' = 0 /\ names' = {} /\ copy' = NoCache /\ left' = {}
  /\ out' = None /\ sig' = NoSignature

Helper == UNCHANGED <<worldVars, cache, probeVars>>

HelperStart ==
  /\ hpc = "idle" /\ Present # {} /\ hpc' = "read" /\ begun' = now /\ names' = Present
  /\ UNCHANGED <<copy, left, out, sig, seen, heard, faults>> /\ Helper

Gap == [id |-> None, data |-> None, diagnostic |-> None, at |-> 0]
RowsOf(c) == IF c.rows = None THEN {} ELSE DOMAIN c.rows

\* Every controller gets the cache's error.
Emit(o) == hpc' = "emit" /\ out' = o /\ copy' = NoCache /\ left' = {}
EmitGaps == Emit([n \in names |-> Gap])

InTime(t) == now - t <= MaxAge

HelperRead ==
  /\ hpc = "read"
  /\ IF \/ cache.boot # boot \/ ~InTime(cache.at)
        \/ \E n \in RowsOf(cache) : ~InTime(cache.rows[n].at)
     THEN EmitGaps
     ELSE /\ hpc' = "check" /\ copy' = cache /\ UNCHANGED out
          /\ left' = {n \in RowsOf(cache) : cache.rows[n].id # None}
  /\ UNCHANGED <<begun, names, sig, seen, heard, faults>> /\ Helper

\* A slip: the device is not looked at again.
TrustCache ==
  /\ hpc = "check"
  /\ \E n \in left : left' = left \ {n}
  /\ UNCHANGED <<hpc, out, copy, begun, names, sig, seen, heard, faults>> /\ Helper

\* One controller that is not the one the probe saw spoils the whole cache.
CheckIdentity ==
  /\ hpc = "check"
  /\ \E n \in left :
       IF Identity(n) = copy.rows[n].id
       THEN left' = left \ {n} /\ UNCHANGED <<hpc, out, copy>>
       ELSE EmitGaps
  /\ UNCHANGED <<begun, names, sig, seen, heard, faults>> /\ Helper

Accept ==
  /\ hpc = "check" /\ left = {}
  /\ Emit([k \in names \cup (IF copy.issue THEN {Coverage} ELSE {}) |->
             IF k \in RowsOf(copy) THEN copy.rows[k] ELSE Gap])
  /\ UNCHANGED <<begun, names, sig, seen, heard, faults>> /\ Helper

Pending == IF out = None THEN {} ELSE DOMAIN out
Done(k) == out' = IF Pending = {k} THEN None ELSE [m \in Pending \ {k} |-> out[m]]

\* A slip: a row is told again only when it changes.
SignatureOfRow(k) == [key |-> k, date |-> 0, row |-> out[k]]

Signature(k) == [key |-> k, date |-> Date(now), row |-> out[k]]

\* A row that this date has had already is left out; the others go to append().
Choose ==
  /\ hpc = "emit"
  /\ \E k \in Pending :
       /\ Done(k)
       /\ IF seen[k] = Signature(k)
          THEN UNCHANGED <<hpc, sig>>
          ELSE hpc' = "append" /\ sig' = Signature(k)
  /\ UNCHANGED <<begun, names, copy, left, seen, heard, faults>> /\ Helper

Remember == seen' = [seen EXCEPT ![sig.key] = sig]

\* append() stamps the row, and takes it or writes gap.json.
AppendRow ==
  /\ hpc = "append" /\ hpc' = "emit" /\ sig' = NoSignature /\ Remember
  /\ heard' = [heard EXCEPT ![sig.key] = Date(now)]
  /\ UNCHANGED <<begun, names, copy, left, out, faults>> /\ Helper

\* A slip: the row counts as told before append() has taken it.
RememberFirst ==
  /\ hpc = "append" /\ Fault /\ HelperIdle /\ Remember
  /\ UNCHANGED heard /\ Helper

\* append() raises: the row is not remembered, the others wait for a new round.
HelperFails ==
  /\ hpc = "append" /\ Fault /\ HelperIdle
  /\ UNCHANGED <<seen, heard>> /\ Helper

HelperEnd ==
  /\ hpc = "emit" /\ Pending = {} /\ HelperIdle
  /\ UNCHANGED <<seen, heard, faults>> /\ Helper

HelperRestart ==
  /\ Fault /\ HelperIdle /\ seen' = [k \in Keys |-> NoSignature] /\ UNCHANGED heard /\ Helper

HelperStep ==
  \/ HelperStart \/ HelperRead \/ CheckIdentity \/ Accept \/ Choose \/ AppendRow
  \/ HelperFails \/ HelperEnd \/ HelperRestart

-----------------------------------------------------------------------------
(* The host.  A device may come back, though not within one reading. *)

Exchange ==
  /\ \E n \in Names, d \in {NoDevice} \cup Devices :
       /\ \A m \in Names : d # NoDevice => plugged[m] # d
       /\ plugged' = [plugged EXCEPT ![n] = d]
       /\ ppc \in {"smart", "again"} => id # <<boot, n, d>>
  /\ UNCHANGED <<now, boot, cache, probeVars, helperVars, heard, faults>>

Reboot ==
  /\ boot < MaxBoots /\ boot' = boot + 1 /\ ProbeIdle /\ HelperIdle
  /\ seen' = [k \in Keys |-> NoSignature]
  /\ UNCHANGED <<now, plugged, cache, heard, faults>>

Tick ==
  /\ now < MaxTime /\ now' = now + 1
  /\ UNCHANGED <<boot, plugged, cache, probeVars, helperVars, heard, faults>>

Next == ProbeStep \/ HelperStep \/ Exchange \/ Reboot \/ Tick

Spec == Init /\ [][Next]_vars
-----------------------------------------------------------------------------
(* Properties *)

\* Every variable has its type.
Identities == {None} \cup ((1 .. MaxBoots) \X Names \X (Devices \cup {NoDevice}))
Rows == [id : Identities, data : Identities, diagnostic : Identities, at : 0 .. MaxTime]
IsRows(f, S) == f = None \/ (DOMAIN f \subseteq S /\ \A k \in DOMAIN f : f[k] \in Rows)
IsCache(c) ==
  /\ DOMAIN c = {"boot", "at", "rows", "issue"}
  /\ c.boot \in 0 .. MaxBoots /\ c.at \in 0 .. MaxTime /\ c.issue \in BOOLEAN
  /\ IsRows(c.rows, Names)
Signatures == [key : Keys, date : {Never} \cup Nat, row : {None} \cup Rows]
TypeOK ==
  /\ now \in 0 .. MaxTime /\ boot \in 1 .. MaxBoots /\ plugged \in [Names -> Devices \cup {NoDevice}]
  /\ IsCache(cache) /\ IsCache(copy) /\ IsRows(rows, Names) /\ IsRows(out, Keys)
  /\ ppc \in {"idle", "next", "smart", "again"} /\ todo \subseteq Names /\ name \in Keys
  /\ {id, data, diagnostic} \subseteq Identities /\ issue \in BOOLEAN
  /\ hpc \in {"idle", "read", "check", "emit", "append"} /\ begun \in 0 .. now
  /\ names \subseteq Names /\ left \subseteq Names
  /\ sig \in Signatures /\ seen \in [Keys -> Signatures]
  /\ heard \in [Keys -> Never .. Date(now)] /\ faults \in 0 .. MaxFaults

\* Health data are taken for a controller only when they were read in this
\* boot from the very device that is behind its name when read_cache() looks,
\* whatever was exchanged while the probe read, since it wrote the cache or
\* over a reboot (nvme.py:129-154 and 221-226).  It says nothing of diagnostics:
\* nvme.py:153 takes the data out of the row and leaves what nvme.py:143 put in.
SameDevice ==
  [][\A n \in left :
       (hpc = "check" /\ hpc' = "check" /\ n \notin left')
         => copy.rows[n].data \in {None, Identity(n)}]_vars

\* A round that begins and ends on one date leaves a row about each of its
\* controllers in that date's spool (or the notice that it is full), however
\* long the row stays the same, a row is chosen just before midnight or an
\* append fails ("Re-emit an unchanged gap daily", host.py:94).
DailyWord ==
  [][(hpc = "emit" /\ hpc' = "idle" /\ faults' = faults /\ boot' = boot /\ Date(begun) = Date(now))
       => \A n \in names : heard[n] = Date(now)]_vars
=============================================================================
