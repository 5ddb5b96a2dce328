------------------------------- MODULE Uploader -------------------------------
(***************************************************************************)
(* The uploader process of homelab_health (uploader.py, transport.py).     *)
(*                                                                         *)
(* The collector publishes a bundle in the outbox as an archive and, after *)
(* it, a completion marker.  Every pass of the uploader copies unsent      *)
(* bundles to a Drive folder (archive, marker, then the parts of the text  *)
(* mirror and their index), saves what it sent in a record, and removes    *)
(* the copies of reviewed bundles that are old enough.  One action is one  *)
(* rclone call or one durable local write: anything may happen in between, *)
(* the end of the process included.                                        *)
(*                                                                         *)
(* A Drive file is [bundle, kind, id, intact, refs]: id is its Drive ID,   *)
(* intact says that its bytes are those that were uploaded, and refs are   *)
(* the IDs that its text embeds (only the index embeds any).               *)
(***************************************************************************)
EXTENDS Integers, FiniteSets

CONSTANTS
  Bundles,        \* what the collector may ever publish, by archive SHA-256
  NoBundle,       \* the value of cur between two bundles
  NParts,         \* text parts of an archive
  TextTransport,  \* the text_transport setting
  LocalDays,      \* the local_days setting
  DriveDays,      \* the drive_days setting
  BadReceipts,    \* the kinds of rejected receipts the reviewer may write
  LateCopies,     \* may a copy that timed out still land later?
  MaxDay,         \* bound: the clock's last day
  MaxFaults,      \* bound: failed rclone calls
  MaxCrashes,     \* bound: process restarts in the middle of a pass
  MaxOutside      \* bound: changes made to the copies by others

Archive == 1
Marker == 2
Part(n) == n + 2
Index == NParts + 3
Kinds == 1 .. Index
PartKinds == 3 .. (NParts + 2)

ASSUME UploaderAssumption ==
  /\ NoBundle \notin Bundles
  /\ NParts \in Nat \ {0}
  /\ TextTransport \in BOOLEAN /\ LateCopies \in BOOLEAN
  /\ LocalDays \in Nat \ {0} /\ DriveDays \in Nat /\ LocalDays <= DriveDays
  /\ BadReceipts \subseteq {"oversized", "malformed", "invalid"}
  /\ {MaxDay, MaxFaults, MaxCrashes, MaxOutside} \subseteq Nat

VARIABLES
  stage, archive, ready, born,       \* outbox: progress, archive, markers, day finished
  inbox, made, landing,              \* Drive: files, IDs given out, copies still in flight
  receipt, reviewed,                 \* Reports folder; receipts ever issued (history)
  record, waiting, health,           \* state directory: uploaded-*, retry-*, status.json
  clock,
  pc, todo, cur, k, ids,             \* the pass: bundles left, current bundle and file
  at, pending, bad, receiptsSeen, inboxSeen,
  faults, crashes, outside           \* what has been used of the bounds

outboxVars == <<stage, archive, ready, born>>
driveVars == <<inbox, made, landing>>
reviewVars == <<receipt, reviewed>>
stateVars == <<record, waiting, health>>
passVars == <<pc, todo, cur, k, ids, at, pending, bad, receiptsSeen, inboxSeen>>
boundVars == <<faults, crashes, outside>>
vars == <<outboxVars, driveVars, reviewVars, stateVars, clock, passVars, boundVars>>

NoIds == [j \in Kinds |-> 0]
NoRecord == [up |-> FALSE, ids |-> NoIds, mirrored |-> FALSE,
             localDeleted |-> FALSE, driveDeleted |-> FALSE]
NoReceipt == [kind |-> "absent", id |-> 0]
NoReceipts == [b \in Bundles |-> NoReceipt]

Files(b, j) == {f \in inbox : f.bundle = b /\ f.kind = j}
Has(b, j) == Files(b, j) # {}
Listed(b, j) == {f \in inboxSeen : f.bundle = b /\ f.kind = j}

\* A slip: the listing's duplicate check looks at the bundle, not at the name.
ListableByBundle == \A f, g \in inbox : f.bundle = g.bundle => f = g

\* Rclone.list refuses a folder with two files of one name.
Listable == \A f, g \in inbox : f.bundle = g.bundle /\ f.kind = g.kind => f = g

\* The index embeds the IDs of the archive and of the parts.
Refs(j, sent) == [i \in Kinds |-> IF j = Index /\ i \in PartKinds \cup {Archive}
                                  THEN sent[i] ELSE 0]

\* The size, MD5 and MIME type comparison of Rclone.put.
Matches(f, j, sent) == f.intact /\ f.refs = Refs(j, sent)

\* The ID, size and MD5 comparison of retention with what the record says.
Unchanged(f, r) == f.id = r.ids[f.kind] /\ Matches(f, f.kind, r.ids)

Complete(b) == record[b].up /\ (TextTransport => record[b].mirrored)

\* Slips: the age counts from the first day, or has to exceed the setting.
DueByCalendar(b, days) == at >= days
DueStrictly(b, days) == at - born[b] > days

Due(b, days) == at - born[b] >= days

Init ==
  /\ stage = [b \in Bundles |-> "none"]
  /\ archive = [b \in Bundles |-> "absent"]
  /\ ready = {} /\ born = [b \in Bundles |-> 0]
  /\ inbox = {} /\ made = [b \in Bundles |-> NoIds] /\ landing = {}
  /\ receipt = NoReceipts /\ reviewed = {}
  /\ record = [b \in Bundles |-> NoRecord] /\ waiting = {} /\ health = FALSE
  /\ clock = 0
  /\ pc = "idle" /\ todo = {} /\ cur = NoBundle /\ k = 0 /\ ids = NoIds
  /\ at = 0 /\ pending = 0 /\ bad = FALSE
  /\ receiptsSeen = NoReceipts /\ inboxSeen = {}
  /\ faults = 0 /\ crashes = 0 /\ outside = 0

Fault ==
  /\ faults < MaxFaults
  /\ faults' = faults + 1 /\ UNCHANGED <<crashes, outside>>

-----------------------------------------------------------------------------
(* The pass: once().  EndPass forgets what only the process remembers.      *)

EndPass ==
  /\ pc' = "idle" /\ todo' = {} /\ cur' = NoBundle /\ k' = 0 /\ ids' = NoIds
  /\ at' = 0 /\ pending' = 0 /\ bad' = FALSE
  /\ receiptsSeen' = NoReceipts /\ inboxSeen' = {}

\* An exception that leaves once(): run() reports it and waits for the next pass.
Abort == EndPass /\ health' = FALSE /\ UNCHANGED <<record, waiting>>

StartPass ==
  /\ pc = "idle"
  /\ pc' = "scan" /\ todo' = ready /\ at' = clock
  /\ UNCHANGED <<outboxVars, driveVars, reviewVars, stateVars, clock, boundVars,
                 cur, k, ids, pending, bad, receiptsSeen, inboxSeen>>

\* A slip: a bundle that waits for its retry is not counted as pending.
SkipUncounted(b) ==
  /\ pc = "scan" /\ b \in todo /\ (Complete(b) \/ b \in waiting)
  /\ todo' = todo \ {b}
  /\ UNCHANGED <<outboxVars, driveVars, reviewVars, stateVars, clock, boundVars,
                 pc, cur, k, ids, at, pending, bad, receiptsSeen, inboxSeen>>

\* A bundle already sent, or one whose retry is not due yet (still pending).
Skip(b) ==
  /\ pc = "scan" /\ b \in todo /\ (Complete(b) \/ b \in waiting)
  /\ todo' = todo \ {b}
  /\ pending' = IF Complete(b) THEN pending ELSE pending + 1
  /\ UNCHANGED <<outboxVars, driveVars, reviewVars, stateVars, clock, boundVars,
                 pc, cur, k, ids, at, bad, receiptsSeen, inboxSeen>>

\* upload_one starts with the local files.
BeginUpload(b) ==
  /\ pc = "scan" /\ b \in todo /\ ~Complete(b) /\ b \notin waiting
  /\ archive[b] = "intact"
  /\ pc' = "list" /\ cur' = b /\ k' = Archive /\ pending' = pending + 1
  /\ UNCHANGED <<outboxVars, driveVars, reviewVars, stateVars, clock, boundVars,
                 todo, ids, at, bad, receiptsSeen, inboxSeen>>

\* The bundle is finished with for this pass; to is where the loop continues.
NextBundle(b, to) ==
  /\ pc' = to /\ todo' = todo \ {b} /\ cur' = NoBundle /\ k' = 0 /\ ids' = NoIds
  /\ UNCHANGED <<at, receiptsSeen, inboxSeen>>

\* upload_one raised: a retry file delays the next attempt.
UploadFails(b) ==
  /\ NextBundle(b, "scan") /\ bad' = TRUE
  /\ waiting' = waiting \cup {b} /\ UNCHANGED <<record, health>>

RejectLocal(b) ==
  /\ pc = "scan" /\ b \in todo /\ ~Complete(b) /\ b \notin waiting
  /\ archive[b] # "intact"
  /\ UploadFails(b) /\ pending' = pending + 1
  /\ UNCHANGED <<outboxVars, driveVars, reviewVars, clock, boundVars>>

-----------------------------------------------------------------------------
(* Rclone.put of file k of bundle cur: list, copy when absent, list again.  *)

ListBefore ==
  /\ pc = "list" /\ Listable
  /\ \A f \in Files(cur, k) : Matches(f, k, ids)
  /\ pc' = IF Has(cur, k) THEN "verify" ELSE "copy"
  /\ UNCHANGED <<outboxVars, driveVars, reviewVars, stateVars, clock, boundVars,
                 todo, cur, k, ids, at, pending, bad, receiptsSeen, inboxSeen>>

NewFile(b, j, sent) ==
  [bundle |-> b, kind |-> j, id |-> made[b][j] + 1, intact |-> TRUE, refs |-> Refs(j, sent)]

AddFile(f) ==
  /\ inbox' = inbox \cup {f}
  /\ made' = [made EXCEPT ![f.bundle][f.kind] = f.id]

\* rclone copyto --immutable leaves a file that is already there alone.
CopyFile ==
  /\ pc = "copy" /\ pc' = "verify"
  /\ \/ ~Has(cur, k) /\ AddFile(NewFile(cur, k, ids)) /\ UNCHANGED landing
     \/ \E f \in Files(cur, k) : Matches(f, k, ids) /\ UNCHANGED driveVars
  /\ UNCHANGED <<outboxVars, reviewVars, stateVars, clock, boundVars,
                 todo, cur, k, ids, at, pending, bad, receiptsSeen, inboxSeen>>

\* The copy fails: before the file is there, after it, or long before it lands.
CopyFails ==
  /\ pc = "copy" /\ Fault /\ UploadFails(cur)
  /\ \/ UNCHANGED driveVars
     \/ ~Has(cur, k) /\ AddFile(NewFile(cur, k, ids)) /\ UNCHANGED landing
     \/ /\ LateCopies /\ landing' = landing \cup {NewFile(cur, k, ids)}
        /\ UNCHANGED <<inbox, made>>
  /\ UNCHANGED <<outboxVars, reviewVars, clock, pending>>

\* The listing afterwards must show the file that was meant.
Verify ==
  /\ pc = "verify" /\ Listable
  /\ \E f \in Files(cur, k) :
       /\ Matches(f, k, ids) /\ ids' = [ids EXCEPT ![k] = f.id]
       /\ IF k \in {Marker, Index} THEN pc' = "record" /\ UNCHANGED k
                                   ELSE pc' = "list" /\ k' = k + 1
  /\ UNCHANGED <<outboxVars, driveVars, reviewVars, stateVars, clock, boundVars,
                 todo, cur, at, pending, bad, receiptsSeen, inboxSeen>>

\* A listing that fails, shows duplicates, or shows something else.
PutFails ==
  /\ UploadFails(cur)
  /\ \/ pc \in {"list", "verify"} /\ Fault
     \/ /\ UNCHANGED boundVars
        /\ \/ pc \in {"list", "verify"} /\ ~Listable
           \/ pc \in {"list", "copy", "verify"} /\ \E f \in Files(cur, k) : ~Matches(f, k, ids)
           \/ pc = "verify" /\ ~Has(cur, k)
  /\ UNCHANGED <<outboxVars, driveVars, reviewVars, clock, pending>>

\* The record is written from scratch after the marker, and again with the
\* mirror after the index; the retry file goes with the last one.
SaveRecord ==
  /\ pc = "record"
  /\ record' = [record EXCEPT ![cur] =
       [NoRecord EXCEPT !.up = TRUE, !.ids = ids, !.mirrored = (k = Index)]]
  /\ IF k = Marker /\ TextTransport
     THEN /\ pc' = "list" /\ k' = Part(1)
          /\ UNCHANGED <<todo, cur, ids, at, pending, receiptsSeen, inboxSeen, waiting>>
     ELSE /\ NextBundle(cur, "scan")
          /\ pending' = pending - 1 /\ waiting' = waiting \ {cur}
  /\ UNCHANGED <<outboxVars, driveVars, reviewVars, clock, boundVars, bad, health>>

-----------------------------------------------------------------------------
(* retention(): two listings at its start, then every record.               *)

ListReports ==
  /\ pc = "scan" /\ todo = {}
  /\ pc' = "inbox" /\ receiptsSeen' = receipt
  /\ UNCHANGED <<outboxVars, driveVars, reviewVars, stateVars, clock, boundVars,
                 todo, cur, k, ids, at, pending, bad, inboxSeen>>

ListInbox ==
  /\ pc = "inbox" /\ Listable
  /\ pc' = "retain" /\ inboxSeen' = inbox /\ todo' = {b \in Bundles : record[b].up}
  /\ UNCHANGED <<outboxVars, driveVars, reviewVars, stateVars, clock, boundVars,
                 cur, k, ids, at, pending, bad, receiptsSeen>>

Unreviewed(b) ==
  /\ pc = "retain" /\ b \in todo /\ receiptsSeen[b].kind = "absent"
  /\ NextBundle(b, "retain")
  /\ UNCHANGED <<outboxVars, driveVars, reviewVars, stateVars, clock, boundVars, pending, bad>>

\* A slip: only an unparsable receipt is refused.
ParsedReceipt(b) == receipt[b].kind # "malformed"

\* valid_receipt: everything the receipt must say, the archive's ID included.
ValidReceipt(b) == receipt[b].kind = "complete" /\ receipt[b].id = record[b].ids[Archive]

RejectReceipt(b) ==
  /\ pc = "retain" /\ b \in todo
  /\ \/ receiptsSeen[b].kind = "oversized"
     \/ /\ receiptsSeen[b].kind \notin {"absent", "oversized"}
        /\ receipt[b].kind \notin {"absent", "oversized"} /\ ~ValidReceipt(b)
  /\ NextBundle(b, "retain") /\ bad' = TRUE
  /\ UNCHANGED <<outboxVars, driveVars, reviewVars, stateVars, clock, boundVars, pending>>

AcceptReceipt(b) ==
  /\ pc = "retain" /\ b \in todo
  /\ receiptsSeen[b].kind \notin {"absent", "oversized"} /\ ValidReceipt(b)
  /\ pc' = "local" /\ cur' = b
  /\ UNCHANGED <<outboxVars, driveVars, reviewVars, stateVars, clock, boundVars,
                 todo, k, ids, at, pending, bad, receiptsSeen, inboxSeen>>

\* A slip: the test of the Drive cleanup, which passes when a file is missing.
RemoteNotChanged(b) ==
  \A j \in {Archive, Marker} : \A f \in Listed(b, j) : Unchanged(f, record[b])

\* Is the copy that the listing showed the one the record describes?
RemoteVerified(b) ==
  \A j \in {Archive, Marker} : \E f \in Listed(b, j) : Unchanged(f, record[b])

\* A slip: the outbox is kept until after the Drive cleanup.
DueLocalLast == Due(cur, DriveDays + LocalDays) /\ ~record[cur].localDeleted

DueLocal == Due(cur, LocalDays) /\ ~record[cur].localDeleted
LocalRefused ==
  \/ ~record[cur].driveDeleted /\ ~RemoteVerified(cur)
  \/ archive[cur] = "changed"

KeepLocal ==
  /\ pc = "local" /\ DueLocal /\ LocalRefused
  /\ NextBundle(cur, "retain") /\ bad' = TRUE
  /\ UNCHANGED <<outboxVars, driveVars, reviewVars, stateVars, clock, boundVars, pending>>

LocalChecked ==
  /\ pc = "local" /\ (DueLocal => ~LocalRefused)
  /\ pc' = IF DueLocal THEN "unlinkReady" ELSE "drive"
  /\ UNCHANGED <<outboxVars, driveVars, reviewVars, stateVars, clock, boundVars,
                 todo, cur, k, ids, at, pending, bad, receiptsSeen, inboxSeen>>

\* A slip: the marker is left to whatever comes after the archive's removal.
UnlinkReadyLater ==
  /\ pc = "unlinkReady" /\ pc' = "unlinkArchive"
  /\ UNCHANGED <<outboxVars, driveVars, reviewVars, stateVars, clock, boundVars,
                 todo, cur, k, ids, at, pending, bad, receiptsSeen, inboxSeen>>

\* The marker goes first: an interrupted cleanup leaves no false ready pair.
UnlinkReady ==
  /\ pc = "unlinkReady" /\ pc' = "unlinkArchive"
  /\ ready' = ready \ {cur}
  /\ UNCHANGED <<stage, archive, born, driveVars, reviewVars, stateVars, clock, boundVars,
                 todo, cur, k, ids, at, pending, bad, receiptsSeen, inboxSeen>>

UnlinkArchive ==
  /\ pc = "unlinkArchive" /\ pc' = "markLocal"
  /\ archive' = [archive EXCEPT ![cur] = "absent"]
  /\ UNCHANGED <<stage, ready, born, driveVars, reviewVars, stateVars, clock, boundVars,
                 todo, cur, k, ids, at, pending, bad, receiptsSeen, inboxSeen>>

MarkLocal ==
  /\ pc = "markLocal" /\ pc' = "drive"
  /\ record' = [record EXCEPT ![cur].localDeleted = TRUE]
  /\ UNCHANGED <<outboxVars, driveVars, reviewVars, waiting, health, clock, boundVars,
                 todo, cur, k, ids, at, pending, bad, receiptsSeen, inboxSeen>>

\* A slip: both places use the same setting.
DueDriveEarly == Due(cur, LocalDays) /\ ~record[cur].driveDeleted

DueDrive == Due(cur, DriveDays) /\ ~record[cur].driveDeleted
Mirror(r) == IF r.mirrored THEN PartKinds \cup {Index} ELSE {}
\* A slip: the mirror's files are not compared with the listing.
DriveRefusedForPair ==
  \E j \in {Archive, Marker} : \E f \in Listed(cur, j) : ~Unchanged(f, record[cur])

DriveRefused ==
  \E j \in {Archive, Marker} \cup Mirror(record[cur]) :
    \E f \in Listed(cur, j) : ~Unchanged(f, record[cur])

KeepDrive ==
  /\ pc = "drive" /\ (DueDrive => DriveRefused)
  /\ NextBundle(cur, "retain") /\ bad' = (bad \/ DueDrive)
  /\ UNCHANGED <<outboxVars, driveVars, reviewVars, stateVars, clock, boundVars, pending>>

\* Slips in the deletion order: the archive before the marker, no archive at all,
\* a part past the last one.
DeleteArchiveFirst(j) ==
  IF j = Index THEN Part(1) ELSE IF j = Part(NParts) THEN Archive
  ELSE IF j \in PartKinds THEN j + 1 ELSE IF j = Archive THEN Marker ELSE 0
DeleteNoArchive(j) == IF j = Index THEN Part(1) ELSE IF j = Part(NParts) THEN Marker
                      ELSE IF j \in PartKinds THEN j + 1 ELSE 0
DeletePastIndex(j) == IF j = 0 THEN 0 ELSE j + 1

\* Deletion order: the index, the parts, the marker, the archive.
DeleteAfter(j) == IF j = Index THEN Part(1) ELSE IF j = Part(NParts) THEN Marker
                  ELSE IF j \in PartKinds THEN j + 1 ELSE j - 1

\* A slip: the parts go first and the index stays.
BeginWithParts ==
  /\ pc = "drive" /\ DueDrive /\ ~DriveRefused
  /\ pc' = "delete" /\ k' = IF record[cur].mirrored THEN Part(1) ELSE Marker
  /\ UNCHANGED <<outboxVars, driveVars, reviewVars, stateVars, clock, boundVars,
                 todo, cur, ids, at, pending, bad, receiptsSeen, inboxSeen>>

BeginDelete ==
  /\ pc = "drive" /\ DueDrive /\ ~DriveRefused
  /\ pc' = "delete" /\ k' = IF record[cur].mirrored THEN Index ELSE Marker
  /\ UNCHANGED <<outboxVars, driveVars, reviewVars, stateVars, clock, boundVars,
                 todo, cur, ids, at, pending, bad, receiptsSeen, inboxSeen>>

\* Rclone.delete looks again: absent is done, another ID is refused.
CheckDelete ==
  /\ pc = "delete" /\ k # 0 /\ Listable
  /\ IF Has(cur, k) THEN /\ \A f \in Files(cur, k) : f.id = record[cur].ids[k]
                         /\ pc' = "deletefile" /\ UNCHANGED k
                    ELSE UNCHANGED pc /\ k' = DeleteAfter(k)
  /\ UNCHANGED <<outboxVars, driveVars, reviewVars, stateVars, clock, boundVars,
                 todo, cur, ids, at, pending, bad, receiptsSeen, inboxSeen>>

\* rclone deletefile goes by name; a duplicate that is left fails the confirmation.
DeleteFile ==
  /\ pc = "deletefile"
  /\ \E f \in Files(cur, k) : inbox' = inbox \ {f}
  /\ IF Cardinality(Files(cur, k)) = 1
     THEN /\ pc' = "delete" /\ k' = DeleteAfter(k)
          /\ UNCHANGED <<todo, cur, ids, at, pending, bad, receiptsSeen, inboxSeen, stateVars>>
     ELSE Abort
  /\ UNCHANGED <<outboxVars, made, landing, reviewVars, clock, boundVars>>

\* A deletion whose answer is lost may have happened.
DeleteLost ==
  /\ pc = "deletefile" /\ Fault /\ Abort
  /\ \E f \in Files(cur, k) : inbox' = inbox \ {f}
  /\ UNCHANGED <<outboxVars, made, landing, reviewVars, clock>>

MarkDrive ==
  /\ pc = "delete" /\ k = 0
  /\ record' = [record EXCEPT ![cur].driveDeleted = TRUE]
  /\ NextBundle(cur, "retain")
  /\ UNCHANGED <<outboxVars, driveVars, reviewVars, waiting, health, clock, boundVars, pending, bad>>

\* A receipt that cannot be read, a listing or a call that fails: retention()
\* does not catch these, so the records after this one wait for the next pass.
RetentionFails ==
  /\ Abort
  /\ \/ /\ Fault
        /\ \/ pc \in {"inbox", "deletefile"}
           \/ pc = "scan" /\ todo = {}
           \/ pc = "delete" /\ k # 0
           \/ pc = "retain" /\ \E b \in todo : receiptsSeen[b].kind \notin {"absent", "oversized"}
     \/ /\ UNCHANGED boundVars
        /\ \/ pc = "inbox" /\ ~Listable
           \/ pc = "retain" /\ \E b \in todo : /\ receiptsSeen[b].kind \notin {"absent", "oversized"}
                                               /\ receipt[b].kind \in {"absent", "oversized"}
           \/ pc = "delete" /\ k # 0 /\ ~Listable
           \/ pc = "delete" /\ k # 0 /\ \E f \in Files(cur, k) : f.id # record[cur].ids[k]
           \/ pc = "deletefile" /\ ~Has(cur, k)
  /\ UNCHANGED <<outboxVars, driveVars, reviewVars, clock>>

FinishPass ==
  /\ pc = "retain" /\ todo = {}
  /\ EndPass /\ health' = (~bad /\ pending = 0)
  /\ UNCHANGED <<outboxVars, driveVars, reviewVars, record, waiting, clock, boundVars>>

\* SIGTERM is only looked at between passes; anything harder ends the process
\* in the middle of one, and the next process starts from the files.
Crash ==
  /\ pc # "idle" /\ crashes < MaxCrashes
  /\ crashes' = crashes + 1 /\ EndPass
  /\ UNCHANGED <<outboxVars, driveVars, reviewVars, stateVars, clock, faults, outside>>

-----------------------------------------------------------------------------
(* Everybody else.                                                         *)

\* BundleWriter.finish renames the archive into place, then writes the marker.
CollectArchive(b) ==
  /\ stage[b] = "none"
  /\ stage' = [stage EXCEPT ![b] = "archived"]
  /\ archive' = [archive EXCEPT ![b] = "intact"] /\ born' = [born EXCEPT ![b] = clock]
  /\ UNCHANGED <<ready, driveVars, reviewVars, stateVars, clock, passVars, boundVars>>

CollectMarker(b) ==
  /\ stage[b] = "archived"
  /\ stage' = [stage EXCEPT ![b] = "published"] /\ ready' = ready \cup {b}
  /\ UNCHANGED <<archive, born, driveVars, reviewVars, stateVars, clock, passVars, boundVars>>

\* The reviewer reads a complete pair, saves a report and issues the receipt.
Review(b) ==
  /\ \E f \in Files(b, Archive) :
       /\ f.intact /\ Has(b, Marker)
       /\ receipt' = [receipt EXCEPT ![b] = [kind |-> "complete", id |-> f.id]]
       /\ receipt[b] # receipt'[b]
       /\ reviewed' = reviewed \cup {<<b, f.id>>}
  /\ UNCHANGED <<outboxVars, driveVars, stateVars, clock, passVars, boundVars>>

\* A receipt that must not count, or one that is taken back.
BadReceipt(b) ==
  /\ BadReceipts # {} /\ Has(b, Marker)
  /\ \E kind \in BadReceipts \cup {"absent"} :
       /\ kind # receipt[b].kind
       /\ receipt' = [receipt EXCEPT ![b] = [kind |-> kind, id |-> 0]]
  /\ UNCHANGED <<outboxVars, driveVars, reviewed, stateVars, clock, passVars, boundVars>>

Outside ==
  /\ outside < MaxOutside
  /\ outside' = outside + 1 /\ UNCHANGED <<faults, crashes>>

\* The owner edits, removes or replaces a file of the Drive folder.
OwnerEdits(f) ==
  /\ Outside
  /\ \/ inbox' = inbox \ {f} /\ UNCHANGED made
     \/ f.intact /\ inbox' = (inbox \ {f}) \cup {[f EXCEPT !.intact = FALSE]} /\ UNCHANGED made
     \/ LET new == [f EXCEPT !.id = made[f.bundle][f.kind] + 1]
        IN inbox' = (inbox \ {f}) \cup {new}
           /\ made' = [made EXCEPT ![f.bundle][f.kind] = new.id]
  /\ UNCHANGED <<outboxVars, landing, reviewVars, stateVars, clock, passVars>>

\* A local archive is damaged, but not while it is being sent.
LocalDamage(b) ==
  /\ Outside /\ archive[b] = "intact" /\ b # cur
  /\ archive' = [archive EXCEPT ![b] = "changed"]
  /\ UNCHANGED <<stage, ready, born, driveVars, reviewVars, stateVars, clock, passVars>>

\* A copy that was given up lands after all, next to any other file of its name.
Land(f) ==
  /\ Outside /\ landing' = landing \ {f}
  /\ AddFile([f EXCEPT !.id = made[f.bundle][f.kind] + 1])
  /\ UNCHANGED <<outboxVars, reviewVars, stateVars, clock, passVars>>

\* A retry delay is at most an hour, so no retry waits for longer than a day.
RetryDue(b) ==
  /\ b \in waiting /\ waiting' = waiting \ {b}
  /\ UNCHANGED <<outboxVars, driveVars, reviewVars, record, health, clock, passVars, boundVars>>

Tick ==
  /\ clock < MaxDay /\ clock' = clock + 1 /\ waiting' = {}
  /\ UNCHANGED <<outboxVars, driveVars, reviewVars, record, health, passVars, boundVars>>

-----------------------------------------------------------------------------
Upload ==
  \/ StartPass \/ ListBefore \/ CopyFile \/ CopyFails \/ Verify \/ PutFails \/ SaveRecord
  \/ \E b \in Bundles : Skip(b) \/ BeginUpload(b) \/ RejectLocal(b)

Retention ==
  \/ ListReports \/ ListInbox \/ KeepLocal \/ LocalChecked \/ UnlinkReady \/ UnlinkArchive
  \/ MarkLocal \/ KeepDrive \/ BeginDelete \/ CheckDelete \/ DeleteFile \/ DeleteLost
  \/ MarkDrive \/ RetentionFails \/ FinishPass
  \/ \E b \in Bundles : Unreviewed(b) \/ RejectReceipt(b) \/ AcceptReceipt(b)

Process == Upload \/ Retention

Environment ==
  \/ Tick
  \/ \E b \in Bundles : \/ CollectArchive(b) \/ CollectMarker(b) \/ Review(b) \/ BadReceipt(b)
                        \/ LocalDamage(b) \/ RetryDue(b)
  \/ \E f \in inbox : OwnerEdits(f)
  \/ \E f \in landing : Land(f)

Next == Process \/ Crash \/ Environment

Spec == Init /\ [][Next]_vars

(* The container restarts a process that ends, a pass never blocks (every   *)
(* rclone call has a timeout), a retry delay ends and days pass.  Nothing   *)
(* makes the collector publish, the reviewer review or the owner edit.      *)
FairSpec == Spec /\ WF_vars(Process) /\ WF_vars(Tick)
                 /\ \A b \in Bundles : WF_vars(RetryDue(b))

-----------------------------------------------------------------------------
Sending == {"list", "copy", "verify", "record"}
Deleting == {"delete", "deletefile"}
Retiring == {"local", "unlinkReady", "unlinkArchive", "markLocal", "drive"} \cup Deleting

Ids == [Kinds -> Nat]
File == [bundle : Bundles, kind : Kinds, id : Nat, intact : BOOLEAN, refs : Ids]
Record == [up : BOOLEAN, ids : Ids, mirrored : BOOLEAN,
           localDeleted : BOOLEAN, driveDeleted : BOOLEAN]
Receipt == [kind : {"absent", "oversized", "malformed", "invalid", "complete"}, id : Nat]

OutboxOK ==
  /\ stage \in [Bundles -> {"none", "archived", "published"}]
  /\ archive \in [Bundles -> {"absent", "intact", "changed"}]
  /\ ready \subseteq Bundles /\ born \in [Bundles -> Nat]
DriveOK == inbox \subseteq File /\ landing \subseteq File /\ made \in [Bundles -> Ids]
ReviewOK == receipt \in [Bundles -> Receipt] /\ reviewed \subseteq Bundles \X Nat
StateOK == record \in [Bundles -> Record] /\ waiting \subseteq Bundles /\ health \in BOOLEAN
PassOK ==
  /\ pc \in {"idle", "scan", "inbox", "retain"} \cup Sending \cup Retiring
  /\ todo \subseteq Bundles /\ cur \in Bundles \cup {NoBundle}
  /\ k \in 0 .. Index /\ ids \in Ids
  /\ at \in Nat /\ pending \in Nat /\ bad \in BOOLEAN
  /\ receiptsSeen \in [Bundles -> Receipt] /\ inboxSeen \subseteq File
  /\ pc \in Sending \cup Retiring => cur \in Bundles
  /\ pc \in Sending => k # 0 /\ pending > 0
  /\ pc = "deletefile" => k # 0
BoundOK == clock \in Nat /\ faults \in Nat /\ crashes \in Nat /\ outside \in Nat

\* Every variable keeps its type, and a pass that is sending or retiring has a
\* bundle and, when it sends or deletes, a file to go on with.
TypeOK == OutboxOK /\ DriveOK /\ ReviewOK /\ StateOK /\ PassOK /\ BoundOK

\* The outbox never shows a completion marker without its archive, whatever
\* step the collector or a cleanup is interrupted at (bundle.py finish,
\* uploader.py retention: "never leaves a false ready pair").
LocalMarkersHaveArchives == \A b \in ready : archive[b] # "absent"

\* While nobody else touches the folder, a marker in Drive always has its
\* intact archive beside it: through retries, crashes and cleanups (upload_one
\* publishes it last, retention removes it first).
DriveMarkersHaveArchives ==
  outside = 0 => \A b \in Bundles : Has(b, Marker) => \E f \in Files(b, Archive) : f.intact

\* Likewise a text index always has every part it names, under the ID it names
\* (upload_transport publishes it last, retention removes it first).
IndexComplete ==
  outside = 0 => \A b \in Bundles : \A f \in Files(b, Index) : \A p \in PartKinds :
                   \E g \in Files(b, p) : g.intact /\ g.id = f.refs[p]

\* A bundle whose record says that Drive was cleaned up has left nothing there,
\* the text mirror of a completed transport included.
RetiredCompletely ==
  outside = 0 => \A b \in Bundles : record[b].driveDeleted =>
    \A f \in inbox : f.bundle = b => f.kind \in PartKinds \cup {Index} /\ ~record[b].mirrored

\* A published bundle is complete somewhere, in the outbox or in Drive, until
\* it has been reviewed and is older than drive_days.
CopyRemains ==
  outside = 0 => \A b \in Bundles : stage[b] = "published" =>
    \/ b \in ready \/ Has(b, Marker)
    \/ clock - born[b] >= DriveDays /\ \E id \in 1 .. made[b][Archive] : <<b, id>> \in reviewed

\* No file is ever sent twice: not by a retry, not after a crash, and not after
\* its retention.
SentOnce == outside = 0 => \A b \in Bundles, j \in Kinds : made[b][j] <= 1

\* A pass that reports OK left no bundle in the outbox that it or an earlier
\* pass sent only in part.
HealthCoversOutbox ==
  [][FinishPass /\ health' => \A b \in ready : record[b].up => Complete(b)]_vars

\* The recorded archive of the bundle was reviewed, and its days are over.
Retirable(b, days) == <<b, record[b].ids[Archive]>> \in reviewed /\ clock - born[b] >= days

RemovesProperly(b) ==
  /\ (b \in ready /\ b \notin ready') => Retirable(b, LocalDays)
  /\ archive'[b] # archive[b] => Retirable(b, LocalDays)
  /\ (\E f \in inbox \ inbox' : f.bundle = b) => Retirable(b, DriveDays)

\* Whatever others do to the folder and to the receipts, the uploader removes a
\* copy only of a bundle whose recorded archive was once reviewed, and only
\* after the days configured for that place (uploader.py, retention).  No step of
\* the uploader changes outside: that only spares TLC the steps of others.
RemovalsAreReviewed == [][UNCHANGED outside /\ Process => \A b \in Bundles : RemovesProperly(b)]_vars

\* What the listing of a pass says is heeded: when the local marker goes, the
\* Drive pair is as recorded, unless it changed after the listing; and a file of
\* a bundle is deleted in Drive only by a pass whose listing showed that
\* bundle's pair and mirror with the recorded IDs and contents.
ListingIsHeeded ==
  [][/\ \A b \in ready \ ready' : \A j \in {Archive, Marker} :
          Files(b, j) = Listed(b, j) => \E f \in Files(b, j) : Unchanged(f, record[b])
     /\ DeleteFile \/ DeleteLost =>
          \A j \in {Archive, Marker} \cup Mirror(record[cur]) :
            \A f \in Listed(cur, j) : Unchanged(f, record[cur])]_vars

\* docs/text-transport.md: "Recorded Drive IDs, sizes and MD5s must still match
\* before deletion".  Rclone.delete compares the ID again, not the MD5.
DeletedFilesUnchanged ==
  [][DeleteFile \/ DeleteLost =>
       \A f \in inbox \ inbox' : f.id = record[cur].ids[f.kind] => Unchanged(f, record[cur])]_vars

\* docs/text-transport.md: "Pending upload health becomes OK only after the
\* completion index is verified."
HealthOkMeansIndexed ==
  [][FinishPass /\ health' => \A b \in Bundles : record[b].up => Complete(b)]_vars

\* A published bundle is delivered, whatever finite number of rclone failures
\* and crashes get in the way.
Delivered == \A b \in Bundles : b \in ready ~> record[b].up

\* A bundle whose receipt stays valid is eventually gone from both places, once
\* it is old enough.
Retired ==
  \A b \in Bundles :
    <>[](record[b].up /\ ValidReceipt(b) /\ clock - born[b] >= DriveDays)
      => <>[](archive[b] = "absent" /\ b \notin ready /\ ~Has(b, Marker) /\ ~Has(b, Archive))

=============================================================================
