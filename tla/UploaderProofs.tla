---------------------------- MODULE UploaderProofs ----------------------------
(* Theorems about the uploader, for every value of its constants.            *)
EXTENDS UploaderImplements, TLAPS

\* Files are numbered from the archive, the first, to the index, the last.
LEMMA KindFacts ==
  /\ Index \in Nat /\ Index >= 4 /\ Index = Part(NParts) + 1
  /\ Archive \in Kinds /\ Marker \in Kinds /\ Index \in Kinds
  /\ PartKinds \subseteq Kinds /\ Kinds \subseteq 1 .. Index /\ Kinds \subseteq Nat
  /\ \A j \in Kinds : j # Index => j + 1 \in Kinds
  /\ \A j \in Kinds : DeleteAfter(j) \in 0 .. Index
  BY UploaderAssumption DEF Index, Archive, Marker, Kinds, PartKinds, Part, DeleteAfter

\* The values that start, empty or extend a variable have its type.
LEMMA ValueTypes ==
  /\ NoIds \in Ids /\ NoRecord \in Record /\ NoReceipt \in Receipt
  /\ NoReceipts \in [Bundles -> Receipt]
  /\ \A j \in Kinds, sent \in Ids : Refs(j, sent) \in Ids
<1>1. NoIds \in Ids
  BY DEF NoIds, Ids
<1>2. NoRecord \in Record /\ NoReceipt \in Receipt
  BY <1>1 DEF NoRecord, Record, NoReceipt, Receipt
<1>3. \A j \in Kinds, sent \in Ids : Refs(j, sent) \in Ids
  BY DEF Refs, Ids
<1>4. QED
  BY <1>1, <1>2, <1>3 DEF NoReceipts

\* A file that is sent is a file, and gets the next ID of its name.
LEMMA NewFileType ==
  ASSUME TypeOK, NEW b \in Bundles, NEW j \in Kinds, NEW sent \in Ids
  PROVE  NewFile(b, j, sent) \in File
<1>1. made[b][j] + 1 \in Nat
  BY DEF TypeOK, DriveOK, Ids
<1>2. Refs(j, sent) \in Ids
  BY ValueTypes
<1>3. QED
  BY <1>1, <1>2 DEF NewFile, File

LEMMA AddFileType ==
  ASSUME TypeOK, NEW f \in File, AddFile(f)
  PROVE  inbox' \subseteq File /\ made' \in [Bundles -> Ids]
<1>1. f.bundle \in Bundles /\ f.kind \in Kinds /\ f.id \in Nat
  BY DEF File
<1>2. made' \in [Bundles -> Ids]
  BY <1>1 DEF AddFile, TypeOK, DriveOK, Ids
<1>3. QED
  BY <1>2 DEF AddFile, TypeOK, DriveOK

LEMMA TypeOKInit == Init => TypeOK
<1> SUFFICES ASSUME Init PROVE TypeOK
  OBVIOUS
<1>1. OutboxOK
  BY DEF Init, OutboxOK
<1>2. DriveOK
  BY ValueTypes DEF Init, DriveOK
<1>3. ReviewOK
  BY ValueTypes DEF Init, ReviewOK
<1>4. StateOK
  BY ValueTypes DEF Init, StateOK
<1>5. PassOK
  <2>1. pc \in {"idle", "scan", "inbox", "retain"} \cup Sending \cup Retiring
    BY DEF Init
  <2>2. todo \subseteq Bundles /\ cur \in Bundles \cup {NoBundle}
    BY DEF Init
  <2>3. k \in 0 .. Index /\ ids \in Ids
    BY KindFacts, ValueTypes DEF Init
  <2>4. at \in Nat /\ pending \in Nat /\ bad \in BOOLEAN
    BY DEF Init
  <2>5. receiptsSeen \in [Bundles -> Receipt] /\ inboxSeen \subseteq File
    BY ValueTypes DEF Init
  <2>6. pc \notin Sending \cup Retiring /\ pc # "deletefile"
    BY DEF Init, Sending, Retiring, Deleting
  <2>7. QED
    BY <2>1, <2>2, <2>3, <2>4, <2>5, <2>6 DEF PassOK
<1>6. BoundOK
  BY DEF Init, BoundOK
<1>7. QED
  BY <1>1, <1>2, <1>3, <1>4, <1>5, <1>6 DEF TypeOK

-----------------------------------------------------------------------------
\* Which steps change what.
LEMMA OutboxFrame ==
  Next => \/ UNCHANGED outboxVars
          \/ UnlinkReady \/ UnlinkArchive
          \/ \E b \in Bundles : CollectArchive(b) \/ CollectMarker(b) \/ LocalDamage(b)
  BY DEF Next, Process, Upload, Retention, Environment,
         StartPass, ListBefore, CopyFile, CopyFails, Verify, PutFails, SaveRecord,
         Skip, BeginUpload, RejectLocal, ListReports, ListInbox, KeepLocal, LocalChecked,
         MarkLocal, KeepDrive, BeginDelete, CheckDelete, DeleteFile, DeleteLost, MarkDrive,
         RetentionFails, FinishPass, Unreviewed, RejectReceipt, AcceptReceipt, Crash,
         Tick, Review, BadReceipt, RetryDue, OwnerEdits, Land

LEMMA DriveFrame ==
  Next => \/ UNCHANGED driveVars
          \/ CopyFile \/ CopyFails \/ DeleteFile \/ DeleteLost
          \/ (\E f \in inbox : OwnerEdits(f)) \/ (\E f \in landing : Land(f))
  BY DEF Next, Process, Upload, Retention, Environment,
         StartPass, ListBefore, Verify, PutFails, SaveRecord,
         Skip, BeginUpload, RejectLocal, ListReports, ListInbox, KeepLocal, LocalChecked,
         UnlinkReady, UnlinkArchive, MarkLocal, KeepDrive, BeginDelete, CheckDelete, MarkDrive,
         RetentionFails, FinishPass, Unreviewed, RejectReceipt, AcceptReceipt, Crash,
         Tick, CollectArchive, CollectMarker, LocalDamage, Review, BadReceipt, RetryDue

LEMMA ReviewFrame ==
  Next => UNCHANGED reviewVars \/ \E b \in Bundles : Review(b) \/ BadReceipt(b)
  BY DEF Next, Process, Upload, Retention, Environment,
         StartPass, ListBefore, CopyFile, CopyFails, Verify, PutFails, SaveRecord,
         Skip, BeginUpload, RejectLocal, ListReports, ListInbox, KeepLocal, LocalChecked,
         UnlinkReady, UnlinkArchive, MarkLocal, KeepDrive, BeginDelete, CheckDelete, DeleteFile,
         DeleteLost, MarkDrive, RetentionFails, FinishPass, Unreviewed, RejectReceipt,
         AcceptReceipt, Crash, Tick, CollectArchive, CollectMarker, LocalDamage, RetryDue,
         OwnerEdits, Land

LEMMA RecordFrame ==
  Next => UNCHANGED record \/ SaveRecord \/ MarkLocal \/ MarkDrive
  BY DEF Next, Process, Upload, Retention, Environment, stateVars, Abort, UploadFails,
         StartPass, ListBefore, CopyFile, CopyFails, Verify, PutFails,
         Skip, BeginUpload, RejectLocal, ListReports, ListInbox, KeepLocal, LocalChecked,
         UnlinkReady, UnlinkArchive, KeepDrive, BeginDelete, CheckDelete, DeleteFile,
         DeleteLost, RetentionFails, FinishPass, Unreviewed, RejectReceipt, AcceptReceipt,
         Crash, Tick, CollectArchive, CollectMarker, LocalDamage, Review, BadReceipt, RetryDue,
         OwnerEdits, Land

LEMMA PassFrame == Next => Process \/ Crash \/ UNCHANGED passVars
  BY DEF Next, Environment, Tick, CollectArchive, CollectMarker, LocalDamage, Review,
         BadReceipt, RetryDue, OwnerEdits, Land

\* A pass only forgets by ending or by crashing; the clock is the world's.
LEMMA ClockFrame == Next => clock' = clock \/ Tick
  BY DEF Next, Process, Upload, Retention, Environment,
         StartPass, ListBefore, CopyFile, CopyFails, Verify, PutFails, SaveRecord,
         Skip, BeginUpload, RejectLocal, ListReports, ListInbox, KeepLocal, LocalChecked,
         UnlinkReady, UnlinkArchive, MarkLocal, KeepDrive, BeginDelete, CheckDelete, DeleteFile,
         DeleteLost, MarkDrive, RetentionFails, FinishPass, Unreviewed, RejectReceipt,
         AcceptReceipt, Crash, CollectArchive, CollectMarker, LocalDamage, Review, BadReceipt,
         RetryDue, OwnerEdits, Land

-----------------------------------------------------------------------------
(* Type correctness.                                                        *)

LEMMA OutboxType == TypeOK /\ Next => OutboxOK'
<1> SUFFICES ASSUME TypeOK, Next PROVE OutboxOK'
  OBVIOUS
<1> USE DEF TypeOK, OutboxOK
<1>1. CASE UNCHANGED outboxVars
  BY <1>1 DEF outboxVars
<1>2. CASE UnlinkReady
  BY <1>2 DEF UnlinkReady
<1>3. CASE UnlinkArchive
  BY <1>3 DEF UnlinkArchive
<1>4. ASSUME NEW b \in Bundles, CollectArchive(b) PROVE OutboxOK'
  BY <1>4 DEF CollectArchive, BoundOK
<1>5. ASSUME NEW b \in Bundles, CollectMarker(b) PROVE OutboxOK'
  BY <1>5 DEF CollectMarker
<1>6. ASSUME NEW b \in Bundles, LocalDamage(b) PROVE OutboxOK'
  BY <1>6 DEF LocalDamage
<1>7. QED
  BY <1>1, <1>2, <1>3, <1>4, <1>5, <1>6, OutboxFrame

LEMMA DriveType == TypeOK /\ Next => DriveOK'
<1> SUFFICES ASSUME TypeOK, Next PROVE DriveOK'
  OBVIOUS
<1> USE DEF DriveOK
<1>1. CASE UNCHANGED driveVars
  BY <1>1 DEF driveVars, TypeOK
<1>2. CASE CopyFile \/ CopyFails
  <2>1. cur \in Bundles /\ k \in Kinds /\ ids \in Ids
    BY <1>2 DEF CopyFile, CopyFails, TypeOK, PassOK, Sending, Kinds
  <2>2. NewFile(cur, k, ids) \in File
    BY <2>1, NewFileType
  <2>3. CASE AddFile(NewFile(cur, k, ids)) /\ UNCHANGED landing
    BY <2>2, <2>3, AddFileType DEF TypeOK
  <2>4. CASE landing' = landing \cup {NewFile(cur, k, ids)} /\ UNCHANGED <<inbox, made>>
    BY <2>2, <2>4 DEF TypeOK
  <2>5. CASE UNCHANGED driveVars
    BY <2>5 DEF driveVars, TypeOK
  <2>6. QED
    BY <1>2, <2>3, <2>4, <2>5 DEF CopyFile, CopyFails
<1>3. CASE DeleteFile \/ DeleteLost
  BY <1>3 DEF DeleteFile, DeleteLost, TypeOK
<1>4. ASSUME NEW f \in inbox, OwnerEdits(f) PROVE DriveOK'
  <2>1. f \in File /\ f.bundle \in Bundles /\ f.kind \in Kinds
    BY DEF TypeOK, File
  <2>2. [f EXCEPT !.intact = FALSE] \in File
    BY <2>1 DEF File
  <2>3. made[f.bundle][f.kind] + 1 \in Nat
    BY <2>1 DEF TypeOK, Ids
  <2>4. [f EXCEPT !.id = made[f.bundle][f.kind] + 1] \in File
    BY <2>1, <2>3 DEF File
  <2>5. [made EXCEPT ![f.bundle][f.kind] = made[f.bundle][f.kind] + 1] \in [Bundles -> Ids]
    BY <2>1, <2>3 DEF TypeOK, Ids
  <2>6. [f EXCEPT !.id = made[f.bundle][f.kind] + 1].id = made[f.bundle][f.kind] + 1
    BY <2>1 DEF File
  <2>7. QED
    BY <1>4, <2>2, <2>4, <2>5, <2>6 DEF OwnerEdits, TypeOK
<1>5. ASSUME NEW f \in landing, Land(f) PROVE DriveOK'
  <2>1. f \in File /\ f.bundle \in Bundles /\ f.kind \in Kinds
    BY DEF TypeOK, File
  <2>2. made[f.bundle][f.kind] + 1 \in Nat
    BY <2>1 DEF TypeOK, Ids
  <2>3. [f EXCEPT !.id = made[f.bundle][f.kind] + 1] \in File
    BY <2>1, <2>2 DEF File
  <2>4. QED
    BY <1>5, <2>3, AddFileType DEF Land, TypeOK
<1>6. QED
  BY <1>1, <1>2, <1>3, <1>4, <1>5, DriveFrame

LEMMA ReviewType == TypeOK /\ Next => ReviewOK'
<1> SUFFICES ASSUME TypeOK, Next PROVE ReviewOK'
  OBVIOUS
<1> USE DEF ReviewOK
<1>1. CASE UNCHANGED reviewVars
  BY <1>1 DEF reviewVars, TypeOK
<1>2. ASSUME NEW b \in Bundles, Review(b) PROVE ReviewOK'
  <2>1. PICK f \in Files(b, Archive) :
          /\ receipt' = [receipt EXCEPT ![b] = [kind |-> "complete", id |-> f.id]]
          /\ reviewed' = reviewed \cup {<<b, f.id>>}
    BY <1>2 DEF Review
  <2>2. f.id \in Nat
    BY DEF Files, TypeOK, DriveOK, File
  <2>3. QED
    BY <2>1, <2>2 DEF TypeOK, Receipt
<1>3. ASSUME NEW b \in Bundles, BadReceipt(b) PROVE ReviewOK'
  BY <1>3, UploaderAssumption DEF BadReceipt, TypeOK, Receipt
<1>4. QED
  BY <1>1, <1>2, <1>3, ReviewFrame

LEMMA StateType == TypeOK /\ Next => StateOK'
<1> SUFFICES ASSUME TypeOK, Next PROVE StateOK'
  OBVIOUS
<1>1. record' \in [Bundles -> Record]
  <2>1. CASE UNCHANGED record
    BY <2>1 DEF TypeOK, StateOK
  <2>2. CASE SaveRecord
    <3>1. cur \in Bundles /\ ids \in Ids
      BY <2>2 DEF SaveRecord, TypeOK, PassOK, Sending
    <3>2. [NoRecord EXCEPT !.up = TRUE, !.ids = ids, !.mirrored = (k = Index)] \in Record
      BY <3>1, ValueTypes DEF NoRecord, Record
    <3>3. QED
      BY <2>2, <3>1, <3>2 DEF SaveRecord, TypeOK, StateOK
  <2>3. CASE MarkLocal \/ MarkDrive
    BY <2>3 DEF MarkLocal, MarkDrive, TypeOK, StateOK, Record
  <2>4. QED
    BY <2>1, <2>2, <2>3, RecordFrame
<1>2. waiting' \subseteq Bundles
  <2>1. CASE waiting' \subseteq waiting
    BY <2>1 DEF TypeOK, StateOK
  <2>2. CASE CopyFails \/ PutFails
    <3>1. cur \in Bundles
      BY <2>2 DEF CopyFails, PutFails, TypeOK, PassOK, Sending
    <3>2. QED
      BY <2>2, <3>1 DEF CopyFails, PutFails, UploadFails, TypeOK, StateOK
  <2>3. ASSUME NEW b \in Bundles, RejectLocal(b) PROVE waiting' \subseteq Bundles
    BY <2>3 DEF RejectLocal, UploadFails, TypeOK, StateOK
  <2>4. waiting' \subseteq waiting \/ CopyFails \/ PutFails \/ \E b \in Bundles : RejectLocal(b)
    BY DEF Next, Process, Upload, Retention, Environment, stateVars, Abort, NextBundle,
         StartPass, ListBefore, CopyFile, Verify, SaveRecord,
         Skip, BeginUpload, ListReports, ListInbox, KeepLocal, LocalChecked,
         UnlinkReady, UnlinkArchive, MarkLocal, KeepDrive, BeginDelete, CheckDelete, DeleteFile,
         DeleteLost, MarkDrive, RetentionFails, FinishPass, Unreviewed, RejectReceipt,
         AcceptReceipt, Crash, Tick, CollectArchive, CollectMarker, LocalDamage, Review,
         BadReceipt, RetryDue, OwnerEdits, Land
  <2>5. QED
    BY <2>1, <2>2, <2>3, <2>4
<1>3. health' \in BOOLEAN
  <2>1. health' = health \/ health' = FALSE \/ health' = (~bad /\ pending = 0)
    BY Zenon DEF Next, Process, Upload, Retention, Environment, stateVars, Abort, UploadFails,
         StartPass, ListBefore, CopyFile, CopyFails, Verify, PutFails, SaveRecord,
         Skip, BeginUpload, RejectLocal, ListReports, ListInbox, KeepLocal, LocalChecked,
         UnlinkReady, UnlinkArchive, MarkLocal, KeepDrive, BeginDelete, CheckDelete, DeleteFile,
         DeleteLost, MarkDrive, RetentionFails, FinishPass, Unreviewed, RejectReceipt,
         AcceptReceipt, Crash, Tick, CollectArchive, CollectMarker, LocalDamage, Review,
         BadReceipt, RetryDue, OwnerEdits, Land
  <2>2. QED
    BY <2>1 DEF TypeOK, StateOK
<1>4. QED
  BY <1>1, <1>2, <1>3 DEF StateOK

\* A pass that ends, or goes on with the next bundle, is in a proper state.
LEMMA EndPassType == EndPass => PassOK'
<1> SUFFICES ASSUME EndPass PROVE PassOK'
  OBVIOUS
<1>1. pc' = "idle" /\ pc' \notin Sending \cup Retiring
  BY DEF EndPass, Sending, Retiring, Deleting
<1>2. k' \in 0 .. Index /\ ids' \in Ids /\ receiptsSeen' \in [Bundles -> Receipt]
  BY KindFacts, ValueTypes DEF EndPass
<1>3. QED
  BY <1>1, <1>2 DEF EndPass, PassOK

LEMMA NextBundleType ==
  ASSUME TypeOK, NEW b, NEW to \in {"scan", "retain"}, NextBundle(b, to),
         pending' \in Nat, bad' \in BOOLEAN
  PROVE  PassOK'
<1>1. pc' \in {"scan", "retain"} /\ pc' \notin Sending \cup Retiring
  BY DEF NextBundle, Sending, Retiring, Deleting
<1>2. k' \in 0 .. Index /\ ids' \in Ids /\ todo' \subseteq Bundles /\ cur' = NoBundle
  BY KindFacts, ValueTypes DEF NextBundle, TypeOK, PassOK
<1>3. at' \in Nat /\ receiptsSeen' \in [Bundles -> Receipt] /\ inboxSeen' \subseteq File
  BY DEF NextBundle, TypeOK, PassOK
<1>4. pc' \in {"idle", "scan", "inbox", "retain"} \cup Sending \cup Retiring /\ pc' # "deletefile"
  BY <1>1
<1>5. QED
  BY <1>1, <1>2, <1>3, <1>4 DEF PassOK

LEMMA PassType == TypeOK /\ Next => PassOK'
<1> SUFFICES ASSUME TypeOK, Next PROVE PassOK'
  OBVIOUS
<1> USE DEF TypeOK, PassOK, Sending, Retiring, Deleting
<1>1. CASE UNCHANGED passVars
  BY <1>1 DEF passVars
<1>2. CASE StartPass
  BY <1>2 DEF StartPass, OutboxOK, BoundOK
<1>3. CASE \E b \in Bundles : Skip(b)
  BY <1>3 DEF Skip
<1>4. CASE \E b \in Bundles : BeginUpload(b)
  BY <1>4, KindFacts DEF BeginUpload, Archive
<1>5. CASE \E b \in Bundles : RejectLocal(b)
  BY <1>5, NextBundleType DEF RejectLocal, UploadFails
<1>6. CASE ListBefore
  BY <1>6 DEF ListBefore
<1>7. CASE CopyFile
  BY <1>7 DEF CopyFile
<1>8. CASE CopyFails \/ PutFails
  BY <1>8, NextBundleType DEF CopyFails, PutFails, UploadFails
<1>9. CASE Verify
  <2>1. PICK f \in Files(cur, k) :
          /\ ids' = [ids EXCEPT ![k] = f.id]
          /\ IF k \in {Marker, Index} THEN pc' = "record" /\ UNCHANGED k
                                      ELSE pc' = "list" /\ k' = k + 1
    BY <1>9 DEF Verify
  <2>2. f.id \in Nat
    BY DEF Files, DriveOK, File
  <2>3. ids' \in Ids
    BY <2>1, <2>2 DEF Ids
  <2>4. k' \in 0 .. Index /\ k' # 0
    BY <1>9, <2>1, KindFacts DEF Verify, Kinds
  <2>5. QED
    BY <1>9, <2>1, <2>3, <2>4 DEF Verify
<1>10. CASE SaveRecord
  <2>1. CASE k = Marker /\ TextTransport
    BY <1>10, <2>1, KindFacts DEF SaveRecord, Part
  <2>2. CASE ~(k = Marker /\ TextTransport)
    BY <1>10, <2>2, NextBundleType DEF SaveRecord
  <2>3. QED
    BY <2>1, <2>2
<1>11. CASE ListReports
  BY <1>11 DEF ListReports, ReviewOK
<1>12. CASE ListInbox
  BY <1>12 DEF ListInbox, DriveOK
<1>13. CASE \E b \in Bundles : Unreviewed(b) \/ RejectReceipt(b)
  BY <1>13, NextBundleType DEF Unreviewed, RejectReceipt
<1>14. CASE \E b \in Bundles : AcceptReceipt(b)
  BY <1>14 DEF AcceptReceipt
<1>15. CASE KeepLocal
  BY <1>15, NextBundleType DEF KeepLocal
<1>16. CASE LocalChecked \/ UnlinkReady \/ UnlinkArchive \/ MarkLocal
  BY <1>16 DEF LocalChecked, UnlinkReady, UnlinkArchive, MarkLocal
<1>17. CASE KeepDrive
  <2>1. bad' \in BOOLEAN
    BY <1>17 DEF KeepDrive
  <2>2. QED
    BY <1>17, <2>1, NextBundleType DEF KeepDrive
<1>18. CASE BeginDelete
  BY <1>18, KindFacts DEF BeginDelete, Marker
<1>19. CASE CheckDelete
  BY <1>19, KindFacts DEF CheckDelete, Kinds
<1>20. CASE DeleteFile
  BY <1>20, KindFacts, EndPassType DEF DeleteFile, Abort, Kinds
<1>21. CASE DeleteLost \/ RetentionFails \/ FinishPass \/ Crash
  BY <1>21, EndPassType DEF DeleteLost, RetentionFails, FinishPass, Crash, Abort
<1>22. CASE MarkDrive
  BY <1>22, NextBundleType DEF MarkDrive
<1>23. QED
  BY <1>1, <1>2, <1>3, <1>4, <1>5, <1>6, <1>7, <1>8, <1>9, <1>10, <1>11, <1>12, <1>13, <1>14,
     <1>15, <1>16, <1>17, <1>18, <1>19, <1>20, <1>21, <1>22, PassFrame
     DEF Process, Upload, Retention

LEMMA BoundType == TypeOK /\ Next => BoundOK'
<1> SUFFICES ASSUME TypeOK, Next PROVE BoundOK'
  OBVIOUS
<1>1. clock' \in Nat
  BY ClockFrame DEF TypeOK, BoundOK, Tick
<1>2. /\ faults' = faults \/ faults' = faults + 1
      /\ crashes' = crashes \/ crashes' = crashes + 1
      /\ outside' = outside \/ outside' = outside + 1
  BY DEF Next, Process, Upload, Retention, Environment, boundVars, Fault, Outside,
         StartPass, ListBefore, CopyFile, CopyFails, Verify, PutFails, SaveRecord,
         Skip, BeginUpload, RejectLocal, ListReports, ListInbox, KeepLocal, LocalChecked,
         UnlinkReady, UnlinkArchive, MarkLocal, KeepDrive, BeginDelete, CheckDelete, DeleteFile,
         DeleteLost, MarkDrive, RetentionFails, FinishPass, Unreviewed, RejectReceipt,
         AcceptReceipt, Crash, Tick, CollectArchive, CollectMarker, LocalDamage, Review,
         BadReceipt, RetryDue, OwnerEdits, Land
<1>3. QED
  BY <1>1, <1>2 DEF TypeOK, BoundOK

\* Whatever the constants are, every variable keeps its type.
THEOREM TypeCorrect == Spec => []TypeOK
<1>1. TypeOK /\ [Next]_vars => TypeOK'
  <2> SUFFICES ASSUME TypeOK, [Next]_vars PROVE TypeOK'
    OBVIOUS
  <2>1. CASE Next
    BY <2>1, OutboxType, DriveType, ReviewType, StateType, PassType, BoundType DEF TypeOK
  <2>2. CASE UNCHANGED vars
    BY <2>2 DEF vars, outboxVars, driveVars, reviewVars, stateVars, passVars, boundVars,
       TypeOK, OutboxOK, DriveOK, ReviewOK, StateOK, PassOK, BoundOK
  <2>3. QED
    BY <2>1, <2>2
<1>2. QED
  BY TypeOKInit, <1>1, PTL DEF Spec

-----------------------------------------------------------------------------
(* Nothing is removed before its review.  The removal steps only look at the *)
(* clock and at the receipt much earlier in the pass; ReviewInv is what they *)
(* can still rely on.                                                        *)

\* Whatever the pass has got hold of was published, so its day is settled.
Settled == \A b \in Bundles : b \in ready \/ b \in todo \/ b = cur \/ record[b].up
                              => stage[b] = "published"

ReviewInv ==
  /\ Settled /\ at <= clock
  /\ \A b \in Bundles : receipt[b].kind = "complete" => <<b, receipt[b].id>> \in reviewed
  /\ pc \in Retiring => <<cur, record[cur].ids[Archive]>> \in reviewed
  /\ pc \in {"unlinkReady", "unlinkArchive"} => at - born[cur] >= LocalDays
  /\ pc \in Deleting => at - born[cur] >= DriveDays

\* An outbox pair: its archive is there before the marker and after it.
PairInv ==
  /\ LocalMarkersHaveArchives
  /\ \A b \in Bundles : stage[b] = "archived" => archive[b] # "absent"
  /\ pc = "unlinkArchive" => cur \notin ready

LEMMA OutboxKept ==
  ASSUME TypeOK, Next, NEW b \in Bundles, stage[b] # "none"
  PROVE  /\ born'[b] = born[b]
         /\ stage[b] = "published" => stage'[b] = "published"
<1>1. CASE UNCHANGED outboxVars
  BY <1>1 DEF outboxVars
<1>2. CASE UnlinkReady \/ UnlinkArchive
  BY <1>2 DEF UnlinkReady, UnlinkArchive
<1>3. ASSUME NEW c \in Bundles, CollectArchive(c) \/ CollectMarker(c) \/ LocalDamage(c)
      PROVE  born'[b] = born[b] /\ (stage[b] = "published" => stage'[b] = "published")
  BY <1>3 DEF CollectArchive, CollectMarker, LocalDamage, TypeOK, OutboxOK
<1>4. QED
  BY <1>1, <1>2, <1>3, OutboxFrame

\* Where a pass takes its bundles and its day from.
LEMMA PassSteps ==
  Next => /\ cur' = cur \/ cur' \in todo \/ cur' = NoBundle
          /\ todo' \subseteq todo \/ todo' = ready \/ todo' = {c \in Bundles : record[c].up}
          /\ at' = at \/ at' = 0 \/ at' = clock
<1>1. CASE UNCHANGED passVars
  BY <1>1 DEF passVars
<1>2. QED
  BY <1>1, PassFrame DEF Process, Upload, Retention, Abort, EndPass, UploadFails, NextBundle,
     StartPass, ListBefore, CopyFile, CopyFails, Verify, PutFails, SaveRecord,
     Skip, BeginUpload, RejectLocal, ListReports, ListInbox, KeepLocal, LocalChecked,
     UnlinkReady, UnlinkArchive, MarkLocal, KeepDrive, BeginDelete, CheckDelete, DeleteFile,
     DeleteLost, MarkDrive, RetentionFails, FinishPass, Unreviewed, RejectReceipt,
     AcceptReceipt, Crash

LEMMA SettledStep == TypeOK /\ Settled /\ Next => Settled'
<1> SUFFICES ASSUME TypeOK, Settled, Next, NEW b \in Bundles,
                    b \in ready' \/ b \in todo' \/ b = cur' \/ record'[b].up
             PROVE  stage'[b] = "published"
  BY DEF Settled
<1>1. CASE b \in ready \/ b \in todo \/ b = cur \/ record[b].up
  BY <1>1, OutboxKept DEF Settled
<1>2. CASE CollectMarker(b)
  BY <1>2 DEF CollectMarker, TypeOK, OutboxOK
<1>3. ready' \subseteq ready \/ \E c \in Bundles : CollectMarker(c) /\ ready' = ready \cup {c}
  <2>1. CASE UNCHANGED outboxVars
    BY <2>1 DEF outboxVars
  <2>2. QED
    BY <2>1, OutboxFrame DEF UnlinkReady, UnlinkArchive, CollectArchive, CollectMarker, LocalDamage
<1>4. record'[b].up => record[b].up \/ b = cur
  BY RecordFrame DEF SaveRecord, MarkLocal, MarkDrive, TypeOK, StateOK, Record
<1>5. cur' = cur \/ cur' \in todo \/ cur' = NoBundle
  BY PassSteps
<1>6. todo' \subseteq todo \/ todo' = ready \/ todo' = {c \in Bundles : record[c].up}
  BY PassSteps
<1>7. NoBundle \notin Bundles
  BY UploaderAssumption
<1>8. CASE \E c \in Bundles : CollectMarker(c) /\ ready' = ready \cup {c}
  BY <1>1, <1>2, <1>4, <1>5, <1>6, <1>7, <1>8
<1>9. CASE ready' \subseteq ready
  BY <1>1, <1>4, <1>5, <1>6, <1>7, <1>9
<1>10. QED
  BY <1>3, <1>8, <1>9

\* The clock never runs behind the day a pass started on.
LEMMA AtStep == TypeOK /\ at <= clock /\ Next => at' <= clock'
<1> SUFFICES ASSUME TypeOK, at <= clock, Next PROVE at' <= clock'
  OBVIOUS
<1>1. at' = at \/ at' = 0 \/ at' = clock
  BY PassSteps
<1>2. clock' \in Nat /\ clock' >= clock
  BY ClockFrame DEF TypeOK, BoundOK, Tick
<1>3. QED
  BY <1>1, <1>2 DEF TypeOK, PassOK, BoundOK

\* A receipt that counts was issued, so it is in the history.
LEMMA ReceiptsStep ==
  ASSUME TypeOK, Next, NEW b \in Bundles,
         receipt[b].kind = "complete" => <<b, receipt[b].id>> \in reviewed
  PROVE  /\ receipt'[b].kind = "complete" => <<b, receipt'[b].id>> \in reviewed'
         /\ reviewed \subseteq reviewed'
<1>1. CASE UNCHANGED reviewVars
  BY <1>1 DEF reviewVars
<1>2. ASSUME NEW c \in Bundles, Review(c)
      PROVE  /\ receipt'[b].kind = "complete" => <<b, receipt'[b].id>> \in reviewed'
             /\ reviewed \subseteq reviewed'
  BY <1>2 DEF Review, TypeOK, ReviewOK
<1>3. ASSUME NEW c \in Bundles, BadReceipt(c)
      PROVE  /\ receipt'[b].kind = "complete" => <<b, receipt'[b].id>> \in reviewed'
             /\ reviewed \subseteq reviewed'
  BY <1>3, UploaderAssumption DEF BadReceipt, TypeOK, ReviewOK
<1>4. QED
  BY <1>1, <1>2, <1>3, ReviewFrame

\* A retirement starts with AcceptReceipt and keeps its bundle, day and record.
LEMMA RetiringSteps ==
  ASSUME TypeOK, Next, pc' \in Retiring
  PROVE  \/ /\ pc \in Retiring /\ cur' = cur /\ at' = at
            /\ record'[cur].ids = record[cur].ids
            /\ pc' \in {"unlinkReady", "unlinkArchive"} =>
                 pc \in {"unlinkReady", "unlinkArchive"} \/ DueLocal
            /\ pc' \in Deleting => pc \in Deleting \/ DueDrive
         \/ \E b \in Bundles : AcceptReceipt(b)
<1> USE DEF Retiring, Deleting
<1>1. CASE UNCHANGED passVars
  <2>1. UNCHANGED record \/ SaveRecord \/ MarkLocal \/ MarkDrive
    BY RecordFrame
  <2>2. pc' = pc /\ cur' = cur /\ at' = at
    BY <1>1 DEF passVars
  <2>3. UNCHANGED record
    BY <2>1, <2>2 DEF SaveRecord, MarkLocal, MarkDrive, NextBundle
  <2>4. QED
    BY <2>2, <2>3
<1>2. CASE Process \/ Crash
  <2>1. CASE MarkLocal
    <3>1. cur \in Bundles /\ record'[cur] = [record[cur] EXCEPT !.localDeleted = TRUE]
      BY <2>1 DEF MarkLocal, TypeOK, PassOK, StateOK
    <3>2. record'[cur].ids = record[cur].ids
      BY <3>1 DEF TypeOK, StateOK, Record
    <3>3. QED
      BY <2>1, <3>2 DEF MarkLocal
  <2>2. CASE LocalChecked \/ UnlinkReady \/ UnlinkArchive \/ BeginDelete \/ CheckDelete
    BY <2>2 DEF LocalChecked, UnlinkReady, UnlinkArchive, BeginDelete, CheckDelete, stateVars
  <2>3. CASE DeleteFile
    BY <2>3 DEF DeleteFile, Abort, EndPass, stateVars
  <2>4. ~(\/ StartPass \/ ListBefore \/ CopyFile \/ CopyFails \/ Verify \/ PutFails \/ SaveRecord
          \/ ListReports \/ ListInbox \/ KeepLocal \/ KeepDrive \/ DeleteLost \/ MarkDrive
          \/ RetentionFails \/ FinishPass \/ Crash)
    BY DEF Abort, EndPass, UploadFails, NextBundle,
       StartPass, ListBefore, CopyFile, CopyFails, Verify, PutFails, SaveRecord,
       ListReports, ListInbox, KeepLocal, KeepDrive, DeleteLost, MarkDrive,
       RetentionFails, FinishPass, Crash
  <2>5. ~\E b \in Bundles : Skip(b) \/ BeginUpload(b) \/ RejectLocal(b) \/ Unreviewed(b)
                            \/ RejectReceipt(b)
    BY DEF Skip, BeginUpload, RejectLocal, Unreviewed, RejectReceipt, UploadFails, NextBundle
  <2>6. QED
    BY <1>2, <2>1, <2>2, <2>3, <2>4, <2>5 DEF Process, Upload, Retention
<1>3. QED
  BY <1>1, <1>2, PassFrame

LEMMA ReviewStep == TypeOK /\ ReviewInv /\ Next => ReviewInv'
<1> SUFFICES ASSUME TypeOK, ReviewInv, Next PROVE ReviewInv'
  OBVIOUS
<1>1. Settled' /\ at' <= clock'
  BY SettledStep, AtStep DEF ReviewInv
<1>2. \A b \in Bundles : receipt'[b].kind = "complete" => <<b, receipt'[b].id>> \in reviewed'
  BY ReceiptsStep DEF ReviewInv
<1>3. reviewed \subseteq reviewed'
  BY ReviewFrame, ReceiptsStep DEF ReviewInv, reviewVars
<1>4. ASSUME pc' \in Retiring
      PROVE  /\ <<cur', record'[cur'].ids[Archive]>> \in reviewed'
             /\ pc' \in {"unlinkReady", "unlinkArchive"} => at' - born'[cur'] >= LocalDays
             /\ pc' \in Deleting => at' - born'[cur'] >= DriveDays
  <2>1. CASE \E b \in Bundles : AcceptReceipt(b)
    <3>1. PICK b \in Bundles : AcceptReceipt(b)
      BY <2>1
    <3>2. cur' = b /\ record' = record /\ reviewed' = reviewed /\ pc' = "local" /\ b \in todo
      BY <3>1 DEF AcceptReceipt, stateVars, reviewVars
    <3>3. <<b, record[b].ids[Archive]>> \in reviewed
      BY <3>1 DEF AcceptReceipt, ValidReceipt, ReviewInv
    <3>4. QED
      BY <3>2, <3>3 DEF Deleting
  <2>2. CASE /\ pc \in Retiring /\ cur' = cur /\ at' = at
             /\ record'[cur].ids = record[cur].ids
             /\ pc' \in {"unlinkReady", "unlinkArchive"} =>
                  pc \in {"unlinkReady", "unlinkArchive"} \/ DueLocal
             /\ pc' \in Deleting => pc \in Deleting \/ DueDrive
    <3>1. cur \in Bundles
      BY <2>2 DEF TypeOK, PassOK
    <3>2. stage[cur] = "published"
      BY <3>1 DEF ReviewInv, Settled
    <3>3. born'[cur] = born[cur]
      BY <3>1, <3>2, OutboxKept
    <3>4. QED
      BY <1>3, <2>2, <3>3 DEF ReviewInv, DueLocal, DueDrive, Due
  <2>3. QED
    BY <1>4, <2>1, <2>2, RetiringSteps
<1>5. QED
  BY <1>1, <1>2, <1>4 DEF ReviewInv, Retiring, Deleting

LEMMA ReviewInit == Init => ReviewInv
<1> SUFFICES ASSUME Init PROVE ReviewInv
  OBVIOUS
<1>1. Settled
  BY UploaderAssumption DEF Init, Settled, NoRecord
<1>2. \A b \in Bundles : receipt[b].kind # "complete"
  BY DEF Init, NoReceipts, NoReceipt
<1>3. at <= clock /\ pc = "idle"
  BY DEF Init
<1>4. QED
  BY <1>1, <1>2, <1>3 DEF ReviewInv, Retiring, Deleting

\* Whatever the reviewer, the owner and the network do, the uploader removes a
\* copy only after the review of the recorded archive and after its days.
THEOREM RemovalsReviewed == Spec => RemovalsAreReviewed
<1>1. TypeOK /\ ReviewInv /\ [Next]_vars => ReviewInv'
  <2>1. UNCHANGED vars /\ ReviewInv => ReviewInv'
    BY DEF vars, outboxVars, reviewVars, stateVars, passVars, ReviewInv, Settled
  <2>2. QED
    BY <2>1, ReviewStep
<1>2. ASSUME TypeOK, ReviewInv, Process, NEW b \in Bundles
      PROVE  RemovesProperly(b)
  <2>1. at \in Nat /\ clock \in Nat /\ at <= clock /\ born[b] \in Nat
    BY <1>2 DEF TypeOK, PassOK, BoundOK, OutboxOK, ReviewInv
  <2>2. ASSUME (b \in ready /\ b \notin ready') \/ archive'[b] # archive[b]
        PROVE  Retirable(b, LocalDays)
    <3>1. UnlinkReady \/ UnlinkArchive \/ UNCHANGED outboxVars
      BY <1>2 DEF Process, Upload, Retention,
         StartPass, ListBefore, CopyFile, CopyFails, Verify, PutFails, SaveRecord,
         Skip, BeginUpload, RejectLocal, ListReports, ListInbox, KeepLocal, LocalChecked,
         MarkLocal, KeepDrive, BeginDelete, CheckDelete, DeleteFile, DeleteLost, MarkDrive,
         RetentionFails, FinishPass, Unreviewed, RejectReceipt, AcceptReceipt
    <3>2. b = cur /\ pc \in {"unlinkReady", "unlinkArchive"}
      BY <1>2, <2>2, <3>1 DEF UnlinkReady, UnlinkArchive, outboxVars, TypeOK, OutboxOK
    <3>3. QED
      BY <1>2, <2>1, <3>2, UploaderAssumption DEF ReviewInv, Retiring, Retirable
  <2>3. ASSUME NEW f \in inbox, f \notin inbox', f.bundle = b
        PROVE  Retirable(b, DriveDays)
    <3>1. CASE DeleteFile \/ DeleteLost
      <4>1. b = cur /\ pc = "deletefile"
        BY <2>3, <3>1 DEF DeleteFile, DeleteLost, Files
      <4>2. QED
        BY <1>2, <2>1, <4>1, UploaderAssumption DEF ReviewInv, Retiring, Deleting, Retirable
    <3>2. CASE UNCHANGED inbox \/ \E g : inbox' = inbox \cup {g}
      BY <2>3, <3>2
    <3>3. UNCHANGED driveVars \/ CopyFile \/ CopyFails \/ DeleteFile \/ DeleteLost
      BY <1>2 DEF Process, Upload, Retention,
         StartPass, ListBefore, Verify, PutFails, SaveRecord,
         Skip, BeginUpload, RejectLocal, ListReports, ListInbox, KeepLocal, LocalChecked,
         UnlinkReady, UnlinkArchive, MarkLocal, KeepDrive, BeginDelete, CheckDelete, MarkDrive,
         RetentionFails, FinishPass, Unreviewed, RejectReceipt, AcceptReceipt
    <3>4. QED
      BY <3>1, <3>2, <3>3 DEF driveVars, CopyFile, CopyFails, AddFile
  <2>4. QED
    BY <2>2, <2>3 DEF RemovesProperly
<1>3. TypeOK /\ ReviewInv /\ [Next]_vars => [UNCHANGED outside /\ Process => \A b \in Bundles : RemovesProperly(b)]_vars
  BY <1>2
<1>4. QED
  BY ReviewInit, <1>1, <1>3, TypeCorrect, PTL DEF Spec, RemovalsAreReviewed

-----------------------------------------------------------------------------
(* The outbox: archive before marker, marker gone before archive.            *)

LEMMA PairStep == TypeOK /\ ReviewInv /\ PairInv /\ Next => PairInv'
<1> SUFFICES ASSUME TypeOK, ReviewInv, PairInv, Next PROVE PairInv'
  OBVIOUS
<1>1. /\ \A b \in ready' : archive'[b] # "absent"
      /\ \A b \in Bundles : stage'[b] = "archived" => archive'[b] # "absent"
  <2> USE DEF PairInv, LocalMarkersHaveArchives, TypeOK, OutboxOK
  <2>1. CASE UNCHANGED outboxVars
    BY <2>1 DEF outboxVars
  <2>2. CASE UnlinkReady
    BY <2>2 DEF UnlinkReady
  <2>3. CASE UnlinkArchive
    <3>1. cur \in Bundles /\ cur \notin ready /\ stage[cur] = "published"
      BY <2>3 DEF UnlinkArchive, PassOK, Retiring, ReviewInv, Settled
    <3>2. QED
      BY <2>3, <3>1 DEF UnlinkArchive
  <2>4. ASSUME NEW c \in Bundles, CollectArchive(c) \/ CollectMarker(c) \/ LocalDamage(c)
        PROVE  /\ \A b \in ready' : archive'[b] # "absent"
               /\ \A b \in Bundles : stage'[b] = "archived" => archive'[b] # "absent"
    BY <2>4 DEF CollectArchive, CollectMarker, LocalDamage
  <2>5. QED
    BY <2>1, <2>2, <2>3, <2>4, OutboxFrame
<1>2. ASSUME pc' = "unlinkArchive" PROVE cur' \notin ready'
  <2>1. UnlinkReady \/ (pc = "unlinkArchive" /\ UNCHANGED passVars)
    BY <1>2, PassFrame DEF Process, Upload, Retention, Abort, EndPass, UploadFails, NextBundle,
       StartPass, ListBefore, CopyFile, CopyFails, Verify, PutFails, SaveRecord,
       Skip, BeginUpload, RejectLocal, ListReports, ListInbox, KeepLocal, LocalChecked,
       UnlinkReady, UnlinkArchive, MarkLocal, KeepDrive, BeginDelete, CheckDelete, DeleteFile,
       DeleteLost, MarkDrive, RetentionFails, FinishPass, Unreviewed, RejectReceipt,
       AcceptReceipt, Crash, passVars
  <2>2. CASE UnlinkReady
    BY <2>2 DEF UnlinkReady
  <2>3. CASE pc = "unlinkArchive" /\ UNCHANGED passVars
    <3>1. cur' = cur /\ cur \in Bundles /\ cur \notin ready /\ stage[cur] = "published"
      BY <2>3 DEF passVars, TypeOK, PassOK, Retiring, PairInv, ReviewInv, Settled
    <3>2. ready' \subseteq ready \/ \E c \in Bundles : CollectMarker(c)
      BY OutboxFrame DEF outboxVars, UnlinkReady, UnlinkArchive, CollectArchive, LocalDamage
    <3>3. QED
      BY <3>1, <3>2 DEF CollectMarker
  <2>4. QED
    BY <2>1, <2>2, <2>3
<1>3. QED
  BY <1>1, <1>2 DEF PairInv, LocalMarkersHaveArchives

\* Both invariants of the pass and the outbox hold throughout.
LEMMA OutboxInvariants == Spec => [](ReviewInv /\ PairInv)
<1>1. Init => ReviewInv /\ PairInv
  <2>1. Init => PairInv
    BY DEF Init, PairInv, LocalMarkersHaveArchives
  <2>2. QED
    BY <2>1, ReviewInit
<1>2. TypeOK /\ ReviewInv /\ PairInv /\ [Next]_vars => (ReviewInv /\ PairInv)'
  <2>1. UNCHANGED vars /\ ReviewInv /\ PairInv => (ReviewInv /\ PairInv)'
    BY DEF vars, outboxVars, reviewVars, stateVars, passVars, ReviewInv, Settled, PairInv,
       LocalMarkersHaveArchives
  <2>2. QED
    BY <2>1, ReviewStep, PairStep
<1>3. QED
  BY <1>1, <1>2, TypeCorrect, PTL DEF Spec

\* No interruption of the collector or of a cleanup leaves a false ready pair.
THEOREM LocalPairs == Spec => []LocalMarkersHaveArchives
<1>1. PairInv => LocalMarkersHaveArchives
  BY DEF PairInv
<1>2. QED
  BY <1>1, OutboxInvariants, PTL

-----------------------------------------------------------------------------
(* The Drive folder, while nobody else changes it: what a later file relies  *)
(* on is sent and verified before it, and removed after it.                  *)

\* While a file is sent, every file before it is there, as the pass knows it.
UploadInv ==
  pc \in Sending => \A j \in Kinds : j < k \/ (j = k /\ pc = "record") =>
                      \E f \in Files(cur, j) : f.intact /\ f.id = ids[j]

\* While the parts are deleted no index is left, and no marker with the archive.
DeleteInv ==
  pc \in Deleting => /\ k \in PartKinds => ~Has(cur, Index)
                     /\ k = Archive => ~Has(cur, Marker)

FolderInv ==
  outside = 0 => /\ Listable /\ \A f \in inbox : f.intact
                 /\ UploadInv /\ DeleteInv /\ DriveMarkersHaveArchives /\ IndexComplete

LEMMA OutsideGrows == TypeOK /\ Next /\ outside' = 0 => outside = 0
<1> SUFFICES ASSUME TypeOK, Next, outside' = 0 PROVE outside = 0
  OBVIOUS
<1>1. outside' = outside \/ outside' = outside + 1
  BY DEF Next, Process, Upload, Retention, Environment, boundVars, Fault, Outside,
         StartPass, ListBefore, CopyFile, CopyFails, Verify, PutFails, SaveRecord,
         Skip, BeginUpload, RejectLocal, ListReports, ListInbox, KeepLocal, LocalChecked,
         UnlinkReady, UnlinkArchive, MarkLocal, KeepDrive, BeginDelete, CheckDelete, DeleteFile,
         DeleteLost, MarkDrive, RetentionFails, FinishPass, Unreviewed, RejectReceipt,
         AcceptReceipt, Crash, Tick, CollectArchive, CollectMarker, LocalDamage, Review,
         BadReceipt, RetryDue, OwnerEdits, Land
<1>2. QED
  BY <1>1 DEF TypeOK, BoundOK

\* With nobody else around, the folder gains the file being sent, or loses the
\* only file of the name being deleted, or does not change.
LEMMA FolderSteps ==
  ASSUME TypeOK, FolderInv, Next, outside' = 0
  PROVE  \/ inbox' = inbox
         \/ /\ CopyFile \/ CopyFails
            /\ ~Has(cur, k) /\ inbox' = inbox \cup {NewFile(cur, k, ids)}
         \/ /\ DeleteFile \/ DeleteLost
            /\ inbox' = inbox \ Files(cur, k) /\ Has(cur, k)
<1>1. outside = 0
  BY OutsideGrows
<1>2. CASE UNCHANGED driveVars
  BY <1>2 DEF driveVars
<1>3. CASE CopyFile \/ CopyFails
  BY <1>3 DEF CopyFile, CopyFails, AddFile, driveVars
<1>4. CASE DeleteFile \/ DeleteLost
  <2>1. PICK f \in Files(cur, k) : inbox' = inbox \ {f}
    BY <1>4 DEF DeleteFile, DeleteLost
  <2>2. Files(cur, k) = {f}
    BY <1>1, <2>1 DEF FolderInv, Listable, Files
  <2>3. QED
    BY <1>4, <2>1, <2>2 DEF Has
<1>5. CASE (\E f \in inbox : OwnerEdits(f)) \/ (\E f \in landing : Land(f))
  BY <1>1, <1>5 DEF OwnerEdits, Land, Outside
<1>6. QED
  BY <1>2, <1>3, <1>4, <1>5, DriveFrame

\* The file being sent, as the listings show it once it is there.
LEMMA NewFileFacts ==
  ASSUME NEW b, NEW j, NEW sent
  PROVE  LET f == NewFile(b, j, sent)
         IN f.bundle = b /\ f.kind = j /\ f.intact /\ f.refs = Refs(j, sent)
  BY DEF NewFile

LEMMA ListableStep ==
  ASSUME TypeOK, FolderInv, Next, outside' = 0
  PROVE  Listable' /\ \A f \in inbox' : f.intact
<1>1. Listable /\ \A f \in inbox : f.intact
  BY OutsideGrows DEF FolderInv
<1>2. CASE inbox' = inbox
  BY <1>1, <1>2 DEF Listable
<1>3. CASE ~Has(cur, k) /\ inbox' = inbox \cup {NewFile(cur, k, ids)}
  BY <1>1, <1>3, NewFileFacts DEF Listable, Has, Files
<1>4. CASE inbox' = inbox \ Files(cur, k)
  BY <1>1, <1>4 DEF Listable
<1>5. QED
  BY <1>2, <1>3, <1>4, FolderSteps

LEMMA MarkersStep ==
  ASSUME TypeOK, FolderInv, Next, outside' = 0, NEW b \in Bundles, Has(b, Marker)'
  PROVE  \E f \in Files(b, Archive)' : f.intact
<1> USE DEF Has, Files
<1>1. UploadInv /\ DeleteInv /\ DriveMarkersHaveArchives /\ outside = 0
  BY OutsideGrows DEF FolderInv
<1>2. CASE inbox' = inbox
  BY <1>1, <1>2 DEF DriveMarkersHaveArchives
<1>3. CASE (CopyFile \/ CopyFails) /\ inbox' = inbox \cup {NewFile(cur, k, ids)}
  <2>1. CASE b = cur /\ k = Marker
    <3>1. \E f \in Files(cur, Archive) : f.intact
      BY <1>1, <1>3, <2>1, KindFacts DEF UploadInv, Sending, CopyFile, CopyFails, Archive, Marker
    <3>2. QED
      BY <1>3, <2>1, <3>1
  <2>2. CASE ~(b = cur /\ k = Marker)
    <3>1. Has(b, Marker)
      BY <1>3, <2>2, NewFileFacts
    <3>2. QED
      BY <1>1, <1>3, <3>1 DEF DriveMarkersHaveArchives
  <2>3. QED
    BY <2>1, <2>2
<1>4. CASE (DeleteFile \/ DeleteLost) /\ inbox' = inbox \ Files(cur, k)
  <2>1. Has(b, Marker)
    BY <1>4
  <2>2. PICK f \in Files(b, Archive) : f.intact
    BY <1>1, <2>1 DEF DriveMarkersHaveArchives
  <2>3. ~(b = cur /\ k = Archive)
    BY <1>1, <1>4, <2>1 DEF DeleteInv, Deleting, DeleteFile, DeleteLost
  <2>4. QED
    BY <1>4, <2>2, <2>3
<1>5. QED
  BY <1>2, <1>3, <1>4, FolderSteps

LEMMA IndexStep ==
  ASSUME TypeOK, FolderInv, Next, outside' = 0,
         NEW b \in Bundles, NEW f \in Files(b, Index)', NEW p \in PartKinds
  PROVE  \E g \in Files(b, p)' : g.intact /\ g.id = f.refs[p]
<1> USE DEF Has, Files
<1>1. UploadInv /\ DeleteInv /\ IndexComplete /\ outside = 0
  BY OutsideGrows DEF FolderInv
<1>2. CASE inbox' = inbox
  BY <1>1, <1>2 DEF IndexComplete
<1>3. CASE (CopyFile \/ CopyFails) /\ inbox' = inbox \cup {NewFile(cur, k, ids)}
  <2>1. CASE f = NewFile(cur, k, ids)
    <3>1. b = cur /\ k = Index /\ f.refs = Refs(Index, ids)
      BY <2>1, NewFileFacts
    <3>2. p \in Kinds /\ p < k /\ f.refs[p] = ids[p]
      BY <3>1, UploaderAssumption DEF PartKinds, Kinds, Index, Refs
    <3>3. \E g \in Files(cur, p) : g.intact /\ g.id = ids[p]
      BY <1>1, <1>3, <3>2 DEF UploadInv, Sending, CopyFile, CopyFails
    <3>4. QED
      BY <1>3, <3>1, <3>2, <3>3
  <2>2. CASE f \in Files(b, Index)
    BY <1>1, <1>3, <2>2 DEF IndexComplete
  <2>3. QED
    BY <1>3, <2>1, <2>2
<1>4. CASE (DeleteFile \/ DeleteLost) /\ inbox' = inbox \ Files(cur, k)
  <2>1. f \in Files(b, Index)
    BY <1>4
  <2>2. PICK g \in Files(b, p) : g.intact /\ g.id = f.refs[p]
    BY <1>1, <2>1 DEF IndexComplete
  <2>3. ~(b = cur /\ k = p)
    BY <1>1, <1>4, <2>1 DEF DeleteInv, Deleting, DeleteFile, DeleteLost
  <2>4. QED
    BY <1>4, <2>2, <2>3
<1>5. QED
  BY <1>2, <1>3, <1>4, FolderSteps

\* What a pass that is sending has just done.
LEMMA SendingSteps ==
  ASSUME Next, pc' \in Sending
  PROVE  \/ \E b \in Bundles : BeginUpload(b)
         \/ Verify \/ SaveRecord
         \/ /\ pc \in Sending /\ cur' = cur /\ k' = k /\ ids' = ids
            /\ pc' = "record" => pc = "record"
  <1>1. CASE UNCHANGED passVars
    BY <1>1 DEF passVars
  <1>2. CASE Process \/ Crash
    BY <1>2 DEF Process, Upload, Retention, Abort, EndPass, UploadFails, NextBundle, Sending,
       StartPass, ListBefore, CopyFile, CopyFails, PutFails,
       Skip, RejectLocal, ListReports, ListInbox, KeepLocal, LocalChecked,
       UnlinkReady, UnlinkArchive, MarkLocal, KeepDrive, BeginDelete, CheckDelete, DeleteFile,
       DeleteLost, MarkDrive, RetentionFails, FinishPass, Unreviewed, RejectReceipt,
       AcceptReceipt, Crash
  <1>3. QED
    BY <1>1, <1>2, PassFrame

LEMMA UploadStep ==
  ASSUME TypeOK, FolderInv, Next, outside' = 0, pc' \in Sending,
         NEW j \in Kinds, j < k' \/ (j = k' /\ pc' = "record")
  PROVE  \E f \in Files(cur, j)' : f.intact /\ f.id = ids'[j]
<1> USE DEF Files
<1>1. UploadInv /\ \A f \in inbox : f.intact
  BY OutsideGrows DEF FolderInv
<1>2. inbox \subseteq inbox'
  <2>1. ~(DeleteFile \/ DeleteLost)
    BY DEF DeleteFile, DeleteLost, Abort, EndPass, Sending
  <2>2. QED
    BY <2>1, FolderSteps
<1>3. j \in Nat /\ k \in Nat
  BY KindFacts DEF TypeOK, PassOK
<1>4. CASE \E b \in Bundles : BeginUpload(b)
  BY <1>3, <1>4 DEF BeginUpload, Archive, Kinds
<1>5. CASE Verify
  <2>1. PICK f \in Files(cur, k) :
          /\ ids' = [ids EXCEPT ![k] = f.id]
          /\ IF k \in {Marker, Index} THEN pc' = "record" /\ UNCHANGED k
                                      ELSE pc' = "list" /\ k' = k + 1
    BY <1>5 DEF Verify
  <2>2. pc \in Sending /\ cur' = cur
    BY <1>5 DEF Verify, Sending
  <2>3. CASE j = k
    <3>1. ids'[j] = f.id
      BY <2>1, <2>3 DEF TypeOK, PassOK, Ids
    <3>2. QED
      BY <1>1, <1>2, <2>1, <2>2, <2>3, <3>1
  <2>4. CASE j # k
    <3>1. j < k
      BY <1>3, <2>1, <2>4
    <3>2. ids'[j] = ids[j]
      BY <2>1, <2>4 DEF TypeOK, PassOK, Ids
    <3>3. QED
      BY <1>1, <1>2, <2>2, <3>1, <3>2 DEF UploadInv
  <2>5. QED
    BY <2>3, <2>4
<1>6. CASE SaveRecord
  <2>1. k = Marker /\ k' = Part(1) /\ cur' = cur /\ ids' = ids /\ pc = "record" /\ pc' = "list"
    BY <1>6 DEF SaveRecord, NextBundle, Sending
  <2>2. j < k \/ j = k
    BY <1>3, <2>1 DEF Marker, Part
  <2>3. QED
    BY <1>1, <1>2, <2>1, <2>2 DEF UploadInv, Sending
<1>7. CASE /\ pc \in Sending /\ cur' = cur /\ k' = k /\ ids' = ids
           /\ pc' = "record" => pc = "record"
  BY <1>1, <1>2, <1>7 DEF UploadInv
<1>8. QED
  BY <1>4, <1>5, <1>6, <1>7, SendingSteps

\* What a pass that is deleting has just done.
LEMMA DeletingSteps ==
  ASSUME Next, pc' \in Deleting
  PROVE  \/ BeginDelete \/ CheckDelete \/ (DeleteFile /\ k' = DeleteAfter(k))
         \/ UNCHANGED passVars
  <1>1. CASE Process \/ Crash
    BY <1>1 DEF Process, Upload, Retention, Abort, EndPass, UploadFails, NextBundle, Deleting,
       StartPass, ListBefore, CopyFile, CopyFails, Verify, PutFails, SaveRecord,
       Skip, BeginUpload, RejectLocal, ListReports, ListInbox, KeepLocal, LocalChecked,
       UnlinkReady, UnlinkArchive, MarkLocal, KeepDrive, DeleteFile,
       DeleteLost, MarkDrive, RetentionFails, FinishPass, Unreviewed, RejectReceipt,
       AcceptReceipt, Crash
  <1>2. QED
    BY <1>1, PassFrame

\* Before the parts comes the index, before the archive the marker.
LEMMA DeleteOrder ==
  ASSUME NEW j \in 1 .. Index
  PROVE  /\ DeleteAfter(j) \in PartKinds => j = Index \/ j \in PartKinds
         /\ DeleteAfter(j) = Archive => j = Marker
         /\ Index \notin PartKinds /\ Marker \notin PartKinds /\ Archive \notin PartKinds
         /\ Archive # Marker /\ Archive # Index /\ Marker # Index
  BY UploaderAssumption DEF DeleteAfter, PartKinds, Index, Marker, Archive, Part

LEMMA DeleteStep ==
  ASSUME TypeOK, FolderInv, Next, outside' = 0, pc' \in Deleting
  PROVE  /\ k' \in PartKinds => ~Has(cur, Index)'
         /\ k' = Archive => ~Has(cur, Marker)'
<1> USE DEF Has, Files
<1> DEFINE Gone == \A f \in inbox' : ~(f.bundle = cur /\ f.kind = k)
<1>1. DeleteInv
  BY OutsideGrows DEF FolderInv
<1>2. inbox' \subseteq inbox
  <2>1. ~(CopyFile \/ CopyFails)
    BY DEF CopyFile, CopyFails, UploadFails, NextBundle, Deleting
  <2>2. QED
    BY <2>1, FolderSteps
<1>3. k \in 0 .. Index
  BY DEF TypeOK, PassOK
<1>4. CASE BeginDelete
  <2>1. k' = Index \/ k' = Marker
    BY <1>4 DEF BeginDelete
  <2>2. Index \in 1 .. Index
    BY KindFacts
  <2>3. QED
    BY <2>1, <2>2, DeleteOrder
<1>5. ASSUME pc \in Deleting, cur' = cur, k # 0, k' = DeleteAfter(k), Gone
      PROVE  /\ k' \in PartKinds => ~Has(cur, Index)'
             /\ k' = Archive => ~Has(cur, Marker)'
  <2>1. k \in 1 .. Index
    BY <1>3, <1>5, KindFacts
  <2>2. k' \in PartKinds => k = Index \/ ~Has(cur, Index)
    BY <1>1, <1>5, <2>1, DeleteOrder DEF DeleteInv
  <2>3. k' = Archive => k = Marker
    BY <1>5, <2>1, DeleteOrder
  <2>4. QED
    BY <1>2, <1>5, <2>2, <2>3
<1>6. CASE CheckDelete
  <2>1. pc \in Deleting /\ cur' = cur /\ k # 0 /\ inbox' = inbox
    BY <1>6 DEF CheckDelete, Deleting, driveVars
  <2>2. CASE k' = k
    BY <1>1, <2>1, <2>2 DEF DeleteInv
  <2>3. CASE ~Has(cur, k) /\ k' = DeleteAfter(k)
    BY <1>5, <2>1, <2>3
  <2>4. QED
    BY <1>6, <2>2, <2>3 DEF CheckDelete
<1>7. CASE DeleteFile /\ k' = DeleteAfter(k)
  <2>1. pc = "deletefile" /\ pc \in Deleting /\ k # 0
    BY <1>7 DEF DeleteFile, Deleting, TypeOK, PassOK
  <2>2. cur' = cur
    BY <1>7 DEF DeleteFile, Abort, EndPass, Deleting
  <2>3. Gone
    <3>1. ~(CopyFile \/ CopyFails)
      BY <2>1 DEF CopyFile, CopyFails
    <3>2. inbox' # inbox
      BY <1>7 DEF DeleteFile
    <3>3. QED
      BY <2>2, <3>1, <3>2, FolderSteps
  <2>4. QED
    BY <1>5, <1>7, <2>1, <2>2, <2>3
<1>8. CASE UNCHANGED passVars
  BY <1>1, <1>2, <1>8 DEF passVars, DeleteInv
<1>9. QED
  BY <1>4, <1>6, <1>7, <1>8, DeletingSteps

LEMMA FolderInvariant == Spec => []FolderInv
<1>1. Init => FolderInv
  BY DEF Init, FolderInv, Listable, UploadInv, DeleteInv, DriveMarkersHaveArchives,
     IndexComplete, Sending, Deleting, Has, Files
<1>2. TypeOK /\ FolderInv /\ [Next]_vars => FolderInv'
  <2> SUFFICES ASSUME TypeOK, FolderInv, [Next]_vars, outside' = 0
               PROVE  FolderInv'
    BY DEF FolderInv
  <2>1. CASE Next
    <3>1. Listable' /\ \A f \in inbox' : f.intact
      BY <2>1, ListableStep
    <3>2. UploadInv'
      BY <2>1, UploadStep DEF UploadInv
    <3>3. DeleteInv'
      BY <2>1, DeleteStep DEF DeleteInv
    <3>4. DriveMarkersHaveArchives'
      BY <2>1, MarkersStep DEF DriveMarkersHaveArchives
    <3>5. IndexComplete'
      BY <2>1, IndexStep DEF IndexComplete
    <3>6. QED
      BY <3>1, <3>2, <3>3, <3>4, <3>5 DEF FolderInv
  <2>2. CASE UNCHANGED vars
    BY <2>2 DEF vars, driveVars, passVars, boundVars, FolderInv, Listable, UploadInv, DeleteInv,
       DriveMarkersHaveArchives, IndexComplete, Has, Files
  <2>3. QED
    BY <2>1, <2>2
<1>3. QED
  BY <1>1, <1>2, TypeCorrect, PTL DEF Spec

\* As long as nobody else changes the folder, a marker in Drive has its intact
\* archive beside it: the completion marker can be trusted.
THEOREM DrivePairs == Spec => []DriveMarkersHaveArchives
<1>1. FolderInv => DriveMarkersHaveArchives
  BY DEF FolderInv, DriveMarkersHaveArchives
<1>2. QED
  BY <1>1, FolderInvariant, PTL

\* As long as nobody else changes the folder, a text index in Drive has all the
\* parts it names.
THEOREM TextMirrors == Spec => []IndexComplete
<1>1. FolderInv => IndexComplete
  BY DEF FolderInv, IndexComplete
<1>2. QED
  BY <1>1, FolderInvariant, PTL

-----------------------------------------------------------------------------
(* What holds while nobody else changes the folder.  The uploader implements  *)
(* BundleLifecycle, and from the same invariants follow that a complete copy  *)
(* remains, a retired bundle leaves nothing, and nothing is sent twice.       *)

\* What a pass that sends or cleans up knows of the outbox.
Uploading == {"scan"} \cup Sending
OutboxInv ==
  /\ pc \in Uploading => todo \subseteq ready
  /\ pc \in Sending => cur \in ready
  /\ pc \in {"unlinkArchive", "markLocal"} => cur \notin ready
  /\ \A b \in Bundles : born[b] <= clock

\* The outbox is cleaned up before Drive is, and a record that says so is right.
RecordInv ==
  /\ \A b \in Bundles : record[b].localDeleted => stage[b] = "published" /\ b \notin ready
  /\ \A b \in Bundles : record[b].driveDeleted => record[b].localDeleted
  /\ pc = "drive" => record[cur].localDeleted \/ at - born[cur] < LocalDays
  /\ pc \in Deleting => record[cur].localDeleted

LEMMA ReadySteps ==
  ASSUME TypeOK, Next
  PROVE  \/ ready' = ready /\ born' = born /\ stage' = stage
         \/ UnlinkReady /\ ready' = ready \ {cur} /\ born' = born /\ stage' = stage
         \/ \E b \in Bundles : /\ CollectMarker(b) /\ stage[b] = "archived"
                               /\ ready' = ready \cup {b} /\ born' = born
                               /\ stage' = [stage EXCEPT ![b] = "published"]
         \/ \E b \in Bundles : /\ CollectArchive(b) /\ stage[b] = "none" /\ ready' = ready
                               /\ born' = [born EXCEPT ![b] = clock]
                               /\ stage' = [stage EXCEPT ![b] = "archived"]
  BY OutboxFrame DEF outboxVars, UnlinkReady, UnlinkArchive, CollectArchive, CollectMarker, LocalDamage

\* A bundle that was published is never published again.
LEMMA PublishedOnce ==
  ASSUME TypeOK, Next, NEW b \in Bundles, stage[b] = "published"
  PROVE  /\ stage'[b] = "published" /\ born'[b] = born[b]
         /\ b \in ready' => b \in ready
<1>1. stage'[b] = "published" /\ born'[b] = born[b]
  BY OutboxKept
<1>2. b \in ready' => b \in ready
  BY ReadySteps
<1>3. QED
  BY <1>1, <1>2

\* How a pass comes to where it looks at the outbox.
LEMMA UploadingSteps ==
  ASSUME Next, pc' \in Uploading
  PROVE  \/ StartPass
         \/ /\ pc \in Uploading /\ todo' \subseteq todo
            /\ pc' \in Sending => (pc \in Sending /\ cur' = cur) \/ cur' \in todo
<1>1. CASE UNCHANGED passVars
  BY <1>1 DEF passVars, Uploading
<1>2. CASE Process \/ Crash
  BY <1>2 DEF Process, Upload, Retention, Abort, EndPass, UploadFails, NextBundle, Uploading, Sending,
     ListBefore, CopyFile, CopyFails, Verify, PutFails, SaveRecord,
     Skip, BeginUpload, RejectLocal, ListReports, ListInbox, KeepLocal, LocalChecked,
     UnlinkReady, UnlinkArchive, MarkLocal, KeepDrive, BeginDelete, CheckDelete, DeleteFile,
     DeleteLost, MarkDrive, RetentionFails, FinishPass, Unreviewed, RejectReceipt,
     AcceptReceipt, Crash
<1>3. QED
  BY <1>1, <1>2, PassFrame

\* How a pass comes to the second half of a cleanup.
LEMMA CleanupSteps ==
  ASSUME Next
  PROVE  /\ pc' = "unlinkArchive" => UnlinkReady \/ UNCHANGED passVars
         /\ pc' = "markLocal" => UnlinkArchive \/ UNCHANGED passVars
         /\ pc' = "unlinkReady" => LocalChecked \/ UNCHANGED passVars
         /\ pc' = "drive" => LocalChecked \/ MarkLocal \/ UNCHANGED passVars
  BY PassFrame DEF Process, Upload, Retention, Abort, EndPass, UploadFails, NextBundle,
     StartPass, ListBefore, CopyFile, CopyFails, Verify, PutFails, SaveRecord,
     Skip, BeginUpload, RejectLocal, ListReports, ListInbox, KeepLocal, LocalChecked,
     UnlinkReady, UnlinkArchive, MarkLocal, KeepDrive, BeginDelete, CheckDelete, DeleteFile,
     DeleteLost, MarkDrive, RetentionFails, FinishPass, Unreviewed, RejectReceipt,
     AcceptReceipt, Crash

LEMMA OutboxInvStep ==
  ASSUME TypeOK, ReviewInv, PairInv, OutboxInv, Next
  PROVE  OutboxInv'
<1>1. ASSUME pc' \in Uploading
      PROVE  todo' \subseteq ready' /\ (pc' \in Sending => cur' \in ready')
  <2>1. ready \subseteq ready'
    BY <1>1, ReadySteps DEF UnlinkReady, Uploading, Sending
  <2>2. CASE StartPass
    BY <2>1, <2>2 DEF StartPass, Sending
  <2>3. CASE /\ pc \in Uploading /\ todo' \subseteq todo
             /\ pc' \in Sending => (pc \in Sending /\ cur' = cur) \/ cur' \in todo
    BY <2>1, <2>3 DEF OutboxInv
  <2>4. QED
    BY <1>1, <2>2, <2>3, UploadingSteps
<1>2. ASSUME pc' \in {"unlinkArchive", "markLocal"} PROVE cur' \notin ready'
  <2>1. CASE UnlinkReady
    BY <2>1 DEF UnlinkReady
  <2>2. CASE UnlinkArchive
    BY <2>2 DEF UnlinkArchive, PairInv
  <2>3. CASE pc \in {"unlinkArchive", "markLocal"} /\ UNCHANGED passVars
    <3>1. cur' = cur /\ cur \in Bundles /\ cur \notin ready /\ stage[cur] = "published"
      BY <2>3 DEF passVars, OutboxInv, TypeOK, PassOK, Retiring, ReviewInv, Settled
    <3>2. QED
      BY <3>1, PublishedOnce
  <2>4. QED
    BY <1>2, <2>1, <2>2, <2>3, CleanupSteps DEF passVars
<1>3. ASSUME NEW b \in Bundles PROVE born'[b] <= clock'
  <2>1. clock' \in Nat /\ clock \in Nat /\ clock' >= clock /\ born[b] \in Nat /\ born[b] <= clock
    BY ClockFrame DEF TypeOK, BoundOK, OutboxOK, OutboxInv, Tick
  <2>2. born'[b] = born[b] \/ born'[b] = clock
    BY ReadySteps DEF TypeOK, OutboxOK
  <2>3. QED
    BY <2>1, <2>2
<1>4. QED
  BY <1>1, <1>2, <1>3 DEF OutboxInv, Uploading

LEMMA RecordInvStep ==
  ASSUME TypeOK, ReviewInv, PairInv, OutboxInv, RecordInv, Next
  PROVE  RecordInv'
<1>1. ASSUME NEW b \in Bundles
      PROVE  /\ record'[b].localDeleted => record[b].localDeleted \/ (MarkLocal /\ b = cur)
             /\ record'[b].driveDeleted => record[b].driveDeleted \/ (MarkDrive /\ b = cur)
             /\ record[b].localDeleted => record'[b].localDeleted \/ (SaveRecord /\ b = cur)
             /\ SaveRecord /\ b = cur => ~record'[b].driveDeleted
  <2>1. record[b] \in Record /\ record \in [Bundles -> Record]
    BY DEF TypeOK, StateOK
  <2>2. CASE UNCHANGED record /\ ~SaveRecord
    BY <2>2
  <2>3. CASE SaveRecord
    <3>1. CASE b # cur
      <4>1. record'[b] = record[b]
        BY <2>1, <2>3, <3>1 DEF SaveRecord
      <4>2. QED
        BY <2>3, <3>1, <4>1
    <3>2. CASE b = cur
      <4>1. record'[b] = [NoRecord EXCEPT !.up = TRUE, !.ids = ids, !.mirrored = (k = Index)]
        BY <2>1, <2>3, <3>2 DEF SaveRecord
      <4>2. record'[b].localDeleted = FALSE /\ record'[b].driveDeleted = FALSE
        BY <4>1 DEF NoRecord
      <4>3. QED
        BY <2>3, <3>2, <4>2
    <3>3. QED
      BY <3>1, <3>2
  <2>4. CASE MarkLocal
    <3>1. record'[b] = IF b = cur THEN [record[b] EXCEPT !.localDeleted = TRUE] ELSE record[b]
      BY <2>1, <2>4 DEF MarkLocal
    <3>2. ~SaveRecord
      BY <2>4 DEF MarkLocal, SaveRecord
    <3>3. QED
      BY <2>1, <2>4, <3>1, <3>2 DEF Record
  <2>5. CASE MarkDrive
    <3>1. record'[b] = IF b = cur THEN [record[b] EXCEPT !.driveDeleted = TRUE] ELSE record[b]
      BY <2>1, <2>5 DEF MarkDrive
    <3>2. ~SaveRecord
      BY <2>5 DEF MarkDrive, SaveRecord
    <3>3. QED
      BY <2>1, <2>5, <3>1, <3>2 DEF Record
  <2>6. QED
    BY <2>2, <2>3, <2>4, <2>5, RecordFrame
<1>2. ASSUME NEW b \in Bundles, record'[b].localDeleted
      PROVE  stage'[b] = "published" /\ b \notin ready'
  <2>1. stage[b] = "published" /\ b \notin ready
    <3>1. CASE record[b].localDeleted
      BY <3>1 DEF RecordInv
    <3>2. CASE MarkLocal /\ b = cur
      BY <3>2 DEF MarkLocal, OutboxInv, ReviewInv, Settled
    <3>3. QED
      BY <1>1, <1>2, <3>1, <3>2
  <2>2. QED
    BY <2>1, PublishedOnce
<1>3. ASSUME NEW b \in Bundles, record'[b].driveDeleted PROVE record'[b].localDeleted
  <2>1. record[b].localDeleted
    BY <1>1, <1>3 DEF RecordInv, MarkDrive, Deleting
  <2>2. QED
    BY <1>1, <1>3, <2>1
<1>4. ASSUME pc' = "drive"
      PROVE  record'[cur'].localDeleted \/ at' - born'[cur'] < LocalDays
  <2>1. CASE LocalChecked
    <3>1. ~DueLocal /\ cur' = cur /\ at' = at /\ born' = born /\ record' = record
      BY <1>4, <2>1 DEF LocalChecked, outboxVars, stateVars
    <3>2. at - born[cur] \in Int
      BY <2>1 DEF LocalChecked, TypeOK, PassOK, OutboxOK, Retiring
    <3>3. QED
      BY <3>1, <3>2, UploaderAssumption DEF DueLocal, Due
  <2>2. CASE MarkLocal
    <3>1. cur \in Bundles /\ cur' = cur
      BY <2>2 DEF MarkLocal, TypeOK, PassOK, Retiring
    <3>2. record'[cur].localDeleted
      BY <2>2, <3>1 DEF MarkLocal, TypeOK, StateOK, Record
    <3>3. QED
      BY <3>1, <3>2
  <2>3. CASE pc = "drive" /\ UNCHANGED passVars
    <3>1. cur \in Bundles /\ cur' = cur /\ at' = at /\ stage[cur] = "published" /\ ~SaveRecord
      BY <2>3 DEF passVars, TypeOK, PassOK, Retiring, ReviewInv, Settled, SaveRecord
    <3>2. QED
      BY <1>1, <2>3, <3>1, PublishedOnce DEF RecordInv
  <2>4. QED
    BY <1>4, <2>1, <2>2, <2>3, CleanupSteps DEF passVars
<1>5. ASSUME pc' \in Deleting PROVE record'[cur'].localDeleted
  <2>1. CASE BeginDelete
    <3>1. cur \in Bundles /\ cur' = cur /\ record' = record
      BY <2>1 DEF BeginDelete, TypeOK, PassOK, Retiring, stateVars
    <3>2. at - born[cur] \in Int /\ at - born[cur] >= DriveDays
      BY <2>1, <3>1 DEF BeginDelete, DueDrive, Due, TypeOK, PassOK, OutboxOK
    <3>3. ~(at - born[cur] < LocalDays)
      BY <3>2, UploaderAssumption
    <3>4. QED
      BY <2>1, <3>1, <3>3 DEF RecordInv, BeginDelete
  <2>2. CASE pc \in Deleting /\ cur' = cur
    <3>1. cur \in Bundles /\ ~SaveRecord
      BY <2>2 DEF TypeOK, PassOK, Retiring, SaveRecord, Deleting
    <3>2. QED
      BY <1>1, <2>2, <3>1 DEF RecordInv
  <2>3. CASE CheckDelete \/ DeleteFile
    <3>1. pc \in Deleting /\ cur' = cur
      BY <1>5, <2>3 DEF CheckDelete, DeleteFile, Abort, EndPass, Deleting
    <3>2. QED
      BY <2>2, <3>1
  <2>4. QED
    BY <1>5, <2>1, <2>2, <2>3, DeletingSteps DEF passVars
<1>6. QED
  BY <1>2, <1>3, <1>4, <1>5 DEF RecordInv

LEMMA RecordsInvariant == Spec => [](OutboxInv /\ RecordInv)
<1>1. Init => OutboxInv /\ RecordInv
  BY DEF Init, OutboxInv, RecordInv, Uploading, Sending, Deleting, NoRecord
<1>2. TypeOK /\ ReviewInv /\ PairInv /\ OutboxInv /\ RecordInv /\ [Next]_vars
        => (OutboxInv /\ RecordInv)'
  <2>1. UNCHANGED vars /\ OutboxInv /\ RecordInv => (OutboxInv /\ RecordInv)'
    BY DEF vars, outboxVars, stateVars, passVars, OutboxInv, RecordInv
  <2>2. QED
    BY <2>1, OutboxInvStep, RecordInvStep
<1>3. QED
  BY <1>1, <1>2, TypeCorrect, OutboxInvariants, PTL DEF Spec

-----------------------------------------------------------------------------
(* The folder, while nobody else changes it: what retention has listed stays *)
(* until its own turn comes, what was sent stays as long as the outbox has   *)
(* the bundle, and a deletion leaves only what comes after it.               *)

Retaining == {"retain"} \cup Retiring
SeenInv ==
  /\ pc \in Retiring => cur \in todo
  /\ pc \in Retaining =>
       \A f \in inboxSeen : f.bundle \in todo /\ ~(pc \in Deleting /\ f.bundle = cur) => f \in inbox
  /\ pc = "unlinkReady" => Has(cur, Marker)

\* IDs were given out, also those in receipts.
IdInv ==
  /\ \A f \in inbox : f.id \in 1 .. made[f.bundle][f.kind] /\ stage[f.bundle] = "published"
  /\ \A b \in Bundles, id \in Nat : <<b, id>> \in reviewed => id \in 1 .. made[b][Archive]

SentInv ==
  \A b \in Bundles, j \in Kinds :
    /\ made[b][j] <= 1
    /\ stage[b] # "published" => made[b][j] = 0
    /\ b \in ready /\ made[b][j] # 0 => Has(b, j)

\* What a deletion that has come to file j has left.
Remaining(j) ==
  {i \in Kinds : \/ i <= Marker /\ i <= j
                 \/ j = Index
                 \/ i \in PartKinds /\ j \in PartKinds /\ j <= i}
GoneInv ==
  pc \in Deleting => \A f \in inbox : f.bundle = cur =>
    f.kind \in Remaining(k) \/ (f.kind \in PartKinds \cup {Index} /\ ~record[cur].mirrored)

CopyInv ==
  outside = 0 => SeenInv /\ IdInv /\ SentInv /\ GoneInv /\ CopyRemains /\ RetiredCompletely

\* The folder's changes with the IDs that they use up.
LEMMA CopySteps ==
  ASSUME TypeOK, FolderInv, Next, outside' = 0
  PROVE  \/ inbox' = inbox /\ made' = made
         \/ /\ pc = "copy" /\ cur \in Bundles /\ k \in Kinds /\ ~Has(cur, k)
            /\ inbox' = inbox \cup {NewFile(cur, k, ids)}
            /\ made' = [made EXCEPT ![cur][k] = made[cur][k] + 1]
         \/ /\ pc = "deletefile" /\ cur \in Bundles /\ k \in 1 .. Index
            /\ DeleteFile \/ DeleteLost
            /\ inbox' = inbox \ Files(cur, k) /\ made' = made
<1>1. CASE UNCHANGED driveVars
  BY <1>1 DEF driveVars
<1>2. CASE CopyFile \/ CopyFails
  <2>1. pc = "copy" /\ cur \in Bundles /\ k \in Kinds
    BY <1>2 DEF CopyFile, CopyFails, TypeOK, PassOK, Sending, Kinds
  <2>2. \/ inbox' = inbox /\ made' = made
        \/ ~Has(cur, k) /\ AddFile(NewFile(cur, k, ids))
    BY <1>2 DEF CopyFile, CopyFails, driveVars
  <2>3. QED
    BY <2>1, <2>2 DEF AddFile, NewFile
<1>3. CASE DeleteFile \/ DeleteLost
  <2>1. pc = "deletefile" /\ cur \in Bundles /\ k \in 1 .. Index /\ made' = made
    BY <1>3, KindFacts DEF DeleteFile, DeleteLost, TypeOK, PassOK, Retiring, Deleting
  <2>2. inbox' # inbox
    BY <1>3 DEF DeleteFile, DeleteLost, Files
  <2>3. ~(CopyFile \/ CopyFails)
    BY <2>1 DEF CopyFile, CopyFails
  <2>4. QED
    BY <1>3, <2>1, <2>2, <2>3, FolderSteps
<1>4. CASE (\E f \in inbox : OwnerEdits(f)) \/ (\E f \in landing : Land(f))
  BY <1>4, OutsideGrows DEF OwnerEdits, Land, Outside
<1>5. QED
  BY <1>1, <1>2, <1>3, <1>4, DriveFrame

\* How retention goes through its records.
LEMMA RetainingSteps ==
  ASSUME Next, pc' \in Retaining
  PROVE  \/ ListInbox
         \/ /\ pc \in Retaining /\ inboxSeen' = inboxSeen /\ todo' \subseteq todo
            /\ pc' \in Retiring =>
                 /\ todo' = todo
                 /\ \/ pc \in Retiring /\ cur' = cur /\ (pc \in Deleting => pc' \in Deleting)
                    \/ pc = "retain" /\ cur' \in todo
            /\ pc \in Deleting /\ pc' \notin Deleting => cur \notin todo'
<1>1. CASE UNCHANGED passVars
  BY <1>1 DEF passVars, Retaining
<1>2. CASE Process \/ Crash
  BY <1>2 DEF Process, Upload, Retention, Abort, EndPass, UploadFails, NextBundle,
     Retaining, Retiring, Deleting,
     StartPass, ListBefore, CopyFile, CopyFails, Verify, PutFails, SaveRecord,
     Skip, BeginUpload, RejectLocal, ListReports, ListInbox, KeepLocal, LocalChecked,
     UnlinkReady, UnlinkArchive, MarkLocal, KeepDrive, BeginDelete, CheckDelete, DeleteFile,
     DeleteLost, MarkDrive, RetentionFails, FinishPass, Unreviewed, RejectReceipt,
     AcceptReceipt, Crash
<1>3. QED
  BY <1>1, <1>2, PassFrame

LEMMA SeenStep ==
  ASSUME TypeOK, RecordInv, FolderInv, SeenInv, Next, outside' = 0
  PROVE  SeenInv'
<1>1. ASSUME pc' \in Retiring PROVE cur' \in todo'
  BY <1>1, RetainingSteps DEF Retaining, SeenInv, ListInbox, Retiring, Deleting
<1>2. ASSUME pc' \in Retaining, NEW f \in inboxSeen', f.bundle \in todo',
             ~(pc' \in Deleting /\ f.bundle = cur')
      PROVE  f \in inbox'
  <2>1. CASE ListInbox
    BY <1>2, <2>1 DEF ListInbox, driveVars
  <2>2. CASE /\ pc \in Retaining /\ inboxSeen' = inboxSeen /\ todo' \subseteq todo
             /\ pc' \in Retiring =>
                  /\ todo' = todo
                  /\ \/ pc \in Retiring /\ cur' = cur /\ (pc \in Deleting => pc' \in Deleting)
                     \/ pc = "retain" /\ cur' \in todo
             /\ pc \in Deleting /\ pc' \notin Deleting => cur \notin todo'
    <3>1. pc \in Deleting => f.bundle # cur
      BY <1>2, <2>2 DEF Retiring, Deleting
    <3>2. f \in inbox
      BY <1>2, <2>2, <3>1 DEF SeenInv
    <3>3. QED
      BY <2>2, <3>1, <3>2, CopySteps DEF Files, Deleting
  <2>3. QED
    BY <1>2, <2>1, <2>2, RetainingSteps
<1>3. ASSUME pc' = "unlinkReady" PROVE Has(cur, Marker)' /\ cur' = cur
  <2>1. CASE LocalChecked
    <3>1. pc = "local" /\ DueLocal /\ ~LocalRefused /\ cur' = cur /\ inbox' = inbox
      BY <1>3, <2>1 DEF LocalChecked, driveVars
    <3>2. cur \in Bundles /\ ~record[cur].driveDeleted
      BY <3>1 DEF DueLocal, RecordInv, TypeOK, PassOK, Retiring
    <3>3. PICK f \in Listed(cur, Marker) : TRUE
      BY <3>1, <3>2 DEF LocalRefused, RemoteVerified
    <3>4. f \in inbox
      BY <3>1, <3>3 DEF Listed, SeenInv, Retaining, Retiring, Deleting
    <3>5. QED
      BY <3>1, <3>3, <3>4 DEF Has, Files, Listed
  <2>2. CASE pc = "unlinkReady" /\ UNCHANGED passVars
    <3>1. inbox' = inbox /\ cur' = cur
      BY <2>2, CopySteps DEF passVars
    <3>2. QED
      BY <2>2, <3>1 DEF SeenInv, Has, Files
  <2>3. QED
    BY <1>3, <2>1, <2>2, CleanupSteps DEF passVars
<1>4. QED
  BY <1>1, <1>2, <1>3 DEF SeenInv

LEMMA IdStep ==
  ASSUME TypeOK, ReviewInv, FolderInv, IdInv, Next, outside' = 0
  PROVE  IdInv'
<1>1. ASSUME NEW b \in Bundles, NEW j \in Kinds
      PROVE  made[b][j] \in Nat /\ made'[b][j] \in Nat /\ made[b][j] <= made'[b][j]
  BY CopySteps DEF TypeOK, DriveOK, Ids
<1>2. ASSUME NEW f \in inbox'
      PROVE  f.id \in 1 .. made'[f.bundle][f.kind] /\ stage'[f.bundle] = "published"
  <2>1. CASE f \in inbox
    <3>1. f.bundle \in Bundles /\ f.kind \in Kinds /\ f.id \in Nat
      BY <2>1 DEF TypeOK, DriveOK, File
    <3>2. f.id \in 1 .. made[f.bundle][f.kind] /\ stage[f.bundle] = "published"
      BY <2>1 DEF IdInv
    <3>3. QED
      BY <1>1, <3>1, <3>2, PublishedOnce
  <2>2. CASE f \notin inbox
    <3>1. /\ pc = "copy" /\ cur \in Bundles /\ k \in Kinds /\ f = NewFile(cur, k, ids)
          /\ made' = [made EXCEPT ![cur][k] = made[cur][k] + 1]
      BY <1>2, <2>2, CopySteps
    <3>2. f.bundle = cur /\ f.kind = k /\ f.id = made[cur][k] + 1
      BY <3>1 DEF NewFile
    <3>3. made'[cur][k] = made[cur][k] + 1
      BY <3>1 DEF TypeOK, DriveOK, Ids
    <3>4. stage'[cur] = "published"
      BY <3>1, PublishedOnce DEF ReviewInv, Settled
    <3>5. QED
      BY <1>1, <3>1, <3>2, <3>3, <3>4
  <2>3. QED
    BY <2>1, <2>2
<1>3. ASSUME NEW b \in Bundles, NEW id \in Nat, <<b, id>> \in reviewed'
      PROVE  id \in 1 .. made'[b][Archive]
  <2>1. id \in 1 .. made[b][Archive]
    <3>1. CASE <<b, id>> \in reviewed
      BY <3>1 DEF IdInv
    <3>2. ASSUME NEW c \in Bundles, Review(c), <<b, id>> \notin reviewed
          PROVE  id \in 1 .. made[b][Archive]
      <4>1. PICK f \in Files(c, Archive) : reviewed' = reviewed \cup {<<c, f.id>>}
        BY <3>2 DEF Review
      <4>2. c = b /\ f.id = id /\ f \in inbox /\ f.bundle = c /\ f.kind = Archive
        BY <1>3, <3>2, <4>1 DEF Files
      <4>3. QED
        BY <4>2 DEF IdInv
    <3>3. QED
      BY <1>3, <3>1, <3>2, ReviewFrame DEF reviewVars, BadReceipt
  <2>2. QED
    BY <1>1, <2>1, KindFacts
<1>4. QED
  BY <1>2, <1>3 DEF IdInv

LEMMA SentStep ==
  ASSUME TypeOK, ReviewInv, OutboxInv, RecordInv, FolderInv, SentInv, Next, outside' = 0
  PROVE  SentInv'
<1> SUFFICES ASSUME NEW b \in Bundles, NEW j \in Kinds
             PROVE  /\ made'[b][j] <= 1
                    /\ stage'[b] # "published" => made'[b][j] = 0
                    /\ b \in ready' /\ made'[b][j] # 0 => Has(b, j)'
  BY DEF SentInv
<1>1. /\ made[b][j] <= 1 /\ made[b][j] \in Nat
      /\ stage[b] # "published" => made[b][j] = 0
      /\ b \in ready /\ made[b][j] # 0 => Has(b, j)
  BY DEF SentInv, TypeOK, DriveOK, Ids
<1>2. stage[b] = "published" => stage'[b] = "published" /\ (b \in ready' => b \in ready)
  BY PublishedOnce
<1>3. CASE inbox' = inbox /\ made' = made
  BY <1>1, <1>2, <1>3 DEF Has, Files
<1>4. CASE /\ pc = "copy" /\ cur \in Bundles /\ k \in Kinds /\ ~Has(cur, k)
           /\ inbox' = inbox \cup {NewFile(cur, k, ids)}
           /\ made' = [made EXCEPT ![cur][k] = made[cur][k] + 1]
  <2>1. cur \in ready /\ stage[cur] = "published"
    BY <1>4 DEF OutboxInv, Sending, ReviewInv, Settled
  <2>2. CASE b = cur /\ j = k
    <3>1. made[b][j] = 0
      BY <1>1, <1>4, <2>1, <2>2
    <3>2. made'[b][j] = 1
      BY <1>4, <2>2, <3>1 DEF TypeOK, DriveOK, Ids
    <3>3. Has(b, j)'
      BY <1>4, <2>2, NewFileFacts DEF Has, Files
    <3>4. QED
      BY <1>2, <2>1, <2>2, <3>2, <3>3
  <2>3. CASE ~(b = cur /\ j = k)
    <3>1. made'[b][j] = made[b][j]
      BY <1>4, <2>3 DEF TypeOK, DriveOK, Ids
    <3>2. Has(b, j) => Has(b, j)'
      BY <1>4 DEF Has, Files
    <3>3. QED
      BY <1>1, <1>2, <3>1, <3>2
  <2>4. QED
    BY <2>2, <2>3
<1>5. CASE /\ pc = "deletefile" /\ cur \in Bundles
           /\ inbox' = inbox \ Files(cur, k) /\ made' = made
  <2>1. cur \notin ready /\ stage[cur] = "published"
    BY <1>5 DEF RecordInv, Deleting
  <2>2. CASE b = cur
    BY <1>1, <1>2, <1>5, <2>1, <2>2
  <2>3. CASE b # cur
    <3>1. Has(b, j) => Has(b, j)'
      BY <1>5, <2>3 DEF Has, Files
    <3>2. QED
      BY <1>1, <1>2, <1>5, <3>1
  <2>4. QED
    BY <2>2, <2>3
<1>6. QED
  BY <1>3, <1>4, <1>5, CopySteps

LEMMA RemainingAfter ==
  ASSUME NEW j \in 1 .. Index
  PROVE  Remaining(j) \ {j} \subseteq Remaining(DeleteAfter(j))
  BY UploaderAssumption DEF Remaining, DeleteAfter, Kinds, PartKinds, Index, Marker, Archive, Part

\* Records keep what they say of the mirror while their bundle is retired.
LEMMA MirrorKept ==
  ASSUME TypeOK, Next, NEW b \in Bundles, ~(SaveRecord /\ b = cur)
  PROVE  record'[b].mirrored = record[b].mirrored
<1>1. record[b] \in Record /\ record \in [Bundles -> Record]
  BY DEF TypeOK, StateOK
<1>2. CASE UNCHANGED record
  BY <1>2
<1>3. CASE SaveRecord
  BY <1>1, <1>3 DEF SaveRecord
<1>4. CASE MarkLocal
  BY <1>1, <1>4 DEF MarkLocal, Record
<1>5. CASE MarkDrive
  BY <1>1, <1>5 DEF MarkDrive, Record
<1>6. QED
  BY <1>2, <1>3, <1>4, <1>5, RecordFrame

LEMMA GoneStep ==
  ASSUME TypeOK, FolderInv, GoneInv, Next, outside' = 0
  PROVE  GoneInv'
<1> SUFFICES ASSUME pc' \in Deleting, NEW f \in inbox', f.bundle = cur'
             PROVE  \/ f.kind \in Remaining(k')
                    \/ f.kind \in PartKinds \cup {Index} /\ ~record'[cur'].mirrored
  BY DEF GoneInv, Remaining
<1>1. inbox' \subseteq inbox
  <2>1. ~(CopyFile \/ CopyFails)
    BY DEF CopyFile, CopyFails, UploadFails, NextBundle, Deleting
  <2>2. QED
    BY <2>1, FolderSteps
<1>2. k \in 0 .. Index /\ f.kind \in Kinds
  BY <1>1 DEF TypeOK, PassOK, DriveOK, File
<1>3. CASE BeginDelete
  <2>1. cur' = cur /\ record' = record
    BY <1>3 DEF BeginDelete, stateVars
  <2>2. k' = IF record[cur].mirrored THEN Index ELSE Marker
    BY <1>3 DEF BeginDelete
  <2>3. QED
    BY <1>2, <2>1, <2>2, UploaderAssumption
    DEF Remaining, Kinds, PartKinds, Index, Marker, Archive
<1>4. ASSUME pc \in Deleting, cur' = cur, record'[cur].mirrored = record[cur].mirrored,
             k' = k \/ (k # 0 /\ k' = DeleteAfter(k) /\ f.kind # k)
      PROVE  \/ f.kind \in Remaining(k')
             \/ f.kind \in PartKinds \cup {Index} /\ ~record'[cur'].mirrored
  <2>1. \/ f.kind \in Remaining(k)
        \/ f.kind \in PartKinds \cup {Index} /\ ~record[cur].mirrored
    BY <1>1, <1>4 DEF GoneInv
  <2>2. k # 0 => k \in 1 .. Index
    BY <1>2, KindFacts
  <2>3. QED
    BY <1>4, <2>1, <2>2, RemainingAfter
<1>5. CASE CheckDelete
  <2>1. pc \in Deleting /\ cur' = cur /\ record' = record /\ inbox' = inbox /\ k # 0
    BY <1>5 DEF CheckDelete, stateVars, driveVars, Deleting
  <2>2. k' = k \/ (k' = DeleteAfter(k) /\ ~Has(cur, k))
    BY <1>5 DEF CheckDelete
  <2>3. ~Has(cur, k) => f.kind # k
    BY <2>1 DEF Has, Files
  <2>4. QED
    BY <1>4, <2>1, <2>2, <2>3
<1>6. CASE DeleteFile /\ k' = DeleteAfter(k)
  <2>1. pc = "deletefile" /\ pc \in Deleting /\ k # 0
    BY <1>6 DEF DeleteFile, Deleting, TypeOK, PassOK
  <2>2. cur' = cur /\ record' = record
    BY <1>6 DEF DeleteFile, Abort, EndPass, Deleting, stateVars
  <2>3. f.kind # k
    <3>1. inbox' # inbox
      BY <1>6 DEF DeleteFile, Files
    <3>2. inbox' = inbox \ Files(cur, k)
      BY <2>1, <3>1, CopySteps
    <3>3. QED
      BY <2>2, <3>2 DEF Files
  <2>4. QED
    BY <1>4, <1>6, <2>1, <2>2, <2>3
<1>7. CASE UNCHANGED passVars
  <2>1. pc \in Deleting /\ cur' = cur /\ k' = k /\ cur \in Bundles
    BY <1>7 DEF passVars, TypeOK, PassOK, Retiring
  <2>2. ~SaveRecord
    BY <2>1 DEF SaveRecord, Deleting
  <2>3. QED
    BY <1>4, <2>1, <2>2, MirrorKept
<1>8. QED
  BY <1>3, <1>5, <1>6, <1>7, DeletingSteps

LEMMA CopyStep ==
  ASSUME TypeOK, ReviewInv, FolderInv, SeenInv, IdInv, CopyRemains, Next, outside' = 0
  PROVE  CopyRemains'
<1> SUFFICES ASSUME NEW b \in Bundles, stage'[b] = "published", b \notin ready', ~Has(b, Marker)'
             PROVE  /\ clock' - born'[b] >= DriveDays
                    /\ \E id \in 1 .. made'[b][Archive] : <<b, id>> \in reviewed'
  BY DEF CopyRemains, Has, Files
<1> DEFINE Over == /\ clock - born[b] >= DriveDays
                   /\ \E id \in 1 .. made[b][Archive] : <<b, id>> \in reviewed
<1>1. stage[b] = "published" /\ born'[b] = born[b]
  <2>1. stage[b] = "published"
    BY ReadySteps DEF TypeOK, OutboxOK
  <2>2. QED
    BY <2>1, PublishedOnce
<1>2. Over
  <2>1. CASE b \in ready
    <3>1. UnlinkReady /\ b = cur
      BY <2>1, ReadySteps
    <3>2. Has(b, Marker)' <=> Has(b, Marker)
      BY <3>1 DEF UnlinkReady, driveVars, Has, Files
    <3>3. Has(b, Marker)
      BY <3>1 DEF UnlinkReady, SeenInv
    <3>4. QED
      BY <3>2, <3>3
  <2>2. CASE Has(b, Marker)
    <3>1. /\ pc = "deletefile" /\ cur = b
      BY <2>2, CopySteps DEF Has, Files
    <3>2. at - born[b] >= DriveDays /\ <<b, record[b].ids[Archive]>> \in reviewed /\ at <= clock
      BY <3>1 DEF ReviewInv, Retiring, Deleting
    <3>3. record[b].ids[Archive] \in Nat
      BY KindFacts DEF TypeOK, StateOK, Record, Ids
    <3>4. record[b].ids[Archive] \in 1 .. made[b][Archive]
      BY <3>2, <3>3 DEF IdInv
    <3>5. clock - born[b] >= DriveDays
      BY <3>2, UploaderAssumption DEF TypeOK, PassOK, BoundOK, OutboxOK
    <3>6. QED
      BY <3>2, <3>4, <3>5
  <2>3. QED
    BY <1>1, <2>1, <2>2, OutsideGrows DEF CopyRemains
<1>3. clock' >= clock /\ clock \in Nat /\ clock' \in Nat /\ born[b] \in Nat
  BY ClockFrame DEF TypeOK, BoundOK, OutboxOK, Tick
<1>4. reviewed \subseteq reviewed'
  BY ReviewFrame DEF reviewVars, Review, BadReceipt
<1>5. made[b][Archive] \in Nat /\ made'[b][Archive] \in Nat /\ made[b][Archive] <= made'[b][Archive]
  BY CopySteps, KindFacts DEF TypeOK, DriveOK, Ids
<1>6. QED
  BY <1>1, <1>2, <1>3, <1>4, <1>5, UploaderAssumption

LEMMA RetiredStep ==
  ASSUME TypeOK, ReviewInv, OutboxInv, RecordInv, FolderInv, GoneInv, RetiredCompletely,
         Next, outside' = 0
  PROVE  RetiredCompletely'
<1> SUFFICES ASSUME NEW b \in Bundles, record'[b].driveDeleted, NEW f \in inbox', f.bundle = b
             PROVE  f.kind \in PartKinds \cup {Index} /\ ~record'[b].mirrored
  BY DEF RetiredCompletely
<1>1. ~(SaveRecord /\ b = cur)
  <2> SUFFICES ASSUME SaveRecord, b = cur PROVE FALSE
    OBVIOUS
  <2>1. record'[b] = [NoRecord EXCEPT !.up = TRUE, !.ids = ids, !.mirrored = (k = Index)]
    BY DEF SaveRecord, TypeOK, StateOK
  <2>2. record'[b].driveDeleted = FALSE
    BY <2>1 DEF NoRecord
  <2>3. QED
    BY <2>2
<1>2. record'[b].mirrored = record[b].mirrored
  BY <1>1, MirrorKept
<1>3. CASE record[b].driveDeleted
  <2>1. b \notin ready
    BY <1>3 DEF RecordInv
  <2>2. f \in inbox
    <3>1. ~(pc = "copy" /\ cur = b)
      BY <2>1 DEF OutboxInv, Sending
    <3>2. QED
      BY <3>1, CopySteps, NewFileFacts
  <2>3. QED
    BY <1>2, <1>3, <2>2, OutsideGrows DEF RetiredCompletely
<1>4. CASE ~record[b].driveDeleted
  <2>1. MarkDrive /\ b = cur
    <3>1. CASE UNCHANGED record
      BY <1>4, <3>1
    <3>2. CASE SaveRecord
      BY <1>1, <1>4, <3>2 DEF SaveRecord, TypeOK, StateOK
    <3>3. CASE MarkLocal
      BY <1>4, <3>3 DEF MarkLocal, TypeOK, StateOK, Record
    <3>4. CASE MarkDrive
      BY <1>4, <3>4 DEF MarkDrive, TypeOK, StateOK
    <3>5. QED
      BY <3>1, <3>2, <3>3, <3>4, RecordFrame
  <2>2. pc = "delete" /\ k = 0 /\ f \in inbox
    BY <2>1 DEF MarkDrive, driveVars
  <2>3. f.kind \notin Remaining(k)
    BY <2>2, UploaderAssumption DEF Remaining, Kinds, PartKinds, Index
  <2>4. QED
    BY <1>2, <2>1, <2>2, <2>3 DEF GoneInv, Deleting
<1>5. QED
  BY <1>3, <1>4

LEMMA CopyInvariant == Spec => []CopyInv
<1>1. Init => CopyInv
  BY DEF Init, CopyInv, SeenInv, IdInv, SentInv, GoneInv, CopyRemains, RetiredCompletely,
     Retaining, Retiring, Deleting, NoRecord, NoIds
<1>2. TypeOK /\ ReviewInv /\ OutboxInv /\ RecordInv /\ FolderInv /\ CopyInv /\ [Next]_vars
        => CopyInv'
  <2> SUFFICES ASSUME TypeOK, ReviewInv, OutboxInv, RecordInv, FolderInv, CopyInv, [Next]_vars,
                      outside' = 0
               PROVE  CopyInv'
    BY DEF CopyInv
  <2>1. CASE Next
    <3>1. SeenInv /\ IdInv /\ SentInv /\ GoneInv /\ CopyRemains /\ RetiredCompletely
      BY <2>1, OutsideGrows DEF CopyInv
    <3>2. SeenInv' /\ IdInv' /\ SentInv'
      BY <2>1, <3>1, SeenStep, IdStep, SentStep
    <3>3. GoneInv' /\ CopyRemains' /\ RetiredCompletely'
      BY <2>1, <3>1, GoneStep, CopyStep, RetiredStep
    <3>4. QED
      BY <3>2, <3>3 DEF CopyInv
  <2>2. CASE UNCHANGED vars
    BY <2>2 DEF vars, outboxVars, driveVars, reviewVars, stateVars, passVars, boundVars, CopyInv,
       SeenInv, IdInv, SentInv, GoneInv, CopyRemains, RetiredCompletely, Has, Files
  <2>3. QED
    BY <2>1, <2>2
<1>3. QED
  BY <1>1, <1>2, TypeCorrect, OutboxInvariants, RecordsInvariant, FolderInvariant, PTL DEF Spec

\* As long as nobody else changes the folder, a published bundle is complete in
\* the outbox or in Drive until it was reviewed and its days are over.
THEOREM CopiesRemain == Spec => []CopyRemains
<1>1. CopyInv => CopyRemains
  BY DEF CopyInv, CopyRemains
<1>2. QED
  BY <1>1, CopyInvariant, PTL

\* As long as nobody else changes the folder, a bundle whose record says that
\* Drive was cleaned up has left nothing of what was completed there.
THEOREM NothingIsLeft == Spec => []RetiredCompletely
<1>1. CopyInv => RetiredCompletely
  BY DEF CopyInv, RetiredCompletely
<1>2. QED
  BY <1>1, CopyInvariant, PTL

\* As long as nobody else changes the folder, no file is sent a second time, by
\* whatever retry, crash or retention.
THEOREM FilesAreSentOnce == Spec => []SentOnce
<1>1. CopyInv => SentOnce
  BY DEF CopyInv, SentInv, SentOnce
<1>2. QED
  BY <1>1, CopyInvariant, PTL

-----------------------------------------------------------------------------
(* The listing is read once and used until the end of the pass: what retention *)
(* found in it still holds of the record when the files go.                    *)

ListingInv ==
  /\ pc = "unlinkReady" => RemoteVerified(cur)
  /\ pc \in Deleting => ~DriveRefused

\* Until its own last step a cleanup leaves the record and the listing alone.
LEMMA ListingKept ==
  ASSUME Next, \/ pc = "unlinkReady" /\ pc' = "unlinkReady"
               \/ pc \in Deleting /\ pc' \in Deleting
  PROVE  cur' = cur /\ record' = record /\ inboxSeen' = inboxSeen
<1>1. record' = record
  BY RecordFrame DEF SaveRecord, MarkLocal, MarkDrive, NextBundle, Deleting
<1>2. cur' = cur /\ inboxSeen' = inboxSeen
  <2>1. CASE UNCHANGED passVars
    BY <2>1 DEF passVars
  <2>2. CASE pc = "unlinkReady" /\ pc' = "unlinkReady"
    BY <2>1, <2>2, CleanupSteps DEF LocalChecked
  <2>3. CASE pc \in Deleting /\ pc' \in Deleting
    BY <2>1, <2>3, DeletingSteps DEF BeginDelete, CheckDelete, DeleteFile, Abort, EndPass, Deleting
  <2>4. QED
    BY <2>2, <2>3
<1>3. QED
  BY <1>1, <1>2

LEMMA ListingStep ==
  ASSUME TypeOK, RecordInv, ListingInv, Next
  PROVE  ListingInv'
<1>1. ASSUME pc' = "unlinkReady" PROVE RemoteVerified(cur)'
  <2>1. CASE LocalChecked
    <3>1. DueLocal /\ ~LocalRefused /\ cur \in Bundles
      BY <1>1, <2>1 DEF LocalChecked, TypeOK, PassOK, Retiring
    <3>2. ~record[cur].driveDeleted
      BY <3>1 DEF DueLocal, RecordInv
    <3>3. RemoteVerified(cur)
      BY <3>1, <3>2 DEF LocalRefused
    <3>4. cur' = cur /\ record' = record /\ inboxSeen' = inboxSeen
      BY <2>1 DEF LocalChecked, stateVars
    <3>5. QED
      BY <3>3, <3>4 DEF RemoteVerified, Listed, Unchanged, Matches
  <2>2. CASE UNCHANGED passVars
    <3>1. pc = "unlinkReady"
      BY <1>1, <2>2 DEF passVars
    <3>2. cur' = cur /\ record' = record /\ inboxSeen' = inboxSeen
      BY <1>1, <3>1, ListingKept
    <3>3. QED
      BY <3>1, <3>2 DEF ListingInv, RemoteVerified, Listed, Unchanged, Matches
  <2>3. QED
    BY <1>1, <2>1, <2>2, CleanupSteps
<1>2. ASSUME pc' \in Deleting PROVE ~DriveRefused'
  <2>1. ~DriveRefused /\ cur' = cur /\ record' = record /\ inboxSeen' = inboxSeen
    <3>1. CASE BeginDelete
      BY <3>1 DEF BeginDelete, stateVars
    <3>2. CASE pc \in Deleting
      BY <1>2, <3>2, ListingKept DEF ListingInv
    <3>3. QED
      BY <1>2, <3>1, <3>2, DeletingSteps DEF CheckDelete, DeleteFile, Deleting, passVars
  <2>2. QED
    BY <2>1 DEF DriveRefused, Listed, Unchanged, Matches, Mirror
<1>3. QED
  BY <1>1, <1>2 DEF ListingInv

\* Whatever happens to the folder after the listing, a cleanup removes only what
\* that listing showed as recorded.
THEOREM ListingHeeded == Spec => ListingIsHeeded
<1> DEFINE Heeded ==
      /\ \A b \in ready \ ready' : \A j \in {Archive, Marker} :
           Files(b, j) = Listed(b, j) => \E f \in Files(b, j) : Unchanged(f, record[b])
      /\ DeleteFile \/ DeleteLost =>
           \A j \in {Archive, Marker} \cup Mirror(record[cur]) :
             \A f \in Listed(cur, j) : Unchanged(f, record[cur])
<1>1. Init => ListingInv
  BY DEF Init, ListingInv, Deleting
<1>2. TypeOK /\ RecordInv /\ ListingInv /\ [Next]_vars => ListingInv'
  <2>1. UNCHANGED vars /\ ListingInv => ListingInv'
    BY DEF vars, stateVars, passVars, ListingInv, RemoteVerified, DriveRefused, Listed,
       Unchanged, Matches, Mirror
  <2>2. QED
    BY <2>1, ListingStep
<1>3. TypeOK /\ ListingInv /\ [Next]_vars => [Heeded]_vars
  <2> SUFFICES ASSUME TypeOK, ListingInv, Next PROVE Heeded
    OBVIOUS
  <2>1. ASSUME NEW b \in ready, b \notin ready'
        PROVE  b = cur /\ RemoteVerified(cur)
    BY <2>1, ReadySteps DEF UnlinkReady, ListingInv
  <2>2. ASSUME DeleteFile \/ DeleteLost PROVE ~DriveRefused
    BY <2>2 DEF DeleteFile, DeleteLost, Deleting, ListingInv
  <2>3. QED
    BY <2>1, <2>2 DEF RemoteVerified, DriveRefused
<1>4. QED
  BY <1>1, <1>2, <1>3, TypeCorrect, RecordsInvariant, PTL DEF Spec, ListingIsHeeded

-----------------------------------------------------------------------------
(* The count that a pass reports.  A bundle sent in part that the pass has    *)
(* gone past is among the pending ones, next to the one it is sending.        *)

Partial(b) == b \in ready /\ record[b].up /\ ~Complete(b)
Passed(b) == ~(pc \in Uploading /\ b \in todo)
InHand == IF pc \in Sending THEN 1 ELSE 0
CoverInv ==
  /\ pc \in Sending => cur \in todo
  /\ pc = "record" => k \in {Marker, Index}
  /\ pc # "idle" /\ ~bad => \A b \in Bundles : Partial(b) /\ Passed(b) => pending > InHand

\* Only a record that is saved without its mirror makes a bundle partial.
LEMMA PartialSteps ==
  ASSUME TypeOK, Settled, Next, NEW b \in Bundles, Partial(b)', ~(SaveRecord /\ b = cur)
  PROVE  Partial(b)
<1>1. record[b] \in Record /\ record \in [Bundles -> Record]
  BY DEF TypeOK, StateOK
<1>2. record'[b].up = record[b].up
  <2>1. CASE UNCHANGED record
    BY <2>1
  <2>2. CASE SaveRecord
    BY <1>1, <2>2 DEF SaveRecord
  <2>3. CASE MarkLocal
    BY <1>1, <2>3 DEF MarkLocal, Record
  <2>4. CASE MarkDrive
    BY <1>1, <2>4 DEF MarkDrive, Record
  <2>5. QED
    BY <2>1, <2>2, <2>3, <2>4, RecordFrame
<1>3. record[b].up /\ ~Complete(b)
  BY <1>2, MirrorKept DEF Partial, Complete
<1>4. b \in ready
  BY <1>3, PublishedOnce DEF Partial, Settled
<1>5. QED
  BY <1>3, <1>4 DEF Partial

\* How a pass that has not failed goes on.
LEMMA CoverSteps ==
  ASSUME TypeOK, Next, pc' # "idle", ~bad'
  PROVE  \/ StartPass \/ SaveRecord
         \/ \E b \in Bundles : Skip(b) \/ BeginUpload(b)
         \/ /\ ~bad /\ pending' = pending
            /\ \/ ListBefore \/ CopyFile \/ Verify
               \/ pc' \notin Uploading /\ pc \notin {"idle"} \cup Sending /\ (pc = "scan" => todo = {})
               \/ UNCHANGED passVars
<1>1. CASE UNCHANGED passVars
  BY <1>1 DEF passVars
<1>2. CASE ListBefore \/ CopyFile \/ Verify
  BY <1>2 DEF ListBefore, CopyFile, Verify
<1>3. CASE KeepDrive
  BY <1>3 DEF KeepDrive, NextBundle, Uploading, Sending
<1>4. CASE \/ ListReports \/ ListInbox \/ LocalChecked \/ UnlinkReady \/ UnlinkArchive
           \/ MarkLocal \/ BeginDelete \/ CheckDelete \/ MarkDrive
           \/ \E b \in Bundles : Unreviewed(b) \/ AcceptReceipt(b)
  BY <1>4 DEF NextBundle, Uploading, Sending, ListReports, ListInbox, LocalChecked,
     UnlinkReady, UnlinkArchive, MarkLocal, BeginDelete, CheckDelete, MarkDrive,
     Unreviewed, AcceptReceipt
<1>5. CASE DeleteFile
  BY <1>5 DEF DeleteFile, Abort, EndPass, Uploading, Sending
<1>6. ~(\/ CopyFails \/ PutFails \/ KeepLocal \/ DeleteLost \/ RetentionFails \/ FinishPass \/ Crash
        \/ \E b \in Bundles : RejectLocal(b) \/ RejectReceipt(b))
  BY DEF Abort, EndPass, UploadFails, NextBundle, CopyFails, PutFails, KeepLocal, DeleteLost,
     RetentionFails, FinishPass, Crash, RejectLocal, RejectReceipt
<1>7. QED
  BY <1>1, <1>2, <1>3, <1>4, <1>5, <1>6, PassFrame DEF Process, Upload, Retention

LEMMA CoverStep ==
  ASSUME TypeOK, Settled, CoverInv, Next
  PROVE  CoverInv'
<1>1. pending \in Nat /\ bad \in BOOLEAN /\ (pc \in Sending => pending > 0)
  BY DEF TypeOK, PassOK
<1>2. pc' \in Sending => cur' \in todo'
  BY PassFrame DEF CoverInv, passVars,
     Process, Upload, Retention, Abort, EndPass, UploadFails, NextBundle, Sending,
     StartPass, ListBefore, CopyFile, CopyFails, Verify, PutFails, SaveRecord,
     Skip, BeginUpload, RejectLocal, ListReports, ListInbox, KeepLocal, LocalChecked,
     UnlinkReady, UnlinkArchive, MarkLocal, KeepDrive, BeginDelete, CheckDelete, DeleteFile,
     DeleteLost, MarkDrive, RetentionFails, FinishPass, Unreviewed, RejectReceipt,
     AcceptReceipt, Crash
<1>3. pc' = "record" => k' \in {Marker, Index}
  BY PassFrame DEF CoverInv, passVars,
     Process, Upload, Retention, Abort, EndPass, UploadFails, NextBundle,
     StartPass, ListBefore, CopyFile, CopyFails, Verify, PutFails, SaveRecord,
     Skip, BeginUpload, RejectLocal, ListReports, ListInbox, KeepLocal, LocalChecked,
     UnlinkReady, UnlinkArchive, MarkLocal, KeepDrive, BeginDelete, CheckDelete, DeleteFile,
     DeleteLost, MarkDrive, RetentionFails, FinishPass, Unreviewed, RejectReceipt,
     AcceptReceipt, Crash
<1>4. ASSUME pc' # "idle", ~bad', NEW b \in Bundles, Partial(b)', Passed(b)'
      PROVE  pending' > InHand'
  <2>1. CASE StartPass
    <3>1. ready' = ready /\ todo' = ready /\ pc' \in Uploading
      BY <2>1 DEF StartPass, outboxVars, Uploading
    <3>2. QED
      BY <1>4, <3>1 DEF Partial, Passed
  <2>2. CASE SaveRecord
    <3>1. pc \in Sending /\ pc \in Uploading /\ cur \in todo /\ ~bad /\ InHand = 1 /\ cur \in Bundles
      BY <1>4, <2>2 DEF SaveRecord, CoverInv, Sending, Uploading, InHand, TypeOK, PassOK
    <3>2. CASE k = Marker /\ TextTransport
      <4>1. pc' \in Sending /\ pc' \in Uploading /\ todo' = todo /\ pending' = pending
        BY <2>2, <3>2 DEF SaveRecord, Sending, Uploading
      <4>2. b # cur /\ b \notin todo
        BY <1>4, <3>1, <4>1 DEF Passed
      <4>3. Partial(b) /\ Passed(b)
        BY <1>4, <4>2, PartialSteps DEF Passed
      <4>4. pending > 1
        BY <2>2, <3>1, <4>3 DEF CoverInv, SaveRecord
      <4>5. QED
        BY <4>1, <4>4 DEF InHand
    <3>3. CASE ~(k = Marker /\ TextTransport)
      <4>1. pc' = "scan" /\ todo' = todo \ {cur} /\ pending' = pending - 1
        BY <2>2, <3>3 DEF SaveRecord, NextBundle
      <4>2. b # cur
        <5>1. record'[cur] = [NoRecord EXCEPT !.up = TRUE, !.ids = ids, !.mirrored = (k = Index)]
          BY <2>2, <3>1 DEF SaveRecord, TypeOK, StateOK
        <5>2. k = Index \/ ~TextTransport
          BY <2>2, <3>3 DEF SaveRecord, CoverInv
        <5>3. record'[cur].up /\ (TextTransport => record'[cur].mirrored)
          BY <5>1, <5>2 DEF NoRecord
        <5>4. QED
          BY <1>4, <5>3 DEF Partial, Complete
      <4>3. b \notin todo
        BY <1>4, <4>1, <4>2 DEF Passed, Uploading
      <4>4. Partial(b) /\ Passed(b)
        BY <1>4, <4>2, <4>3, PartialSteps DEF Passed
      <4>5. pending > 1
        BY <2>2, <3>1, <4>4 DEF CoverInv, SaveRecord
      <4>6. QED
        BY <1>1, <4>1, <4>5 DEF InHand, Sending
    <3>4. QED
      BY <3>2, <3>3
  <2>3. CASE ~SaveRecord
    <3>1. Partial(b)
      BY <1>4, <2>3, PartialSteps
    <3>2. ASSUME NEW c \in Bundles, Skip(c) PROVE pending' > InHand'
      <4>1. /\ pc = "scan" /\ pc' = "scan" /\ ~bad /\ todo' = todo \ {c}
            /\ pending' = IF Complete(c) THEN pending ELSE pending + 1
        BY <1>4, <3>2 DEF Skip
      <4>2. InHand = 0 /\ InHand' = 0
        BY <4>1 DEF InHand, Sending
      <4>3. CASE ~Complete(c)
        BY <1>1, <4>1, <4>2, <4>3
      <4>4. CASE Complete(c)
        <5>1. b # c
          BY <3>1, <4>4 DEF Partial
        <5>2. Passed(b)
          BY <1>4, <4>1, <5>1 DEF Passed
        <5>3. QED
          BY <3>1, <4>1, <4>2, <4>4, <5>2 DEF CoverInv
      <4>5. QED
        BY <4>3, <4>4
    <3>3. ASSUME NEW c \in Bundles, BeginUpload(c) PROVE pending' > InHand'
      <4>1. pc = "scan" /\ pc' = "list" /\ ~bad /\ todo' = todo /\ pending' = pending + 1
        BY <1>4, <3>3 DEF BeginUpload
      <4>2. Passed(b)
        BY <1>4, <4>1 DEF Passed, Uploading, Sending
      <4>3. pending > 0
        BY <3>1, <4>1, <4>2 DEF CoverInv, InHand, Sending
      <4>4. QED
        BY <1>1, <4>1, <4>3 DEF InHand, Sending
    <3>4. CASE ~bad /\ pending' = pending /\ (ListBefore \/ CopyFile \/ Verify)
      <4>1. pc \in Sending /\ pc' \in Sending /\ todo' = todo
        BY <3>4 DEF ListBefore, CopyFile, Verify, Sending
      <4>2. Passed(b)
        BY <1>4, <4>1 DEF Passed, Uploading
      <4>3. QED
        BY <3>1, <3>4, <4>1, <4>2 DEF CoverInv, InHand, Sending
    <3>5. CASE /\ ~bad /\ pending' = pending
               /\ pc' \notin Uploading /\ pc \notin {"idle"} \cup Sending
               /\ pc = "scan" => todo = {}
      <4>1. Passed(b) /\ InHand = 0 /\ InHand' = 0
        BY <3>5 DEF Passed, InHand, Uploading
      <4>2. QED
        BY <3>1, <3>5, <4>1 DEF CoverInv
    <3>6. CASE ~bad /\ pending' = pending /\ UNCHANGED passVars
      <4>1. Passed(b) /\ InHand' = InHand /\ pc # "idle"
        BY <1>4, <3>6 DEF Passed, InHand, passVars
      <4>2. QED
        BY <3>1, <3>6, <4>1 DEF CoverInv
    <3>7. QED
      BY <1>4, <2>1, <2>3, <3>2, <3>3, <3>4, <3>5, <3>6, CoverSteps
  <2>4. QED
    BY <2>2, <2>3
<1>5. QED
  BY <1>2, <1>3, <1>4 DEF CoverInv

\* A pass that reports OK has left no bundle of the outbox half sent, whichever
\* of them were skipped, deferred or failed on the way.
THEOREM HealthCovers == Spec => HealthCoversOutbox
<1>1. Init => CoverInv
  BY DEF Init, CoverInv, Sending
<1>2. TypeOK /\ Settled /\ CoverInv /\ [Next]_vars => CoverInv'
  <2>1. UNCHANGED vars /\ CoverInv => CoverInv'
    BY DEF vars, outboxVars, stateVars, passVars, CoverInv, Partial, Complete, Passed, InHand
  <2>2. QED
    BY <2>1, CoverStep
<1>3. TypeOK /\ CoverInv /\ [Next]_vars =>
        [FinishPass /\ health' => \A b \in ready : record[b].up => Complete(b)]_vars
  <2> SUFFICES ASSUME TypeOK, CoverInv, FinishPass, health', NEW b \in ready, record[b].up
               PROVE  Complete(b)
    OBVIOUS
  <2>1. pc = "retain" /\ ~bad /\ pending = 0 /\ b \in Bundles
    BY DEF FinishPass, TypeOK, OutboxOK
  <2>2. Passed(b) /\ InHand = 0
    BY <2>1 DEF Passed, InHand, Uploading, Sending
  <2>3. ~Partial(b)
    BY <2>1, <2>2 DEF CoverInv
  <2>4. QED
    BY <2>3 DEF Partial
<1>4. ReviewInv => Settled
  BY DEF ReviewInv
<1>5. QED
  BY <1>1, <1>2, <1>3, <1>4, TypeCorrect, OutboxInvariants, PTL DEF Spec, HealthCoversOutbox

-----------------------------------------------------------------------------
(* The refinement: the steps that add or remove a marker.                    *)

LEMMA AloneStep ==
  ASSUME MaxOutside = 0, TypeOK, outside = 0, [Next]_vars
  PROVE  outside' = 0
<1>1. UNCHANGED vars => outside' = outside
  BY DEF vars, boundVars
<1>2. Next => outside' = outside \/ Outside
  BY DEF Next, Process, Upload, Retention, Environment, boundVars, Fault,
         StartPass, ListBefore, CopyFile, CopyFails, Verify, PutFails, SaveRecord,
         Skip, BeginUpload, RejectLocal, ListReports, ListInbox, KeepLocal, LocalChecked,
         UnlinkReady, UnlinkArchive, MarkLocal, KeepDrive, BeginDelete, CheckDelete, DeleteFile,
         DeleteLost, MarkDrive, RetentionFails, FinishPass, Unreviewed, RejectReceipt,
         AcceptReceipt, Crash, Tick, CollectArchive, CollectMarker, LocalDamage, Review,
         BadReceipt, RetryDue, OwnerEdits, Land
<1>3. ~Outside
  BY DEF Outside
<1>4. QED
  BY <1>1, <1>2, <1>3

Unmarked == ready' = ready /\ \A b \in Bundles : Has(b, Marker)' = Has(b, Marker)
Unpublished == Published' = Published /\ Finished' = Finished

LEMMA UnmarkedPlaces == Unmarked => Places' = Places
  BY DEF Unmarked, Places

LEMMA StageKept ==
  ASSUME TypeOK, Next, ~\E b \in Bundles : CollectMarker(b)
  PROVE  Unpublished
<1>1. \A b \in Bundles : stage'[b] = "published" <=> stage[b] = "published"
  BY ReadySteps DEF TypeOK, OutboxOK
<1>2. Published' = Published
  BY <1>1 DEF Published
<1>3. \A b \in Published : born'[b] = born[b]
  BY PublishedOnce DEF Published
<1>4. QED
  BY <1>2, <1>3 DEF Finished, Unpublished

LEMMA PublishStep ==
  ASSUME TypeOK, OutboxInv, IdInv, Next, NEW b \in Bundles, CollectMarker(b)
  PROVE  Lifecycle!Publish(b)
<1>1. /\ stage[b] = "archived" /\ stage' = [stage EXCEPT ![b] = "published"]
      /\ ready' = ready \cup {b} /\ born' = born /\ inbox' = inbox
      /\ reviewed' = reviewed /\ clock' = clock
  BY DEF CollectMarker, driveVars, reviewVars
<1>2. stage \in [Bundles -> {"none", "archived", "published"}]
  BY DEF TypeOK, OutboxOK
<1>3. b \notin Published /\ Published' = Published \cup {b}
  BY <1>1, <1>2 DEF Published
<1>4. ~Has(b, Marker) /\ \A c \in Bundles : Has(c, Marker)' = Has(c, Marker)
  BY <1>1 DEF Has, Files, IdInv
<1>5. Places' = [Places EXCEPT ![b] = {"outbox"}]
  <2>1. \A c \in Bundles : Places'[c] = IF c = b THEN {"outbox"} ELSE Places[c]
    BY <1>1, <1>4 DEF Places
  <2>2. QED
    BY <2>1 DEF Places
<1>6. Finished' = [Finished EXCEPT ![b] = born[b]] /\ born[b] \in 0 .. clock
  <2>1. \A c \in Bundles : Finished'[c] = IF c = b THEN born[b] ELSE Finished[c]
    BY <1>1, <1>3 DEF Finished
  <2>2. born[b] \in 0 .. clock
    BY DEF TypeOK, OutboxOK, BoundOK, OutboxInv
  <2>3. QED
    BY <2>1, <2>2 DEF Finished
<1>7. ReviewedBundles' = ReviewedBundles
  BY <1>1 DEF ReviewedBundles
<1>8. QED
  BY <1>1, <1>3, <1>5, <1>6, <1>7 DEF Lifecycle!Publish

LEMMA LeaveOutboxStep ==
  ASSUME TypeOK, ReviewInv, SeenInv, UnlinkReady, cur \in ready, Unpublished
  PROVE  Lifecycle!LeaveOutbox(cur)
<1>1. cur \in Bundles /\ pc = "unlinkReady"
  BY DEF UnlinkReady, TypeOK, PassOK, Retiring
<1>2. /\ ready' = ready \ {cur} /\ inbox' = inbox /\ reviewed' = reviewed /\ clock' = clock
      /\ Has(cur, Marker)
  BY <1>1 DEF UnlinkReady, driveVars, reviewVars, SeenInv
<1>3. Places[cur] = {"outbox", "drive"}
  BY <1>1, <1>2 DEF Places
<1>4. Places' = [Places EXCEPT ![cur] = {"drive"}]
  <2>1. \A c \in Bundles : Has(c, Marker)' = Has(c, Marker)
    BY <1>2 DEF Has, Files
  <2>2. \A c \in Bundles : Places'[c] = IF c = cur THEN {"drive"} ELSE Places[c]
    BY <1>2, <2>1 DEF Places
  <2>3. QED
    BY <2>2 DEF Places
<1>5. stage[cur] = "published" /\ <<cur, record[cur].ids[Archive]>> \in reviewed
      /\ at - born[cur] >= LocalDays /\ at <= clock
  BY <1>1 DEF ReviewInv, Settled, Retiring
<1>6. cur \in ReviewedBundles
  BY <1>5 DEF ReviewedBundles
<1>7. clock - Finished[cur] >= LocalDays
  BY <1>1, <1>5, UploaderAssumption DEF Finished, Published, TypeOK, PassOK, BoundOK, OutboxOK
<1>8. ReviewedBundles' = ReviewedBundles
  BY <1>2 DEF ReviewedBundles
<1>9. QED
  BY <1>2, <1>3, <1>4, <1>6, <1>7, <1>8 DEF Lifecycle!LeaveOutbox, Unpublished

LEMMA DeliverStep ==
  ASSUME TypeOK, OutboxInv, ready' = ready, reviewed' = reviewed, clock' = clock, Unpublished,
         pc = "copy", cur \in Bundles, k = Marker, ~Has(cur, k),
         inbox' = inbox \cup {NewFile(cur, k, ids)}
  PROVE  Lifecycle!Deliver(cur)
<1>1. cur \in ready
  BY DEF OutboxInv, Sending
<1>2. \A c \in Bundles : Has(c, Marker)' = (Has(c, Marker) \/ c = cur)
  BY NewFileFacts DEF Has, Files
<1>3. Places[cur] = {"outbox"}
  BY <1>1 DEF Places
<1>4. Places' = [Places EXCEPT ![cur] = {"outbox", "drive"}]
  <2>1. \A c \in Bundles : Places'[c] = IF c = cur THEN {"outbox", "drive"} ELSE Places[c]
    BY <1>1, <1>2 DEF Places
  <2>2. QED
    BY <2>1 DEF Places
<1>5. ReviewedBundles' = ReviewedBundles
  BY DEF ReviewedBundles
<1>6. QED
  BY <1>3, <1>4, <1>5 DEF Lifecycle!Deliver, Unpublished

LEMMA LeaveDriveStep ==
  ASSUME TypeOK, ReviewInv, RecordInv,
         ready' = ready, reviewed' = reviewed, clock' = clock, Unpublished,
         pc = "deletefile", cur \in Bundles, k = Marker, Has(cur, k),
         inbox' = inbox \ Files(cur, k)
  PROVE  Lifecycle!LeaveDrive(cur)
<1>1. cur \notin ready /\ stage[cur] = "published"
  BY DEF RecordInv, Deleting
<1>2. \A c \in Bundles : Has(c, Marker)' = (Has(c, Marker) /\ c # cur)
  BY DEF Has, Files
<1>3. Places[cur] = {"drive"}
  BY <1>1 DEF Places
<1>4. Places' = [Places EXCEPT ![cur] = {}]
  <2>1. \A c \in Bundles : Places'[c] = IF c = cur THEN {} ELSE Places[c]
    BY <1>1, <1>2 DEF Places
  <2>2. QED
    BY <2>1 DEF Places
<1>5. /\ <<cur, record[cur].ids[Archive]>> \in reviewed
      /\ at - born[cur] >= DriveDays /\ at <= clock
  BY DEF ReviewInv, Retiring, Deleting
<1>6. cur \in ReviewedBundles
  BY <1>5 DEF ReviewedBundles
<1>7. clock - Finished[cur] >= DriveDays
  BY <1>1, <1>5, UploaderAssumption DEF Finished, Published, TypeOK, PassOK, BoundOK, OutboxOK
<1>8. ReviewedBundles' = ReviewedBundles
  BY DEF ReviewedBundles
<1>9. QED
  BY <1>3, <1>4, <1>6, <1>7, <1>8 DEF Lifecycle!LeaveDrive, Unpublished

LEMMA ReviewRefines ==
  ASSUME NEW b \in Bundles, Review(b)
  PROVE  Lifecycle!Review(b)
<1>1. PICK f \in Files(b, Archive) : Has(b, Marker) /\ reviewed' = reviewed \cup {<<b, f.id>>}
  BY DEF Review
<1>2. /\ ready' = ready /\ inbox' = inbox /\ stage' = stage /\ born' = born /\ clock' = clock
  BY DEF Review, outboxVars, driveVars
<1>3. "drive" \in Places[b]
  BY <1>1 DEF Places
<1>4. ReviewedBundles' = ReviewedBundles \cup {b}
  <2>1. <<b, f.id>>[1] = b
    OBVIOUS
  <2>2. \A c : c \in ReviewedBundles' <=> c \in ReviewedBundles \/ c = b
    BY <1>1, <2>1, Zenon DEF ReviewedBundles
  <2>3. QED
    BY <2>2
<1>5. Places' = Places /\ Finished' = Finished /\ Published' = Published
  BY <1>2 DEF Places, Has, Files, Finished, Published
<1>6. QED
  BY <1>2, <1>3, <1>4, <1>5 DEF Lifecycle!Review

LEMMA LifecycleStep ==
  ASSUME TypeOK, ReviewInv, OutboxInv, RecordInv, FolderInv, CopyInv, Next,
         outside = 0, outside' = 0
  PROVE  Lifecycle!Next \/ UNCHANGED Lifecycle!lifecycleVars
<1> USE DEF Lifecycle!Next
<1>1. SeenInv /\ IdInv
  BY DEF CopyInv
<1>2. CASE \E b \in Bundles : CollectMarker(b)
  BY <1>1, <1>2, PublishStep
<1>3. CASE \E b \in Bundles : Review(b)
  BY <1>3, ReviewRefines
<1>4. ASSUME ~\E b \in Bundles : CollectMarker(b) \/ Review(b)
      PROVE  Lifecycle!Next \/ UNCHANGED Lifecycle!lifecycleVars
  <2>1. Unpublished
    BY <1>4, StageKept
  <2>2. reviewed' = reviewed /\ ReviewedBundles' = ReviewedBundles
    BY <1>4, ReviewFrame DEF reviewVars, BadReceipt, ReviewedBundles
  <2>3. CASE Tick
    <3>1. clock' = clock + 1 /\ ready' = ready /\ inbox' = inbox
      BY <2>3 DEF Tick, outboxVars, driveVars
    <3>2. Places' = Places
      BY <3>1 DEF Places, Has, Files
    <3>3. QED
      BY <2>1, <2>2, <3>1, <3>2 DEF Lifecycle!NextDay, Unpublished
  <2>4. CASE clock' = clock /\ Unmarked
    BY <2>1, <2>2, <2>4, UnmarkedPlaces DEF Unpublished, Lifecycle!lifecycleVars
  <2>5. CASE clock' = clock /\ UnlinkReady
    <3>1. CASE cur \in ready
      <4>1. cur \in Bundles
        BY <3>1 DEF TypeOK, OutboxOK
      <4>2. QED
        BY <1>1, <2>1, <2>5, <3>1, <4>1, LeaveOutboxStep
    <3>2. CASE cur \notin ready
      <4>1. ready' = ready /\ inbox' = inbox
        BY <2>5, <3>2 DEF UnlinkReady, driveVars
      <4>2. Unmarked
        BY <4>1 DEF Unmarked, Has, Files
      <4>3. QED
        BY <2>4, <2>5, <4>2
    <3>3. QED
      BY <3>1, <3>2
  <2>6. CASE clock' = clock /\ ready' = ready
    <3>1. CASE inbox' = inbox
      BY <2>4, <2>6, <3>1 DEF Unmarked, Has, Files
    <3>2. CASE /\ pc = "copy" /\ cur \in Bundles /\ ~Has(cur, k)
               /\ inbox' = inbox \cup {NewFile(cur, k, ids)}
      <4>1. CASE k = Marker
        BY <2>1, <2>2, <2>6, <3>2, <4>1, DeliverStep
      <4>2. CASE k # Marker
        BY <2>4, <2>6, <3>2, <4>2, NewFileFacts DEF Unmarked, Has, Files
      <4>3. QED
        BY <4>1, <4>2
    <3>3. CASE /\ pc = "deletefile" /\ cur \in Bundles
               /\ inbox' = inbox \ Files(cur, k)
      <4>1. CASE k = Marker /\ Has(cur, k)
        BY <2>1, <2>2, <2>6, <3>3, <4>1, LeaveDriveStep
      <4>2. CASE ~(k = Marker /\ Has(cur, k))
        BY <2>4, <2>6, <3>3, <4>2 DEF Unmarked, Has, Files
      <4>3. QED
        BY <4>1, <4>2
    <3>4. QED
      BY <3>1, <3>2, <3>3, CopySteps
  <2>7. clock' = clock \/ Tick
    BY ClockFrame
  <2>8. ready' = ready \/ UnlinkReady
    BY <1>4, ReadySteps
  <2>9. QED
    BY <2>3, <2>5, <2>6, <2>7, <2>8
<1>5. QED
  BY <1>2, <1>3, <1>4

\* Where nobody else changes the folder, every behaviour of the uploader, the
\* collector and the reviewer is one that the lifecycle of a bundle allows.
THEOREM LifecycleImplemented ==
  ASSUME MaxOutside = 0
  PROVE  Spec => ImplementsLifecycle
<1>1. Init => Lifecycle!Init
  BY DEF Init, Lifecycle!Init, Places, Finished, Published, ReviewedBundles, Has, Files
<1>2. Spec => [](outside = 0)
  <2>1. Init => outside = 0
    BY DEF Init
  <2>2. TypeOK /\ outside = 0 /\ [Next]_vars => (outside = 0)'
    BY AloneStep
  <2>3. QED
    BY <2>1, <2>2, TypeCorrect, PTL DEF Spec
<1>3. TypeOK /\ ReviewInv /\ OutboxInv /\ RecordInv /\ FolderInv /\ CopyInv
        /\ outside = 0 /\ (outside = 0)' /\ [Next]_vars
      => [Lifecycle!Next]_Lifecycle!lifecycleVars
  <2> SUFFICES ASSUME TypeOK, ReviewInv, OutboxInv, RecordInv, FolderInv, CopyInv,
                      outside = 0, outside' = 0, [Next]_vars
               PROVE  [Lifecycle!Next]_Lifecycle!lifecycleVars
    OBVIOUS
  <2>1. CASE UNCHANGED vars
    <3>1. UNCHANGED Lifecycle!lifecycleVars
      BY <2>1 DEF vars, outboxVars, driveVars, reviewVars, Lifecycle!lifecycleVars,
         Places, Finished, Published, ReviewedBundles, Has, Files
    <3>2. QED
      BY <3>1
  <2>2. CASE Next
    <3>1. Lifecycle!Next \/ UNCHANGED Lifecycle!lifecycleVars
      BY <2>2, LifecycleStep
    <3>2. QED
      BY <3>1
  <2>3. QED
    BY <2>1, <2>2
<1>4. QED
  BY <1>1, <1>2, <1>3, TypeCorrect, OutboxInvariants, RecordsInvariant, FolderInvariant,
     CopyInvariant, PTL
  DEF Spec, ImplementsLifecycle, Lifecycle!Spec
=============================================================================
