# Verification of homelab-health

TLA+ models, model-checking runs and proofs for homelab-health: the programs
that collect diagnostic evidence of one host, bundle it once a day, copy the
bundles to a Google Drive folder and remove them again after their review.

Every definition follows the Python code in `homelab_health/`; `PROJECT.json`
names the lines each one stands for.  Run a check with
`tlc -config <run>.cfg <module>` (the module is named in `PROJECT.json`) and the
proofs of a module with `tlapm <module>Proofs.tla`.

## 1. The system

Four processes share directories and nothing else.

    host helper ──> host spool ──┐
                                 ├─> collector ──> outbox ──> uploader ──> Drive Inbox
    Docker ──> gateway ──┬──> docker spool ┘                     ^             │
                         └ event thread of the collector         └─ receipt <── reviewer

| Component | State it keeps | Operations | What makes it correct |
| --- | --- | --- | --- |
| Spool (`common.py`, `Spool`) | one file of JSON lines per day, `gap.json`, `pruned.json` | `append`: stamp, lock, daily limit, write, prune | a record that was taken can be read until it is a week old; what is refused or pruned leaves a notice |
| Event thread (`docker.py`, `EventPump`) | `event-cursor.json`: cursor, pending routine events, identities seen | restore, connect, record an event, flush, checkpoint | no event is lost between append and checkpoint; few duplicates; no hole at a reconnection |
| Collector loop (`collector.py`) | `schedule.json`, `last-bundle.json`, last states | sample, decide what is due, bundle | each date gets one bundle; successive windows leave nothing out silently |
| Bundle writer (`bundle.py`, `BundleWriter`) | a temporary directory; archive, then marker in the outbox | add, finish | the marker appears only beside a complete archive |
| Export (`evidence.py`, `spool_chunks`, `report.py`) | a dictionary per member, in the writer and again in the reader | encode, cut into members, decode | what is decoded is what was exported |
| Uploader (`uploader.py`, `transport.py`) | `uploaded-*.json`, `retry-*.json`, `status.json` | upload, verify, mirror as text, retire locally, retire in Drive | complete before visible; removed only when reviewed and old enough; never the last copy |
| Bundle reader, transport restore (`bundle.py`, `transport.py`) | none | verify and decode an archive or its text parts | what is accepted is what was published |
| Host helper (`host.py`) | `helper-state.json`, rows already reported | sample, journal snapshot, daily probe | journal windows meet; a gap of the SMART data is reported daily |
| NVMe probe and cache (`nvme.py`) | the cache file | capture, read | data of an exchanged device or an old boot is never reported |
| Gateway (`proxy.py`) | eight request slots | permit, forward, release | every slot comes back |
| Command runner (`common.py`) | none between calls | run with a limit on output and time | it ends; truncation is told |
| Packing, tables, journal summaries (`docker_compaction.py`, `tables.py`, `noise.py`) | none | pack, unpack | unpacking restores the record |
| Report (`report.py`) | none | findings, trends | nothing counted twice |

What is hard here: the uploader talks to a store that others edit, through calls
that may fail with or without effect, and may be killed between any two of them;
the event thread and the main loop write to one spool that a reader opens
without its lock; three files that are written one after the other
(marker, `last-bundle.json`, `schedule.json`) must agree after a crash; time
stamps, which a clock change may disturb, decide which bundle a record belongs
to; and the encoder and the decoder must keep the same dictionary, although size
limits interrupt both at different places.  `PROJECT.json` lists these hazards
by line, with the properties that would notice each.

## 2. Modules

| Module | What it models | Checked by |
| --- | --- | --- |
| `Uploader` | the uploader's process, with the outbox, the Drive folder, the reviewer and the owner around it | `uploader_*` |
| `BundleLifecycle` | the abstract promise: where a bundle stands complete, and when it may leave | refined by `UploaderImplements` |
| `UploaderImplements` | the refinement mapping | `uploader_completion`, `UploaderProofs` |
| `EventPump` | the event thread, its checkpoint and the spool's daily limit | `pump` |
| `Collector` | main loop, bundle writer, the spool's time stamps and files | `collector_*` |
| `Gateway` | the Docker gateway's slots and handlers, and the callers' calls | `gateway`, through `Sampling` |
| `Sampling` | a sample of the collector: main thread and workers, composed with `Gateway` | `gateway` |
| `EvidenceCodec` | encoder, member cutting, decoder | `codec` |
| `HostHelper` | the helper's loop, its state file, the journal that grows beside it | `helper` |
| `NvmeCache` | the NVMe probe, its cache, the helper's reader and rows, drives that change places | `nvme` |
| `Command` | the command runner: a program's output, descendants and end, against the two limits | `functions` |
| `StatsTables`, `DockerFields`, `Noise` | shorter forms of statistics, of Docker fields, of journal rows and exec events, with their readers | `functions` |
| `Sorting` | lists in order, for `StatsTables` and `Noise` | `functions` |
| `BundleFile` | what a writer puts into an archive and what the reader accepts | `functions` |
| `Transport` | parts and index of the text mirror, and their restoration | `functions` |
| `Report` | rates of host counters, collection of findings | `functions` |
| `Subjects` | what is claimed of the functions, as properties of an input | `functions`, `FunctionProofs` |
| `MCUploader`, `MCEventPump`, `MCEvidenceCodec`, `MCFunctions` | finite instances | |
| `UploaderProofs`, `PumpProofs`, `CollectorProofs`, `GatewayProofs`, `CodecProofs`, `HelperProofs`, `NvmeProofs`, `FunctionProofs` | theorems | TLAPS |

Definitions marked "a slip" in the modules are not part of a specification: each
is a plausible mistake in one definition, and the property named with it in
`PROJECT.json` is violated when the mistake replaces that definition.

### Uploader

One action is one rclone call or one durable local write, so the end of the
process, an edit by the owner or a late copy may come between any two.  A pass
(`once`) runs through `pc`:

    idle ─StartPass─> scan ─BeginUpload─> list ─> copy ─> verify ─> … record ─┐
                       ^  └──────────────────────────────────────────────────┘
                       └ ListReports ─> inbox ─ListInbox─> retain
    retain ─AcceptReceipt─> local ─> unlinkReady ─> unlinkArchive ─> markLocal ─> drive
    drive ─BeginDelete─> delete <─> deletefile ─> … MarkDrive ─> retain ─FinishPass─> idle

* A bundle is its archive digest; its files in Drive have a kind (archive,
  marker, parts, index), a Drive ID, a flag for unchanged contents and the IDs
  their text embeds (only the index embeds any, and the comparison of its MD5
  therefore notices when a part was uploaded anew).
* `put` is `ListBefore`, `CopyFile` or `CopyFails`, `Verify`.  `CopyFails` has
  the three outcomes of an rclone that reports an error: nothing was written, the
  file is there, or it lands later (`landing`, run `uploader_copies`).
* `retention` lists both folders once; `receiptsSeen` and `inboxSeen` keep what
  it saw, and the later actions compare with those, as the code does.  The
  exceptions it does not catch end the pass (`RetentionFails`).
* A crash forgets every variable of the pass; the files remain.
* `waiting` is the set of bundles whose retry file lies in the future.  The delay
  is at most an hour, so it is over by the next day.

### EventPump

Events are numbered in the order of the daemon.  `emitted`, `Retained` and
`Replayed` give the stream of `/events?since=cursor-1` over the buffer of the
last 256 events.  `Add` and `SaveEvent` are the two durable writes of
`record_event`, `FlushGroup` and `FlushDone` those of `flush_exec`, and `Crash`
may come between them.  `AppendRaises` and `SaveRaises` follow the exception to
where it is caught: inside the loop it becomes a gap record, elsewhere the thread
dies.  `handled` is a history variable: the events some checkpoint has covered.

### Collector

Time is the wall clock in abstract units, and records are their time stamps.
`Stamp` and `Land` are the two halves of `Spool.append` in the event thread,
separated by the wait for the lock; `Sample` is the main loop's own append.
`Open`, `Read`, `Replace`, `Publish`, `SaveLast` and `SaveSchedule` are the
durable steps of a bundle.  `Tear` and `Crash` leave a line without an end, which
swallows the next append to that file, as `O_APPEND` does.  `published` is the end
of the last bundle with a marker, whether or not `last-bundle.json` says so.  A
record that a window leaves out gets a history variable that says why: `noticed`
(a bundle carries a notice about it), `early` (it precedes the first window), and
the two holes described below, `unsaved` and `cut`.

### EvidenceCodec

A value is a model value with a field and a weight; a record is the list of its
slots.  `EncodeSlot` walks the slots as `encode` does, with its pending
definitions; `StartMember` restarts the encoder in the middle of an export; the
reader decodes the members from the lines alone, `BreakLine` takes one line of a
member away.  The marked record's size is computed from the weights, by which
the limits of the writer and of the reader meet at the same numbers.

### HostHelper

`journal` is the system's journal; an entry is its time stamp.  A round is `Once`,
`ReadJournal`, `Advance`, `Daily`, `Save`, the order of `run`; `last` and `state`
are its two copies of the progress in memory, `file` the one on disk, and the
steps between them are where a fault (`Fails`) or a `Crash` may leave them apart.
A window's record may say itself that it is incomplete (failed command, line
limit) and a full spool says so in `gap.json`; either puts the entries into
`told`, as a `helper_gap` does; `cut` is a blind spot described below.  `base` is
where the history begins that the state file speaks for: a start without a
readable file begins a new one.

### NvmeCache

A drive is a number, a name may have any drive behind it, and an identity is the
triple of boot, name and drive that the digest is made of.  The probe looks
(`LookBefore`), reads (`Smartctl`) and looks again (`LookAfter`): what it has read is
`data`, or a `diagnostic` when the health log is missing, and only `data` are dropped
when the drive is another one by then.  The reader looks
once more at each row (`CheckIdentity`).  `Exchange` may happen between any two,
with one assumption: the drive a probe is reading is not taken out and put back
before the probe looks again, at most ten seconds later.  `out` holds the rows of
a round, `sig` the signature computed before the append, `seen` the ones
remembered after it.

### Gateway and Sampling

A call of `Docker.get` goes through `call[c]`: `none`, `asking`, `copying`, and then
`whole`, `cut` or `error`, until the caller takes it.  Everything a handler does
after its caller has left is `left` (nobody waits for it, it holds its slot) and
`ending` (its connection is shut, the slot not yet released); `lost` counts slots
taken for threads that could not be started.  A connection that is closed in the
middle of an answer tells the caller nothing, so `cut` is a reply like `whole`: a
JSON parser notices, other readers do not.

`Sampling` gives the calls to a main thread, which lists the containers, and to
workers, which inspect them and ask for statistics.  Results are read in the order of
the list (`Reads`), whatever order they came in.  `last` is `last_states`; `offered`
is a history variable with what `append` was given.  `Raises` and `Fails` follow an
exception of `append` through the pool's exit.  Every action of `Sampling` is one of
`Gateway` or leaves its variables alone, which `GatewayProofs` proves.

### The functions

`MCFunctions` has one variable, a subject: the name of a function and an input.  Its
initial states are all inputs of a bounded set, and the four invariants evaluate the
function on each.

* `Command`: a program is when it and a descendant write and end.  `command` stops
  reading at the limit or the deadline, then kills the process group and waits.
* `StatsTables`: a sample, a nested dictionary, is a function from the paths of its nodes
  to what is there, a dictionary (`Object`) or another value; its leaves are the nodes
  that are no nonempty dictionary.  `pack_stats` groups equal shapes into columns;
  `unpack_stats` rejects every table that does not say each sample once, and puts the
  cells of a row into an empty dictionary, one by one, as the code does (`PutAt`).
* `DockerFields`: the three shorter forms, their eligibility and their expansion.
* `Noise`: `compact_journal` and `compact_exec` with the duplicates, groups and the limits
  from which on rows are kept as they are.
* `BundleFile`: `add` with its name, size and total limits, the manifest, and the reader's
  comparison of both.
* `Transport`: `upload_transport`'s parts and index as data; `restore` into a directory
  that may hold anything, interrupted before, between or after its two replacements,
  and refusing what `BundleFile`'s reader refuses (`Verified`).  Which members an archive
  of given bytes has is the constant `Contents`.
* `Report`: `host_trends` over two intervals of a host with reboots, clock jumps and
  counters that restart; `analyze`'s findings and event counts from records that
  overlapping windows repeat.

## 3. Runs

| Run | Question | Bounds |
| --- | --- | --- |
| `uploader_completion` | Is what a marker or an index vouches for always there, is nothing left of a retired bundle, is every bundle delivered and, once reviewed, retired, and does the uploader implement the lifecycle? | one bundle with two text parts, two kinds of bad receipt, two failed calls, one crash |
| `uploader_copies` | Does a complete copy always remain; is anything sent twice; may health hide an unfinished bundle; what does the uploader remove while others edit the folder and late copies land? | two bundles, one failed call and one crash while the folder is left alone; one bundle, one failed call, one change from outside and any bad receipts otherwise (`Calm`) |
| `uploader_stale_md5` | Do recorded MD5s still match at the deletion, as the document says? (violated) | one edit |
| `uploader_health` | Does OK mean that every index is verified, as the document says? (violated) | one failed call |
| `pump` | Are events lost, duplicated or skipped; do pending ones reach the spool? | five events in two seconds, lists of two, one crash, one exception, one full spool |
| `collector_windows` | Does a record fall between two windows; do orphans stay within the queue? | two records, five units of time, one fault, one crash |
| `collector_dates` | Does each date get its bundle while the clock is not set, and a second one only after a failure, even when it is? | two jumps, one fault, one crash |
| `codec` | Does the reader rebuild what the writer had? | all exports of five kinds of records within the limits, one lost line per member |
| `helper` | Is a journal entry left out silently; does the state file claim what was not done; are probes repeated? | one entry, windows of at most four units in eight, one jump back by an overlap, one fault, one crash |
| `nvme` | Are a drive's data taken for another one; does each date have its row? | two drives behind one name, two boots, two dates, one fault or diagnostic |
| `gateway` | Does every slot come back; who may be refused; is a sample that is ok complete, and is no changed state left out; does a sample end? | two workers, three slots, one of which may be lost, two containers |
| `functions` | Does each function give back what went in, tell what it cut, and reject what nobody wrote? | the sets of inputs in `MCFunctions` |

Why the bounds are enough.  Bundles interact only through the listing, the order of
the loop and the status, which two of them show.  Two parts distinguish the first, the
next and the last part.  One failure reaches every state a pass can be interrupted in,
and the second failure of `uploader_completion` interrupts the retry.  In
`uploader_copies` the constraint `Calm` keeps crashes and the second bundle away from
behaviours in which somebody else has touched a copy, a copy that was given up may
still land, a receipt is wrong, or a receipt of a bundle that was reviewed has been
taken back; a review that stands is none of these, so an unreviewed bundle beside one
that is being retired, and a crash during a cleanup, are explored.  What a crash loses
where `Calm` excludes it is what a failed pass loses, and the theorems have no such
bound.  The event thread's lists have two entries, so that they overflow, and the
daemon retains two events, so that a reconnection may come too late.  In the collector
`Overlap` and `Skew` are one unit, a date is two and the backfill limit three, so that
a window may be limited, a file pruned and the clock set beyond the skew.  In the
codec the limits are such that each one (definitions, dictionary, record, member,
source) is met before the others in some export. Journal entries do not influence each
other, so one at an arbitrary time stands for all.  Rows of different names do so only
when one of them makes the reader reject the cache, so one name is enough, and two
drives suffice for an exchange and its reversal; the cache's age limit is zero, so
that one tick makes it stale. In the gateway three callers meet three slots, so that
one refusal already takes a handler that nobody waits for, and a third worker would
only repeat the second; a sample of two containers has a first, a last and one that is
left out.  The sets of `MCFunctions` go one beyond each limit (`MaxRows`, `MaxDepth`,
`MemberMax`, the parts, the time and the output of a command) and contain, besides
what the writers produce, the neighbours of it that a reader must reject.
`CHECK_DEADLOCK FALSE` stands where a system really stops: when the days, events or
records of the bound are used up and everything is done.

### Fairness

* Uploader: weak fairness of the process as a whole (its service restarts it,
  every rclone call has a timeout), of the days, and of each retry delay.  None
  for the collector, the reviewer, the owner or failures.
* Event thread: weak fairness of handling, of a new day, and of connecting or the
  stream's end (connections and reads have timeouts).  The daemon need not emit.
* Collector: weak fairness of the loop, of the append in hand, of time, and of
  the uploader that empties the outbox.
* Gateway and sample: threads that can go on do, for the main thread and for the
  workers together; a handler without a caller finds that out (at most 65 s of
  silence or 60 s of copying), its slot is released in a `finally`, and callers give
  up after 15 s.  Docker itself owes nothing: that it never answers is a behaviour.

### What the runs showed

Two statements of `docs/text-transport.md` are stronger than the code:

1. "Recorded Drive IDs, sizes and MD5s must still match before deletion": the
   check right before a deletion compares the ID; sizes and MD5s are compared
   with the listing from the start of retention.
2. "Pending upload health becomes OK only after the completion index is
   verified": the local retention of a bundle whose text mirror keeps failing
   removes its marker, and the next pass, which looks at markers, reports OK.

Some behaviours are worth knowing, although only the fourth contradicts a document, and
that one says itself that a window is no guarantee:

* An index or parts without a record (a crash before the record, then the local
  retention) stay in Drive.
* When the last bundle is between seven days less five minutes and seven days old, the
  window loses part of its overlap without the notice of the backfill limit, and a
  record that landed late may fall out; the variable `cut` collects these, and nothing
  outside that overlap.
* A clock that jumps forward over a bundle and back leaves records before the next
  window without a notice, which is why `NothingMissed` is stated for clocks that are
  not set.
* When the collector dies, or fails, between the marker of a bundle and its
  `last-bundle.json`, and none was written before, the next window goes back one day
  from its own end and not to the bundle, about which `docs/bundle-protocol.md:47`
  says that "subsequent windows overlap the previous endpoint". If the next bundle
  comes more than a day later, records between the two are in neither and have no
  notice (`unsaved`); `NothingMissed` says that there are none but these and `cut`,
  and that `unsaved` needs a crash or a failure.
* A log whose bytes are no UTF-8 may grow beyond 16 MiB when it is decoded; the writer
  takes it, and the reader then refuses the whole bundle, and `restore()` its mirror.
  `BundlesRestore` says that a member beyond that size is the one reason for which a
  published bundle is refused, and that a refused mirror leaves the destination as it
  is; it cannot say that such bundles are not published.
* A diagnostic (`nvme.py:143`) of a drive that was exchanged while it was read stays
  in the row of the one before.
* A log that the gateway cuts between two frames looks complete.
* A slot taken for a thread that cannot start never comes back (`lost`).
* A descendant that lets go of the pipe survives its command.
* `last_states` is set before `append`, so a state whose record was refused, or whose
  append raised, is not offered again for 300 s; `StatesAreTold` therefore speaks of
  what was offered.
* The host helper tolerates a clock that is set back by up to a window's overlap,
  except together with an absence of almost a day or more, which cuts the overlap off
  without a word of it in a `helper_gap`; the entries go into `cut`.
* A helper that dies in its first round, before `helper-state.json` exists, begins
  with the last interval when it starts again, whatever its first snapshot had reached
  (`base` moves).
* One exchanged drive makes the reader reject the whole cache until the next probe.

## 4. Proofs

All theorems hold for every value of the constants that satisfies the assumption
stated beside the constants: any number of bundles, events, records, callers or
controllers, any limits and any bounds on failures, crashes and jumps.  The bounds
need only be natural numbers, so the theorems also hold of systems without them.
Every proof has the same frame: an inductive invariant that contains the types, one
lemma per action or group of actions, and a last step that combines them.

`UploaderProofs` (`Uploader`, `BundleLifecycle`), first the safety of the pairs:

* `TypeCorrect`: `TypeOK` is inductive as it stands.
* `RemovalsReviewed`: the action property `RemovalsAreReviewed`.  The removal
  comes several actions after the receipt was checked, so the invariant
  `ReviewInv` carries the check along: while `pc` is in a retiring step, the
  recorded archive of `cur` was reviewed (`reviewed` only grows, and records are
  not rewritten while a bundle retires) and its age at the pass's clock was
  enough, and the clock does not go back.
* `LocalPairs`: `LocalMarkersHaveArchives`, by `PairInv`, which adds that the
  archive of a bundle is not absent once it is published until its marker is gone.
* `DrivePairs` and `TextMirrors`: `DriveMarkersHaveArchives` and
  `IndexComplete`, both by `FolderInv`.  It says that while nobody else has
  touched the folder, the folder is listable and everything in it intact; that an
  upload in progress has verified every file before the current one, under the
  IDs it remembers (`UploadInv`); and that a deletion in progress has left
  everything that comes after the current file (`DeleteInv`).

and from there the life of a bundle:

* `OutboxInv` and `RecordInv`: a pass sends only what the outbox still has, and Drive
  is cleaned up only after the outbox: a record marked so is right, and at the Drive
  step a bundle is either marked or too young even for the outbox, hence for Drive.
* `CopyInv`, while nobody else changes the folder: what retention has listed of the
  bundles still to come is still there (`SeenInv`), so the listing from the start
  of retention may be trusted when the local marker goes; IDs in receipts were given
  out (`IdInv`); what was sent of a bundle is there as long as the outbox has the
  bundle (`SentInv`); a deletion has left only what comes after it (`GoneInv`).
* `CopiesRemain`, `NothingIsLeft`, `FilesAreSentOnce`: `CopyRemains`,
  `RetiredCompletely` and `SentOnce`.
* `ListingHeeded`: `ListingIsHeeded`, by `ListingInv`: at the removal of the local
  marker the listing shows the recorded pair, and while Drive is cleaned up the
  listing is not the one that made the code refuse; the listing does not change in
  between, whatever the folder does.
* `HealthCovers`: `HealthCoversOutbox`, by `CoverInv`: a bundle sent in part that the
  pass has gone past is counted in `pending`, besides the one in hand.
* `LifecycleImplemented`: with `MaxOutside = 0`, `Spec => ImplementsLifecycle`.  Six
  kinds of steps map to the six actions of `BundleLifecycle`: the marker in the
  outbox, the marker in Drive, the receipt, the two removals, the day.  All others
  leave the mapped variables alone.

`PumpProofs` (`EventPump`): `TypeCorrect` (the lists stay within the limits that make a
checkpoint readable) and `NoEventIsLost`.  `LossInv` says of four places that an event
is in the spool, pending there, or refused: of what the checkpoint has covered or
remembers as seen, of the same in the thread's memory, of a flush under way (each
pending event is still to be written, kept, or written), and of the event in hand.
`StreamsLeaveNoHole`: by `HoleInv`, an event that no checkpoint covers, after one that a
checkpoint covers, lies ahead of both cursors (in memory and on disk) and of the
stream's position.  `DuplicatesAreFailures`: what the thread or the disk still waits for
comes after everything it remembers, and `seen` is in order, so that an identity pushed
out of it belongs to an event that the daemon no longer retains (`FieldsFresh`,
`DiskFresh`; the daemon retains no more than `SeenLimit`); an event awaited, or due in a
flush, has at most as many copies as there were failures (`CountInv`).

`CollectorProofs` (`Collector`): `TypeCorrect`, where an archive in place and a bundle
under way keep within the queue; `DatesAreBundledOnce`, by an invariant that lets a
date have one bundle more than there were failures only while it counts as done, in
the loop or in `schedule.json`; and `NoRecordIsMissed`, by `WindowsInv`: while the
clock was not set, no stamp lies in the future, a record lands within `MaxDelay` of
its stamp, and `last-bundle.json` is never ahead of the last bundle (`ClockOK`), a
bundle's window is the one computed from the last end (`WindowOK`), what lies in the
window before its overlap was read (`ReadOK`), and what lies before the last published
end less the overlap is in a bundle, noticed, or in `early`, `unsaved` or `cut`
(`PublishedOK`).  After the first bundle the end of it is unknown only while it is
being saved, or after a failure or a crash (`SavedOK`), so that nothing is `unsaved`
without one.

`CodecProofs` (`EvidenceCodec`):

* `ReadersAreFaithful`.  The writer's invariant (`WriterInv`) is that one dictionary
  explains every line of a member, that of the last member being the encoder's; the
  reader's (`ReaderInv`), that what it knows, the definitions of the line in hand
  included, is a prefix of that dictionary.  A lost line makes the reader know less,
  never something else, and a reference beyond what it knows is rejected.
* `TypeCorrect`.  What the reader's budgets may hold is bounded by sums over records
  and members.  `BooksInv` keeps each sum as a function of its partial sums, one entry
  per line written, so that a step adds one entry and no sum is ever evaluated.
* `RejectionsNeedDamage`.  The reader's counts are compared with the writer's by a
  ledger (`BalanceInv`): as long as nothing of a member was damaged, what the reader has
  counted is what the writer's books say of the same place in the member, and those are
  within the limits at which the writer starts a new member (`LimitsInv`).

  Both use one fact about records, the last conjunct of `CodecAssumption`: the values
  that a record lends to the dictionary stand in its JSON one beside the other
  (`Layout`; the encoder sizes a value by the JSON that the record's line contains), so
  they are together no longer than the record.

`GatewayProofs` (`Gateway`, `Sampling`): `SlotsAreAccounted` (`GatewayInv`: types and the
sum of the holders), `RefusalsAreCaused` (from that sum: the live callers are at most
the others), `SamplingImplementsGateway` (every step of a sample is one of the gateway
or a stutter), and, by `SampleInv`, `SamplesAreComplete` and `StatesAreAlwaysTold`: a
worker's container is nobody else's and has no result (`WorkOK`), a sample that is ok
so far has read only good results (`OkSoFar`), and `last_states` is what was offered
(`ToldSoFar`).  The order of the list is the order of numbers; that a nonempty set of
them has a least one is proved by well-founded induction over a set, not assumed.

`HelperProofs` (`HostHelper`): `TypeCorrect`; `NothingUntold`, by `JournalInv`: entries up
to each of the three copies of the progress (in memory, to be saved, on disk) are
accounted for from some time before which no history starts, and no copy is further
ahead than the clock was set back; `ProbesAreFew`, by `ProbesInv`: a date probed once
more than there are faults, crashes and jumps is settled, that is, remembered and not
in the future; `DatesAreProbed`.

`NvmeProofs` (`NvmeCache`): `DataAreOfTheirDevice`, by `DataInv`: every row on its way
from the probe over the cache to the reader has data of the device that it names;
`TypeCorrect`; `EveryDateHasItsRow`, by `WordInv`: a controller of a round has its turn
still to come, its row on its way, or its word in the spool of the round's date.

`TypeOK` of `HostHelper`, `NvmeCache` and `Sampling`, and the implementation of `Gateway`,
are proved and not checked again by the runs.

`FunctionProofs` (`Subjects`): what is claimed of the functions that keep
no state, for every input and all limits.  Three devices stand in for induction over
data.  An induction over numbers is an argument about the least number at which
something fails, which well-founded induction over a finite set provides (`LeastIs`,
`Upward`).  A fold is the function that its definition chooses: `FoldExists` shows, over a
set of values that the step does not leave, that one exists, and the partial results of a
fold are then a sequence of steps like those of a behaviour.  A sequence that a function
builds (`FlattenSeq`) is compared with one that is written down.

* `CutsAreAlwaysTold` (`CutsAreTold`): the loop of `command()` ends at a first moment,
  given explicitly; what is told of it is arithmetic (`CommandsTell`).
* `BundlesAlwaysRestore` (`BundlesRestore`), from four theorems.  `BundlesAreRead`: what
  the writer has added, taken or noted as an issue is an invariant of its fold, and the
  bytes of an archive do not depend on the order of its members.  The files must be
  fewer than the reader's members: a bundle has at most two per container and a few
  more, with at most 128 containers (`collector.py:33`), and the reader takes 512
  (`bundle.py:127`).  `ListsAreComplete`: an entry for each member and as many as
  members is one each.  `MirrorsRestore`: the parts are an interval's pieces, and
  joining them gives each byte back at its place; the reader then takes the archive
  or refuses its members, and the destination is full or empty accordingly.  `RestorationsAreSafe`: by cases of
  where the restoration stopped.  `BundleValues` and `TransportValues` say that the
  values which stand for a rejection and for a missing file are none of the others.
* `ReportNeverInvents` (`ReportInventsNothing`).  `RatesAreAlwaysReal`: between an
  earlier and a later sample no more was counted than was sent, and within one boot the
  monotonic clock runs with time, both kept by every step of the history.
  `FindingsAlwaysCountOnce`: after each record, a finding counts exactly what the records
  of its key have shown, covers the times of them all, and its limits and severity are
  those of one of them; two lists that differ by an exchange of two records satisfy this
  with the same values, hence have the same findings.  It needs that an identity stands
  for one thing (`Agree`): an event's identity holds the container, the time and the
  action of which its key is made, and an occurrence's that of its row, hence of its
  signature; and that no summary is empty, which `compact_journal` never writes.
* `PackingIsAlwaysExact` (`PackingIsExact`), from six theorems; `FieldsAreRestored` and
  `ExecsAreInRange` are those of `DockerFields`.
* `TablesAreRestored`, `NothingIsGuessed`: the two that concern `StatsTables`, for samples
  of any shape and for any table with the fields of one.  The sample that the loop over a
  row's cells builds is written down (`TreeOf`): the nodes on the way to a column, with the
  cells at the columns and dictionaries above them.  Each cell that is put in gives the
  written-down sample of one cell more (`TreeGrows`), which needs that no column is on the
  way to another; hence its leaves are its cells (`RebuiltLeaves`).  As many rows as
  samples, at indexes that differ, are one row for each (`RowOfEach`).  In the other
  direction, every node of a finite sample is on the way to a leaf (`LeafBelow`), so that
  the leaves of a sample determine it (`SampleIsRebuilt`) and are columns that the reader
  accepts (`PathsAreColumns`); and the groups of the writer say every sample once
  (`GroupIs`, `PackedIs`, `PackedIsAccepted`).  A sample must be a tree in which only a
  dictionary has anything below it (`IsSample`), which is what a JSON object is.
* `JournalsAreKept`, `ExecsAreKept`: the two that concern `Noise`.  After each row,
  every row seen is at one place: kept, or in the group that it names (`PlacedOnce`), and
  what was seen, counted and grouped fits the rows read so far (`RowsCounted`).  Rows of
  one identity must be one row (`OneIdentity`), which is what a journal cursor is for.  A
  sorted list is given by how many elements come before each; that it holds each once, in
  order, follows for every strict order (`InOrderIsSorted`).

Every safety property that a run expects to hold has a theorem.  Left to TLC are the
liveness properties (`Delivered`, `Retired`, `PendingFlushed`, `EveryDateDone`,
`SlotsComeBack`, `SampleEnds`), since fairness and `ENABLED` are beyond the prover.

## 5. Not modelled

* The documents, deployment files, scripts and the command line: no logic of the
  running system.
* Redaction, configuration and status files: regular expressions and formatting.
  `atomic_bytes` is taken as one durable step.
* `permitted` of the gateway and the selection of containers and fields: comparisons
  with fixed lists, without state.
* The frames of a Docker log and the headers of a tar stream: byte layouts.
* `compact_health`: a fingerprint stands for a long output, which is not restored.
* The thresholds and wording of the report's findings, and its layout.
* What the host helper's other commands print; in `NvmeCache`, controllers that are
  configured (`smart_devices`) but absent, and the helper's failure to list them: a
  round is about the controllers that are there.
* The fields in which a marker and its manifest must agree (`bundle.py:139-141`): one
  writer makes both, and `BundleFile` has the members and their list alone.

## 6. Plan

What is left: the outbox as one module shared by `Collector` and `Uploader`, in place of
the queue and the stage that stand for it in each.
