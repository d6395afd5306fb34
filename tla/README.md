# TLA+ models of a Storj storage node and its satellite

This project models the parts of Storj in which a fault loses data or money and
which tests hardly reach, because the hard cases need two actors in an order
nobody wrote down, a crash between two statements, or a lost answer:

* on the storage node, the *hashstore* that keeps the pieces, and the orders that
  the node is paid for;
* on the satellite, the *metabase* of objects and segments, the queue of repair
  jobs, audits with reverification and containment, and the settlement of orders.

## 1. Inventory

### The repository

* **storagenode** – one process per node. `piecestore` takes uploads and
  downloads, `hashstore` (new) or `blobstore`/`pieces` (old) keeps the pieces,
  `retain` receives the satellite's bloom filters, `orders` settles bandwidth,
  `contact` talks to satellites, the rest are chores, caches and a console.
* **satellite** – many processes around two databases. `metabase` has objects
  and segments, `metainfo` is the API over it, `audit`, `reputation`, `repair`,
  `jobq` and `gc` keep the data durable, `orders` and `accounting` count,
  `console` and `payments` are the web side.
* **shared**, **private**, **cmd**, **multinode**, **certificate**, **web** –
  libraries, programs, dashboards.

`PROJECT.json` lists all of them with what is modelled and why the rest is not.

### The modelled parts

| Part | State | Operations | What is hard | What makes it right |
|---|---|---|---|---|
| `rwMutex` (sync.go) | waiter list, read count, write flag, channels | `Lock`, `RLock`, `Unlock`, `RUnlock`, cancellation | a cancellation races a grant; FIFO and LIFO; read limit | exclusion, exact accounting, no lost wakeup |
| `Store` (store.go, log.go, fsck.go) | log files, table, hint file, writers, compaction | `NewStore`, `Create` and `Writer.Close`, `Compact`, `Close` | power loss, process crash, failing i/o, page cache against disk | no acknowledged piece is lost silently |
| `DB` (db.go) | active and passive store, current compaction | `New`, `Create`, `Compact`, `Close`, background goroutine | five kinds of goroutines over one mutex that is dropped to wait | one compaction, of the passive store; nobody hangs |
| expiration (record.go, store.go, retain) | per record: created day, expiration with trash bit; filter; restore time | mark, restore, drop, revive | days are rounded, filters are late, decisions use stale values | only what may go is dropped |
| metabase | rows of objects and segments, bucket settings | begin, commit, delete, lock, move, copy, two chores | operations of several transactions, a bucket that changes between begin and commit | objects are whole, locked ones stay, one unversioned object per key |
| job queue | two heaps per placement, jobs held by repairers, a checker pass | `Insert`, `Pop`, `Peek`, `Delete`, `Trim`, `Truncate`, `Clean`, `Release` | pushes during a pass, retries, limits, restarts | the worst segment is repaired next; a pass cleans only what it did not see |
| orders | a file per hour, orders in flight, archive; rows per node and hour, cached bucket rollups | enqueue, list, settle, archive; receive, write rows, bill, flush | lost answers, two requests at once, restarts on both sides | every order is paid and billed at most once, every file is sent |
| audit | pieces of a segment, reverification queue, contained flag | audit, reverify, report, sync, repair | deletion, repair and garbage collection while an audit runs; workers that stop | only nodes that failed are blamed; nobody stays contained |

### How they interact

`DB.Create` picks the active store and returns its `Writer`. `Writer.Close` takes
the store's `flushMu` (an `rwMutex`) for reading; `Store.Compact` takes
`compactMu` and `flushMu` for writing. `DB` starts one goroutine per compaction
and signals its end to whoever waits. The compaction asks two callbacks, the
bloom filter and the restore time of the satellite, and the open reports lost
keys to a third, the amnesty callback. The hint file connects one run of the
process with the next.

A transfer to or from a node leaves a signed order; the node keeps orders in a
file per hour and sends a whole file to the satellite, which writes the node's
rows in a transaction and the customer's part through a cache. The checker walks
over the segments of the metabase and pushes injured ones to the job queue;
repairers pop them, download, upload and replace the pieces in the metabase. The
auditor reads the same piece lists, and both report to the same reporter, which
changes the lists again. A node that timed out gets a row in the reverification
queue and a flag in the overlay, two tables that are not written together.

## 2. Modules

### RWMutex – sync.go

One action per section under `rwm.mu`: `LockFast` and `LockSlow` (the two paths
of `lock`), `Receive` and `Cancel` (the two ways out of the select; if both are
ready Go chooses at random, so both are enabled), `ReturnAcquired`,
`ReturnCanceled` and `ReturnRelinquish` (the end of `lock`), `Unlock`. The loop of
`processLocked` is not a recursion but a statement about the number of its
grants: `Grants(ws, n, ...)` says that the first n turns admit their waiter and
the next one does not. This makes the module provable.

### Store – store.go, log.go, fsck.go, parts of record.go and helpers.go

A log is the sequence of its pieces with the number of synced ones; the table is
a function from keys to places, once as the page cache has it (`tbl`) and once
as the disk has it (`tblSynced`). The hint file is a pair of the largest log id
and the writable logs, as in `writeHintFile`.

* `WriteLog`, `AddRecord`, `FinishWrite`, `WriteFailed` are the parts of
  `Writer.Close` between which other goroutines run or a crash may fall.
* `CompactBegin` to `CompactFinish` are one round of `compactOnce`: forget and
  remove dead logs, choose candidates (by chance in the code, any permitted set
  here), rewrite record by record, commit the table and swap, remove the old
  logs, write the hint. `CompactFailed` ends it at any point before the commit.
  `os.Remove` of a log may fail and its error is discarded (`store.go:1049`, `1409`):
  `CompactRemoveFails` then leaves a file that the store has forgotten (`left`, a history
  variable) until the next open takes it in. `NoOrphans` says that this is the only way
  in which a file is left behind.
  Further rounds are further compactions; the code keeps its mutexes between
  them, so the model has more behaviours.
* `OpenStart`, `OpenLog`, `OpenMissing`, `OpenAmnesty`, `OpenDone` are `NewStore`:
  one step per log, tails compared, `reconcileLog`, the report after its table is
  committed. `OpenFail` and `OpenMisconfigured` are the error returns with the
  deferred `Close`.
* `Close` and `WriteCloseHint` are `Store.Close` before and after the lock file is
  released.
* `Crash` stops the process. If `PowerLoss`, each log keeps its synced part and a
  prefix of the rest, possibly followed by bytes that were never written; a file
  never synced may be missing; each record of the table is old or new.

What is assumed of the disk: unsynced bytes of a log are lost from the end;
`rename`, `unlink` and the creation of a synced file are durable in order;
a hint file is written as a whole (a failing hint write is not modelled, see
section 4). What is
abstracted: sizes are numbers of pieces, the heaps of logs per ttl are a choice
of any open log, growing the table (`doubleTableSize`) is the identity on its
contents. `SkipLogCheck` and `ReconstructTable` are off, `RewriteMultiple` is
positive. Which keys are expired comes from outside (`Expire`).

### DB – db.go

Every section under `d.mu` is an action. A store is its load, the state of its
compaction (`none`, `begun`, `running`, `done`) and whether it is being closed.
The `done` state between `compact.done.Set` and `d.compact = nil` is kept, since
others can look in between. `DB.Close` is six steps because it reads `d.compact`,
`d.active` and `d.passive` at different times. The ages that make the background
goroutine compact or swap are a free choice.

### Expiry – store.go (Compact, compactOnce, reviveRecord), record.go, retain

Time is in ticks, `DayLen` of them to a day. Expirations are the integers of the
code (twice the day plus the trash bit) and dates are rounded as in helpers.go.
The satellite is external: it commits an upload within `CommitDelay` or never,
deletes pieces, and builds filters that contain what it has. `CompactStart`
reads the restore time, `CompactLock` takes the mutexes and reads `today`,
`CompactOnce` is a round and may be repeated; the filter is the newest one of the
moment, as `GetBloomFilter` has it. `trashedAt` and `ttl` are history variables.
Several filters may be on their way and arrive in any order (`MaxFilters`, `FilterGap`);
`Queue` refuses the older one. The restore time a compaction acts on is the one it read at
its start: `RestoreSaves` is about that one, not about a restore that is issued while the
compaction waits for its mutexes, which the code does not see (`db.go:637`).

### Metabase – satellite/metabase

The tables `objects` and `segments` as the Spanner adapter uses them. A read-write
transaction is one action; an operation of several transactions has an action
for each, and remembers in between what the code remembers: the plain delete
(`DeleteLastCommittedPlainRead`, `DeleteLastCommittedPlain`), the copy (read,
`insertPendingCopyObject`, `finalizeSegmentsCopy`, `CopyCommit`, with the cleanups
`CopyRefused` and `CopyFailed` and a satellite that stops, `CopyLost`), and the
chores for zombies and for expired objects, which select and delete later.

The signed stream id of an upload remembers whether the bucket was versioned and
the expiration; `CommitObject` uses it and not the bucket of the moment. A
segment is a position, the day it was made and whether it has an `expires_at`
(`expiring`); a lock is a legal hold, a mode and a day. `stale` is a history variable: the streams hit by a write that relied on
a read that was no longer true. `ObjectWhole`, `SegmentsOwned` and `LockedKept`
leave them out, so that these say exactly where things can go wrong; the run
`metabase_locked` and section 4 show that they do go wrong there, in the chores for
expired and for zombie objects and in the plain delete.
`finalizeSegmentsCopy` is one step, the code writes batches of a thousand segments
(`copy_object.go:776`): an object here has fewer, and a copy that failed between two
batches would be cleaned up like one that failed after all of them.

Left out: sizes and metadata, conditional requests (`IfNoneMatch`,
`DisallowDelete` only refuse), `BeginObjectExactVersion` (tests only),
`DeleteObjects`, the plain delete under Object Lock, and the Postgres and TiDB
adapters, whose transactions are different.

### JobQueue – satellite/jobq, repair/checker, repair/repairer

A queue per placement with a heap of jobs to repair and one of jobs that cool
down; a job is in one of them with a health and the mark whether the checker's
pass has updated it. `Insert` moves, updates or evicts as the code does; `Pop`
takes the least healthy job over all queues the repairer may use. The checker is
a pass (`StartPass`, `CheckSegment`, `Flush`, `Clean` queue by queue, `PassFails`);
the repairer gives a job back (`RepairFails`), finishes it or loses it. The server
may lose everything, operators may delete, trim and truncate. Jobs of equal
health are taken in any order. A push whose reply is lost (`FlushUnanswered`) leaves the
job in the buffer, and the batch is sent again whole, also when a repairer has taken the
job meanwhile (`insertbuffer.go:67`). The code compares seconds of the checker's clock
with seconds of the queue's (`jobqueue.go:141`, `observer.go:205`); here a job counts as
updated by the pass if it was pushed during it. So the clocks are assumed to agree, and
that a job updated in the very second a pass began counts as updated by it is not
modelled.

### Orders and Settlement – storagenode/orders, satellite/orders

`Settlement` is the promise: an hour earns orders until it is paid, each action of
an hour is paid once for orders that were earned, and an order is billed at most
once and only if it is paid. `Orders` is how it is done. On the node: an order is
announced (`BeginEnqueue`), written or given up; `SendOrders` lists the hours that
are over and quiet, reads a file, skips entries that are corrupt, settles,
archives. On the satellite: a handler receives, reads the rows of the hour,
creates them or compares, bills the buckets through the cache and answers. Every
arrow between them may break: the file that is read (`ReadFails`), the request, the
answer, the database, the flush, either process. The refinement maps `earned` to the orders that were written,
`paid` to the rows, `billed` to the bucket rollups.

`CreateRows` retries a conflict without a limit; the code gives up after five
(`satellitedb/orders.go:932`), which two requests cannot reach, since the rows that made
one of them fail are found when it looks again and are never removed.

Amounts are one per order, there is one satellite, orders are judged when the
last of a request is received; encrypted metadata, `CloseAndFlush`, the archive's
cleaning and a renamed file lost at a power loss are left out.

### Audit – satellite/audit, satellitedb, repair/repairer

The pieces a segment lists and what the nodes really store are separate. An audit
is the steps of `Worker.work`, `Verify` and `RecordAudits`: skip list, read,
download, second look at the segment, reputation, drop of the pieces, row in the
queue, contained flag. A reverification claims a row, reads, downloads, checks and
reports likewise. Between any two steps a segment may be deleted, a node may lose
a piece, garbage collection may remove what no segment lists, a repair may replace
the pieces, the process may stop. `wronged` and `slow` are history: whom an audit
blamed without reason, and how often a piece timed out. A repair
may drop healthy pieces too, so `DroppedLost` lets it (`RepairReplaces`), but only in the
step that replaces the very pieces it read; audits and reverifications that work while it
uploads are held to the pieces that are lost.

Left out: what success, offline and unknown results do to a reputation, scores and
disqualification,
the refusal to drop more than six pieces, expired segments, graceful exit. Which
segment is audited next is a free choice; a repair chooses from `Spares`, nodes
that always answer.

The proofs about a module are in a module of their own, `RWMutexProofs`, `DBProofs`,
`StoreProofs`, `ExpiryProofs`, `MetabaseProofs`, `JobQueueProofs`, `OrdersProofs` and
`AuditProofs` (section 5); `MC*` modules only name symmetry sets and the values of function
constants.

## 3. Runs

| Run | Checks | Shows |
|---|---|---|
| `rwmutex` | TypeOK, MutualExclusion, Accounting, ReadLimit, WaitersHaveHolder, NoStarvation | safety with cancellations anywhere; every waiting call returns in FIFO mode if holders unlock |
| `store_process` | AckedReadable, NoOrphans, NoDangling | process crashes, failing writes, removals, opens and compactions lose nothing, no log file is left behind but one that could not be removed, and no record loses its piece |
| `store_power` | NoSilentLoss, ExcludedSound, WritableNotExcluded, NoDangling | with `SyncWrites` one power loss at any point loses no acknowledged piece without a report; the hint excludes only what is safe to skip |
| `db` | OneCompaction, PassiveCompacted, WaitersWake, RoomReturns, CloseReturns | the bookkeeping of compactions under all interleavings; waiting `Create` calls go on, `Close` returns |
| `expiry` | LiveNeverTrashed, DropJustified, RestoreSaves | what the satellite has is never trash; nothing is dropped early; a known restore saves |
| `metabase` | OneUnversioned, ObjectWhole, SegmentsOwned, StreamsUnique, LockedKept, NewestOnTop | all operations interleaved, the bucket's settings changing, copies failing at any step |
| `jobqueue` | TypeOK, Bounded, PushedQueued, WorstTaken | limits hold, a pass cleans nothing it pushed, the worst segment is taken in the end |
| `orders` | WindowComplete, OrderSettled, SettlesOnce, SentInTheEnd | the settlement implements `Settlement`; no hour is sent while orders may come; every file is archived |
| `audit` | TypeOK, NoFalseBlame, DroppedLost, JobLeaves, ContainmentSettles | nobody is blamed for what a repair, a deletion or garbage collection did; queue and flag settle |
| `store_failed_open` | NoSilentLoss (violated) | finding 1 |
| `metabase_locked` | LockedAlwaysKept (violated) | finding 2 |
| `audit_repair` | RepairRecorded (violated) | finding 3 |

Bounds and why they are enough:

* RWMutex: four goroutines, read limit two: a holder, waiters of both kinds and
  every order of their cancellations (21,296 states). More goroutines, other
  limits and LIFO mode are covered by the proofs.
* Store: two pieces, logs of two pieces, four log files, one crash, at most one
  failed write, removal or compaction. Two pieces are enough for one to be moved while
  another is in the same log, in a candidate that is not rewritten, or in the log
  written to; four logs let both be rewritten once. `TailLen` covers the log, so
  the tails differ whenever the log and the table do. 2,333,678 states without power
  loss. The inductive invariant of `StoreProofs` was checked too: 4,968,100 states with two
  crashes and three logs, 1,958,909 with power loss, failing opens and a failing step; and
  with it the one for a power loss, `PowerInv`: 154,066 states of this run's bounds,
  563,729 with three pieces and three logs.
* DB: one creator, one caller of `Compact`, a table of three records, one
  compaction that fails by itself, two background checks (291,688 states). The
  same properties were checked with two creators and one background check
  (578,364), and with two creators, four records and no caller of `Compact`
  (187,722). The number of calls of `Compact` is bounded: an endless stream of
  them can keep the passive store busy and `RoomReturns` fails.
* Expiry: one piece, because records are judged independently; days of two ticks,
  so that rounding up and down differ; nine ticks, long enough for upload, filter,
  trash and drop on four different days; two filters on their way at once, the older one
  before or after the newer, at most one of them built in a tick (8,085,158 states).
* Metabase: one key, three versions, two streams, two days, one operation of
  several transactions at a time, one failing copy (945,575 states). One key is
  enough because objects meet at a key; copy and move to the same key are the
  interesting ones. Two such operations at a time (2,030,687 states) and three
  days (2,604,322) were checked without legal holds.
* JobQueue: two segments, in one queue that holds one or both, or in two queues;
  one repairer, two degrees of health, one failure (303,426 states).
* Orders: two orders of one hour with different actions, seven ticks with hours of
  two, two requests at a time, two failures, a cache of one key (116,019 states).
  Three orders were checked too (584,952 states).
* Audit: a node that may fail, a spare, one segment, one worker, two
  reverifications, two of audit, reverification and repair at a time, one failure
  (194,919 states). Larger instances of earlier versions of the
  module, of up to 5,265,551 states, showed nothing else.

`CHECK_DEADLOCK FALSE` is set for DB, where nothing happens after `Close`, and for
Metabase and the violation run of Store, where the bounds end a behaviour.

Fairness. RWMutex: a goroutine inside `lock` that is ready goes on, and a holder
unlocks (all callers do so by `defer`). DB: the Go scheduler runs goroutines that
are not blocked, the compaction ends (its loops poll the context), writers are
closed. JobQueue: the segment loop runs again and again, a free worker asks for a
job and gives up after `TotalTimeout`. Orders: time passes, transfers end with or
without an order, the chore and the handlers go on. Audit: audits, repairs, workers
and the sync chore go on, the retry interval passes, and a row that can be claimed
again and again is claimed at some time (strong fairness per row:
`GetNextJob` takes the oldest row, and a row that was taken rests for the interval). Nobody is required to start
anything, to cancel, to fail or to recover.
A row of an offline node stays in the queue for as long as the node is offline, so
`JobLeaves` is about nodes that come back: an attempt that finds the node offline
(`GetPieceOffline`) is one of the `MaxFaults` faults, which are finite.

## 4. Findings

1. **A failed open writes a clean hint** (`hashstore/store.go:148`). `NewStore` that
   returns an error runs `Close`, which writes a hint file naming the largest log
   seen and no writable log. After a power loss the next open skips those logs,
   although they were never checked, and a lost piece is never reported.
2. **A chore deletes a locked object** (`metabase/delete_batch.go:159`). An upload
   with a retention is marked by `DeletePendingObject`, selected by the chore for
   expired objects, committed (the commit takes `expires_at` from the stream id and
   so clears the mark), and then deleted by the chore, which looks only at the
   primary key and the stream.
3. **A repair that reports a failed piece is lost** (`repairer/segments.go:699`).
   With `ReputationUpdateEnabled` (off by default) the reporter removes the failed
   piece from the segment; the repair's own update, which compares with the pieces
   read first, is refused, and the uploaded pieces are thrown away.

Seen while modelling. The definitions named here are in the modules; each fails
when it is added to the configuration of the module's run.

* `DB!CloseShutsBoth` – `d.active` and `d.passive` are read without the mutex
  (`db.go:298`); a swap in between makes `Close` close one store twice.
* `DB!CloseStops` – `performPassiveCompaction` is not in the wait group
  (`db.go:557`), although `Close` "blocks until all background processes have
  stopped".
* `Store!CompactionSynced` – `rewriteRecord` syncs only logs that become full; the
  comment at `store.go:1450` says everything is synced.
* `NoDangling` and `ExcludedSound` with `MaxErrors = 1` or `MaxCrashes = 2` in
  `MCStorePower.cfg`, and `NoSilentLoss` with `MaxErrors = 1` and `MaxLogSize = 4` (all with
  `CHECK_DEADLOCK FALSE`) – `reconcileLog` looks only for the key (`store.go:1718`), so
  an older copy in the same log, left by a write or a compaction that failed or was
  interrupted, hides that the record points to lost bytes.
* `NoSilentLoss` with `MaxCrashes = 2` – a crash between the commit in `reconcileLog` and
  the amnesty callback loses the report (`store.go:352`); and if the hint written at the
  end of an open may fail (`store.go:1634`), the hint of the clean close before stays
  in force.
* `Metabase!ObjectAlwaysWhole` – the plain delete removes the segments of an object
  that was moved after the delete had read its row (`delete.go:1314`).
* `DeleteInactiveObjectsAndSegments` deletes by primary key and stream, without a look at the
  status (`delete_batch.go:332`): an upload that sat idle and is committed after the chore
  for zombies selected it goes with its segments.
* `JobQueue!RetryWaits` – a push by the checker has no time of the last attempt and
  moves a cooling job to the repair heap.
* `Orders!BatchAtomic` – the comment at `satellite/orders/endpoint.go:223` says
  that batches are atomic; a restart after the node's rows are written leaves the
  buckets uncharged, as does a failed flush or a full cache.
* `Store.Close` releases the lock file before it writes the hint (`store.go:674`,
  `684`); without `SyncWrites` the hint of a compaction that finds nothing to do
  excludes logs whose records are not synced (`store.go:1189`); a log is judged
  dead by the table in the page cache (`store.go:1035`); `DB.Compact` may take the
  result of a compaction that ended before it was called (`db.go:646`); a
  cancelled `lock` does not process the waiters behind it (`sync.go:189`).
* Two requests for an hour that have no action in common are both accepted
  (`satellitedb/orders.go:886`). A window that was paid, whose answer was lost and
  whose orders expired before it was sent again is archived as rejected. A failed
  archive is not counted as an error of the satellite, so the hour is sent again
  at once.
* The count of reverifications includes attempts at which the node was offline.

## 5. Proofs

`RWMutexProofs` proves type correctness, `Accounting`, `MutualExclusion`,
`WaitersHaveHolder`, `ChannelEmpty` and `ReadLimit` for every finite set of
goroutines, every read limit and both queue orders. Assumptions: the set is
finite, the limit a natural number. `MutualExclusion` is not inductive: a grant
can be under way in a channel. The invariant `IInv` therefore speaks of `Granted`
(holders and grants under way) and adds that the list has no duplicates, that
its members are inside `lock` without a token, that tokens belong to goroutines
inside `lock`, that `pendingWrites` counts the writers inside `lock`, and that
somebody holds the lock when somebody waits. Lemma `Loop` says what n turns of
`processLocked` grant, `ProcessLocked` turns it into the invariant, and the
steps of the actions rest on it.

`DBProofs` proves type correctness, `OneCompaction` and `PassiveCompacted` for any
callers and any thresholds `0 < CompactLoad < MaxLoad <= Slots`. The inductive
invariant adds that a `Compact` that waits and a `Close` under way know a store;
`OneCompaction` is what shows that resetting `d.compact` cannot reset somebody
else's compaction.

`StoreProofs` proves `NoOrphans` and `WritableNotExcluded`, with power loss and failed
opens or without, and `AckedReadable` and `NoDangling` if the machine loses nothing
that was not synced (`~PowerLoss`), all with type correctness and for any pieces, log and tail
lengths, logs, crashes and errors. With power loss an acknowledged piece may be lost and only
reported; that is `NoSilentLoss`, below. Three kinds of steps could
take away what a record points to, and a part of the invariant is about each. A failed
write truncates its log: the writer has the log for itself, its piece is the last there
and not yet synced, and no record points to it (`WriterInv`, and the fourth part of
`PointedInv`). A compaction removes logs: a dead one has no record, and a rewritten one is a
candidate, to which `rewriteRecord` never copies, so that the table it commits
points to none of them (`CompInv`). An open removes records: only those whose piece is in no
place of the log, and there are none when every record points to its piece (`PointedInv`).
`FilesInv` says that a log file is known, still to be opened, being removed or left by a
removal that failed, and that no new log gets the id of an old one; `LeftInv` that no record
points to a log that was left; `HintInv` that an open log is named writable or
newer than the hint file, so that an old hint file is safe for new logs.

For a machine that loses what was not synced, `StoreProofs` proves every property of the run
`store_power`: `NoSilentLoss`, `ExcludedSound` and `NoDangling` for any pieces, any log and tail
lengths and any number of logs, as long as there was at most one crash and no error (`Calm`),
with `SyncWrites` and without failed opens. The hypotheses are needed: with a second crash, one
error or a failed open TLC finds each of the three violated (section 4 and finding 1), and
`NoSilentLoss` also without `SyncWrites`. (The other two hold without `SyncWrites` on the
instance of `store_power`; that is not proved.) The first two are of the states, not of the bounds: `Spec => [](Calm => NoSilentLoss)`. The
invariant `PowerInv` says that the store is *sound*, or that it lost power once and is
*damaged* and not open.

* Sound (`PointedInv` and `SyncedInv`): every record points to its piece; what the hint file
  excludes, or would if it were written now, is synced, and what the disk's table has there is
  there. A store that was not yet stopped is also `Fresh`: a piece is in one log only, and
  once, but for the copy that a compaction makes; the disk's table is behind the page cache only
  by uploads that were not acknowledged; a full log is synced unless its writer is about to
  do it. This is what an error breaks.
* The loss (`CrashDamages`) tears a log only behind what was synced. A log that the hint file
  excludes is synced and is not torn. In a torn log the table keeps records of two kinds:
  the piece is there, or nothing valid is left at its offset or behind it and the piece is nowhere
  in the log (`Cut`), because it was there only once.
* Damaged: that the open then finds what is lost is `OpenLogDamaged`. If the tails of the
  table and of the log are the same, no record is cut off: the record with the greatest offset
  is in the table's tail whatever the length of the tails (`FiniteMax`, `TailsAgree`), and
  were it cut off, the log's tail could not have it. If the tails differ, `reconcileLog`
  looks at all keys, and those without their piece go and are reported
  (`ReconcileLeaves`). A log without a file is found by `OpenMissing`.
* `OpenDoneSound`: when all logs are checked nothing is damaged any more, and what is not in the
  table was reported. The store need not be fresh again, which is why a second
  crash is another matter: a copy in a log that was not removed can hide a loss.

`ExpiryProofs` proves type correctness, `LiveNeverTrashed`, `DropJustified` and
`RestoreSaves` for any pieces, any length of a day, any ttls, any time in the trash.
Assumed of the code's parameters: the skew covers the time until a piece is committed
and the rounding of the created day (`CommitDelay + DayLen <= Skew + 1`), without which
`LiveNeverTrashed` is false; and the bound on the clock reaches the first day
(`DayLen <= MaxTime`). The bounds on filters may be any. `LiveNeverTrashed` needs to know of every filter, the
node's and those on their way, that a piece the satellite has is in it or was committed
after it was built; of every record, that its created day is not before the day of its
upload; and of a compaction, that no upload is newer than its start. `DropJustified`
needs what the day of an expiration stands for: the end of the ttl rounded up,
or `ExpiresDays` from the day of the compaction that trashed the piece, which the history
variable `trashedAt` records. `RestoreSaves` follows from the same fact: a restore is
rounded up and the trashing down, so a piece trashed before the restore expires within
the days the compaction counts from it.

`JobQueueProofs` proves type correctness, `Bounded` and `PushedQueued` for any finite set of
segments, any workers, placements and limits. `PushedQueued` needs two facts
about a pass of the checker: the queues are cleaned only after the last segment was looked
at, and nothing is buffered outside a pass; then what the pass pushed counts as
updated, and `Clean` leaves it alone. `Bounded` is about cardinalities: the push of a new
job into a full queue takes at least one out.

`OrdersProofs` proves type correctness, `WindowComplete`, `OrderSettled` and the
refinement `SettlesOnce`, that is `Spec => Promise!Spec`, for any finite set of orders, any
request identifiers, grace period, batch size and user actions. The argument: an hour
that is over stays over and nobody appends to its file, so
the file only shrinks, and a request holds all its orders
(`NodeInv`, `SenderInv`, `HandlerInv`). The rows of an hour are therefore created once for
all of them that have not expired (`SettledInv`), an answer to an earlier request is as
good as the answer to this one, and an archived order was paid or
had expired (`ArchiveInv`). For the buckets, `BilledInv` says that an order is in one
place at most on its way there: the handler's list, the cache, a flush,
the bucket. The refinement has one step lemma per kind of step: a commit earns, a
`CreateRows` without a conflict pays, a batch bills, all others stutter.

`AuditProofs` proves type correctness, `NoFalseBlame` and `DroppedLost` for any nodes,
spare nodes, segments, workers and limits (none of the sets of nodes and segments empty).
An audit acts on a row it read before, and a
node without the piece may have dropped it rightly. What excludes this is the comparison
of the row afterwards: a row never lists again a node that it dropped, so a row that is what
it was has listed the node all the time, and what is listed is not collected
(`Listed`, `VerifyMissing`, `ReverifyMissing`, `RepairMissing`). That repairs choose
from `Spares` and never bring a node of `Nodes` back is a restriction of the model on which
this rests. For timeouts, `Claims`, `Unqueued` and `Counted` say that a row is in the
queue because of one, and that while a worker has it nobody else takes it away or
begins it anew.

`MetabaseProofs` proves type correctness, `OneUnversioned`, `StreamsUnique`, `ObjectWhole`,
`SegmentsOwned`, `LockedKept` and `NewestOnTop`: every property the run `metabase` checks, for
any keys, any finite set of segment positions, any number of versions, streams and days, any
settings of the bucket, holds, modes and ttls. The invariant adds to the
properties that markers alone have no stream; that a stream is drawn before it is
in a row (`Drawn`); that the stream of a copy in progress is in the row of its pending object
only, which is as the copy made it, with the copy's segments once they are written
(`CopyAlone`); and that what has a lock is in a bucket with Object Lock and does not
expire (`LocksKnown`). The last is why the chore for expired objects keeps `LockedKept`: a
protected object it removes must have changed since the chore read it, and is stale.
All transactions write in one of three ways: rows go, a row is put while two others
go, a row changes in place. `Fits` collects nine conditions on such a write, and each
part of the invariant follows from a few of them; the two action
properties do too. Then there is one lemma per action, which derives its `Fits` from
the action's guards. The exception `stale` is the history of writes that
relied on an outdated read; without it `ObjectWhole` and `LockedKept` are false
(section 4), so the theorems say that nothing else breaks them.

Only model-checked is all liveness (`NoStarvation`, `WaitersWake`, `RoomReturns`,
`CloseReturns`, `WorstTaken`, `SentInTheEnd`, `JobLeaves`, `ContainmentSettles`): the prover has
no rules for fairness and `ENABLED`. Every safety property that a passing run checks is a
theorem.

## 6. Not modelled, and the plan

Not modelled: reads, statistics and sorting in `Store` and `DB` (they change
nothing that lasts), the table implementations, the lru of file handles, the older
piece store, the console, payments and the rest that `PROJECT.json` lists. Most of
the repository's lines are generated database code, web backends and SQL, in which
there is no order of steps to check.

Order of the work to come:

1. `Store` with more than one power loss: whether `NoSilentLoss` can be proved for any number
   of them if `reconcileLog` looked at offsets and the report survived a crash.
2. `HashTbl`: linear probing with lost pages, as a refinement of the map that
   `Store` uses; `MemTbl` likewise.
3. The locks of `Store` (compactMu, flushMu, reviveMu, rmu) with `Read` and revive
   against compaction, composed with an abstract lock that `RWMutex` implements.
4. `retain` and the amnesty client; piece migration.
5. The deletes of several objects in metabase, and the transactions of the other
   adapters.
