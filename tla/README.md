# TyLsmDB in TLA+

TyLsmDB (`src/`) is an embedded LSM-tree key-value store in Rust: a write-ahead
log (WAL), memtables, SSTables in levels, leveled compaction, a MANIFEST,
snapshots, and optimistic transactions. This directory models its core,
checks it on small instances with TLC, and proves facts about it for every
instance with TLAPS.

    tlasany Engine.tla
    tlc -workers 2 -config EngineSequential.cfg MCEngine
    tlapm EngineFileProofs.tla

`PROJECT.json` lists components, runs, the source lines behind each definition,
the hazards and the findings.

## 1. Inventory

One `DB` is a cloneable handle on a `DBInner`, which any number of threads share.
It starts no threads: flushes and compactions run in the thread of the client
that calls them, or of the writer that leads a write group.

| Part | State it keeps | Operations | Talks to |
|---|---|---|---|
| Write groups (`db.rs`, `PendingWrite`) | queue of requests, one result slot and condition variable each | enqueue, lead, drain, apply, complete, wait | write path; other writers through the queue |
| Write path (`db.rs`, `batch.rs`) | `last_sequence`, mutable and frozen memtables, open WAL | pressure, number the batches, log, insert, freeze, flush | WAL, memtables, flush, compaction |
| Memtables (`memtable/`, `key/`) | sorted map of internal keys | put, delete, get, iterate | write path, reads, flush |
| Flush (`db.rs`) | the memtable in flight | take the oldest, write the table, publish three manifest edits, rotate the WAL | versions, WAL, tables |
| Reads (`db.rs`, `table/reader.rs`) | none: a read sequence and a list of tables | get, scan, multi_get | memtables, tables, file system |
| Compaction (`compact/`, `db.rs`) | a task; watermark and tombstone flag read beforehand | pick, merge and collect, write outputs, commit edits, install, unlink | versions, watermark, tables, file system |
| Versions and MANIFEST (`version/`) | live version, next file number, log of edits | apply an edit durably, recover | flush, compaction, open |
| WAL (`wal/`) | append-only file of checksummed records | append, sync, read until the end or damage | write path, open |
| Open (`db.rs`) | none | recover the versions, open the tables, replay the WAL | all of the above |
| Snapshots, watermark (`mvcc/`) | multiset of live sequences | register, deregister, oldest | reads, compaction |
| Transactions (`mvcc/transaction.rs`, `conflict.rs`) | read set, write batch, snapshot | get, scan, put, delete, commit, rollback | reads, write path, watermark |
| Iterators (`iterator/`, `table/reader.rs`) | a merge of one cursor for the memtables and one for each table, each with its open file and block | open, seek to the lower bound, next, collect | tables, block cache |
| SSTables (`table/`, `util/bloom.rs`) | blocks of prefix-compressed entries, index, Bloom filter | build, look up, seek | memtables and compaction as writers, reads and iterators |
| Block cache, table cache (`cache/`) | decoded blocks by table number and offset; open readers by number | get, insert with eviction | reads, iterators, compaction |
| Env (`env/`) | files, the directory, what is durable of both | open, write, sync, rename, set CURRENT | WAL, manifest, tables, open |
| Options, metrics, rate limiter | see section 8 | | |

What is hard to get right, and hard to test:

- **Two locks taken in turn.** The state lock protects memtables and the tables
  that readers see, the versions lock protects the version and the manifest. A
  compaction takes each several times and releases it in between, and acts on
  what it read before: a task, a watermark, a tombstone flag, a version.
- **Files reached by path.** A lookup opens a table by name after the lock is
  released; a compaction unlinks its inputs without knowing who still needs them.
- **Several durable writes that belong together.** A flush makes three manifest
  edits, a compaction one for each file, and a crash may come between any two.
- **Numbers wound back.** File numbers and sequences are not logged when they
  are handed out. Recovery infers both from manifest and WAL.
- **One leader answers for others.** A writer's result comes from another thread.
- **Records cut short.** A log whose last record is partial is appended to again,
  after a crash or by the process whose append failed.
- **Calls that fail half way.** A failed append, sync, table write or manifest edit
  leaves what came before it; the process goes on with the memtable restored and
  the sequence numbers unspent.
- **Power loss.** What is written is not yet durable, and a file is durable
  before its name is, or after.
- **Cursors over changing tables.** An iterator lives on while its files are
  unlinked, its snapshot is dropped and its blocks are evicted.
- **Garbage collection against readers.** The watermark is computed in two steps
  while snapshots and transactions come and go.

What makes each part correct:

- *Engine as a whole*: clients see a map changed by atomic batches; nothing
  internal is noticeable (`ReadsLatest`, `ImplementsKVStore`).
- *Snapshots*: a live snapshot keeps its view (`SnapshotsStable`).
- *Reads*: a lookup that races everything else returns the value at its read
  sequence (`GetsLinearizable`) and does not fail (`GetsSucceed`); lookups and
  scans agree (`ScansAgreeWithGets`).
- *Versions*: levels below 0 have disjoint files, as lookups presuppose
  (`LevelsDisjoint`); the manifest names only files that exist
  (`ManifestFilesExist`); published tables never change
  (`PublishedTablesNeverChange`); numbers the manifest knows are not reused
  (`FreshNumbers`).
- *Sequences*: no entry in a memtable or table is newer than `last_sequence`, also
  after recovery (`SequencesFresh`), and no record stays in the live log with a sequence
  that a later write gets (`LoggedSequencesFresh`).
- *Write groups*: a nonempty queue has exactly one leader, each request is held
  once, Ok means applied once, every write returns.
- *Logs*: replay yields a prefix of what was written, and after a partial record
  every complete one.
- *Iterators*: a scan delivers exactly the rows of its range at its read sequence,
  in order, whatever happens to the tables (`ScansExact`).
- *Tables and block cache*: a lookup through filter, index and cached blocks finds
  what a search of all entries finds (`IndexedGetsExact`).
- *Durability*: `DB::open` succeeds after a power loss at any call
  (`OpenSucceeds`), synced writes survive (`SyncedWritesSurvive`), and what is lost
  is lost from the end (`LossesAreSuffixes`).
- *Transactions*: serializable, no lost updates, repeatable reads, own writes
  visible to both kinds of read.
- *Progress*: every call returns (`CallsReturn`, `WritesReturn`).

## 2. Modules

    LsmTree ──> Engine ──> EngineProperties ──> EngineRefinement ──> MCEngine
       │                        │                    └─ INSTANCE KVStore
       │                        │                    └───────────┐
       │                        └─> EngineFileProofs ──> EngineReadProofs
       ├──> LsmTreeProofs ───────────────────────────────────────┘
       ├──> Transactions ──> MCTransactions
       │         └─> TransactionsProofs <── LsmTreeProofs
       └──> TableFile ──> Scans ──> MCScans
                            └─> ScansProofs <── LsmTreeProofs
    WriteGroup ──> MCWriteGroup          RecordLog ──> RecordLogProofs
        └─> WriteGroupProofs             PowerLoss ──> PowerLossProofs

| Module | Models |
|---|---|
| `LsmTree` | pure functions: order of internal keys, lookup in a source and in a version, garbage collection, splitting of outputs, the manual picker, `can_drop_tombstones` |
| `Engine` | `db.rs`: writes, flush, compaction, get, snapshots, close, I/O errors, crash and open |
| `EngineProperties` | the engine's properties and the inductive strengthenings |
| `KVStore` | the abstract store clients are promised |
| `EngineRefinement` | the refinement mapping from `Engine` to `KVStore` |
| `WriteGroup` | the queue, leader and condition variable in `DB::write` |
| `RecordLog` | record layer of WAL and MANIFEST, with partial records |
| `Transactions` | `Transaction` and `commit_transaction` |
| `TableFile` | inside a table: blocks and where they are cut, prefix compression, Bloom filter, index, lookup and seek |
| `Scans` | `scan_iter_opt`, its iterators and the block cache, next to writes, flushes, compactions and unlinking |
| `PowerLoss` | `Env` over a file system that may lose what was not synced; first open, write, `sync_wal`, flush and recovery as calls to it |
| `MC*` | constants for TLC |
| `EngineFileProofs` | proofs: types and locks of the engine, file numbers, immutable tables, sequence numbers; files the manifest names exist, levels are disjoint |
| `EngineReadProofs` | proofs: reads, snapshots, gets and scans of the engine; the engine implements `KVStore` |
| `LsmTreeProofs` | proofs about the pure functions: `Newest`, `CompactEntries` |
| `ScansProofs` | proofs: tables, their blocks and the block cache, lookups inside a table, and what a scan delivers |
| `WriteGroupProofs`, `TransactionsProofs`, `RecordLogProofs`, `PowerLossProofs` | proofs about these components |

### Engine: state and actions

A variable stands for a field or a file; the comment at its declaration says
which. `job[t]` is the program counter of thread `t` with its live locals. An
action is what a thread does between two points at which another thread or a
crash can come in: one section under a lock, or one durable write inside such a
section. `HoldsState` and `HoldsVersions` say at which program counters a thread
keeps a lock across steps.

| Code | Actions |
|---|---|
| `apply_write_pressure`, `apply_write_group_to_memtable` | `BeginWrite`, `CompactUnderPressure`, `LockState`, `AppendWal` (one for each batch), `ApplyItem` (one for each batch, with the freeze) |
| `flush`, `write_l0_table`, `publish_l0_table` | `FlushNothing`, `FlushRefused`, `BeginFlush`, `WriteL0Table`, `PublishAddFile`, `PublishLastSequence`, `PublishLogNumber` |
| `compact_range`, `execute_compaction` | `CompactRange`, `ReadOldest`, `ReadLastSequence`, `CheckTombstones`, `CompactionFails`, `TrivialMove`, `WriteOutputs`, `CommitDelete`, `CommitAdd`, `LoadVersion`, `InstallTables`, `DeleteObsoleteFiles` |
| `get_opt` | `GetMemtables` (under the state lock), `GetTables` (without it), `ReturnGet` |
| `snapshot` and its `Drop` | `TakeSnapshot`, `DropSnapshot` |
| `close`; the process ending, then `open` | `Close`; `CrashAndOpen` |
| a call returns an I/O error | `WalFails`, `FlushFails`, `PublishFails` (with `restore_flush_memtable`), `OutputsFail`, `CommitFails` |

`Failures` says which kinds of failure happen in an instance: `"crash"`; `"wal"`,
`"table"`, `"publish"`, `"commit"` for an append, a table, a manifest edit of a flush
or of a compaction that fails and leaves nothing of itself; `"sync"` for records that
are written before a sync or a later append fails.

### Scans and PowerLoss: state and actions

`scan[r]` is a reader's `DBIterator`: range, read sequence, tables still to open,
children, rows so far. `OpenScan` is the section under the state lock, `OpenTable` one
`storage_iter`, `SeekToLowerBound` is `DBIterator::try_new`, `Advance` one round of
`advance_to_next_visible`. Each reads at most one block of each table; `InsertBlock` is
the cache insert that follows a miss, with its own lock. `Flush` and `Compact` are
atomic: a reader sees the list of tables before or after, and a file it has open stays
readable. `Compact` reads its inputs through the cache, as `entries_with_cache` does.

In `PowerLoss` a file has its records and those that were synced; `fs.dir` is the
directory as processes see it, `fs.disks` the directories a power loss may leave. Each
action is one call to `Env` (or a write and the sync behind it); `Crash` ends the process,
`LosePower` also chooses what the disk holds. With `Journaled`, directory changes reach the disk in
order, at the latest with the next sync of a file, as on ext4 or xfs.

### Abstractions

- A value is the sequence number of the put that wrote it. Reads are compared
  by it, and no two records of one life of the database share one
  (`SequencesFresh` and `LoggedSequencesFresh` are the checks on that).
- A memtable or table is a set of entries. Both are sorted maps in the code; the
  order is `Before`. `memtable_size` counts entries and not bytes.
- The manifest is represented by its replay: each edit is appended and synced
  before it is applied. `RecordLog` is about the file itself.
- A WAL is the set of the entries of its records; replay inserts into a sorted
  map, so order does not matter. A record is appended as a whole here; partial
  ones are in `RecordLog`.
- A crash in `Engine` ends the process and not the machine: what was written stays,
  synced or not. What a power loss takes, and `sync`, are in `PowerLoss`, which has one
  thread, no compaction, and whole records; a record cut short is in `RecordLog`.
- A write whose call failed is not in `history`, but a crash may bring it back from
  the log: only in a place that no acknowledged write has.
- In `TableFile` a key has the bytes and the probes that the constants give it. Block
  sizes depend on bytes, so every cut is possible. Varints, checksums and zstd are left
  out. In `Engine` a table is its set of entries, which `IndexedGetsExact` justifies.
- Outputs of a compaction get consecutive numbers in one step. The parallel
  subcompaction workers may get theirs in any order; the files are in no version
  before the commit, and what their numbers decide (ties in the order of a level)
  concerns no two nonempty outputs.
- Where an output file is full depends on bytes, so every cut that the code's rule
  permits is possible in `Splits`.
- A Bloom filter may let an absent key through and never stops a present one.
- `history` is a ghost: the entries acknowledged to clients or recovered.
  Entries written without the WAL leave it when a crash loses them, as the
  contract of `disable_wal` allows.
- `commit_transaction` appears in `Engine` as a write group of one logged batch;
  its conflict check is in `Transactions`.
- Sleeps (slowdown, rate limiter), metrics and caches are left out of `Engine`; the
  block cache is in `Scans`.
- In `WriteGroup` what applying a group does is one step with three outcomes
  (ok, failed before or after the batches were applied); a result taken by its
  waiter is left in place because nobody looks at it again.
- In `Transactions` the store is one set of entries, the union the conflict check
  searches, and a compaction is two steps: fix inputs and watermark, then collect.

Definitions named `Faulty...` are plausible mistakes in the code. Each replaces the
definition after it in one experiment, and TLC then finds the listed property
violated; nothing else uses them.

## 3. Runs that pass

Each takes about three minutes or less with two workers.

| Run | Instance | Shows |
|---|---|---|
| `sequential` | 1 thread, a snapshot, deletes and a two-record batch, pressure at 2 level-0 files, outputs cut in up to two files | reads, snapshots, scans, level invariants and the refinement of `KVStore` hold through flushes, full-range compactions, trivial moves and pressure |
| `writers` | 2 threads, groups of one and two batches, every batch freezes a memtable, no compaction, one failed append, table write or manifest edit | gets and reads are right with several memtables, one in flight or restored, and both threads flushing |
| `maintainer` | one key; one thread writes, flushes and compacts, the other writes and gets; deletes without the WAL; a snapshot | garbage collection and replaced tables never change what a get or a snapshot reads |
| `durable` | 1 thread, groups of one and two batches, no automatic flush, close, 2 failures anywhere: crashes, failed appends, table writes or manifest edits | acknowledged logged writes survive, a group cut by a crash comes back as a prefix, no number is reused, and no sequence of a logged record; `KVStore` with reopening is refined |
| `racing` | 2 threads that write, flush and compact, pressure at 1 file, one failure of any kind, fairness | types, fresh sequences and immutable tables hold also where the findings below break reads, and every call returns |
| `write_group` | 3 writers, one of which calls twice | one leader, no request lost or doubled, Ok means applied once, no lost wakeup |
| `record_log` | 4 records, 3 crashes or failed appends at any cell | replay never invents or skips records; a partial tail is ignored and nothing complete is lost while nothing follows it |
| `transactions` | 2 transactions of 2 operations, another writer, a compaction | serializability, first committer wins, repeatable reads under garbage collection, gets agree with scans |
| `scans` | 1 reader, 3 writes of 2 keys one of which is a prefix of the other, 2 tables cut in every way, a cache of one block, a snapshot | an iterator yields exactly its rows while tables are replaced and unlinked under it; lookups through filter, index and cache are exact |
| `power_loss` | 3 writes with and without sync, 2 flushes, 3 crashes or power losses at any call | open always succeeds, synced and flushed writes survive, losses are a suffix |

### Bounds and why they are enough

- **Keys** 1 and 2: files can overlap, be disjoint, or share one key while
  differing in another. Deletes and overwrites need one key only.
- **Three levels**: level 0 with overlapping files, a middle level that is both
  output and input, and a last level where tombstones are dropped.
- **MaxWrites** 3 (2 in `racing`, 4 in `bug_partial_range`): a version below, one at
  and one above the watermark; with `MemtableSize` 1 or 2 each may be in a memtable,
  in level 0 or deeper. In `racing` two writes suffice for a reused sequence or number:
  one before the crash and one after it.
- **MemtableSize** 9 turns automatic freezing off where a run is about explicit flushes.
- **StopTrigger** 1 or 2 brings writes into the pressure path, 9 keeps them out.
- **MaxFailures** 1 to 3: the second failure acts on what the first one left, for
  example a crash after a failed flush, or a power loss during recovery from one.
- **One reader** in `scans`: readers share only the block cache, which other tables'
  blocks enter and leave through compactions as well. **CacheBlocks** 1 makes every
  insert evict. **RestartInterval** 2 (16 in the code) puts a restart inside a block of
  three entries. `FillCache` FALSE would only remove the cache.
- **MaxTables** 2 in `scans`: a flushed table and the one that replaces it, or two
  flushed ones to merge.
- **MaxFileNumber** 30 is never reached; it only makes `content` finite.
- **Three writers**, one calling twice: a leader with two followers, and a writer that
  meets what is left of its first call. `MaxCalls` bounds each writer on its own.
- **Two transactions of two operations** make write skew, a lost update and a phantom
  possible; the other writer is the third party.
- Threads in `Engine` have different `Ops`, and liveness is checked in `racing` and
  `write_group`, so symmetry is used for `Transactions` only, where the transactions
  are interchangeable and every property is an invariant.

`RecordLog` and `Transactions` end when their bounds are used up, so their runs
do not check deadlock. All other passing runs do.

### Fairness

`CallsReturn` and `WritesReturn` assume weak fairness of each thread that is
*inside* a call: the scheduler runs threads, and a lock that is free is eventually
obtained. No thread has to start a call, nobody has to take or drop a snapshot,
no crash has to happen or not happen, and no progress depends on spurious wakeups
(they are in `Next` and outside the fairness condition). Writes
are bounded by `MaxWrites` and compactions by the files there are, so a lock is not
contended for ever; with unboundedly many calls of others, progress would depend on
the fairness of the locks themselves.

## 4. Findings

Each of these runs checks one property that the repository's docs or tests state,
and TLC shows a behaviour of the code that violates it. The quotes are in
`PROJECT.json`.

| Run | Where | What happens |
|---|---|---|
| `bug_partial_range` | `compact/picker.rs:92` | `compact_range` of one key moves a newer level-0 file below an older one that overlaps it on another key, and reads go back in time |
| `bug_compaction_crash` | `db.rs:904` | a crash between DeleteFile and AddFile edits loses the compacted data |

The same specifications show more with other constants. These have no run of
their own; the table says how to set one up (`MaxWrites` 3, `MemtableSize` 1,
`StopTrigger` 9, `OneKey` and no failures where nothing else is said).

| Where | What happens | Instance and property |
|---|---|---|
| `db.rs:1040` | a compaction installs a version it read before a concurrent flush; the flushed table vanishes from reads | `TwoThreads`, `CompactorOps`; `ReadsLatest` |
| `table/reader.rs:78` | a get opens a table that a compaction has just unlinked and fails | `TwoThreads`, `ReaderOps`; `GetsSucceed` |
| `db.rs:740` | a group freezes two memtables; flushing the first rotates the WAL, and a crash loses the second | `JoinedGroups`, `DurableOps`, one crash; `ReadsLatest` |
| `db.rs:928` | two compactions share a file; one moves it down, the other unlinks it, and the database no longer opens | two threads that may compact, one of which writes; `ManifestFilesExist` |
| `db.rs:1297` | versions of the empty key are split over two files, and a snapshot loses its value | `Keys = {1}`, `EmptyKey = 1`, `MaxSubcompactions = 2`, `MemtableSize = 2`, one thread, a holder; `SnapshotsStable` |
| `db.rs:737` | a crash between AddFile and LastSequence with unlogged writes recovers a `last_sequence` below live entries | an unlogged put, one thread, one crash; `SequencesFresh` |
| `db.rs:707` | an orphan table makes a flush fail; the next one rotates the WAL away from the restored memtable; a second crash loses it | `Puts`, `MemtableSize = 2`, `DurableOps`, two crashes; `ReadsLatest` |
| `wal/writer.rs:20` | the log is appended to behind a partial record; the next open fails or stops early | `RecordLog.cfg` with the conclusion of `TornTailIgnored` as the invariant |
| `db.rs:836` | a put whose WAL sync failed stays in the log; the next acknowledged delete reuses its sequence, and after a crash the put wins | `EngineDurable.cfg` with `OneKey` and `Failures = {"crash", "sync"}`; `ReadsLatest`, `LoggedSequencesFresh` |
| `db.rs:743` | the LogNumber edit is written but its sync reports an error: later writes go to the old log and a crash loses them | the same; for `ReadsLatest` TLC meets `db.rs:836` first |
| `db.rs:920` | a manifest append fails after a compaction's DeleteFile edits: the next refresh or open loses the data | `EngineSequential.cfg` with `Failures = {"commit"}`, `MaxFailures = 1`; `ReadsLatest` |
| `db.rs:723`, `db.rs:742`, `env/fs.rs:185` | tables are renamed and WALs created without a sync of the directory, and the manifest's own entry may reach the disk after CURRENT's: on a file system that reorders directory changes a power loss leaves a database that does not open | `PowerLoss.cfg` with `Journaled = FALSE`; `OpenSucceeds` |

The passing runs are the largest parts of the system where these do not happen:
full-range compactions, one compaction at a time next to writes, crashes without
compaction, I/O errors that leave nothing behind, and so on. Their restrictions are
the `Ops`, `Groups`, `Ranges` and `Failures` in the `.cfg` files; the specification is the same one everywhere.

## 5. Refinement

`KVStore` has a map, a record count, and the views of snapshots. Its steps are:
write a batch, take or drop a snapshot, reopen (views are lost; batches of an
unanswered write may take effect, in order). `EngineRefinement` maps the map to
what `Lookup` reads at `lastSequence`, and each view to what it reads at the
snapshot's sequence. Every flush and compaction step must therefore be a stutter.
It is checked by `sequential` (with compaction) and `durable` (with crashes), and
proved for one writing thread without crashes (section 6).

## 6. Theorems

Every theorem is about all sets of threads, keys, groups, ranges, holders, writers,
transactions and record sizes, every number of levels from 2 on, and all options and
bounds. The assumptions on constants (`KeysAssumption`, `LevelsAssumption`,
`SizesAssumption`, `OpsAssumption`, `FailuresAssumption`, `GroupsAssumption`;
`MaxCallsAssumption` of `WriteGroup`; `RangesAssumption` and `BoundsAssumption` of
`Transactions`; `SizesAssumption`, `HeaderAssumption` and `BoundsAssumption` of
`RecordLog`; `PowerLossAssumption`; `KeyBytesAssumption` and `ReadersAssumption` of
`TableFile` and `Scans`) only say what kind of value each constant is, that two keys
differ in their bytes, and that `SequenceNumber::MAX` is not reached. Some theorems have
hypotheses besides: each of those excludes a behaviour that section 4 shows to break
the property, or is named below as a limit of the proof.

### Engine

| Theorem | Property | Hypotheses | Inductive invariant |
|---|---|---|---|
| `TypeCorrect` | `TypeOK` | none | `TypeOK /\ LocksAndLocals` |
| `NumbersAreFresh` | `FreshNumbers` | none | the same and `NumbersInv` |
| `PublishedTablesAreImmutable` | `PublishedTablesNeverChange` | none | the same |
| `SequencesAreFresh` | `SequencesFresh` | `AllBatchesLogged`, no `"sync"` | `SequencesInv` |
| `LoggedSequencesAreFresh` | `LoggedSequencesFresh` | no `"sync"` | itself over `NumbersInv` |
| `ManifestFilesAlwaysExist` | `ManifestFilesExist` | `OneCompactor` | `FilesInv` over `NumbersInv` |
| `LevelsStayDisjoint` | `LevelsDisjoint` | `OneCompactor`, no `"sync"`, no empty key | `LevelsInv` over `FilesInv` |
| `ReadsAreLatest`, `SnapshotsAreStable`, `GetsAreLinearizable`, `ScansAlwaysAgreeWithGets` | `ReadsLatest`, `SnapshotsStable`, `GetsLinearizable`, `ScansAgreeWithGets` | `ReadsAssumptions` | `ReadsInv` over `NumbersInv` |
| `EngineImplementsKVStore` | `ImplementsKVStore` | `ReadsAssumptions` | the same |

- **Types.** `TypeOK` is not inductive alone: `ApplyItem` indexes the group and its
  start sequences, and a flush takes `held[1]`. `LocksAndLocals` adds that these are in
  range, and that the sections of each lock exclude each other. The second half is what
  carries the first: only one thread at a time is in a flush, so `held` is its own.
- **File numbers.** A crash winds `nextFile` back to what replay yields, so `nextFile`
  alone proves nothing. `NumbersInv` says that everything the manifest and the WAL name
  lies below the number replay resumes from, which is at most the live one, and that
  files in the hands of a thread are below the live one. After a manifest edit whose sync
  failed, the manifest and the live version differ; the invariant is about the files of
  both (`KnownFiles`).
- **Immutable tables.** Two steps write contents. `WriteOutputs` uses numbers from
  `nextFile` on, which the manifest does not know. `WriteL0Table` uses a number handed
  out earlier; the last conjunct of `NumbersInv` says that no file in the manifest, and
  none that another thread is about to publish, has it.
- **Sequence numbers.** `last_sequence` is recovered from the manifest and the live
  log, so the invariant must say what recovery will find: every stored entry, those in
  orphan tables included, is at most the manifest's `LastSequence` or still in the log
  that replay reads (`Covered`). A writer at `"apply"` has logged what it is about to
  insert; a flush at `"log"` has published `last_sequence`, so the old log may go.
  Unlogged batches break this at `db.rs:737`, and a record that is written and then
  reported as failed at `db.rs:836`; hence the hypotheses.
- **Sequences in the log.** A record is in the log before `last_sequence` covers it, so
  the log may be ahead of it while a group is being written. `LoggedSequencesFresh` says
  that it is ahead by nothing but the entries which the writer at `"wal"` or `"apply"` has
  logged and has yet to apply (`InFlight`). It is inductive over `NumbersInv`: batches are
  applied in the order of their sequences, a failed append of the first logged batch leaves
  nothing, a new log is empty because its number was never used, and replay raises
  `last_sequence` to all it finds, a group cut off by the crash included. A record that is
  written and then reported as failed stays above `last_sequence` (`db.rs:836`).
  Run `racing` has such failures and therefore checks `SequencesFresh`, which is about
  memory and tables, and not this.
- **Files and levels.** `FilesInv` says that a table a flush has not published is
  nobody's, that the inputs of a picked compaction are in the version until its own
  edits, and that what it will unlink is no table anyone knows once these are made. It
  holds also when a manifest edit is written and reported as failed. `LevelsInv` says that
  what a picked compaction leaves at its output level has no key of its inputs, so that
  the outputs, which lie apart by the splitter's rule, fit in. Two concurrent compactions
  break both (`db.rs:928`), which is why only one thread may compact, or write, as writing
  compacts under pressure. The splitter keeps the versions of one key together except for
  the empty key (`db.rs:1297`).
- **Reads.** `get` stops at the first source that has the key: mutable memtable,
  frozen ones, level 0 from the newest, one file in each deeper level. `ReadsInv` says
  that for the tables readers see, and for every set of files that a compaction or flush
  in progress is about to make visible, the sources are ordered (what comes first is
  newer, for each key), so that the first hit is the newest entry (`LookupIsNewest`); and
  that for `last_sequence` and each live snapshot that entry has the value of the newest
  one ever acknowledged (`Faithful`). What keeps it inductive: a picked compaction is closed
  against what overlaps it above and below (`TaskWhole`), its watermark is at most every
  live snapshot although it is computed in two steps (`WatermarkLow`), a flush has its
  memtable and its table at the same place of the order (`FlushOrdered`), new batches are
  above everything (`StartsAfter`), and a get that has left the lock still finds in its
  own list of tables, unlinked or not, what it wants (`GetSees`). The heart of the
  compaction step is `CompactionKeepsReads`, below.
  `ReadsAssumptions`: one thread writes, flushes and compacts (`SingleWriter`; with more,
  `db.rs:1040`), next to any number of threads that get, close, and hold snapshots; full
  ranges only (`compact/picker.rs:92`, run `bug_partial_range`); no empty key
  (`db.rs:1297`); no crash (`db.rs:904`, run `bug_compaction_crash`, and `db.rs:740`); no
  failed manifest edit of a compaction (`db.rs:920`) and no write that is reported as
  failed (`db.rs:836`, `db.rs:743`). Failed appends and failed table writes are included.
  A failed manifest edit of a flush (`"publish"`) is excluded although no run shows it to
  break reads: the restored memtable and the published table then hold the same entries,
  and the strict order in `ReadsInv` no longer describes the sources.
- **Refinement.** By `ReadsInv` the map that lookups read at `last_sequence`, and the one
  they read at each live snapshot, are what the ghost `history` shows at these sequences
  (`MapIsHistory`). This turns the refinement mapping into a function of `history`,
  `last_sequence` and the snapshots, and each step of the engine leaves these alone, takes or
  drops one snapshot, or is `ApplyItem` (`StepShows`). The first is a stutter of `KVStore`;
  that is all the steps of flush, compaction, get and failed calls. `ApplyItem` adds the
  records of one batch at the sequences after the last, so the newest entry of a key is
  the batch's last record of it or the one before: `KVStore`'s `Write` (`AppliedIsWrite`).
  Crashes are excluded by `ReadsAssumptions`, so `Reopen` is not among the steps proved.

TLC finds `ReadsInv`, `FilesInv`, `LevelsInv` and `SequencesInv` true where their
hypotheses hold; `EngineSequential.cfg` with one of them as a further INVARIANT shows it.

### Other modules

- **`LsmTreeProofs`.** `CompactionKeepsReads`: let the inputs of a compaction be
  `Separate` from the rest of the store, that is, for each key every other entry is newer
  than all inputs, or older than all of them while tombstones are kept. Then
  `CompactEntries` changes no read at or above the watermark. Below it are facts about
  `Newest`, which is a CHOOSE: there is a newest entry (`LeastElement`, from the
  well-foundedness of the naturals, since tables need not be finite here) and it is unique
  where sequences are (`UniqueSeqs`).
- **`WriteGroupProofs`.** `TypeCorrect`, `OneLeader`, `RequestsHeldOnce` and
  `OkAppliedOnce` from `IInv`: places in queue and groups hold distinct requests; the
  writer of the first request leads and all others in the queue wait; an unanswered request
  of a group is pending and its writer waits or leads; a group that was applied was applied
  once. A writer that has its answer may call again, so the invariant speaks about requests,
  which are numbered calls, and not about writers.
- **`TransactionsProofs`.** `TypeCorrect`, `ReadsAreRepeatable`,
  `CommitsAreSerializable` and `NoLostUpdate` from `IInv`. The conflict check searches a
  store that compaction has collected from. `Faithful(s)` for each open snapshot says that
  it reads what was ever written and that everything newer than it is still there to be
  found; `GcInv` says that a compaction in progress works below every live snapshot, also
  those taken since it fixed its watermark. `CommitsInv` says that no snapshot lies in the
  middle of a batch, which makes first-committer-wins symmetric. `OwnWritesAgree` is about
  a loop: the overlay of `scan` is a recursive function of the number of records laid over;
  a closed form of it solves the recursion (`LaidOverStep`), so the function exists, and by
  descent to a least difference it is that closed form (`OverlaidIs`).
- **`ScansProofs`.** `TypeCorrect`, `ScansAreExact` and `LookupsAreExact`, for any number of
  readers and tables, any keys, ranges and cache size, and every cut of a table into blocks.
  The argument goes from the bytes up. `DecodeEncode`: decoding undoes the prefix
  compression, because each entry is decoded after the one whose prefix it lacks; this is
  descent over a recursive function, which `Decode` is for that reason. `BuiltIs`: what the
  builder makes is a good table (`TableOK`): its blocks are not empty, in order, with the
  right first and last key in the index, a filter that admits every key, and together the
  entries it was given. `FoundInTableIsNewest`: in a good table the first hit is the newest
  version, although the versions of a key may lie in several blocks; `SoughtIs`: a seek skips
  exactly what is before the target. `IInv` has three parts. `StoreOK`: all tables are good,
  memtable entries are newer than those in tables, and at `last_sequence` and at the client's
  snapshot what is live reads like everything ever written (`Faithful`), for which the
  compaction step cites `CompactionKeepsReads`. `CacheOK`: the cache is within its limit and has
  under each key that block of that table; tables never change and numbers are not used
  twice, so that is for ever. `ScansOK`: what a reader's children and unopened tables still
  have to deliver (`Pending`) decides each key without a decision as `history` does at its
  sequence (`ToCome`), the keys with one are behind everything pending (`Behind`), and the
  rows are those of the keys decided (`RowsExact`). None of this mentions the tables that
  exist now, so compactions and unlinking do not disturb it; `MovedIs` and `AcceptIs` are the
  round of the merge that takes the smallest entry. A file that was unlinked before it is
  opened makes the scan fail; the theorem is about scans that did not.
- **`RecordLogProofs`.** `TypeCorrect`, `ReplaysPrefix` and `TornTailsIgnored` from
  `LogInv`: cells lie in the order in which their records were begun, each record from its
  first cell on without a gap (`Layout`), and the complete ones are the acknowledged ones.
  Replay is a recursive function of the position; the proof first shows that it is well
  defined, and then what it returns from each position, by descent from the end of the
  file. Where a record is cut short, the reader takes the cells that follow for its rest, so
  the checksum fails or the file ends; either way replay stops there.
- **`PowerLossProofs`.** `TypeCorrect` holds for either value of `Journaled`;
  `OpenAlwaysSucceeds`, `SyncedWritesAlwaysSurvive` and `OnlySuffixesAreLost` assume
  `Journaled`, without which the first does not hold (section 4). They are for any number
  of writes, files, crashes and power losses. That the running
  process sees a good database proves nothing about the one after a power loss, so `DiskInv`
  is about every directory in `fs.disks`: a name other than that of a temporary file refers
  in each to the file it refers to now, or to none (`NamesStay`); no log is there before
  CURRENT (`CurrentFirst`); whichever directory is left, CURRENT, the manifest and the tables
  the manifest adds are in it, complete and synced (`ManifestOnDisk`, `TablesOnDisk`); the
  log is a synced part and what follows, later logs are empty (`LogsOnDisk`); tables and
  log together hold a prefix of the writes, in order (`InOrder`); and every write up to the
  last synced one is in a table or in the synced part of a log that this directory has
  (`OnDisk`). `CreateInv` and `RunInv` say what the process has made durable at each of its
  steps: the first edits before the rename of CURRENT, the table before its AddFile edit, and
  all writes in tables before the LogNumber edit takes the old log away. `PowerLossKeeps` is
  the step of a power loss, `Frame` that of all changes to files nobody refers to. The
  manifest is replayed with a closed form; `ReplayedAppend` shows that appending an edit
  does to it what `ApplyEdit` does to the live version.

Each proof has one lemma for each action or group of actions over a few lemmas for steps
that change only one thread's locals, and lemmas on the operators that the actions use.

### Only model-checked

- Liveness (`CallsReturn`, `WritesReturn`): out of the prover's reach.
- The refinement `ImplementsKVStore` with crashes (run `durable`).
- Reads across crashes, next to other writers and after failed manifest edits (runs
  `durable`, `writers`, `maintainer`). They hold there because of what those instances
  leave out, as section 4 says.
- `PowerLoss` where `Journaled` is false, except for its types.

`GetsSucceed` does not hold (`table/reader.rs:78`), so `GetsAreLinearizable` is about
gets that return a value.

## 7. Plan

The parts the code's core consists of are modelled. What is left is proof:

1. Reads across crashes where nothing compacts, from `SequencesInv` and a version of
   `ReadsInv` in which the same entry may be in two sources; with them `Reopen`.
2. That the atomic `Flush` and `Compact` of `Scans` stand for the steps of `Engine`.

## 8. Not modelled

- Varints, checksums, zstd and the layout of footer, index and properties: conversions
  whose inverses unit tests cover. The conversion that depends on its neighbours, the
  prefix compression of keys, is modelled.
- The hash of the Bloom filter: each key's probes are given.
- The table cache: it is keyed by file numbers that one process does not hand out
  twice, and a reader is its table here. Its eviction at 512 tables only reopens files.
- `ConcatIterator`, `TwoMergeIterator`, `BlockIterator`, `MemTable::scan`: the database
  does not use them.
- `CompactionPicker::pick` and the level scores in `leveled.rs`: `DB` never calls them.
- The order in which parallel subcompaction workers get their numbers, and an
  unlink that fails with another error than NotFound.
- An I/O error inside `DB::open`, `error_if_exists` and `create_if_missing`, and whether
  the directory of the database is itself durable in its parent.
- Options, errors and metrics: constants, outcomes, and counters that nothing reads.
  The rate limiter and the slowdown only delay.
- The fuzz binary, benches and tests are harnesses around the public API.
