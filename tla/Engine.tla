------------------------------- MODULE Engine -------------------------------
(***************************************************************************)
(* The storage engine of TyLsmDB (src/src/db.rs with mvcc/, compact/ and   *)
(* version/): threads that write, flush, compact and read one database,    *)
(* snapshots that hold back garbage collection, calls that fail with an    *)
(* I/O error, and crashes followed by DB::open.                            *)
(*                                                                         *)
(* An action is a step of one thread between two points where another      *)
(* thread or a crash may come in: a section under the state lock or the    *)
(* versions lock, or inside such a section one durable write.  job[t] is   *)
(* the program counter of thread t with the locals that are still needed.  *)
(*                                                                         *)
(* The manifest is represented by what its replay yields (every edit is    *)
(* appended and synced before it is applied), a WAL by the entries of its  *)
(* records (replay inserts them in a sorted map, in any order the same).   *)
(* A crash ends the process, not the machine: what was written to a file   *)
(* stays.                                                                  *)
(*                                                                         *)
(* The Faulty... definitions are as in LsmTree.                            *)
(***************************************************************************)
EXTENDS LsmTree, Sequences

CONSTANTS
    Threads,
    Holders,           \* client variables that can hold a Snapshot
    Ops,               \* Ops[t]: the operations thread t calls
    Groups,            \* write groups: sequences of batches
    Ranges,            \* arguments of compact_range
    MemtableSize,      \* Options::memtable_size, in entries
    StopTrigger,       \* Options::level0_stop_writes_trigger
    MaxSubcompactions, \* Options::max_subcompactions
    MaxWrites,         \* bound: write groups started
    MaxFileNumber,     \* bound: file numbers
    Failures,          \* the kinds of failure that happen, of FailureKinds
    MaxFailures        \* bound: failures

ASSUME SizesAssumption ==
    /\ MemtableSize \in Nat \ {0}
    /\ StopTrigger \in Nat
    /\ MaxSubcompactions \in Nat
    /\ MaxWrites \in Nat
    /\ MaxFileNumber \in Nat
    /\ MaxFailures \in Nat

OpNames == {"write", "flush", "compact", "get", "close"}
ASSUME OpsAssumption == Ops \in [Threads -> SUBSET OpNames]

\* The process ends ("crash"), or a call returns an I/O error and the process
\* goes on.  "wal", "table", "publish", "commit": appending to the WAL, writing
\* a table, a manifest edit of a flush or of a compaction fails and leaves
\* nothing of itself.  "sync": records are written, then a sync or a later
\* append fails.
FailureKinds == {"crash", "wal", "table", "publish", "commit", "sync"}
ASSUME FailuresAssumption == Failures \subseteq FailureKinds

\* A batch: its records in order, and whether it goes through the WAL
\* (Options::wal_enabled and not WriteOptions::disable_wal).
Record == [key : Keys, type : Types]
Batch == [recs : Seq(Record) \ {<<>>}, wal : BOOLEAN]
ASSUME GroupsAssumption == Groups \subseteq Seq(Batch) \ {<<>>}

VARIABLES
    mutable,      \* DBState::mutable
    immutables,   \* DBState::immutables, oldest first
    held,         \* the memtable a flush has taken: <<>> or <<memtable>>
    tables,       \* DBState::l0_tables and level_tables
    lastSequence, \* DBState::last_sequence
    status,       \* "open", "closed" (DBState::closed), "broken" (open failed)
    version,      \* VersionSet::current
    nextFile,     \* VersionSet::next_file_number
    log,          \* the file number of the open WalWriter
    snaps,        \* live Snapshot objects and the client that holds each
    job,          \* what each thread is doing
    manifest,     \* disk: the replay of the manifest
    wal,          \* disk: WAL records as pairs of a log number and an entry
    content,      \* disk: contents of the table files
    onDisk,       \* disk: table files that exist
    history,      \* ghost: the entries that reads must account for
    unlogged,     \* ghost: sequences written without the WAL
    writes,       \* write groups started
    failures      \* failures so far

memory == <<mutable, immutables, held, tables, lastSequence, status>>
versions == <<version, nextFile, manifest>>
files == <<content, onDisk>>
ghosts == <<history, unlogged>>
vars == <<memory, versions, files, ghosts, log, snaps, job, wal, writes, failures>>

-----------------------------------------------------------------------------
Idle == [pc |-> "idle"]
Set(t, j) == job' = [job EXCEPT ![t] = j]

\* The program counters at which a thread holds DBInner::state for writing
\* and those at which it holds DBInner::versions.
HoldsState == {"wal", "apply", "sst", "add", "last", "log"}
HoldsVersions == {"last", "log", "edits"}
StateFree == \A t \in Threads : job[t].pc \notin HoldsState
VersionsFree == \A t \in Threads : job[t].pc \notin HoldsVersions

MaxOf(a, b) == IF a > b THEN a ELSE b

Fail(kind) == kind \in Failures /\ failures < MaxFailures /\ failures' = failures + 1

\* Replay does not advance the file number past the added file.
FaultyAddFile(m, f) ==
    [files |-> m.files \cup {f}, last |-> m.last, log |-> m.log, next |-> m.next]
\* The edits have no effect on replay.
FaultyLastSequence(m, s) == m
FaultyLogNumber(m, n) ==
    [files |-> m.files, last |-> m.last, log |-> m.log, next |-> MaxOf(m.next, n + 1)]

\* VersionSet::apply_edit on what the manifest's replay yields.
AddFile(m, f) ==
    [files |-> m.files \cup {f}, last |-> m.last, log |-> m.log, next |-> MaxOf(m.next, f.num + 1)]
DeleteFile(m, f) ==
    [files |-> m.files \ {f}, last |-> m.last, log |-> m.log, next |-> m.next]
LastSequence(m, s) ==
    [files |-> m.files, last |-> MaxOf(m.last, s), log |-> m.log, next |-> m.next]
LogNumber(m, n) ==
    [files |-> m.files, last |-> m.last, log |-> n, next |-> MaxOf(m.next, n + 1)]

WalEntries(w, n) == {r.entry : r \in {q \in w : q.log = n}}

\* Sequences that the Watermark counts: live snapshots, and the clone in the
\* ReadOptions of a get that is under way.
ActiveSequences ==
    {s.seq : s \in snaps} \cup
    {job[t].seq : t \in {u \in Threads : job[u].pc = "get" /\ job[u].pinned}}

\* Gives every record of a batch the same sequence.
FaultyBatchEntries(b, s) ==
    {[key |-> b.recs[i].key, seq |-> s, type |-> b.recs[i].type] : i \in DOMAIN b.recs}

\* The entries of a batch whose first record has sequence s.
BatchEntries(b, s) ==
    {[key |-> b.recs[i].key, seq |-> s + i - 1, type |-> b.recs[i].type] :
        i \in DOMAIN b.recs}

-----------------------------------------------------------------------------
Init ==
    /\ mutable = {} /\ immutables = <<>> /\ held = <<>>
    /\ tables = {} /\ lastSequence = 0 /\ status = "open"
    /\ version = {} /\ nextFile = 2 /\ log = 1
    /\ manifest = [files |-> {}, last |-> 0, log |-> 1, next |-> 2]
    /\ snaps = {} /\ job = [t \in Threads |-> Idle]
    /\ wal = {} /\ content = [n \in 1..MaxFileNumber |-> {}] /\ onDisk = {}
    /\ history = {} /\ unlogged = {} /\ writes = 0 /\ failures = 0

-----------------------------------------------------------------------------
(* DB::write, from the leader's point of view *)

\* apply_write_group up to apply_write_pressure, which compacts the whole key
\* space first when level 0 is full.
BeginWrite(t, g) ==
    /\ job[t] = Idle /\ "write" \in Ops[t] /\ status # "broken" /\ StateFree
    /\ writes < MaxWrites
    /\ Set(t, IF Cardinality(FilesAt(tables, 0)) >= StopTrigger
              THEN [pc |-> "pressure", group |-> g]
              ELSE [pc |-> "lock", group |-> g])
    /\ writes' = writes + 1
    /\ UNCHANGED <<memory, versions, files, ghosts, log, snaps, wal, failures>>

\* apply_write_group_to_memtable takes the state lock; Err(Closed) if closed.
LockState(t) ==
    /\ job[t].pc = "lock" /\ StateFree
    /\ Set(t, IF status = "open"
              THEN [pc |-> "wal", group |-> job[t].group, starts |-> <<>>,
                    next |-> lastSequence + 1]
              ELSE Idle)
    /\ UNCHANGED <<memory, versions, files, ghosts, log, snaps, wal, writes, failures>>

\* The WAL after WalWriter::append of the batch, which may disable it.
WithRecord(b, s) ==
    IF b.wal THEN wal \cup {[log |-> log, entry |-> e] : e \in BatchEntries(b, s)} ELSE wal

\* One batch gets its start_sequence and its record goes to the WAL.
AppendWal(t) ==
    /\ job[t].pc = "wal"
    /\ LET j == job[t]
           b == j.group[Len(j.starts) + 1]
           starts == Append(j.starts, j.next)
       IN  /\ wal' = WithRecord(b, j.next)
           /\ Set(t, IF Len(starts) = Len(j.group)
                     THEN [pc |-> "apply", group |-> j.group, starts |-> starts,
                           item |-> 1, shouldFlush |-> FALSE]
                     ELSE [pc |-> "wal", group |-> j.group, starts |-> starts,
                           next |-> j.next + Len(b.recs)])
    /\ UNCHANGED <<memory, versions, files, ghosts, log, snaps, writes, failures>>

\* An append that fails leaves its record in the log.
FaultyWalFails(t) ==
    /\ job[t].pc = "wal"
    /\ LET j == job[t]
           b == j.group[Len(j.starts) + 1]
       IN  b.wal /\ Fail("wal") /\ wal' = WithRecord(b, j.next)
    /\ Set(t, Idle)
    /\ UNCHANGED <<memory, versions, files, ghosts, log, snaps, writes>>

\* An append fails, the group's first or a later one, or the sync after the
\* last.  Nothing is applied, and last_sequence stays.
WalFails(t) ==
    /\ job[t].pc = "wal"
    /\ LET j == job[t]
           n == Len(j.starts) + 1
           b == j.group[n]
           earlier == \E i \in 1..(n - 1) : j.group[i].wal
       IN  \/ b.wal /\ Fail(IF earlier THEN "sync" ELSE "wal") /\ UNCHANGED wal
           \/ n = Len(j.group) /\ (b.wal \/ earlier) /\ Fail("sync") /\ wal' = WithRecord(b, j.next)
    /\ Set(t, Idle)
    /\ UNCHANGED <<memory, versions, files, ghosts, log, snaps, writes>>

\* MemTable::put and delete: a new internal key, older versions stay.
Insert(memtable, new) == memtable \cup new

\* freeze_mutable_if_needed, its condition.
IsFull(memtable) == memtable # {} /\ Cardinality(memtable) >= MemtableSize

\* apply_batch on one batch, then freeze_mutable_if_needed; after the last
\* batch the lock is released and the leader flushes if a memtable froze.
ApplyItem(t) ==
    /\ job[t].pc = "apply"
    /\ LET j == job[t]
           b == j.group[j.item]
           start == j.starts[j.item]
           new == BatchEntries(b, start)
           filled == Insert(mutable, new)
           frozen == IsFull(filled)
           flush == j.shouldFlush \/ frozen
       IN  /\ mutable' = IF frozen THEN {} ELSE filled
           /\ immutables' = IF frozen THEN Append(immutables, filled) ELSE immutables
           /\ lastSequence' = MaxOf(lastSequence, start + Len(b.recs) - 1)
           /\ history' = history \cup new
           /\ unlogged' = IF b.wal THEN unlogged
                                   ELSE unlogged \cup {e.seq : e \in new}
           /\ Set(t, IF j.item < Len(j.group)
                     THEN [pc |-> "apply", group |-> j.group, starts |-> j.starts,
                           item |-> j.item + 1, shouldFlush |-> flush]
                     ELSE IF flush THEN [pc |-> "flush"] ELSE Idle)
    /\ UNCHANGED <<held, tables, status, versions, files, log, snaps, wal, writes, failures>>

-----------------------------------------------------------------------------
(* DB::flush, called by a client or by the leader of a write group *)

MayFlush(t) ==
    \/ job[t].pc = "flush"
    \/ job[t] = Idle /\ "flush" \in Ops[t]

\* Err(Closed), or nothing to flush.
FlushNothing(t) ==
    /\ MayFlush(t) /\ StateFree
    /\ status # "open" \/ (immutables = <<>> /\ mutable = {})
    /\ Set(t, Idle)
    /\ UNCHANGED <<memory, versions, files, ghosts, log, snaps, wal, writes, failures>>

\* write_l0_table refuses a table file that already exists: the memtable is
\* restored and the file number is spent.
FlushRefused(t) ==
    /\ MayFlush(t) /\ StateFree /\ VersionsFree /\ status = "open"
    /\ immutables # <<>> \/ mutable # {}
    /\ nextFile \in onDisk
    /\ nextFile' = nextFile + 1
    /\ Set(t, Idle)
    /\ UNCHANGED <<memory, version, manifest, files, ghosts, log, snaps, wal, writes, failures>>

\* take_oldest_flushable_memtable and allocate_file_number.
BeginFlush(t) ==
    /\ MayFlush(t) /\ StateFree /\ VersionsFree /\ status = "open"
    /\ nextFile < MaxFileNumber /\ nextFile \notin onDisk
    /\ \/ /\ immutables # <<>>
          /\ held' = <<Head(immutables)>> /\ immutables' = Tail(immutables)
          /\ UNCHANGED mutable
          /\ Set(t, [pc |-> "sst", num |-> nextFile, source |-> "immutable"])
       \/ /\ immutables = <<>> /\ mutable # {}
          /\ held' = <<mutable>> /\ mutable' = {}
          /\ UNCHANGED immutables
          /\ Set(t, [pc |-> "sst", num |-> nextFile, source |-> "mutable"])
    /\ nextFile' = nextFile + 1
    /\ UNCHANGED <<tables, lastSequence, status, version, manifest, files, ghosts,
                   log, snaps, wal, writes, failures>>

\* The table is built under a temporary name and renamed.
RenameTable(num, entries) ==
    /\ content' = [content EXCEPT ![num] = entries]
    /\ onDisk' = onDisk \cup {num}

\* The steps of a flush keep its locals.
FlushAt(pc, j) == [pc |-> pc, num |-> j.num, source |-> j.source]

WriteL0Table(t) ==
    /\ job[t].pc = "sst"
    /\ RenameTable(job[t].num, held[1])
    /\ Set(t, FlushAt("add", job[t]))
    /\ UNCHANGED <<memory, versions, ghosts, log, snaps, wal, writes, failures>>

\* publish_l0_table, its three manifest edits under the versions lock.
PublishAddFile(t) ==
    /\ job[t].pc = "add" /\ VersionsFree
    /\ LET f == [level |-> 0, num |-> job[t].num]
       IN  /\ manifest' = AddFile(manifest, f)
           /\ version' = version \cup {f}
    /\ Set(t, FlushAt("last", job[t]))
    /\ UNCHANGED <<memory, nextFile, files, ghosts, log, snaps, wal, writes, failures>>

PublishLastSequence(t) ==
    /\ job[t].pc = "last"
    /\ manifest' = LastSequence(manifest, lastSequence)
    /\ Set(t, FlushAt("log", job[t]))
    /\ UNCHANGED <<memory, version, nextFile, files, ghosts, log, snaps, wal, writes, failures>>

\* A new WAL becomes the log; then the table becomes readable and the locks
\* are released.
PublishLogNumber(t) ==
    /\ job[t].pc = "log" /\ nextFile <= MaxFileNumber
    /\ manifest' = LogNumber(manifest, nextFile)
    /\ log' = nextFile
    /\ nextFile' = nextFile + 1
    /\ tables' = tables \cup {[level |-> 0, num |-> job[t].num]}
    /\ held' = <<>>
    /\ Set(t, Idle)
    /\ UNCHANGED <<mutable, immutables, lastSequence, status, version, files, ghosts,
                   snaps, wal, writes, failures>>

\* Puts the memtable behind the ones frozen after it.
FaultyRestore(source) ==
    /\ held' = <<>>
    /\ mutable' = IF source = "mutable" /\ mutable = {} THEN held[1] ELSE mutable
    /\ immutables' = IF source = "mutable" /\ mutable = {} THEN immutables
                     ELSE Append(immutables, held[1])
\* restore_flush_memtable: the memtable goes back to where it was taken from.
Restore(source) ==
    /\ held' = <<>>
    /\ mutable' = IF source = "mutable" /\ mutable = {} THEN held[1] ELSE mutable
    /\ immutables' = IF source = "immutable" THEN held \o immutables
                     ELSE IF mutable = {} THEN immutables
                     ELSE Append(immutables, held[1])

\* write_l0_table fails, before the rename or after it.
FlushFails(t) ==
    /\ job[t].pc = "sst" /\ Fail("table")
    /\ UNCHANGED files \/ RenameTable(job[t].num, held[1])
    /\ Restore(job[t].source)
    /\ Set(t, Idle)
    /\ UNCHANGED <<tables, lastSequence, status, versions, ghosts, log, snaps, wal, writes>>

\* The manifest once the edit that publish_l0_table makes next is in it.
NextPublished(j) ==
    CASE j.pc = "add" -> AddFile(manifest, [level |-> 0, num |-> j.num])
      [] j.pc = "last" -> LastSequence(manifest, lastSequence)
      [] j.pc = "log" -> LogNumber(manifest, nextFile)

\* publish_l0_table fails at one of its edits, or creating the new WAL.  The
\* edits before it stay, and so does the table.
PublishFails(t) ==
    /\ job[t].pc \in {"add", "last", "log"}
    /\ job[t].pc = "add" => VersionsFree
    /\ job[t].pc = "log" => nextFile <= MaxFileNumber
    /\ \/ Fail("publish") /\ UNCHANGED manifest
       \/ Fail("sync") /\ manifest' = NextPublished(job[t])
    /\ nextFile' = IF job[t].pc = "log" THEN nextFile + 1 ELSE nextFile
    /\ Restore(job[t].source)
    /\ Set(t, Idle)
    /\ UNCHANGED <<tables, lastSequence, status, version, files, ghosts, log, snaps, wal, writes>>

-----------------------------------------------------------------------------
(* DB::compact_range and execute_compaction; group is the write group that *)
(* waits for it, <<>> when the client called compact_range.                *)

\* Goes on to write when there is nothing to write.
FaultyFinish(group) == [pc |-> "lock", group |-> group]
\* Checks the pressure again until it is gone.
FaultyRetry(group) == IF group = <<>> THEN Idle ELSE [pc |-> "pressure", group |-> group]

Finish(group) == IF group = <<>> THEN Idle ELSE [pc |-> "lock", group |-> group]

Pick(t, range, group) ==
    LET inputs == ManualInputs(content, version, range)
    IN  /\ VersionsFree
        /\ Set(t, IF inputs = {} THEN Finish(group)
                  ELSE [pc |-> "oldest", group |-> group,
                        task |-> TaskForFiles(content, version, inputs)])
        /\ UNCHANGED <<memory, versions, files, ghosts, log, snaps, wal, writes, failures>>

CompactRange(t, range) ==
    /\ job[t] = Idle /\ "compact" \in Ops[t] /\ status # "broken"
    /\ Pick(t, range, <<>>)

CompactUnderPressure(t) ==
    job[t].pc = "pressure" /\ Pick(t, FullRange, job[t].group)

\* gc_watermark: the oldest active sequence if there is one ...
ReadOldest(t) ==
    /\ job[t].pc = "oldest"
    /\ Set(t, [pc |-> "lastseq", group |-> job[t].group, task |-> job[t].task,
               oldest |-> {s \in ActiveSequences : \A u \in ActiveSequences : s <= u}])
    /\ UNCHANGED <<memory, versions, files, ghosts, log, snaps, wal, writes, failures>>

\* Always takes last_sequence.
FaultyReadLastSequence(t) ==
    /\ job[t].pc = "lastseq" /\ StateFree
    /\ Set(t, [pc |-> "tombstones", group |-> job[t].group, task |-> job[t].task,
               watermark |-> lastSequence])
    /\ UNCHANGED <<memory, versions, files, ghosts, log, snaps, wal, writes, failures>>

\* ... and otherwise last_sequence, read in a second step.
ReadLastSequence(t) ==
    /\ job[t].pc = "lastseq" /\ StateFree
    /\ Set(t, [pc |-> "tombstones", group |-> job[t].group, task |-> job[t].task,
               watermark |-> IF job[t].oldest = {} THEN lastSequence
                             ELSE CHOOSE s \in job[t].oldest : TRUE])
    /\ UNCHANGED <<memory, versions, files, ghosts, log, snaps, wal, writes, failures>>

CheckTombstones(t) ==
    /\ job[t].pc = "tombstones" /\ VersionsFree
    /\ Set(t, [pc |-> "run", group |-> job[t].group, task |-> job[t].task,
               watermark |-> job[t].watermark,
               drop |-> CanDropTombstones(content, version, job[t].task)])
    /\ UNCHANGED <<memory, versions, files, ghosts, log, snaps, wal, writes, failures>>

InputsExist(j) == \A f \in AllInputFiles(j.task) : f.num \in onDisk
Output(j) == CompactEntries(EntriesOf(content, AllInputFiles(j.task)), j.watermark, j.drop)
MovesTrivially(j) ==
    IsTrivialMove(j.task) /\ Output(j) = EntriesOf(content, j.task.inputFiles)

\* Unlinks the input of a trivial move, too.
FaultyCommit(j, outputs, obsolete) ==
    [pc |-> "commit", group |-> j.group, dels |-> AllInputFiles(j.task),
     adds |-> {[level |-> j.task.outputLevel, num |-> n] : n \in outputs},
     obsolete |-> {f.num : f \in AllInputFiles(j.task)}]
\* The pending manifest edits of a compaction and the files to unlink later.
Commit(j, outputs, obsolete) ==
    [pc |-> "commit", group |-> j.group, dels |-> AllInputFiles(j.task),
     adds |-> {[level |-> j.task.outputLevel, num |-> n] : n \in outputs},
     obsolete |-> obsolete]

\* An input file is gone: the Io error ends the compaction, and a write that
\* waits for it.
CompactionFails(t) ==
    /\ job[t].pc = "run" /\ ~InputsExist(job[t])
    /\ Set(t, Idle)
    /\ UNCHANGED <<memory, versions, files, ghosts, log, snaps, wal, writes, failures>>

\* A file nothing would be dropped from moves down as it is.
TrivialMove(t) ==
    /\ job[t].pc = "run" /\ InputsExist(job[t]) /\ MovesTrivially(job[t])
    /\ Set(t, Commit(job[t], {f.num : f \in job[t].task.inputFiles}, {}))
    /\ UNCHANGED <<memory, versions, files, ghosts, log, snaps, wal, writes, failures>>

\* The contents of files once the chunks with the given numbers are written.
WithOutputs(out, part, numbers) ==
    [m \in DOMAIN content |->
        IF m \in numbers THEN {e \in out : part[e] = m - nextFile} ELSE content[m]]

\* write_compaction_outputs: the merged entries are cut into at most
\* MaxSubcompactions files, numbered from nextFile on.  Where a file is full
\* depends on sizes in bytes: every way to cut is allowed here.
WriteOutputs(t) ==
    /\ job[t].pc = "run" /\ InputsExist(job[t]) /\ ~MovesTrivially(job[t])
    /\ VersionsFree
    /\ LET out == Output(job[t])
       IN  \E n \in IF out = {} THEN {0} ELSE 1..MaxOf(1, MaxSubcompactions) :
             LET numbers == nextFile..(nextFile + n - 1)
             IN  /\ nextFile + n - 1 <= MaxFileNumber
                 /\ \E part \in Splits(out, n) : content' = WithOutputs(out, part, numbers)
                 /\ onDisk' = onDisk \cup numbers
                 /\ nextFile' = nextFile + n
                 /\ Set(t, Commit(job[t], numbers,
                                  {f.num : f \in AllInputFiles(job[t].task)}))
    /\ UNCHANGED <<memory, version, manifest, ghosts, log, snaps, wal, writes, failures>>

\* One or more of the chunks cannot be written; the others stay as orphans.
OutputsFail(t) ==
    /\ job[t].pc = "run" /\ InputsExist(job[t]) /\ ~MovesTrivially(job[t])
    /\ VersionsFree /\ Fail("table")
    /\ LET out == Output(job[t])
       IN  \E n \in 1..MaxOf(1, MaxSubcompactions) :
             LET numbers == nextFile..(nextFile + n - 1)
             IN  /\ nextFile + n - 1 <= MaxFileNumber
                 /\ \E part \in Splits(out, n), written \in SUBSET numbers :
                       /\ content' = WithOutputs(out, part, written)
                       /\ onDisk' = onDisk \cup written
                 /\ nextFile' = nextFile + n
    /\ Set(t, Idle)
    /\ UNCHANGED <<memory, version, manifest, ghosts, log, snaps, wal, writes>>

Edits(j, dels, adds) ==
    [pc |-> "edits", group |-> j.group, dels |-> dels, adds |-> adds, obsolete |-> j.obsolete]
Committed(j) == [pc |-> "load", group |-> j.group, obsolete |-> j.obsolete]

\* Under the versions lock, every DeleteFile edit ...
CommitDelete(t) ==
    /\ job[t].pc \in {"commit", "edits"} /\ (job[t].pc = "commit" => VersionsFree)
    /\ job[t].dels # {}
    /\ LET j == job[t]
       IN  \E f \in FirstFiles(content, j.dels) :
             /\ manifest' = DeleteFile(manifest, f)
             /\ version' = version \ {f}
             /\ Set(t, IF j.dels = {f} /\ j.adds = {} THEN Committed(j)
                       ELSE Edits(j, j.dels \ {f}, j.adds))
    /\ UNCHANGED <<memory, nextFile, files, ghosts, log, snaps, wal, writes, failures>>

\* ... then every AddFile edit, each appended and synced on its own.
CommitAdd(t) ==
    /\ job[t].pc = "edits" /\ job[t].dels = {}
    /\ LET j == job[t]
       IN  \E f \in FirstFiles(content, j.adds) :
             /\ manifest' = AddFile(manifest, f)
             /\ version' = version \cup {f}
             /\ Set(t, IF j.adds = {f} THEN Committed(j)
                       ELSE Edits(j, {}, j.adds \ {f}))
    /\ UNCHANGED <<memory, nextFile, files, ghosts, log, snaps, wal, writes, failures>>

\* One of the edits fails: those before it stay, and the compaction ends
\* without the ones after it.
CommitFails(t) ==
    /\ job[t].pc \in {"commit", "edits"} /\ (job[t].pc = "commit" => VersionsFree)
    /\ LET j == job[t]
       IN  \/ Fail("commit") /\ UNCHANGED manifest
           \/ /\ Fail("sync")
              /\ \E f \in FirstFiles(content, IF j.dels # {} THEN j.dels ELSE j.adds) :
                    manifest' = IF j.dels # {} THEN DeleteFile(manifest, f)
                                ELSE AddFile(manifest, f)
    /\ Set(t, Idle)
    /\ UNCHANGED <<memory, version, nextFile, files, ghosts, log, snaps, wal, writes>>

\* refresh_tables_from_version reads the version ...
LoadVersion(t) ==
    /\ job[t].pc = "load" /\ VersionsFree
    /\ Set(t, [pc |-> "install", group |-> job[t].group, obsolete |-> job[t].obsolete,
               loaded |-> version])
    /\ UNCHANGED <<memory, versions, files, ghosts, log, snaps, wal, writes, failures>>

\* ... and then makes it what readers see.
InstallTables(t) ==
    /\ job[t].pc = "install" /\ StateFree
    /\ tables' = job[t].loaded
    /\ Set(t, IF job[t].obsolete = {} THEN Finish(job[t].group)
              ELSE [pc |-> "unlink", group |-> job[t].group,
                    obsolete |-> job[t].obsolete])
    /\ UNCHANGED <<mutable, immutables, held, lastSequence, status, versions, files,
                   ghosts, log, snaps, wal, writes, failures>>

DeleteObsoleteFiles(t) ==
    /\ job[t].pc = "unlink"
    /\ onDisk' = onDisk \ job[t].obsolete
    /\ Set(t, Finish(job[t].group))
    /\ UNCHANGED <<memory, versions, content, ghosts, log, snaps, wal, writes, failures>>

-----------------------------------------------------------------------------
(* Reads *)

\* DBState's memtables from the oldest to the mutable one, with the one a
\* flush under way has taken.
Memtables == held \o immutables \o <<mutable>>

\* What DB::get_opt finds for key k at sequence s.
Lookup(k, s) ==
    LET found == MemGet(Memtables, k, s)
    IN  IF found # {} THEN found ELSE TableGet(content, tables, k, s)

\* MergeIterator: the entries of all children, in internal key order.
Merged(children) == UNION children

\* DB::scan_iter_opt merges every memtable and every file.
Scanned == Merged({Memtables[i] : i \in DOMAIN Memtables} \cup {EntriesOf(content, tables)})

\* DBIterator: the first entry of k in the merged order that s can see.
ScanLookup(k, s) == Newest(Scanned, k, s)

Got(result, ok, k, s) ==
    [pc |-> "got", ok |-> ok, result |-> Visible(result),
     want |-> Visible(Newest(history, k, s))]

\* Searches the mutable memtable only.
FaultyGetMemtables(t, k, pin) ==
    /\ job[t] = Idle /\ "get" \in Ops[t] /\ StateFree /\ status = "open"
    /\ LET s == IF pin = {} THEN lastSequence ELSE (CHOOSE p \in pin : TRUE).seq
           found == MemGet(<<mutable>>, k, s)
       IN  Set(t, IF found # {} THEN Got(found, TRUE, k, s)
                  ELSE [pc |-> "get", key |-> k, seq |-> s, pinned |-> pin # {},
                        files |-> tables])
    /\ UNCHANGED <<memory, versions, files, ghosts, log, snaps, wal, writes, failures>>

\* get_opt under the state lock: pick the sequence, search the memtables,
\* remember the tables.  pin is {} or the snapshot in the ReadOptions.
GetMemtables(t, k, pin) ==
    /\ job[t] = Idle /\ "get" \in Ops[t] /\ StateFree /\ status = "open"
    /\ LET s == IF pin = {} THEN lastSequence ELSE (CHOOSE p \in pin : TRUE).seq
           found == MemGet(Memtables, k, s)
       IN  Set(t, IF found # {} THEN Got(found, TRUE, k, s)
                  ELSE [pc |-> "get", key |-> k, seq |-> s, pinned |-> pin # {},
                        files |-> tables])
    /\ UNCHANGED <<memory, versions, files, ghosts, log, snaps, wal, writes, failures>>

\* Reads whatever tables are current.
FaultyGetTables(t) ==
    /\ job[t].pc = "get"
    /\ Set(t, Got(TableGet(content, tables, job[t].key, job[t].seq), TRUE,
                  job[t].key, job[t].seq))
    /\ UNCHANGED <<memory, versions, files, ghosts, log, snaps, wal, writes, failures>>

\* get_opt without the lock.  A file is opened by path when its filter lets
\* the key through: always if it holds the key, sometimes if it does not.
GetTables(t) ==
    /\ job[t].pc = "get"
    /\ LET j == job[t]
           hits == FirstFiles(content, FilesWithHit(content, j.files, j.key, j.seq))
           searched == {f \in Candidates(content, j.files, j.key) :
                          \A h \in hits : f = h \/ FileBefore(content, f, h)}
           absent == {f \in searched : \A e \in content[f.num] : e.key # j.key}
       IN  \E filtered \in SUBSET absent :
             Set(t, Got(TableGet(content, j.files, j.key, j.seq),
                        \A f \in searched \ filtered : f.num \in onDisk,
                        j.key, j.seq))
    /\ UNCHANGED <<memory, versions, files, ghosts, log, snaps, wal, writes, failures>>

ReturnGet(t) ==
    /\ job[t].pc = "got"
    /\ Set(t, Idle)
    /\ UNCHANGED <<memory, versions, files, ghosts, log, snaps, wal, writes, failures>>

\* DB::snapshot reads last_sequence and registers it under the state lock.
TakeSnapshot(h) ==
    /\ StateFree /\ status # "broken"
    /\ \A s \in snaps : s.holder # h
    /\ snaps' = snaps \cup {[holder |-> h, seq |-> lastSequence]}
    /\ UNCHANGED <<memory, versions, files, ghosts, log, job, wal, writes, failures>>

DropSnapshot(h) ==
    /\ \E s \in snaps : s.holder = h
    /\ snaps' = {s \in snaps : s.holder # h}
    /\ UNCHANGED <<memory, versions, files, ghosts, log, job, wal, writes, failures>>

-----------------------------------------------------------------------------
(* DB::close, crashes and DB::open *)

Close(t) ==
    /\ job[t] = Idle /\ "close" \in Ops[t] /\ StateFree /\ status = "open"
    /\ status' = "closed"
    /\ UNCHANGED <<mutable, immutables, held, tables, lastSequence, versions, files,
                   ghosts, log, snaps, job, wal, writes, failures>>

\* open_version_tables
CanOpen(tableFiles) == \A f \in tableFiles : f.num \in onDisk

\* The process ends at any point and the database is opened again: open fails
\* when a table of the recovered version is missing; otherwise the log the
\* manifest names is replayed into the mutable memtable.  What was written
\* without the WAL and reached no table is lost by contract; what a failed
\* call logged may come back, but not in the place of what was acknowledged.
CrashAndOpen ==
    /\ Fail("crash") /\ status # "broken"
    /\ LET replayed == WalEntries(wal, manifest.log)
           found == replayed \cup EntriesOf(content, manifest.files)
       IN  /\ status' = IF CanOpen(manifest.files) THEN "open" ELSE "broken"
           /\ mutable' = replayed
           /\ \E s \in {manifest.last} \cup {e.seq : e \in replayed} :
                /\ s >= manifest.last /\ \A e \in replayed : s >= e.seq
                /\ lastSequence' = s
           /\ LET kept == {e \in history : e.seq \notin unlogged \/ e \in found}
              IN  history' = kept \cup {e \in replayed : \A h \in kept : h.seq # e.seq}
    /\ immutables' = <<>> /\ held' = <<>>
    /\ tables' = manifest.files /\ version' = manifest.files
    /\ nextFile' = manifest.next /\ log' = manifest.log
    /\ snaps' = {} /\ job' = [t \in Threads |-> Idle]
    /\ UNCHANGED <<manifest, wal, files, unlogged, writes>>

-----------------------------------------------------------------------------
ThreadStep(t) ==
    \/ \E g \in Groups : BeginWrite(t, g)
    \/ LockState(t) \/ AppendWal(t) \/ WalFails(t) \/ ApplyItem(t)
    \/ FlushNothing(t) \/ FlushRefused(t) \/ BeginFlush(t) \/ WriteL0Table(t)
    \/ PublishAddFile(t) \/ PublishLastSequence(t) \/ PublishLogNumber(t)
    \/ FlushFails(t) \/ PublishFails(t)
    \/ \E r \in Ranges : CompactRange(t, r)
    \/ CompactUnderPressure(t) \/ ReadOldest(t) \/ ReadLastSequence(t)
    \/ CheckTombstones(t) \/ CompactionFails(t) \/ TrivialMove(t) \/ WriteOutputs(t)
    \/ OutputsFail(t) \/ CommitDelete(t) \/ CommitAdd(t) \/ CommitFails(t)
    \/ LoadVersion(t) \/ InstallTables(t) \/ DeleteObsoleteFiles(t)
    \/ \E k \in Keys : \E pin \in {{}} \cup {{s} : s \in snaps} : GetMemtables(t, k, pin)
    \/ GetTables(t) \/ ReturnGet(t) \/ Close(t)

Next ==
    \/ \E t \in Threads : ThreadStep(t)
    \/ \E h \in Holders : TakeSnapshot(h) \/ DropSnapshot(h)
    \/ CrashAndOpen

Spec == Init /\ [][Next]_vars
=============================================================================
