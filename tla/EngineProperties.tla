-------------------------- MODULE EngineProperties --------------------------
(***************************************************************************)
(* What the engine should guarantee, as invariants, action properties,     *)
(* and a liveness property.                                                *)
(***************************************************************************)
EXTENDS Engine

Group == Groups \cup {<<>>}
File == [level : 0..(NumLevels - 1), num : 1..MaxFileNumber]
Task == [inputLevel : 0..(NumLevels - 1), outputLevel : 0..(NumLevels - 1),
         inputFiles : SUBSET File, overlapFiles : SUBSET File]

Job ==
    [pc : {"idle", "flush"}]
    \cup [pc : {"pressure", "lock"}, group : Groups]
    \cup [pc : {"wal"}, group : Group, starts : Seq(Nat), next : Nat]
    \cup [pc : {"apply"}, group : Group, starts : Seq(Nat), item : Nat, shouldFlush : BOOLEAN]
    \cup [pc : {"sst", "add", "last", "log"}, num : 1..MaxFileNumber,
          source : {"mutable", "immutable"}]
    \cup [pc : {"oldest"}, group : Group, task : Task]
    \cup [pc : {"lastseq"}, group : Group, task : Task, oldest : SUBSET Nat]
    \cup [pc : {"tombstones"}, group : Group, task : Task, watermark : Nat]
    \cup [pc : {"run"}, group : Group, task : Task, watermark : Nat, drop : BOOLEAN]
    \cup [pc : {"commit", "edits"}, group : Group, dels : SUBSET File,
          adds : SUBSET File, obsolete : SUBSET Nat]
    \cup [pc : {"load"}, group : Group, obsolete : SUBSET Nat]
    \cup [pc : {"install"}, group : Group, obsolete : SUBSET Nat, loaded : SUBSET File]
    \cup [pc : {"unlink"}, group : Group, obsolete : SUBSET Nat]
    \cup [pc : {"get"}, key : Keys, seq : Nat, pinned : BOOLEAN, files : SUBSET File]
    \cup [pc : {"got"}, ok : BOOLEAN, result : SUBSET Nat, want : SUBSET Nat]

\* Every variable keeps its type in db.rs (DBState, VersionSet) and every
\* thread's locals keep the shape its program counter calls for.
TypeOK ==
    /\ mutable \subseteq Entry /\ immutables \in Seq(SUBSET Entry)
    /\ held \in Seq(SUBSET Entry) /\ Len(held) <= 1
    /\ tables \subseteq File /\ lastSequence \in Nat
    /\ status \in {"open", "closed", "broken"}
    /\ version \subseteq File /\ nextFile \in Nat \ {0} /\ log \in Nat
    /\ manifest \in [files : SUBSET File, last : Nat, log : Nat, next : Nat \ {0}]
    /\ snaps \subseteq [holder : Holders, seq : Nat]
    /\ job \in [Threads -> Job]
    /\ wal \subseteq [log : Nat, entry : Entry]
    /\ content \in [1..MaxFileNumber -> SUBSET Entry] /\ onDisk \subseteq Nat
    /\ history \subseteq Entry /\ unlogged \subseteq Nat
    /\ writes \in Nat /\ failures \in Nat

-----------------------------------------------------------------------------
(* Reads *)

\* DB::get returns the value of the last write of the key that the client
\* was told about: no freeze, flush, compaction or reopening hides or
\* resurrects one.
ReadsLatest ==
    status = "open" =>
        \A k \in Keys : Visible(Lookup(k, lastSequence))
                            = Visible(Newest(history, k, lastSequence))

\* A get through a live Snapshot returns what the key held when the snapshot
\* was taken, whatever compaction collected since.
SnapshotsStable ==
    \A s \in snaps, k \in Keys :
        Visible(Lookup(k, s.seq)) = Visible(Newest(history, k, s.seq))

\* A get that ran while other threads wrote, flushed, compacted and unlinked
\* files, and reports success, returns the value at its read sequence.
GetsLinearizable ==
    \A t \in Threads : job[t].pc = "got" /\ job[t].ok => job[t].result = job[t].want

\* A get never fails because a file it is about to read was removed.
GetsSucceed ==
    \A t \in Threads : job[t].pc = "got" => job[t].ok

\* DB::scan, which merges every file, and DB::get, which stops at the first
\* file that has the key, agree.
ScansAgreeWithGets ==
    status = "open" =>
        \A k \in Keys, s \in {lastSequence} \cup {p.seq : p \in snaps} :
            Visible(ScanLookup(k, s)) = Visible(Lookup(k, s))

-----------------------------------------------------------------------------
(* Files and logs *)

\* Every table the manifest names exists, so that DB::open can open it.
ManifestFilesExist ==
    \A f \in manifest.files : f.num \in onDisk

\* The two files have no user key in common.
Apart(f, g) == \A a \in content[f.num], b \in content[g.num] : a.key # b.key

\* No two files of a level below level 0 hold the same user key: get looks
\* into one file of each such level.
LevelsDisjoint ==
    \A f, g \in version : f.level = g.level /\ f.level > 0 /\ f # g => Apart(f, g)

\* File numbers handed out after a crash may be ones an earlier process
\* handed out, but never ones of files or logs the manifest knows.
FreshNumbers ==
    /\ \A f \in manifest.files : f.num < nextFile
    /\ manifest.log < nextFile
    /\ manifest.next <= nextFile
    /\ \A r \in wal : r.log < nextFile

\* The contents of a table file never change once the manifest names it.
PublishedTablesNeverChange ==
    [][\A f \in manifest.files : content'[f.num] = content[f.num]]_vars

\* No entry in a memtable or in a live table, and no snapshot, is newer than
\* last_sequence, before and after every reopening: recovery finds a
\* last_sequence that is not behind what the tables hold.
SequencesFresh ==
    /\ \A i \in DOMAIN Memtables : \A e \in Memtables[i] : e.seq <= lastSequence
    /\ \A e \in EntriesOf(content, version \cup tables) : e.seq <= lastSequence
    /\ \A s \in snaps : s.seq <= lastSequence

\* The entries of its group that a writer has logged and has yet to apply.
InFlight(j) ==
    UNION {BatchEntries(j.group[m], j.starts[m]) :
              m \in {i \in DOMAIN j.starts :
                        j.group[i].wal /\ (j.pc = "apply" => i >= j.item)}}

\* The live log holds entries newer than last_sequence only of a group that a
\* thread is writing at that moment: apply_write_group_to_memtable, where it
\* succeeds, where its append fails and where a crash ends it, leaves no record
\* in the log with a sequence that the next write will get.
LoggedSequencesFresh ==
    \A e \in WalEntries(wal, log) :
       e.seq > lastSequence =>
          \E t \in Threads : job[t].pc \in {"wal", "apply"} /\ e \in InFlight(job[t])

-----------------------------------------------------------------------------
(* Inductive strengthenings *)

\* The locals that the next step indexes with are in range.
LocalsInRange(j, h) ==
    /\ j.pc \in {"pressure", "lock"} => j.group # <<>>
    /\ j.pc = "wal" => Len(j.starts) < Len(j.group)
    /\ j.pc = "apply" => j.item \in 1..Len(j.group) /\ Len(j.starts) = Len(j.group)
    /\ j.pc \in {"sst", "add", "last", "log"} => Len(h) = 1

\* One thread at a time in the sections of each lock.
LocksAndLocals ==
    /\ \A t, u \in Threads :
         t # u => /\ ~ (job[t].pc \in HoldsState /\ job[u].pc \in HoldsState)
                  /\ ~ (job[t].pc \in HoldsVersions /\ job[u].pc \in HoldsVersions)
    /\ \A t \in Threads : LocalsInRange(job[t], held)

\* The files a thread has in its hands: the inputs of a compaction it has not
\* run yet, then those it is about to add.
JobFiles(j) ==
    IF j.pc \in {"oldest", "lastseq", "tombstones", "run"} THEN AllInputFiles(j.task)
    ELSE IF j.pc \in {"commit", "edits"} THEN j.adds
    ELSE {}

\* The manifest and the live version name the same files until an edit is
\* written and then reported as failed.
KnownFiles == manifest.files \cup version

\* Why numbers are fresh: what the manifest names lies below the number its
\* replay resumes from, that number is at most the live one, and a table
\* being flushed shares its number with no file anyone can publish.
NumbersInv ==
    /\ \A f \in KnownFiles : f.num < manifest.next
    /\ log < manifest.next /\ manifest.log < manifest.next
    /\ manifest.next <= nextFile
    /\ \A r \in wal : r.log < manifest.next
    /\ \A t \in Threads : \A f \in JobFiles(job[t]) : f.num < nextFile
    /\ \A t \in Threads :
         job[t].pc \in {"sst", "add", "last", "log"} => job[t].num < nextFile
    /\ \A t \in Threads :
         job[t].pc = "sst" =>
            /\ \A f \in KnownFiles : f.num # job[t].num
            /\ \A u \in Threads : \A f \in JobFiles(job[u]) : f.num # job[t].num

\* Every entry in memory or in a table file, an orphan of a crash included.
Stored ==
    mutable \cup (UNION {immutables[i] : i \in DOMAIN immutables})
            \cup (UNION {held[i] : i \in DOMAIN held})
            \cup (UNION {content[n] : n \in 1..MaxFileNumber})

\* The recovered last_sequence will be at least the entry's.
Covered(e) == e.seq <= manifest.last \/ e \in WalEntries(wal, manifest.log)
Settled(entries) == \A e \in entries : e.seq <= lastSequence /\ Covered(e)

\* A writer has logged what it is about to apply, and a flush that switches
\* to a new log has published last_sequence.
JobSettled(j) ==
    /\ j.pc = "log" => lastSequence <= manifest.last
    /\ j.pc \in {"wal", "apply"} =>
         \A m \in DOMAIN j.starts :
            BatchEntries(j.group[m], j.starts[m]) \subseteq WalEntries(wal, manifest.log)

\* Why sequences are fresh when every batch is logged and a manifest edit that
\* is reported as failed is not in the manifest: whatever is stored is at most
\* last_sequence now and will be after a crash.
SequencesInv ==
    /\ manifest.last <= lastSequence /\ log = manifest.log
    /\ Settled(Stored)
    /\ \A s \in snaps : s.seq <= lastSequence
    /\ \A t \in Threads : JobSettled(job[t])

AllBatchesLogged == \A g \in Groups : \A i \in DOMAIN g : g[i].wal

\* Only one thread calls compact_range or writes, which compacts under
\* pressure: execute_compaction runs on no two threads at once.
Compacts(t) == Ops[t] \cap {"write", "compact"} # {}
OneCompactor == \A t, u \in Threads : Compacts(t) /\ Compacts(u) => t = u

PickedPcs == {"oldest", "lastseq", "tombstones", "run"}
InstallPcs == {"load", "install", "unlink"}
CompactPcs == PickedPcs \cup {"pressure", "commit", "edits"} \cup InstallPcs

\* The table files a thread is going to unlink.
Obsolete(j) == IF j.pc \in {"commit", "edits"} \cup InstallPcs THEN j.obsolete ELSE {}

\* Why files exist: a table a flush has not published is nobody's, ...
FlushApart(j) ==
    j.pc \in {"sst", "add"} =>
        /\ j.pc = "add" => j.num \in onDisk
        /\ \A f \in KnownFiles : f.num # j.num
        /\ \A u \in Threads : j.num \notin Obsolete(job[u])
                             /\ \A f \in JobFiles(job[u]) : f.num # j.num

\* ... and what a compaction unlinks is no table anyone knows by the time it
\* has made its edits.
CompactionApart(j) ==
    /\ j.pc \in PickedPcs => AllInputFiles(j.task) \subseteq version
    /\ j.pc \in {"commit", "edits"} =>
         /\ \A f \in j.adds :
              /\ f.num \in onDisk /\ f.num \notin j.obsolete
              /\ \A g \in KnownFiles : g.num = f.num => g \in j.dels
              /\ \A g \in j.adds : g.num = f.num => g = f
         /\ \A n \in j.obsolete : \A g \in KnownFiles : g.num = n => g \in j.dels
    /\ j.pc \in InstallPcs => \A n \in j.obsolete : \A g \in KnownFiles : g.num # n

FilesInv ==
    /\ \A f \in KnownFiles : f.num \in onDisk
    /\ \A f, g \in KnownFiles : f.num = g.num => f = g
    /\ \A t \in Threads :
         /\ job[t].pc \in CompactPcs => Compacts(t)
         /\ FlushApart(job[t]) /\ CompactionApart(job[t])
         /\ \A n \in Obsolete(job[t]) : n < nextFile

\* Why levels are disjoint: what a compaction leaves at its output level has
\* no key of its inputs, so that its outputs fit in.
TaskFits(task) ==
    /\ task.outputLevel > 0
    /\ \A f \in task.inputFiles : f.level = task.inputLevel
    /\ \A f \in task.overlapFiles : f.level = task.outputLevel
    /\ \A f \in task.inputFiles, g \in version \ AllInputFiles(task) :
         g.level = task.outputLevel => Apart(f, g)
AddsFit(j) ==
    \A f \in j.adds :
        /\ f.level > 0
        /\ \A g \in (version \ j.dels) \cup j.adds : g.level = f.level /\ g # f => Apart(f, g)

LevelsInv ==
    /\ version = manifest.files
    /\ LevelsDisjoint
    /\ \A t \in Threads :
         /\ job[t].pc \in PickedPcs => TaskFits(job[t].task)
         /\ job[t].pc \in {"commit", "edits"} => AddsFit(job[t])

\* Only one thread writes, flushes or compacts; any number of others get,
\* take snapshots and close.
Maintains(t) == Ops[t] \cap {"write", "flush", "compact"} # {}
SingleWriter == \A t, u \in Threads : Maintains(t) /\ Maintains(u) => t = u
ReaderPcs == {"idle", "get", "got"}
FlushPcs == {"sst", "add", "last", "log"}

MemEntries ==
    mutable \cup (UNION {immutables[i] : i \in DOMAIN immutables})
            \cup (UNION {held[i] : i \in DOMAIN held})
Reachable(fs) == MemEntries \cup EntriesOf(content, fs)

\* A memtable searched earlier has the newer versions of each key.
MemOrdered ==
    /\ \A i \in DOMAIN held :
         Older(held[i], mutable) /\ \A l \in DOMAIN immutables : Older(held[i], immutables[l])
    /\ \A i \in DOMAIN immutables :
         /\ Older(immutables[i], mutable)
         /\ \A l \in DOMAIN immutables : i < l => Older(immutables[i], immutables[l])

\* What a read at s finds in memory and in fs is what was written by s.
Faithful(fs, s) ==
    \A k \in Keys : Visible(Newest(Reachable(fs), k, s)) = Visible(Newest(history, k, s))

\* The files can be what readers see.
Readable(fs) ==
    /\ Reachable(fs) \subseteq history
    /\ TreeOrdered(content, fs) /\ Older(EntriesOf(content, fs), MemEntries)
    /\ \A s \in {lastSequence} \cup {p.seq : p \in snaps} : Faithful(fs, s)

\* A compaction takes all of level 0 and level 1, or of a deeper level files
\* and whatever lies in their key range one level below.
TaskWhole(task) ==
    /\ task.outputLevel = task.inputLevel + 1
    /\ AllInputFiles(task) \subseteq tables
    /\ \A f \in task.inputFiles : f.level = task.inputLevel
    /\ \A f \in task.overlapFiles : f.level = task.outputLevel
    /\ task.inputLevel = 0 => \A g \in tables : g.level <= 1 => g \in AllInputFiles(task)
    /\ task.inputLevel > 0 =>
         \A g \in FilesAt(tables, task.outputLevel) :
            g \in task.overlapFiles <=>
                OverlapsEntries(content[g.num], EntriesOf(content, task.inputFiles))

\* Nothing a live snapshot needs is below the watermark.
WatermarkLow(j) ==
    /\ j.pc = "lastseq" =>
         /\ \A o \in j.oldest : o <= lastSequence /\ \A p \in snaps : o <= p.seq
         /\ j.oldest = {} => \A p \in snaps : p.seq = lastSequence
    /\ j.pc \in {"tombstones", "run"} =>
         j.watermark <= lastSequence /\ \A p \in snaps : j.watermark <= p.seq
    /\ j.pc = "run" /\ j.drop => CanDropTombstones(content, tables, j.task)

\* A flush has its memtable and its table in the same place of the order.
FlushOrdered(j) ==
    /\ j.pc \in FlushPcs =>
         /\ \A f \in tables : f.num < j.num
         /\ j.source = "mutable" => mutable = {} /\ immutables = <<>>
    /\ j.pc \in {"add", "last", "log"} => content[j.num] = held[1]

JobReads(j) ==
    /\ j.pc \in PickedPcs => TaskWhole(j.task) /\ WatermarkLow(j)
    /\ j.pc \in {"commit", "edits"} => Readable((version \ j.dels) \cup j.adds)
    /\ j.pc = "load" => Readable(version)
    /\ j.pc = "install" => Readable(j.loaded) /\ j.loaded = version
    /\ FlushOrdered(j)

\* Batches get the sequences after last_sequence, one after the other.
StartsAfter(j) ==
    /\ j.pc = "wal" =>
         /\ j.starts = <<>> => j.next = lastSequence + 1
         /\ j.starts # <<>> => /\ j.starts[1] = lastSequence + 1
                               /\ j.next = j.starts[Len(j.starts)] + Len(j.group[Len(j.starts)].recs)
    /\ j.pc = "apply" => j.starts[j.item] = lastSequence + 1
    /\ j.pc \in {"wal", "apply"} =>
         \A m \in 1..(Len(j.starts) - 1) :
            j.starts[m + 1] = j.starts[m] + Len(j.group[m].recs)

\* A get that found nothing in memory will find what was written in the tables
\* it remembers.
GetSees(j) ==
    /\ j.pc = "get" =>
         /\ j.seq <= lastSequence
         /\ Visible(TableGet(content, j.files, j.key, j.seq)) = Visible(Newest(history, j.key, j.seq))
         /\ \A f \in j.files :
              f.num < nextFile /\ \A u \in Threads : job[u].pc \in FlushPcs => f.num < job[u].num
    /\ j.pc = "got" => j.result = j.want

\* What readers see, whatever the threads are doing.
StoreReads ==
    /\ UniqueSeqs(history) /\ \A e \in history : e.seq <= lastSequence
    /\ \A p \in snaps : p.seq <= lastSequence
    /\ \A f \in tables : f.num < nextFile
    /\ MemOrdered /\ Readable(tables)

\* While the writer is not between a manifest edit and the installation of
\* its tables, readers see the current version; only a flush holds a memtable.
UnsettledPcs == {"last", "log", "commit", "edits", "load", "install"}
WriterReads(j) ==
    /\ JobReads(j) /\ StartsAfter(j)
    /\ j.pc \notin UnsettledPcs => version = tables
    /\ j.pc \notin FlushPcs => held = <<>>
    /\ j.pc \in {"last", "log"} => version = tables \cup {[level |-> 0, num |-> j.num]}

ReadsInv ==
    /\ StoreReads
    /\ \A t \in Threads :
         /\ job[t].pc \notin ReaderPcs => Maintains(t)
         /\ Maintains(t) => WriterReads(job[t])
         /\ GetSees(job[t])

-----------------------------------------------------------------------------
(* Progress *)

\* A thread inside a call goes on; no thread has to start one.
Fairness == \A t \in Threads : WF_vars(job[t] # Idle /\ ThreadStep(t))
FairSpec == Spec /\ Fairness

\* Every call returns: writes that wait for a compaction, flushes and
\* compactions that contend for the state and the versions lock.
CallsReturn == \A t \in Threads : job[t] # Idle ~> job[t] = Idle
=============================================================================
