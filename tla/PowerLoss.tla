----------------------------- MODULE PowerLoss -----------------------------
(***************************************************************************)
(* What the machine losing power leaves of a database, and whether         *)
(* DB::open can go on from there: VersionSet::create with set_current, the *)
(* WAL with and without sync, and a flush with its table, its manifest     *)
(* edits and its new WAL, each as the calls to Env that it makes.          *)
(*                                                                         *)
(* A file is a sequence of records, a directory maps names to files.  Both *)
(* have a state that processes see and one that is known to be on disk.    *)
(* Writing and syncing a file is one step: in between, power loss leaves   *)
(* what it leaves before or after.  Records cut short are in RecordLog.    *)
(*                                                                         *)
(* The Faulty... definitions are as in LsmTree.                            *)
(***************************************************************************)
EXTENDS Naturals, FiniteSets, Sequences, SequencesExt

CONSTANTS
    Journaled,    \* whether changes of a directory reach the disk in order,
                  \* and with the next sync of a file at the latest (ext4, xfs)
    MaxWrites,    \* bound: writes
    MaxNumber,    \* bound: file numbers
    MaxFailures   \* bound: crashes and power losses

ASSUME PowerLossAssumption ==
    /\ Journaled \in BOOLEAN
    /\ MaxWrites \in Nat /\ MaxNumber \in Nat \ {0} /\ MaxFailures \in Nat

VARIABLES
    fs,       \* the file system
    pc,       \* what the process does; "down": there is none
    ver,      \* VersionSet
    mem,      \* the writes in the memtable
    num,      \* the number of the table or WAL a flush has in its hands
    order,    \* ghost: the writes in the database; their order is that of their names
    synced,   \* ghost: those up to this one must survive a power loss
    writes,   \* writes so far; a write is named by its number
    failures

vars == <<fs, pc, ver, mem, num, order, synced, writes, failures>>
process == <<ver, mem, num>>
ghosts == <<order, synced, writes>>

-----------------------------------------------------------------------------
(* Env and FsEnv.  A directory maps a name to the index of its file in     *)
(* fs.inodes, 0 if there is none.  fs.dir is what processes see, fs.disks  *)
(* are the directories that a power loss may leave.  A file has its        *)
(* records and those that were in it when it was last synced.              *)

Current == <<"CURRENT", 0>>
CurrentTmp == <<"CURRENT.tmp", 0>>
Manifest == <<"MANIFEST", 1>>
Wal(n) == <<"log", n>>
Table(n) == <<"sst", n>>
TableTmp(n) == <<"sst.tmp", n>>
Names == {Current, CurrentTmp, Manifest} \cup
         UNION {{Wal(n), Table(n), TableTmp(n)} : n \in 1..MaxNumber}

Exists(f, name) == f.dir[name] # 0
Records(f, name) == f.inodes[f.dir[name]].data

\* A change of the directory: what the names in it refer to afterwards.
Changed(dir, change) ==
    [n \in DOMAIN dir |-> IF n \in DOMAIN change THEN change[n] ELSE dir[n]]
ChangeDir(f, change) ==
    LET d == Changed(f.dir, change)
    IN  [f EXCEPT !.dir = d,
                  !.disks = @ \cup IF Journaled THEN {d}
                                   ELSE {Changed(e, change) : e \in f.disks}]

\* WritableFileOptions::append: the file is created if there is none.
OpenAppend(f, name) ==
    IF Exists(f, name) THEN f
    ELSE ChangeDir([f EXCEPT !.inodes = Append(f.inodes, [data |-> <<>>, safe |-> <<>>])],
                   [n \in {name} |-> Len(f.inodes) + 1])

\* WritableFileOptions::create: the same, and the file becomes empty.
OpenCreate(f, name) ==
    LET g == OpenAppend(f, name)
    IN  [g EXCEPT !.inodes[g.dir[name]].data = <<>>]

WriteAll(f, name, recs) == [f EXCEPT !.inodes[f.dir[name]].data = @ \o recs]

SyncDirectory(f) == [f EXCEPT !.disks = {f.dir}]

SyncAll(f, name) ==
    LET g == [f EXCEPT !.inodes[f.dir[name]].safe = f.inodes[f.dir[name]].data]
    IN  IF Journaled THEN SyncDirectory(g) ELSE g

\* Leaves the old name in place.
FaultyRename(f, from, to) == ChangeDir(f, [n \in {to} |-> f.dir[from]])
Rename(f, from, to) ==
    ChangeDir(f, [n \in {from, to} |-> IF n = to THEN f.dir[from] ELSE 0])

\* Of an unsynced file, any part from the front that has what was synced; if
\* the file was emptied since, maybe still what it held before.
Survivors(file) ==
    LET kept == {SubSeq(file.data, 1, n) : n \in 0..Len(file.data)}
    IN  IF IsPrefix(file.safe, file.data) THEN {r \in kept : IsPrefix(file.safe, r)}
        ELSE kept \cup {file.safe}

\* What the disk may hold after a power loss.
AfterPowerLoss(f) ==
    LET unsynced == {i \in DOMAIN f.inodes : f.inodes[i].data # f.inodes[i].safe}
        parts == [unsynced -> UNION {Survivors(f.inodes[i]) : i \in unsynced}]
        left == {p \in parts : \A i \in unsynced : p[i] \in Survivors(f.inodes[i])}
        inodes(p) == [i \in DOMAIN f.inodes |->
                        IF i \in unsynced THEN [data |-> p[i], safe |-> p[i]]
                        ELSE f.inodes[i]]
    IN  UNION {{[dir |-> d, disks |-> {d}, inodes |-> inodes(p)] : p \in left} : d \in f.disks}

-----------------------------------------------------------------------------
(* Records, and what DB::open reads from them *)

Edit(kind, n) == [kind |-> kind, n |-> n]
Put(w) == [kind |-> "write", n |-> w]
Footer == [kind |-> "footer", n |-> 0]

\* The edits VersionSet::create starts a manifest with.
FirstEdits == <<Edit("next", 2), Edit("log", 1), Edit("last", 0)>>

MaxOf(a, b) == IF a > b THEN a ELSE b

\* VersionSet::apply_edit
ApplyEdit(v, e) ==
    CASE e.kind = "next" -> [v EXCEPT !.next = MaxOf(@, e.n)]
      [] e.kind = "log" -> [v EXCEPT !.log = e.n, !.next = MaxOf(@, e.n + 1)]
      [] e.kind = "add" -> [v EXCEPT !.files = @ \cup {e.n}, !.next = MaxOf(@, e.n + 1)]
      [] e.kind = "last" -> v
NewVersions == [files |-> {}, next |-> 2, log |-> 1]

Numbers(recs, kind) == {r.n : r \in {q \in ToSet(recs) : q.kind = kind}}

\* What apply_edit of all edits of the manifest, in order, leads to.
Replayed(f) ==
    LET edits == Records(f, Manifest)
        logs == {i \in DOMAIN edits : edits[i].kind = "log"}
        used == Numbers(edits, "log") \cup Numbers(edits, "add")
    IN  [files |-> Numbers(edits, "add"),
         log |-> IF logs = {} THEN NewVersions.log ELSE edits[Max(logs)].n,
         next |-> Max({NewVersions.next} \cup Numbers(edits, "next") \cup {n + 1 : n \in used})]

\* SSTableReader::open_with_env finds the footer, and what it refers to.
Complete(f, n) == Exists(f, Table(n)) /\ Contains(Records(f, Table(n)), Footer)

\* VersionSet::recover and open_version_tables succeed: CURRENT is not empty,
\* the manifest is there, and the tables it names are complete.
CanRecover(f) ==
    /\ Records(f, Current) # <<>> /\ Exists(f, Manifest)
    /\ \A n \in Replayed(f).files : Complete(f, n)

WritesIn(recs) == Numbers(recs, "write")

\* The writes DB::open finds: those in tables and those in the log.
Recovered(f) ==
    IF ~Exists(f, Current) \/ ~CanRecover(f) THEN {}
    ELSE LET v == Replayed(f)
         IN  (UNION {WritesIn(Records(f, Table(n))) : n \in v.files}) \cup
             (IF Exists(f, Wal(v.log)) THEN WritesIn(Records(f, Wal(v.log))) ELSE {})

-----------------------------------------------------------------------------
Init ==
    /\ fs = [dir |-> [n \in Names |-> 0], disks |-> {[n \in Names |-> 0]}, inodes |-> <<>>]
    /\ pc = "down" /\ ver = NewVersions /\ mem = <<>> /\ num = 0
    /\ order = {} /\ synced = 0 /\ writes = 0 /\ failures = 0

Goto(from, to) == pc = from /\ pc' = to

\* ManifestWriter::append
LogEdit(e) == SyncAll(WriteAll(fs, Manifest, <<e>>), Manifest)

(* DB::open where there is no CURRENT: VersionSet::create *)

CreateManifest ==
    /\ Goto("down", "edits") /\ ~Exists(fs, Current)
    /\ fs' = OpenCreate(fs, Manifest)
    /\ UNCHANGED <<process, ghosts, failures>>

AppendFirstEdit ==
    /\ pc = "edits"
    /\ LET n == Len(Records(fs, Manifest)) + 1
       IN  /\ fs' = LogEdit(FirstEdits[n])
           /\ pc' = IF n = Len(FirstEdits) THEN "tmp" ELSE "edits"
    /\ UNCHANGED <<process, ghosts, failures>>

\* Does not sync the temporary file.
FaultyNamed(f) == WriteAll(OpenCreate(f, CurrentTmp), CurrentTmp, <<Edit("name", 1)>>)
\* set_current_with_env up to the rename.
Named(f) ==
    SyncAll(WriteAll(OpenCreate(f, CurrentTmp), CurrentTmp, <<Edit("name", 1)>>), CurrentTmp)

WriteCurrentTmp ==
    /\ Goto("tmp", "rename") /\ fs' = Named(fs)
    /\ UNCHANGED <<process, ghosts, failures>>

RenameCurrent ==
    /\ Goto("rename", "dirsync") /\ fs' = Rename(fs, CurrentTmp, Current)
    /\ UNCHANGED <<process, ghosts, failures>>

SyncCurrent ==
    /\ Goto("dirsync", "replay") /\ fs' = SyncDirectory(fs)
    /\ ver' = NewVersions
    /\ UNCHANGED <<mem, num, ghosts, failures>>

(* DB::open *)

\* VersionSet::recover, if there is a CURRENT.
Recover ==
    /\ Goto("down", "replay") /\ Exists(fs, Current) /\ CanRecover(fs)
    /\ ver' = Replayed(fs)
    /\ UNCHANGED <<fs, mem, num, ghosts, failures>>

\* Forgets to put the records into the memtable.
FaultyMemtable(f, v) == <<>>
\* The memtable after recover_wal, if there is a log.
Memtable(f, v) ==
    IF Exists(f, Wal(v.log))
    THEN [i \in DOMAIN Records(f, Wal(v.log)) |-> Records(f, Wal(v.log))[i].n]
    ELSE <<>>

\* recover_wal and WalWriter::create.  The ghost drops what was lost.
ReplayWal ==
    /\ Goto("replay", "up")
    /\ mem' = Memtable(fs, ver)
    /\ fs' = OpenAppend(fs, Wal(ver.log))
    /\ order' = order \cap Recovered(fs)
    /\ UNCHANGED <<ver, num, synced, writes, failures>>

-----------------------------------------------------------------------------
(* DB::write, DB::sync_wal, DB::flush *)

\* Answers before the sync.
FaultyLogWrite(w, sync) == WriteAll(fs, Wal(ver.log), <<Put(w)>>)
\* The record goes to the WAL, with a sync for WriteOptions::sync or
\* WalSyncMode::PerWrite.
LogWrite(w, sync) ==
    LET f == WriteAll(fs, Wal(ver.log), <<Put(w)>>)
    IN  IF sync THEN SyncAll(f, Wal(ver.log)) ELSE f

Write(sync) ==
    /\ pc = "up" /\ writes < MaxWrites
    /\ LET w == writes + 1
       IN  /\ fs' = LogWrite(w, sync)
           /\ mem' = Append(mem, w)
           /\ order' = order \cup {w}
           /\ synced' = IF sync THEN w ELSE synced
           /\ writes' = w
    /\ UNCHANGED <<pc, ver, num, failures>>

SyncWal ==
    /\ pc = "up"
    /\ fs' = SyncAll(fs, Wal(ver.log))
    /\ synced' = writes
    /\ UNCHANGED <<pc, process, order, writes, failures>>

\* write_l0_table refuses the number of an existing table.
FlushRefused ==
    /\ pc = "up" /\ mem # <<>> /\ ver.next <= MaxNumber /\ Exists(fs, Table(ver.next))
    /\ ver' = [ver EXCEPT !.next = @ + 1]
    /\ UNCHANGED <<fs, pc, mem, num, ghosts, failures>>

\* SSTableBuilder: the entries, the footer, and a sync.
Built(f, name, recs) == SyncAll(WriteAll(OpenCreate(f, name), name, recs), name)

BuildTable ==
    /\ Goto("up", "publish") /\ mem # <<>>
    /\ ver.next < MaxNumber /\ ~Exists(fs, Table(ver.next))
    /\ fs' = Built(fs, TableTmp(ver.next), [i \in DOMAIN mem |-> Put(mem[i])] \o <<Footer>>)
    /\ num' = ver.next /\ ver' = [ver EXCEPT !.next = @ + 1]
    /\ UNCHANGED <<mem, ghosts, failures>>

PublishTable ==
    /\ Goto("publish", "add") /\ fs' = Rename(fs, TableTmp(num), Table(num))
    /\ UNCHANGED <<process, ghosts, failures>>

AddFile ==
    /\ Goto("add", "last") /\ fs' = LogEdit(Edit("add", num))
    /\ ver' = ApplyEdit(ver, Edit("add", num))
    /\ UNCHANGED <<mem, num, ghosts, failures>>

LastSequence ==
    /\ Goto("last", "newlog") /\ fs' = LogEdit(Edit("last", Cardinality(order)))
    /\ UNCHANGED <<process, ghosts, failures>>

CreateWal ==
    /\ Goto("newlog", "log") /\ ver.next <= MaxNumber
    /\ fs' = OpenAppend(fs, Wal(ver.next))
    /\ num' = ver.next /\ ver' = [ver EXCEPT !.next = @ + 1]
    /\ UNCHANGED <<mem, ghosts, failures>>

\* flush returns: what it flushed no longer needs the old WAL.
LogNumber ==
    /\ Goto("log", "up") /\ fs' = LogEdit(Edit("log", num))
    /\ ver' = ApplyEdit(ver, Edit("log", num)) /\ mem' = <<>> /\ num' = 0
    /\ synced' = writes
    /\ UNCHANGED <<order, writes, failures>>

-----------------------------------------------------------------------------
(* Failures *)

Stop ==
    /\ failures < MaxFailures /\ failures' = failures + 1
    /\ pc' = "down" /\ ver' = NewVersions /\ mem' = <<>> /\ num' = 0
    /\ UNCHANGED ghosts

\* The process ends; the file system keeps what was written.
Crash == pc # "down" /\ Stop /\ UNCHANGED fs

LosePower == Stop /\ fs' \in AfterPowerLoss(fs)

Next ==
    \/ CreateManifest \/ AppendFirstEdit \/ WriteCurrentTmp \/ RenameCurrent \/ SyncCurrent
    \/ Recover \/ ReplayWal
    \/ \E sync \in BOOLEAN : Write(sync)
    \/ SyncWal \/ FlushRefused \/ BuildTable \/ PublishTable
    \/ AddFile \/ LastSequence \/ CreateWal \/ LogNumber
    \/ Crash \/ LosePower

Spec == Init /\ [][Next]_vars

-----------------------------------------------------------------------------
\* The directory refers to files there are, no file has two names, power loss
\* may leave the directory as it is, and the counters stay in their bounds.
TypeOK ==
    /\ fs.dir \in fs.disks /\ fs.disks \subseteq [Names -> 0..Len(fs.inodes)]
    /\ \A n, m \in Names : fs.dir[n] = fs.dir[m] /\ Exists(fs, n) => n = m
    /\ ver.files \subseteq 1..MaxNumber /\ ver.log \in 1..MaxNumber
    /\ order \subseteq 1..writes /\ synced \in 0..writes
    /\ writes \in 0..MaxWrites /\ failures \in 0..MaxFailures

\* DB::open succeeds after a crash or a power loss at any point of the first
\* DB::open, of a write or of a flush: if there is a CURRENT, it names a
\* manifest that is there and whose tables are there and complete.
OpenSucceeds == pc = "down" /\ Exists(fs, Current) => CanRecover(fs)

\* A write that was synced, a sync_wal and a flush that returned are final:
\* what they cover is found by DB::open after any power loss.
SyncedWritesSurvive ==
    pc = "down" => \A w \in order : w <= synced => w \in Recovered(fs)

\* What a power loss takes of the unsynced writes, it takes from the end.
LossesAreSuffixes ==
    pc = "down" => \A v, w \in order : v < w /\ w \in Recovered(fs) => v \in Recovered(fs)
=============================================================================
