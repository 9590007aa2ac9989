-------------------------- MODULE EngineFileProofs --------------------------
(***************************************************************************)
(* Types and locks: the state keeps its type and the locked sections       *)
(* exclude each other, for any number of threads, keys, levels and         *)
(* failures and any write groups, ranges and options.                      *)
(*                                                                         *)
(* File numbers: what the manifest names is never handed out again, and a  *)
(* table the manifest names is never written to, in spite of crashes that  *)
(* wind nextFile back, of flushes and compactions that run at once, and of *)
(* calls that fail halfway.  Sequence numbers: what is stored never has    *)
(* one that a later write gets.                                            *)
(*                                                                         *)
(* Table files: with one thread that compacts, beside any number of        *)
(* threads that flush, read and take snapshots, a table the manifest names *)
(* exists and the files of a level are disjoint.  Two compactions at once  *)
(* can break either: nothing in the code keeps them from picking the same  *)
(* files.                                                                  *)
(***************************************************************************)
EXTENDS EngineProperties, TLAPS

-----------------------------------------------------------------------------
(* Types and locks *)

\* The locals a thread has at each program counter.
LEMMA JobShapes ==
    ASSUME NEW j \in Job
    PROVE  /\ j.pc \in {"pressure", "lock", "wal", "apply", "oldest", "lastseq", "tombstones",
                        "run", "commit", "edits", "load", "install", "unlink"} => j.group \in Group
           /\ j.pc \in {"wal", "apply"} => j.starts \in Seq(Nat)
           /\ j.pc = "wal" => j \in [pc : {"wal"}, group : Group, starts : Seq(Nat), next : Nat]
           /\ j.pc = "apply" => j \in [pc : {"apply"}, group : Group, starts : Seq(Nat),
                                       item : Nat, shouldFlush : BOOLEAN]
           /\ j.pc \in {"sst", "add", "last", "log"} =>
                j \in [pc : {"sst", "add", "last", "log"}, num : 1..MaxFileNumber,
                       source : {"mutable", "immutable"}]
           /\ j.pc \in {"oldest", "lastseq", "tombstones", "run"} => j.task \in Task
           /\ j.pc = "lastseq" => j.oldest \in SUBSET Nat
           /\ j.pc \in {"tombstones", "run"} => j.watermark \in Nat
           /\ j.pc \in {"commit", "edits"} =>
                j \in [pc : {"commit", "edits"}, group : Group, dels : SUBSET File,
                       adds : SUBSET File, obsolete : SUBSET Nat]
           /\ j.pc \in {"load", "install", "unlink"} => j.obsolete \in SUBSET Nat
           /\ j.pc = "install" => j.loaded \in SUBSET File
           /\ j.pc = "get" => /\ j.key \in Keys /\ j.seq \in Nat /\ j.pinned \in BOOLEAN
                              /\ j.files \in SUBSET File
BY DEF Job, Group

\* A thread's new locals are well-formed when the assigned record is.
LEMMA SetKeepsJobs ==
    ASSUME job \in [Threads -> Job], NEW t \in Threads, NEW j \in Job, Set(t, j)
    PROVE  job' \in [Threads -> Job]
BY DEF Set

LEMMA IdleIsJob == Idle \in Job /\ [pc |-> "flush"] \in Job
BY DEF Idle, Job

LEMMA FinishIsJob ==
    ASSUME NEW g \in Group PROVE Finish(g) \in Job
BY DEF Finish, Idle, Job, Group

LEMMA GroupFacts ==
    ASSUME NEW g \in Group
    PROVE  /\ g \in Seq(Batch) /\ Len(g) \in Nat /\ (g # <<>> => g \in Groups /\ Len(g) > 0)
           /\ \A i \in 1..Len(g) : g[i] \in Batch
<1>1. CASE g = <<>>
  BY <1>1
<1>2. CASE g # <<>>
  <2>1. g \in Groups /\ Groups \subseteq Seq(Batch) \ {<<>>}
    BY <1>2, GroupsAssumption DEF Group
  <2>2. g \in Seq(Batch)
    BY <2>1
  <2> QED BY <2>1, <2>2
<1> QED BY <1>1, <1>2

LEMMA BatchEntriesType ==
    ASSUME NEW b \in Batch, NEW s \in Nat
    PROVE  /\ BatchEntries(b, s) \subseteq Entry
           /\ Len(b.recs) \in Nat \ {0}
<1>1. b.recs \in Seq(Record) /\ b.recs # <<>>
  BY DEF Batch
<1>2. ASSUME NEW i \in DOMAIN b.recs
      PROVE  [key |-> b.recs[i].key, seq |-> s + i - 1, type |-> b.recs[i].type] \in Entry
  <2>1. i \in Nat /\ i >= 1 /\ b.recs[i] \in Record
    BY <1>1
  <2> QED BY <2>1 DEF Record, Entry
<1>3. BatchEntries(b, s) \subseteq Entry
  BY <1>2 DEF BatchEntries
<1> QED BY <1>1, <1>3

-----------------------------------------------------------------------------
(* Type correctness *)

\* Tasks the picker builds, and the tables a compaction reads.
LEMMA TaskType ==
    ASSUME NEW v \in SUBSET File, NEW inputs \in SUBSET v, inputs # {}
    PROVE  TaskForFiles(content, v, inputs) \in Task
<1> DEFINE lvl == (CHOOSE f \in inputs : TRUE).level
<1>1. lvl \in 0..(NumLevels - 1)
  BY DEF File
<1>2. (IF lvl + 1 < NumLevels THEN lvl + 1 ELSE NumLevels - 1) \in 0..(NumLevels - 1)
  BY <1>1, LevelsAssumption
<1> HIDE DEF lvl
<1> QED BY <1>1, <1>2 DEF TaskForFiles, FilesAt, Task, lvl

LEMMA ManualInputsSubset ==
    ASSUME NEW v, NEW r PROVE ManualInputs(content, v, r) \subseteq v
BY DEF ManualInputs, L0ManualInputs, InRange, FilesAt, FirstFiles

LEMMA OutputType ==
    ASSUME TypeOK, NEW t \in Threads, job[t].pc = "run"
    PROVE  /\ Output(job[t]) \subseteq Entry
           /\ Output(job[t]) \subseteq EntriesOf(content, AllInputFiles(job[t].task))
<1>1. job[t].task \in Task
  BY JobShapes DEF TypeOK
<1>2. EntriesOf(content, AllInputFiles(job[t].task)) \subseteq Entry
  BY <1>1 DEF TypeOK, EntriesOf, AllInputFiles, Task, File
<1> QED BY <1>2 DEF Output, CompactEntries

\* Steps that change nothing but a thread's locals.
LEMMA LocalStepKeepsTypes ==
    ASSUME TypeOK, NEW t \in Threads, NEW j \in Job, Set(t, j),
           UNCHANGED <<memory, versions, files, ghosts, log, snaps, wal, writes, failures>>
    PROVE  TypeOK'
BY SetKeepsJobs DEF TypeOK, memory, versions, files, ghosts

LEMMA TypeInit == Init => TypeOK
<1> SUFFICES ASSUME Init PROVE TypeOK
  OBVIOUS
<1>1. job \in [Threads -> Job]
  BY IdleIsJob DEF Init
<1> QED BY <1>1 DEF Init, TypeOK

\* Steps of one thread that change nothing but its locals keep the locks
\* exclusive, if they take a lock only when it is free.
LEMMA LocksStep ==
    ASSUME TypeOK, LocksAndLocals, NEW t \in Threads, NEW j \in Job, Set(t, j),
           LocalsInRange(j, held'),
           j.pc \in HoldsState => job[t].pc \in HoldsState \/ StateFree,
           j.pc \in HoldsVersions => job[t].pc \in HoldsVersions \/ VersionsFree,
           held' = held \/ job[t].pc \in HoldsState \/ StateFree
    PROVE  LocksAndLocals'
<1>1. \A u \in Threads : job'[u] = IF u = t THEN j ELSE job[u]
  BY DEF TypeOK, Set
<1>2. ASSUME NEW u \in Threads, NEW w \in Threads, u # w
      PROVE  /\ ~ (job'[u].pc \in HoldsState /\ job'[w].pc \in HoldsState)
             /\ ~ (job'[u].pc \in HoldsVersions /\ job'[w].pc \in HoldsVersions)
  BY <1>1, <1>2 DEF LocksAndLocals, StateFree, VersionsFree
<1>3. ASSUME NEW u \in Threads PROVE LocalsInRange(job'[u], held')
  <2>1. CASE u = t
    BY <1>1, <2>1
  <2>2. CASE u # t
    <3>1. job'[u] = job[u] /\ LocalsInRange(job[u], held)
      BY <1>1, <2>2 DEF LocksAndLocals
    <3>2. held' = held \/ job[u].pc \notin HoldsState
      BY <2>2 DEF LocksAndLocals, StateFree
    <3> QED BY <3>1, <3>2 DEF LocalsInRange, HoldsState
  <2> QED BY <2>1, <2>2
<1> QED BY <1>2, <1>3 DEF LocksAndLocals

LEMMA TypeWrite ==
    ASSUME TypeOK, LocksAndLocals, NEW t \in Threads,
           (\E g \in Groups : BeginWrite(t, g)) \/ LockState(t) \/ AppendWal(t) \/ ApplyItem(t)
    PROVE  TypeOK' /\ LocksAndLocals'
<1>0. job[t] \in Job /\ LocalsInRange(job[t], held)
  BY DEF TypeOK, LocksAndLocals
<1>1. CASE \E g \in Groups : BeginWrite(t, g)
  <2> PICK g \in Groups : BeginWrite(t, g)
    BY <1>1
  <2> DEFINE j == IF Cardinality(FilesAt(tables, 0)) >= StopTrigger
                  THEN [pc |-> "pressure", group |-> g]
                  ELSE [pc |-> "lock", group |-> g]
  <2>1. j \in Job /\ g # <<>>
    BY GroupsAssumption DEF Job, Group
  <2>2. Set(t, j) /\ UNCHANGED <<memory, versions, files, ghosts, log, snaps, wal, failures>>
        /\ writes' = writes + 1
    BY DEF BeginWrite
  <2>3. TypeOK'
    BY <2>1, <2>2, SetKeepsJobs DEF TypeOK, memory, versions, files, ghosts
  <2>4. LocalsInRange(j, held') /\ held' = held /\ j.pc \notin HoldsState \cup HoldsVersions
    BY <2>1, <2>2 DEF LocalsInRange, memory, HoldsState, HoldsVersions
  <2> QED BY <2>1, <2>2, <2>3, <2>4, LocksStep
<1>2. CASE LockState(t)
  <2> DEFINE w == [pc |-> "wal", group |-> job[t].group, starts |-> <<>>,
                   next |-> lastSequence + 1]
             j == IF status = "open" THEN w ELSE Idle
  <2>1. job[t].group \in Group /\ job[t].group # <<>>
    BY <1>0, <1>2, JobShapes DEF LockState, LocalsInRange
  <2>2. j \in Job
    BY <2>1, IdleIsJob DEF Job, TypeOK
  <2>3. Set(t, j) /\ StateFree /\ held' = held
        /\ UNCHANGED <<memory, versions, files, ghosts, log, snaps, wal, writes, failures>>
    BY <1>2 DEF LockState, memory
  <2>4. LocalsInRange(j, held') /\ j.pc \notin HoldsVersions
    BY <2>1, GroupFacts DEF LocalsInRange, Idle, HoldsVersions
  <2> HIDE DEF j
  <2> QED BY <2>2, <2>3, <2>4, LocksStep, LocalStepKeepsTypes
<1>3. CASE AppendWal(t)
  <2> DEFINE o == job[t]
             b == o.group[Len(o.starts) + 1]
             starts == Append(o.starts, o.next)
             w == [pc |-> "wal", group |-> o.group, starts |-> starts,
                   next |-> o.next + Len(b.recs)]
             a == [pc |-> "apply", group |-> o.group, starts |-> starts,
                   item |-> 1, shouldFlush |-> FALSE]
             j == IF Len(starts) = Len(o.group) THEN a ELSE w
  <2>1. /\ o \in [pc : {"wal"}, group : Group, starts : Seq(Nat), next : Nat]
        /\ o.pc = "wal" /\ Len(o.starts) < Len(o.group)
    BY <1>0, <1>3, JobShapes DEF AppendWal, LocalsInRange
  <2>2. o.group \in Seq(Batch) /\ Len(o.group) \in Nat /\ Len(o.starts) \in Nat /\ b \in Batch
    BY <2>1, GroupFacts
  <2>3. starts \in Seq(Nat) /\ Len(starts) = Len(o.starts) + 1
    BY <2>1
  <2>4. BatchEntries(b, o.next) \subseteq Entry /\ Len(b.recs) \in Nat
    BY <2>1, <2>2, BatchEntriesType
  <2>5. o.next + Len(b.recs) \in Nat
    BY <2>1, <2>4
  <2> HIDE DEF starts, b
  <2>6. w \in Job /\ a \in Job /\ j \in Job
    BY <2>1, <2>3, <2>5 DEF Job
  <2>7. /\ Set(t, j) /\ UNCHANGED <<memory, versions, files, ghosts, log, snaps, writes, failures>>
        /\ wal' \subseteq wal \cup {[log |-> log, entry |-> e] : e \in BatchEntries(b, o.next)}
    BY <1>3 DEF AppendWal, WithRecord, starts, b
  <2>8. LocalsInRange(j, held') /\ held' = held
    BY <2>1, <2>2, <2>3, <2>7 DEF LocalsInRange, memory
  <2>9. j.pc \notin HoldsVersions /\ job[t].pc \in HoldsState
    BY <2>1 DEF HoldsState, HoldsVersions
  <2> HIDE DEF j
  <2>10. job' \in [Threads -> Job]
    BY <2>6, <2>7, SetKeepsJobs DEF TypeOK
  <2>11. TypeOK'
    BY <2>4, <2>7, <2>10 DEF TypeOK, memory, versions, files, ghosts
  <2> QED BY <2>6, <2>7, <2>8, <2>9, <2>11, LocksStep
<1>4. CASE ApplyItem(t)
  <2> DEFINE o == job[t]
             b == o.group[o.item]
             start == o.starts[o.item]
             new == BatchEntries(b, start)
             frozen == IsFull(Insert(mutable, new))
             flush == o.shouldFlush \/ frozen
             more == [pc |-> "apply", group |-> o.group, starts |-> o.starts,
                      item |-> o.item + 1, shouldFlush |-> flush]
             j == IF o.item < Len(o.group) THEN more
                  ELSE IF flush THEN [pc |-> "flush"] ELSE Idle
  <2>1. /\ o \in [pc : {"apply"}, group : Group, starts : Seq(Nat), item : Nat,
                  shouldFlush : BOOLEAN]
        /\ o.pc = "apply" /\ o.item \in 1..Len(o.group) /\ Len(o.starts) = Len(o.group)
    BY <1>0, <1>4, JobShapes DEF ApplyItem, LocalsInRange
  <2>2. o.group \in Seq(Batch) /\ Len(o.group) \in Nat /\ b \in Batch /\ start \in Nat
    BY <2>1, GroupFacts
  <2>3. new \subseteq Entry /\ Len(b.recs) \in Nat \ {0}
    BY <2>2, BatchEntriesType
  <2>5. flush \in BOOLEAN
    BY <2>1 DEF IsFull
  <2> HIDE DEF flush
  <2>6. more \in Job /\ j \in Job
    BY <2>1, <2>5, IdleIsJob DEF Job
  <2>7. /\ Set(t, j)
        /\ UNCHANGED <<held, tables, status, versions, files, log, snaps, wal, writes, failures>>
        /\ mutable' \subseteq mutable \cup new
        /\ immutables' = immutables \/ immutables' = Append(immutables, mutable \cup new)
        /\ lastSequence' = MaxOf(lastSequence, start + Len(b.recs) - 1)
        /\ history' = history \cup new
        /\ unlogged' \subseteq unlogged \cup {e.seq : e \in new}
    BY <1>4 DEF ApplyItem, flush, Insert
  <2>8. LocalsInRange(j, held')
    BY <2>1, <2>2 DEF LocalsInRange, Idle
  <2>9. j.pc \notin HoldsVersions /\ job[t].pc \in HoldsState
    BY <2>1 DEF HoldsState, HoldsVersions, Idle
  <2> HIDE DEF j, new, b, start
  <2>10. job' \in [Threads -> Job]
    BY <2>6, <2>7, SetKeepsJobs DEF TypeOK
  <2>11. lastSequence' \in Nat
    BY <2>2, <2>3, <2>7 DEF MaxOf, TypeOK
  <2>12. mutable \cup new \in SUBSET Entry /\ immutables \in Seq(SUBSET Entry)
    BY <2>3 DEF TypeOK
  <2>14. immutables' \in Seq(SUBSET Entry)
    BY <2>7, <2>12
  <2>15. mutable' \subseteq Entry /\ history' \subseteq Entry /\ unlogged' \subseteq Nat
    BY <2>3, <2>7, <2>12 DEF TypeOK, Entry
  <2>13. TypeOK'
    BY <2>7, <2>10, <2>11, <2>14, <2>15 DEF TypeOK, versions, files
  <2> QED BY <2>6, <2>7, <2>8, <2>9, <2>13, LocksStep
<1> QED BY <1>1, <1>2, <1>3, <1>4

LEMMA Singleton ==
    ASSUME NEW S, NEW x \in S
    PROVE  <<x>> \in Seq(S) /\ Len(<<x>>) = 1 /\ <<x>>[1] = x /\ DOMAIN <<x>> = {1}
OBVIOUS

LEMMA ElementType ==
    ASSUME NEW S, NEW s \in Seq(S), NEW i \in 1..Len(s) PROVE s[i] \in S
OBVIOUS

LEMMA RenameTableType ==
    ASSUME TypeOK, NEW num \in 1..MaxFileNumber, NEW entries \in SUBSET Entry,
           RenameTable(num, entries)
    PROVE  content' \in [1..MaxFileNumber -> SUBSET Entry] /\ onDisk' \subseteq Nat
<1>1. num \in Nat
  BY SizesAssumption
<1>2. content' = [content EXCEPT ![num] = entries] /\ onDisk' = onDisk \cup {num}
  BY DEF RenameTable
<1>3. content \in [1..MaxFileNumber -> SUBSET Entry] /\ onDisk \subseteq Nat
  BY DEF TypeOK
<1> QED BY <1>1, <1>2, <1>3

LEMMA TypeFlush ==
    ASSUME TypeOK, LocksAndLocals, NEW t \in Threads,
           \/ FlushNothing(t) \/ FlushRefused(t) \/ BeginFlush(t) \/ WriteL0Table(t)
           \/ PublishAddFile(t) \/ PublishLastSequence(t) \/ PublishLogNumber(t)
    PROVE  TypeOK' /\ LocksAndLocals'
<1>0. job[t] \in Job /\ LocalsInRange(job[t], held)
  BY DEF TypeOK, LocksAndLocals
<1>a. LocalsInRange(Idle, held') /\ Idle.pc \notin HoldsState \cup HoldsVersions
  BY DEF LocalsInRange, Idle, HoldsState, HoldsVersions
<1>1. CASE FlushNothing(t)
  <2>1. Set(t, Idle) /\ held' = held
    BY <1>1 DEF FlushNothing, memory
  <2> QED BY <1>1, <1>a, <2>1, IdleIsJob, LocksStep, LocalStepKeepsTypes DEF FlushNothing
<1>2. CASE FlushRefused(t)
  <2>1. Set(t, Idle) /\ held' = held
    BY <1>2 DEF FlushRefused, memory
  <2>2. TypeOK'
    BY <1>2, <2>1, SetKeepsJobs, IdleIsJob DEF FlushRefused, TypeOK, memory, files, ghosts
  <2> QED BY <1>a, <2>1, <2>2, IdleIsJob, LocksStep
<1>3. CASE BeginFlush(t)
  <2>0. PICK source \in {"mutable", "immutable"} :
           Set(t, [pc |-> "sst", num |-> nextFile, source |-> source])
    BY <1>3 DEF BeginFlush
  <2> DEFINE j == [pc |-> "sst", num |-> nextFile, source |-> source]
  <2>1. j \in Job /\ Set(t, j) /\ StateFree
    BY <1>3, <2>0, SizesAssumption DEF BeginFlush, Job, TypeOK
  <2>2. /\ held' \in Seq(SUBSET Entry) /\ Len(held') = 1
        /\ immutables' \in Seq(SUBSET Entry) /\ mutable' \subseteq Entry
    <3>1. CASE immutables # <<>>
      <4>1. Head(immutables) \in SUBSET Entry /\ Tail(immutables) \in Seq(SUBSET Entry)
        BY <3>1 DEF TypeOK
      <4>2. /\ held' = <<Head(immutables)>> /\ immutables' = Tail(immutables)
            /\ mutable' = mutable
        BY <1>3, <3>1 DEF BeginFlush
      <4> QED BY <4>1, <4>2, Singleton DEF TypeOK
    <3>2. CASE immutables = <<>>
      <4>1. held' = <<mutable>> /\ immutables' = immutables /\ mutable' = {}
        BY <1>3, <3>2 DEF BeginFlush
      <4> QED BY <4>1, Singleton DEF TypeOK
    <3> QED BY <3>1, <3>2
  <2>3. TypeOK'
    BY <1>3, <2>1, <2>2, SetKeepsJobs, SMTT(30) DEF BeginFlush, TypeOK, files, ghosts
  <2>4. LocalsInRange(j, held') /\ j.pc \notin HoldsVersions
    BY <2>2 DEF LocalsInRange, HoldsVersions
  <2> QED BY <2>1, <2>3, <2>4, LocksStep
<1>4. CASE WriteL0Table(t)
  <2> DEFINE j == FlushAt("add", job[t])
  <2>1. /\ j \in Job /\ Set(t, j) /\ held' = held /\ Len(held) = 1
        /\ job[t].num \in 1..MaxFileNumber /\ job[t].pc = "sst"
    BY <1>0, <1>4, JobShapes DEF WriteL0Table, FlushAt, Job, memory, LocalsInRange
  <2>2. held[1] \in SUBSET Entry
    <3>1. held \in Seq(SUBSET Entry) /\ 1 \in 1..Len(held)
      BY <2>1 DEF TypeOK
    <3> QED BY <3>1, ElementType
  <2>3. content' \in [1..MaxFileNumber -> SUBSET Entry] /\ onDisk' \subseteq Nat
    BY <1>4, <2>1, <2>2, RenameTableType DEF WriteL0Table
  <2>4. TypeOK'
    BY <1>4, <2>1, <2>3, SetKeepsJobs DEF WriteL0Table, TypeOK, memory, versions, ghosts
  <2>5. LocalsInRange(j, held') /\ j.pc \notin HoldsVersions /\ job[t].pc \in HoldsState
    BY <2>1 DEF FlushAt, LocalsInRange, HoldsVersions, HoldsState
  <2> QED BY <2>1, <2>4, <2>5, LocksStep
<1>5. CASE PublishAddFile(t)
  <2> DEFINE j == FlushAt("last", job[t])
             f == [level |-> 0, num |-> job[t].num]
  <2>1. /\ j \in Job /\ Set(t, j) /\ held' = held /\ Len(held) = 1 /\ VersionsFree
        /\ job[t].num \in 1..MaxFileNumber /\ job[t].pc = "add"
    BY <1>0, <1>5, JobShapes DEF PublishAddFile, FlushAt, Job, memory, LocalsInRange
  <2>2. f \in File
    BY <2>1, LevelsAssumption DEF File
  <2>3. manifest' \in [files : SUBSET File, last : Nat, log : Nat, next : Nat \ {0}]
        /\ version' \subseteq File
    BY <1>5, <2>1, <2>2 DEF PublishAddFile, AddFile, MaxOf, TypeOK
  <2>4. TypeOK'
    BY <1>5, <2>1, <2>3, SetKeepsJobs DEF PublishAddFile, TypeOK, memory, files, ghosts
  <2>5. LocalsInRange(j, held') /\ job[t].pc \in HoldsState
    BY <2>1 DEF FlushAt, LocalsInRange, HoldsState
  <2> QED BY <2>1, <2>4, <2>5, LocksStep
<1>6. CASE PublishLastSequence(t)
  <2> DEFINE j == FlushAt("log", job[t])
  <2>1. /\ j \in Job /\ Set(t, j) /\ held' = held /\ Len(held) = 1
        /\ job[t].num \in 1..MaxFileNumber /\ job[t].pc = "last"
    BY <1>0, <1>6, JobShapes DEF PublishLastSequence, FlushAt, Job, memory, LocalsInRange
  <2>2. manifest' \in [files : SUBSET File, last : Nat, log : Nat, next : Nat \ {0}]
    BY <1>6 DEF PublishLastSequence, LastSequence, MaxOf, TypeOK
  <2>3. TypeOK'
    BY <1>6, <2>1, <2>2, SetKeepsJobs DEF PublishLastSequence, TypeOK, memory, files, ghosts
  <2>4. LocalsInRange(j, held') /\ job[t].pc \in HoldsState /\ job[t].pc \in HoldsVersions
    BY <2>1 DEF FlushAt, LocalsInRange, HoldsState, HoldsVersions
  <2> QED BY <2>1, <2>3, <2>4, LocksStep
<1>7. CASE PublishLogNumber(t)
  <2> DEFINE f == [level |-> 0, num |-> job[t].num]
  <2>1. /\ Set(t, Idle) /\ held' = <<>> /\ job[t].pc \in HoldsState
        /\ job[t].num \in 1..MaxFileNumber
    BY <1>0, <1>7, JobShapes DEF PublishLogNumber, HoldsState
  <2>2. f \in File
    BY <2>1, LevelsAssumption DEF File
  <2>3. manifest' \in [files : SUBSET File, last : Nat, log : Nat, next : Nat \ {0}]
        /\ tables' \subseteq File
    BY <1>7, <2>2 DEF PublishLogNumber, LogNumber, MaxOf, TypeOK
  <2>4. held' \in Seq(SUBSET Entry) /\ Len(held') <= 1
    BY <2>1
  <2>5. job' \in [Threads -> Job]
    BY <2>1, SetKeepsJobs, IdleIsJob DEF TypeOK
  <2>6. TypeOK'
    BY <1>7, <2>3, <2>4, <2>5, SMTT(30) DEF PublishLogNumber, TypeOK, files, ghosts
  <2> QED BY <1>a, <2>1, <2>6, IdleIsJob, LocksStep
<1> QED BY <1>1, <1>2, <1>3, <1>4, <1>5, <1>6, <1>7

\* A step that only gives a thread new locals outside the locked sections.
LEMMA LocalStep ==
    ASSUME TypeOK, LocksAndLocals, NEW t \in Threads, NEW j \in Job, Set(t, j),
           LocalsInRange(j, held), j.pc \notin HoldsState, j.pc \notin HoldsVersions,
           UNCHANGED <<memory, versions, files, ghosts, log, snaps, wal, writes, failures>>
    PROVE  TypeOK' /\ LocksAndLocals'
<1>1. held' = held
  BY DEF memory
<1> QED BY <1>1, LocalStepKeepsTypes, LocksStep

\* The end of a compaction returns, or goes back to the write that waited.
LEMMA FinishInRange ==
    ASSUME NEW g \in Group, NEW h
    PROVE  /\ Finish(g) \in Job /\ LocalsInRange(Finish(g), h)
           /\ Finish(g).pc \notin HoldsState /\ Finish(g).pc \notin HoldsVersions
<1>1. LocalsInRange(Finish(g), h)
  BY DEF Finish, Idle, LocalsInRange
<1>2. Finish(g).pc \notin HoldsState /\ Finish(g).pc \notin HoldsVersions
  BY DEF Finish, Idle, HoldsState, HoldsVersions
<1> QED BY <1>1, <1>2, FinishIsJob

LEMMA TypePick ==
    ASSUME TypeOK, LocksAndLocals, NEW t \in Threads, NEW r, NEW g \in Group, Pick(t, r, g)
    PROVE  TypeOK' /\ LocksAndLocals'
<1> DEFINE inputs == ManualInputs(content, version, r)
           j == [pc |-> "oldest", group |-> g, task |-> TaskForFiles(content, version, inputs)]
<1>1. CASE inputs = {}
  <2>1. Set(t, Finish(g))
    BY <1>1 DEF Pick
  <2> QED BY <2>1, FinishInRange, LocalStep DEF Pick
<1>2. CASE inputs # {}
  <2>1. Set(t, j)
    BY <1>2 DEF Pick
  <2>2. TaskForFiles(content, version, inputs) \in Task
    BY <1>2, ManualInputsSubset, TaskType DEF TypeOK
  <2> HIDE DEF inputs
  <2>3. j \in Job
    BY <2>2 DEF Job
  <2>4. LocalsInRange(j, held) /\ j.pc \notin HoldsState /\ j.pc \notin HoldsVersions
    BY DEF LocalsInRange, HoldsState, HoldsVersions
  <2> QED BY <2>1, <2>3, <2>4, LocalStep DEF Pick
<1> QED BY <1>1, <1>2

LEMMA TypeBeforeRun ==
    ASSUME TypeOK, LocksAndLocals, NEW t \in Threads,
           \/ \E r \in Ranges : CompactRange(t, r)
           \/ CompactUnderPressure(t) \/ ReadOldest(t) \/ ReadLastSequence(t)
           \/ CheckTombstones(t) \/ CompactionFails(t)
    PROVE  TypeOK' /\ LocksAndLocals'
<1>0. job[t] \in Job /\ LocalsInRange(job[t], held)
  BY DEF TypeOK, LocksAndLocals
<1>1. CASE \E r \in Ranges : CompactRange(t, r)
  <2>1. <<>> \in Group
    BY DEF Group
  <2> QED BY <1>1, <2>1, TypePick DEF CompactRange
<1>2. CASE CompactUnderPressure(t)
  <2>1. job[t].group \in Group
    BY <1>0, <1>2, JobShapes DEF CompactUnderPressure
  <2> QED BY <1>2, <2>1, TypePick DEF CompactUnderPressure
<1>3. CASE ReadOldest(t)
  <2> DEFINE oldest == {s \in ActiveSequences : \A u \in ActiveSequences : s <= u}
             j == [pc |-> "lastseq", group |-> job[t].group, task |-> job[t].task,
                   oldest |-> oldest]
  <2>1. ActiveSequences \subseteq Nat
    <3>1. \A u \in Threads : job[u].pc = "get" => job[u].seq \in Nat
      BY JobShapes DEF TypeOK
    <3> QED BY <3>1 DEF ActiveSequences, TypeOK
  <2>2. job[t].group \in Group /\ job[t].task \in Task /\ oldest \in SUBSET Nat
    BY <1>0, <1>3, <2>1, JobShapes DEF ReadOldest
  <2>3. Set(t, j)
    BY <1>3 DEF ReadOldest
  <2> HIDE DEF oldest
  <2>4. j \in Job
    BY <2>2 DEF Job
  <2>5. LocalsInRange(j, held) /\ j.pc \notin HoldsState /\ j.pc \notin HoldsVersions
    BY DEF LocalsInRange, HoldsState, HoldsVersions
  <2> QED BY <1>3, <2>3, <2>4, <2>5, LocalStep DEF ReadOldest
<1>4. CASE ReadLastSequence(t)
  <2> DEFINE w == IF job[t].oldest = {} THEN lastSequence ELSE CHOOSE s \in job[t].oldest : TRUE
             j == [pc |-> "tombstones", group |-> job[t].group, task |-> job[t].task,
                   watermark |-> w]
  <2>1. job[t].group \in Group /\ job[t].task \in Task /\ job[t].oldest \in SUBSET Nat
    BY <1>0, <1>4, JobShapes DEF ReadLastSequence
  <2>2. w \in Nat
    BY <2>1 DEF TypeOK
  <2>3. Set(t, j)
    BY <1>4 DEF ReadLastSequence
  <2> HIDE DEF w
  <2>4. j \in Job
    BY <2>1, <2>2 DEF Job
  <2>5. LocalsInRange(j, held) /\ j.pc \notin HoldsState /\ j.pc \notin HoldsVersions
    BY DEF LocalsInRange, HoldsState, HoldsVersions
  <2> QED BY <1>4, <2>3, <2>4, <2>5, LocalStep DEF ReadLastSequence
<1>5. CASE CheckTombstones(t)
  <2> DEFINE d == CanDropTombstones(content, version, job[t].task)
             j == [pc |-> "run", group |-> job[t].group, task |-> job[t].task,
                   watermark |-> job[t].watermark, drop |-> d]
  <2>1. job[t].group \in Group /\ job[t].task \in Task /\ job[t].watermark \in Nat
    BY <1>0, <1>5, JobShapes DEF CheckTombstones
  <2>2. d \in BOOLEAN
    BY DEF CanDropTombstones
  <2>3. Set(t, j)
    BY <1>5 DEF CheckTombstones
  <2> HIDE DEF d
  <2>4. j \in Job
    BY <2>1, <2>2 DEF Job
  <2>5. LocalsInRange(j, held) /\ j.pc \notin HoldsState /\ j.pc \notin HoldsVersions
    BY DEF LocalsInRange, HoldsState, HoldsVersions
  <2> QED BY <1>5, <2>3, <2>4, <2>5, LocalStep DEF CheckTombstones
<1>6. CASE CompactionFails(t)
  <2>1. Set(t, Idle) /\ LocalsInRange(Idle, held)
        /\ Idle.pc \notin HoldsState /\ Idle.pc \notin HoldsVersions
    BY <1>6 DEF CompactionFails, Idle, LocalsInRange, HoldsState, HoldsVersions
  <2> QED BY <1>6, <2>1, IdleIsJob, LocalStep DEF CompactionFails
<1> QED BY <1>1, <1>2, <1>3, <1>4, <1>5, <1>6

LEMMA CommitIsJob ==
    ASSUME NEW j, j.group \in Group, j.task \in Task,
           NEW outputs \in SUBSET (1..MaxFileNumber), NEW obsolete \in SUBSET Nat
    PROVE  Commit(j, outputs, obsolete) \in Job
<1> DEFINE adds == {[level |-> j.task.outputLevel, num |-> n] : n \in outputs}
<1>1. j.task.outputLevel \in 0..(NumLevels - 1) /\ AllInputFiles(j.task) \in SUBSET File
  BY DEF Task, AllInputFiles
<1>2. adds \in SUBSET File
  BY <1>1 DEF File
<1> HIDE DEF adds
<1>3. Commit(j, outputs, obsolete) =
        [pc |-> "commit", group |-> j.group, dels |-> AllInputFiles(j.task), adds |-> adds,
         obsolete |-> obsolete]
  BY DEF Commit, adds
<1> QED BY <1>1, <1>2, <1>3 DEF Job

\* The numbers of the files of a task are file numbers.
LEMMA TaskNumbers ==
    ASSUME NEW task \in Task
    PROVE  /\ {f.num : f \in AllInputFiles(task)} \in SUBSET Nat
           /\ {f.num : f \in task.inputFiles} \in SUBSET (1..MaxFileNumber)
BY SizesAssumption DEF Task, AllInputFiles, File

LEMMA WithOutputsType ==
    ASSUME TypeOK, NEW out \in SUBSET Entry, NEW part, NEW numbers
    PROVE  WithOutputs(out, part, numbers) \in [1..MaxFileNumber -> SUBSET Entry]
BY DEF WithOutputs, TypeOK

LEMMA TypeRun ==
    ASSUME TypeOK, LocksAndLocals, NEW t \in Threads, TrivialMove(t) \/ WriteOutputs(t)
    PROVE  TypeOK' /\ LocksAndLocals'
<1>0. job[t] \in Job /\ LocalsInRange(job[t], held) /\ job[t].pc = "run"
  BY DEF TypeOK, LocksAndLocals, TrivialMove, WriteOutputs
<1>1. job[t].group \in Group /\ job[t].task \in Task
  BY <1>0, JobShapes
<1>2. \A outputs, obsolete :
        LET j == Commit(job[t], outputs, obsolete)
        IN  LocalsInRange(j, held) /\ j.pc \notin HoldsState /\ j.pc \notin HoldsVersions
  BY DEF Commit, LocalsInRange, HoldsState, HoldsVersions
<1>3. CASE TrivialMove(t)
  <2> DEFINE outputs == {f.num : f \in job[t].task.inputFiles}
             j == Commit(job[t], outputs, {})
  <2>1. j \in Job
    BY <1>1, TaskNumbers, CommitIsJob
  <2>2. Set(t, j)
    BY <1>3 DEF TrivialMove
  <2> QED BY <1>2, <1>3, <2>1, <2>2, LocalStep DEF TrivialMove
<1>4. CASE WriteOutputs(t)
  <2> DEFINE out == Output(job[t])
             used == {f.num : f \in AllInputFiles(job[t].task)}
  <2>1. PICK n \in IF out = {} THEN {0} ELSE 1..MaxOf(1, MaxSubcompactions) :
             LET numbers == nextFile..(nextFile + n - 1)
             IN  /\ nextFile + n - 1 <= MaxFileNumber
                 /\ \E part \in Splits(out, n) : content' = WithOutputs(out, part, numbers)
                 /\ onDisk' = onDisk \cup numbers
                 /\ nextFile' = nextFile + n
                 /\ Set(t, Commit(job[t], numbers, used))
    BY <1>4 DEF WriteOutputs
  <2> DEFINE numbers == nextFile..(nextFile + n - 1)
             j == Commit(job[t], numbers, used)
  <2>2. n \in Nat
    BY SizesAssumption DEF MaxOf
  <2>3. numbers \in SUBSET (1..MaxFileNumber) /\ numbers \subseteq Nat
    <3>1. nextFile + n - 1 <= MaxFileNumber /\ nextFile \in Nat \ {0}
      BY <2>1 DEF TypeOK
    <3> QED BY <2>2, <3>1, SizesAssumption
  <2>4. j \in Job
    BY <1>1, <2>3, TaskNumbers, CommitIsJob
  <2>5. out \subseteq Entry
    BY <1>0, OutputType
  <2>6. content' \in [1..MaxFileNumber -> SUBSET Entry]
    <3>1. PICK part : content' = WithOutputs(out, part, numbers)
      BY <2>1
    <3> QED BY <2>5, <3>1, WithOutputsType
  <2>7. Set(t, j) /\ onDisk' = onDisk \cup numbers /\ nextFile' = nextFile + n
    BY <2>1
  <2> HIDE DEF numbers, out, used
  <2>8. job' \in [Threads -> Job]
    BY <2>4, <2>7, SetKeepsJobs DEF TypeOK
  <2>9. UNCHANGED <<memory, version, manifest, ghosts, log, snaps, wal, writes, failures>>
    BY <1>4 DEF WriteOutputs
  <2>10. TypeOK'
    <3> HIDE DEF j
    <3> QED BY <2>2, <2>3, <2>6, <2>7, <2>8, <2>9 DEF TypeOK, memory, ghosts
  <2>11. held' = held
    BY <2>9 DEF memory
  <2> QED BY <1>2, <2>4, <2>7, <2>10, <2>11, LocksStep
<1> QED BY <1>3, <1>4

LEMMA TypeCommit ==
    ASSUME TypeOK, LocksAndLocals, NEW t \in Threads, CommitDelete(t) \/ CommitAdd(t)
    PROVE  TypeOK' /\ LocksAndLocals'
<1> DEFINE o == job[t]
<1>0. o \in [pc : {"commit", "edits"}, group : Group, dels : SUBSET File,
              adds : SUBSET File, obsolete : SUBSET Nat]
  BY JobShapes DEF TypeOK, CommitDelete, CommitAdd
<1>1. o.pc = "edits" \/ VersionsFree
  BY <1>0 DEF CommitDelete, CommitAdd
<1>2. \A dels \in SUBSET File, adds \in SUBSET File :
        Committed(o) \in Job /\ Edits(o, dels, adds) \in Job
  BY <1>0 DEF Committed, Edits, Job
<1>3. \A dels, adds, h :
        /\ LocalsInRange(Committed(o), h) /\ LocalsInRange(Edits(o, dels, adds), h)
        /\ Committed(o).pc \notin HoldsState /\ Committed(o).pc \notin HoldsVersions
        /\ Edits(o, dels, adds).pc \notin HoldsState
  BY DEF Committed, Edits, LocalsInRange, HoldsState, HoldsVersions
<1>4. /\ manifest' \in [files : SUBSET File, last : Nat, log : Nat, next : Nat \ {0}]
      /\ version' \subseteq File
      /\ \/ Set(t, Committed(o))
         \/ \E dels \in SUBSET File, adds \in SUBSET File : Set(t, Edits(o, dels, adds))
      /\ UNCHANGED <<memory, nextFile, files, ghosts, log, snaps, wal, writes, failures>>
  <2>1. CASE CommitDelete(t)
    <3>1. PICK f \in FirstFiles(content, o.dels) :
             /\ manifest' = DeleteFile(manifest, f) /\ version' = version \ {f}
             /\ Set(t, IF o.dels = {f} /\ o.adds = {} THEN Committed(o)
                       ELSE Edits(o, o.dels \ {f}, o.adds))
      BY <2>1 DEF CommitDelete
    <3>2. o.dels \ {f} \in SUBSET File /\ o.adds \in SUBSET File
      BY <1>0
    <3>3. manifest' \in [files : SUBSET File, last : Nat, log : Nat, next : Nat \ {0}]
          /\ version' \subseteq File
      BY <3>1 DEF DeleteFile, TypeOK
    <3> HIDE DEF o
    <3> QED BY <2>1, <3>1, <3>2, <3>3 DEF CommitDelete
  <2>2. CASE CommitAdd(t)
    <3>1. PICK f \in FirstFiles(content, o.adds) :
             /\ manifest' = AddFile(manifest, f) /\ version' = version \cup {f}
             /\ Set(t, IF o.adds = {f} THEN Committed(o) ELSE Edits(o, {}, o.adds \ {f}))
      BY <2>2 DEF CommitAdd
    <3>2. o.adds \ {f} \in SUBSET File /\ {} \in SUBSET File /\ f \in File
      BY <1>0 DEF FirstFiles
    <3>4. f.num \in Nat
      BY <3>2, SizesAssumption DEF File
    <3>3. manifest' \in [files : SUBSET File, last : Nat, log : Nat, next : Nat \ {0}]
          /\ version' \subseteq File
      BY <3>1, <3>2, <3>4 DEF AddFile, MaxOf, TypeOK
    <3> HIDE DEF o
    <3> QED BY <2>2, <3>1, <3>2, <3>3 DEF CommitAdd
  <2> QED BY <2>1, <2>2
<1>5. PICK j \in Job :
        /\ Set(t, j) /\ LocalsInRange(j, held') /\ j.pc \notin HoldsState
        /\ j.pc \in HoldsVersions => VersionsFree \/ o.pc = "edits"
  <2> HIDE DEF o
  <2> QED BY <1>1, <1>2, <1>3, <1>4
<1>6. TypeOK'
  BY <1>4, <1>5, SetKeepsJobs DEF TypeOK, memory, files, ghosts
<1>7. held' = held /\ (o.pc = "edits" => o.pc \in HoldsVersions)
  BY <1>4 DEF memory, HoldsVersions
<1> QED BY <1>5, <1>6, <1>7, LocksStep

LEMMA TypeInstall ==
    ASSUME TypeOK, LocksAndLocals, NEW t \in Threads,
           LoadVersion(t) \/ InstallTables(t) \/ DeleteObsoleteFiles(t)
    PROVE  TypeOK' /\ LocksAndLocals'
<1>0. /\ job[t] \in Job /\ job[t].group \in Group /\ job[t].obsolete \in SUBSET Nat
      /\ job[t].pc = "install" => job[t].loaded \in SUBSET File
  BY JobShapes DEF TypeOK, LoadVersion, InstallTables, DeleteObsoleteFiles
<1>1. CASE LoadVersion(t)
  <2> DEFINE j == [pc |-> "install", group |-> job[t].group, obsolete |-> job[t].obsolete,
                   loaded |-> version]
  <2>1. j \in Job /\ Set(t, j)
    BY <1>0, <1>1 DEF LoadVersion, Job, TypeOK
  <2>2. LocalsInRange(j, held) /\ j.pc \notin HoldsState /\ j.pc \notin HoldsVersions
    BY DEF LocalsInRange, HoldsState, HoldsVersions
  <2> QED BY <1>1, <2>1, <2>2, LocalStep DEF LoadVersion
<1>2. CASE InstallTables(t)
  <2> DEFINE u == [pc |-> "unlink", group |-> job[t].group, obsolete |-> job[t].obsolete]
             j == IF job[t].obsolete = {} THEN Finish(job[t].group) ELSE u
  <2>1. u \in Job
    BY <1>0 DEF Job
  <2>2. LocalsInRange(u, held') /\ u.pc \notin HoldsState /\ u.pc \notin HoldsVersions
    BY DEF LocalsInRange, HoldsState, HoldsVersions
  <2> HIDE DEF u
  <2>3. /\ j \in Job /\ LocalsInRange(j, held')
        /\ j.pc \notin HoldsState /\ j.pc \notin HoldsVersions
    BY <1>0, <2>1, <2>2, FinishInRange
  <2>4. Set(t, j) /\ tables' \subseteq File /\ held' = held
        /\ UNCHANGED <<mutable, immutables, held, lastSequence, status, versions, files,
                       ghosts, log, snaps, wal, writes, failures>>
    BY <1>0, <1>2 DEF InstallTables, u
  <2> HIDE DEF j
  <2>5. TypeOK'
    BY <2>3, <2>4, SetKeepsJobs DEF TypeOK, versions, files, ghosts
  <2> QED BY <2>3, <2>4, <2>5, LocksStep
<1>3. CASE DeleteObsoleteFiles(t)
  <2>1. Set(t, Finish(job[t].group)) /\ held' = held /\ onDisk' \subseteq onDisk
        /\ UNCHANGED <<memory, versions, content, ghosts, log, snaps, wal, writes, failures>>
    BY <1>3 DEF DeleteObsoleteFiles, memory
  <2>2. TypeOK'
    BY <1>0, <2>1, FinishInRange, SetKeepsJobs DEF TypeOK, memory, versions, ghosts
  <2> QED BY <1>0, <2>1, <2>2, FinishInRange, LocksStep
<1> QED BY <1>1, <1>2, <1>3

LEMMA GotIsJob ==
    ASSUME TypeOK, NEW found, found \subseteq Entry, NEW ok \in BOOLEAN, NEW k, NEW s
    PROVE  /\ Got(found, ok, k, s) \in Job /\ LocalsInRange(Got(found, ok, k, s), held)
           /\ Got(found, ok, k, s).pc \notin HoldsState
           /\ Got(found, ok, k, s).pc \notin HoldsVersions
<1> DEFINE want == Visible(Newest(history, k, s))
<1>1. Visible(found) \in SUBSET Nat
  BY DEF Visible, Entry
<1>2. want \in SUBSET Nat
  BY DEF Visible, Newest, VersionsOf, TypeOK, Entry
<1> HIDE DEF want
<1>3. Got(found, ok, k, s) =
        [pc |-> "got", ok |-> ok, result |-> Visible(found), want |-> want]
  BY DEF Got, want
<1>4. Got(found, ok, k, s) \in Job
  BY <1>1, <1>2, <1>3 DEF Job
<1> QED BY <1>3, <1>4 DEF LocalsInRange, HoldsState, HoldsVersions

LEMMA MemtablesType ==
    TypeOK => Memtables \in Seq(SUBSET Entry)
<1> SUFFICES ASSUME TypeOK PROVE Memtables \in Seq(SUBSET Entry)
  OBVIOUS
<1>1. <<mutable>> \in Seq(SUBSET Entry)
  BY Singleton DEF TypeOK
<1> QED BY <1>1 DEF TypeOK, Memtables

LEMMA TypeReads ==
    ASSUME TypeOK, LocksAndLocals, NEW t \in Threads,
           \/ \E k \in Keys : \E pin \in {{}} \cup {{s} : s \in snaps} : GetMemtables(t, k, pin)
           \/ GetTables(t) \/ ReturnGet(t) \/ Close(t)
    PROVE  TypeOK' /\ LocksAndLocals'
<1>1. CASE \E k \in Keys : \E pin \in {{}} \cup {{s} : s \in snaps} : GetMemtables(t, k, pin)
  <2> PICK k \in Keys, pin \in {{}} \cup {{s} : s \in snaps} : GetMemtables(t, k, pin)
    BY <1>1
  <2> DEFINE s == IF pin = {} THEN lastSequence ELSE (CHOOSE p \in pin : TRUE).seq
             found == MemGet(Memtables, k, s)
             p == pin # {}
             j == [pc |-> "get", key |-> k, seq |-> s, pinned |-> p, files |-> tables]
  <2>1. s \in Nat
    BY DEF TypeOK
  <2>2. found \subseteq Entry
    <3>1. \A i \in DOMAIN Memtables : Memtables[i] \subseteq Entry
      BY MemtablesType
    <3> QED BY <3>1 DEF MemGet, Newest, VersionsOf
  <2>3. Set(t, IF found # {} THEN Got(found, TRUE, k, s) ELSE j)
    BY DEF GetMemtables
  <2>4. p \in BOOLEAN
    OBVIOUS
  <2> HIDE DEF s, found, p
  <2>5. j \in Job
    BY <2>1, <2>4 DEF Job, TypeOK
  <2>6. LocalsInRange(j, held) /\ j.pc \notin HoldsState /\ j.pc \notin HoldsVersions
    BY DEF LocalsInRange, HoldsState, HoldsVersions
  <2> HIDE DEF j
  <2>7. UNCHANGED <<memory, versions, files, ghosts, log, snaps, wal, writes, failures>>
    BY DEF GetMemtables
  <2>8. CASE found # {}
    BY <2>2, <2>3, <2>7, <2>8, GotIsJob, LocalStep
  <2>9. CASE found = {}
    BY <2>3, <2>5, <2>6, <2>7, <2>9, LocalStep
  <2> QED BY <2>8, <2>9
<1>2. CASE GetTables(t)
  <2> DEFINE found == TableGet(content, job[t].files, job[t].key, job[t].seq)
  <2>1. job[t].files \in SUBSET File
    BY <1>2, JobShapes DEF GetTables, TypeOK
  <2>2. found \subseteq Entry
    <3>1. \A f \in job[t].files : content[f.num] \subseteq Entry
      BY <2>1 DEF TypeOK, File
    <3> QED BY <3>1 DEF TableGet, FirstFiles, FilesWithHit, Candidates, Newest, VersionsOf
  <2>3. PICK ok \in BOOLEAN : Set(t, Got(found, ok, job[t].key, job[t].seq))
    BY <1>2 DEF GetTables
  <2> HIDE DEF found
  <2> QED BY <1>2, <2>2, <2>3, GotIsJob, LocalStep DEF GetTables
<1>3. CASE ReturnGet(t)
  <2>1. Set(t, Idle) /\ LocalsInRange(Idle, held)
        /\ Idle.pc \notin HoldsState /\ Idle.pc \notin HoldsVersions
    BY <1>3 DEF ReturnGet, Idle, LocalsInRange, HoldsState, HoldsVersions
  <2> QED BY <1>3, <2>1, IdleIsJob, LocalStep DEF ReturnGet
<1>4. CASE Close(t)
  BY <1>4 DEF Close, TypeOK, LocksAndLocals, versions, files, ghosts
<1> QED BY <1>1, <1>2, <1>3, <1>4

LEMMA TypeSnapshots ==
    ASSUME TypeOK, LocksAndLocals, NEW h \in Holders, TakeSnapshot(h) \/ DropSnapshot(h)
    PROVE  TypeOK' /\ LocksAndLocals'
<1>1. /\ snaps' \subseteq [holder : Holders, seq : Nat]
      /\ UNCHANGED <<memory, versions, files, ghosts, log, job, wal, writes, failures>>
  BY DEF TakeSnapshot, DropSnapshot, TypeOK
<1> QED BY <1>1 DEF TypeOK, LocksAndLocals, memory, versions, files, ghosts

\* A call that ends with an error.
LEMMA EndOfCall ==
    ASSUME TypeOK, LocksAndLocals, NEW t \in Threads, Set(t, Idle),
           held' = held \/ job[t].pc \in HoldsState
    PROVE  LocksAndLocals' /\ job' \in [Threads -> Job]
<1>1. LocalsInRange(Idle, held') /\ Idle.pc \notin HoldsState /\ Idle.pc \notin HoldsVersions
  BY DEF LocalsInRange, Idle, HoldsState, HoldsVersions
<1>2. job' \in [Threads -> Job]
  BY IdleIsJob, SetKeepsJobs DEF TypeOK
<1> QED BY <1>1, <1>2, IdleIsJob, LocksStep

LEMMA FailureType ==
    ASSUME TypeOK, NEW kind, Fail(kind) PROVE failures' \in Nat
BY DEF Fail, TypeOK

\* The restored memtable is back in the sequence or in its place.
LEMMA RestoreType ==
    ASSUME TypeOK, Len(held) = 1, NEW source, Restore(source)
    PROVE  /\ mutable' \subseteq Entry /\ immutables' \in Seq(SUBSET Entry)
           /\ held' \in Seq(SUBSET Entry) /\ Len(held') <= 1
<1>1. held \in Seq(SUBSET Entry) /\ immutables \in Seq(SUBSET Entry) /\ held[1] \in SUBSET Entry
  <2>1. held \in Seq(SUBSET Entry) /\ 1 \in 1..Len(held) /\ immutables \in Seq(SUBSET Entry)
    BY DEF TypeOK
  <2> QED BY <2>1, ElementType
<1>2. held \o immutables \in Seq(SUBSET Entry) /\ Append(immutables, held[1]) \in Seq(SUBSET Entry)
  BY <1>1
<1>3. held' = <<>> /\ (mutable' = mutable \/ mutable' = held[1])
  BY DEF Restore
<1>4. \/ immutables' = immutables \/ immutables' = held \o immutables
      \/ immutables' = Append(immutables, held[1])
  BY DEF Restore
<1>5. held' \in Seq(SUBSET Entry) /\ Len(held') <= 1
  BY <1>3
<1>6. mutable' \subseteq Entry
  BY <1>1, <1>3 DEF TypeOK
<1>7. immutables' \in Seq(SUBSET Entry)
  BY <1>1, <1>2, <1>4
<1> QED BY <1>5, <1>6, <1>7

LEMMA TypeFailures ==
    ASSUME TypeOK, LocksAndLocals, NEW t \in Threads,
           WalFails(t) \/ FlushFails(t) \/ PublishFails(t) \/ OutputsFail(t) \/ CommitFails(t)
    PROVE  TypeOK' /\ LocksAndLocals'
<1>0. job[t] \in Job /\ LocalsInRange(job[t], held)
  BY DEF TypeOK, LocksAndLocals
<1>1. CASE WalFails(t)
  <2> DEFINE o == job[t]
             b == o.group[Len(o.starts) + 1]
  <2>1. /\ o \in [pc : {"wal"}, group : Group, starts : Seq(Nat), next : Nat]
        /\ o.pc = "wal" /\ Len(o.starts) < Len(o.group)
    BY <1>0, <1>1, JobShapes DEF WalFails, LocalsInRange
  <2>2. b \in Batch
    BY <2>1, GroupFacts
  <2>3. BatchEntries(b, o.next) \subseteq Entry
    BY <2>1, <2>2, BatchEntriesType
  <2> HIDE DEF b
  <2>4. /\ Set(t, Idle) /\ failures' \in Nat
        /\ wal' \subseteq wal \cup {[log |-> log, entry |-> e] : e \in BatchEntries(b, o.next)}
    BY <1>1, FailureType DEF WalFails, WithRecord, b
  <2>5. UNCHANGED <<memory, versions, files, ghosts, log, snaps, writes>> /\ held' = held
    BY <1>1 DEF WalFails, memory
  <2>6. LocksAndLocals' /\ job' \in [Threads -> Job]
    BY <2>4, <2>5, EndOfCall
  <2> QED BY <2>3, <2>4, <2>5, <2>6 DEF TypeOK, memory, versions, files, ghosts
<1>2. CASE FlushFails(t)
  <2>1. /\ Set(t, Idle) /\ job[t].pc \in HoldsState /\ Len(held) = 1
        /\ job[t].num \in 1..MaxFileNumber /\ failures' \in Nat /\ Restore(job[t].source)
    BY <1>0, <1>2, JobShapes, FailureType DEF FlushFails, HoldsState, LocalsInRange
  <2>2. held[1] \in SUBSET Entry
    <3>1. held \in Seq(SUBSET Entry) /\ 1 \in 1..Len(held)
      BY <2>1 DEF TypeOK
    <3> QED BY <3>1, ElementType
  <2>3. content' \in [1..MaxFileNumber -> SUBSET Entry] /\ onDisk' \subseteq Nat
    BY <1>2, <2>1, <2>2, RenameTableType DEF FlushFails, files, TypeOK
  <2>4. LocksAndLocals' /\ job' \in [Threads -> Job]
    BY <2>1, EndOfCall
  <2>5. UNCHANGED <<tables, lastSequence, status, versions, ghosts, log, snaps, wal, writes>>
    BY <1>2 DEF FlushFails
  <2> QED BY <2>1, <2>3, <2>4, <2>5, RestoreType DEF TypeOK, versions, ghosts
<1>3. CASE PublishFails(t)
  <2>1. /\ Set(t, Idle) /\ job[t].pc \in HoldsState /\ Len(held) = 1
        /\ job[t].num \in 1..MaxFileNumber /\ failures' \in Nat /\ Restore(job[t].source)
    BY <1>0, <1>3, JobShapes, FailureType DEF PublishFails, HoldsState, LocalsInRange
  <2>2. manifest' \in [files : SUBSET File, last : Nat, log : Nat, next : Nat \ {0}]
    <3>1. CASE manifest' = manifest
      BY <3>1 DEF TypeOK
    <3>2. CASE manifest' = AddFile(manifest, [level |-> 0, num |-> job[t].num])
      <4>1. [level |-> 0, num |-> job[t].num] \in File
        BY <2>1, LevelsAssumption DEF File
      <4> QED BY <2>1, <3>2, <4>1 DEF AddFile, MaxOf, TypeOK
    <3>3. CASE manifest' = LastSequence(manifest, lastSequence)
      BY <3>3 DEF LastSequence, MaxOf, TypeOK
    <3>4. CASE manifest' = LogNumber(manifest, nextFile)
      BY <3>4 DEF LogNumber, MaxOf, TypeOK
    <3> QED BY <1>3, <3>1, <3>2, <3>3, <3>4 DEF PublishFails, NextPublished
  <2>3. nextFile' \in Nat \ {0}
    BY <1>3 DEF PublishFails, TypeOK
  <2>4. LocksAndLocals' /\ job' \in [Threads -> Job]
    BY <2>1, EndOfCall
  <2>5. UNCHANGED <<tables, lastSequence, status, version, files, ghosts, log, snaps, wal, writes>>
    BY <1>3 DEF PublishFails
  <2> QED BY <2>1, <2>2, <2>3, <2>4, <2>5, RestoreType DEF TypeOK, files, ghosts
<1>4. CASE OutputsFail(t)
  <2> DEFINE out == Output(job[t])
  <2>1. /\ Set(t, Idle) /\ failures' \in Nat /\ job[t].pc = "run"
        /\ UNCHANGED <<memory, version, manifest, ghosts, log, snaps, wal, writes>>
    BY <1>4, FailureType DEF OutputsFail
  <2>2. PICK n \in 1..MaxOf(1, MaxSubcompactions) :
          /\ \E part \in Splits(out, n), written \in SUBSET (nextFile..(nextFile + n - 1)) :
                /\ content' = WithOutputs(out, part, written)
                /\ onDisk' = onDisk \cup written
          /\ nextFile' = nextFile + n
    BY <1>4 DEF OutputsFail
  <2>3. n \in Nat /\ nextFile..(nextFile + n - 1) \subseteq Nat
    BY SizesAssumption DEF MaxOf, TypeOK
  <2>4. out \in SUBSET Entry
    BY <2>1, OutputType
  <2> HIDE DEF out
  <2>5. content' \in [1..MaxFileNumber -> SUBSET Entry] /\ onDisk' \subseteq Nat
    <3>1. PICK part, written : /\ written \subseteq Nat
                               /\ content' = WithOutputs(out, part, written)
                               /\ onDisk' = onDisk \cup written
      BY <2>2, <2>3
    <3> QED BY <2>4, <3>1, WithOutputsType DEF TypeOK
  <2>6. LocksAndLocals' /\ job' \in [Threads -> Job]
    BY <2>1, EndOfCall DEF memory
  <2> QED BY <2>1, <2>2, <2>3, <2>5, <2>6 DEF TypeOK, memory, ghosts
<1>5. CASE CommitFails(t)
  <2>1. /\ Set(t, Idle) /\ failures' \in Nat
        /\ UNCHANGED <<memory, version, nextFile, files, ghosts, log, snaps, wal, writes>>
    BY <1>5, FailureType DEF CommitFails
  <2>2. job[t].dels \in SUBSET File /\ job[t].adds \in SUBSET File
    BY <1>0, <1>5, JobShapes DEF CommitFails
  <2>3. manifest' \in [files : SUBSET File, last : Nat, log : Nat, next : Nat \ {0}]
    <3>1. CASE manifest' = manifest
      BY <3>1 DEF TypeOK
    <3>2. ASSUME NEW f \in File, manifest' = DeleteFile(manifest, f) \/ manifest' = AddFile(manifest, f)
          PROVE  manifest' \in [files : SUBSET File, last : Nat, log : Nat, next : Nat \ {0}]
      <4>1. f.num \in Nat
        BY SizesAssumption DEF File
      <4> QED BY <3>2, <4>1 DEF DeleteFile, AddFile, MaxOf, TypeOK
    <3>3. \/ manifest' = manifest
          \/ \E f \in File : manifest' = DeleteFile(manifest, f) \/ manifest' = AddFile(manifest, f)
      BY <1>5, <2>2 DEF CommitFails, FirstFiles
    <3> QED BY <3>1, <3>2, <3>3
  <2>4. LocksAndLocals' /\ job' \in [Threads -> Job]
    BY <2>1, EndOfCall DEF memory
  <2> QED BY <2>1, <2>3, <2>4 DEF TypeOK, memory, files, ghosts
<1> QED BY <1>1, <1>2, <1>3, <1>4, <1>5

LEMMA IdleLocks ==
    ASSUME job = [t \in Threads |-> Idle] PROVE LocksAndLocals
BY DEF LocksAndLocals, LocalsInRange, Idle, HoldsState, HoldsVersions

LEMMA TypeCrash ==
    ASSUME TypeOK, LocksAndLocals, CrashAndOpen
    PROVE  TypeOK' /\ LocksAndLocals'
<1> DEFINE replayed == WalEntries(wal, manifest.log)
<1>1. replayed \subseteq Entry
  BY DEF WalEntries, TypeOK
<1>2. job' = [t \in Threads |-> Idle]
  BY DEF CrashAndOpen
<1>3. job' \in [Threads -> Job] /\ LocksAndLocals'
  <2>1. LocksAndLocals'
    BY <1>2 DEF LocksAndLocals, LocalsInRange, Idle, HoldsState, HoldsVersions
  <2> QED BY <1>2, <2>1, IdleIsJob
<1>4. /\ mutable' \subseteq Entry /\ lastSequence' \in Nat /\ history' \subseteq Entry
      /\ status' \in {"open", "closed", "broken"} /\ failures' \in Nat
      /\ tables' \subseteq File /\ version' \subseteq File
      /\ nextFile' \in Nat \ {0} /\ log' \in Nat
      /\ snaps' = {} /\ immutables' = <<>> /\ held' = <<>>
  BY <1>1 DEF CrashAndOpen, Fail, TypeOK, Entry
<1>5. immutables' \in Seq(SUBSET Entry) /\ held' \in Seq(SUBSET Entry) /\ Len(held') <= 1
  BY <1>4
<1>6. UNCHANGED <<manifest, wal, files, unlogged, writes>>
  BY DEF CrashAndOpen
<1> QED BY <1>3, <1>4, <1>5, <1>6 DEF TypeOK, files

LEMMA TypeStep ==
    TypeOK /\ LocksAndLocals /\ [Next]_vars => TypeOK' /\ LocksAndLocals'
<1> SUFFICES ASSUME TypeOK, LocksAndLocals, [Next]_vars PROVE TypeOK' /\ LocksAndLocals'
  OBVIOUS
<1>1. ASSUME NEW t \in Threads, ThreadStep(t) PROVE TypeOK' /\ LocksAndLocals'
  BY <1>1, TypeWrite, TypeFlush, TypeBeforeRun, TypeRun, TypeCommit, TypeInstall, TypeReads,
     TypeFailures DEF ThreadStep
<1>2. CASE UNCHANGED vars
  BY <1>2 DEF vars, memory, versions, files, ghosts, TypeOK, LocksAndLocals
<1> QED BY <1>1, <1>2, TypeSnapshots, TypeCrash DEF Next

\* The engine keeps every variable and every thread's locals well-typed, and
\* the sections under DBInner::state and DBInner::versions stay exclusive.
THEOREM TypeCorrect == Spec => [](TypeOK /\ LocksAndLocals)
<1>1. Init => TypeOK /\ LocksAndLocals
  BY TypeInit, IdleLocks DEF Init
<1> QED BY <1>1, TypeStep, PTL DEF Spec

-----------------------------------------------------------------------------
(* File and sequence numbers *)

LEMMA JobFilesType ==
    ASSUME TypeOK, NEW u \in Threads
    PROVE  JobFiles(job[u]) \subseteq File
           /\ \A f \in JobFiles(job[u]) : f.num \in Nat
<1>1. job[u] \in Job
  BY DEF TypeOK
<1>2. JobFiles(job[u]) \subseteq File
  BY <1>1, JobShapes DEF JobFiles, AllInputFiles, Task
<1> QED BY <1>2, SizesAssumption DEF File

LEMMA FlushNumType ==
    ASSUME TypeOK, NEW u \in Threads, job[u].pc \in FlushPcs
    PROVE  job[u].num \in 1..MaxFileNumber /\ job[u].num \in Nat
<1>1. job[u] \in [pc : FlushPcs, num : 1..MaxFileNumber, source : {"mutable", "immutable"}]
  BY JobShapes DEF TypeOK, FlushPcs
<1> QED BY <1>1, SizesAssumption

LEMMA ManifestType ==
    TypeOK => /\ \A f \in manifest.files : f \in File /\ f.num \in Nat
              /\ \A f \in KnownFiles : f.num \in Nat
              /\ manifest.next \in Nat /\ manifest.log \in Nat /\ nextFile \in Nat
              /\ manifest.last \in Nat /\ log \in Nat
BY SizesAssumption DEF TypeOK, File, KnownFiles

\* A step of thread t that leaves the manifest alone.
LEMMA NumbersLocal ==
    ASSUME TypeOK, NumbersInv, NEW t \in Threads, NEW j, Set(t, j),
           UNCHANGED <<version, manifest, log>>, nextFile' \in Nat, nextFile' >= nextFile,
           \A r \in wal' : r \in wal \/ r.log = log,
           \A f \in JobFiles(j) :
              /\ f.num < nextFile'
              /\ \A u \in Threads : job[u].pc = "sst" /\ u # t => f.num # job[u].num,
           j.pc \in FlushPcs => j.num < nextFile',
           j.pc = "sst" => /\ \A f \in KnownFiles : f.num # j.num
                           /\ \A u \in Threads : \A f \in JobFiles(job[u]) : f.num # j.num
    PROVE  NumbersInv'
<1>1. \A u \in Threads : job'[u] = IF u = t THEN j ELSE job[u]
  BY DEF TypeOK, Set
<1>2. /\ KnownFiles' = KnownFiles /\ log' < manifest'.next
      /\ \A f \in KnownFiles' : f.num < manifest'.next
      /\ manifest'.log < manifest'.next /\ manifest'.next <= nextFile'
      /\ \A r \in wal' : r.log < manifest'.next
  <2>1. KnownFiles' = KnownFiles
    BY DEF KnownFiles
  <2> QED BY <2>1, ManifestType DEF NumbersInv
<1>3. ASSUME NEW u \in Threads, NEW f \in JobFiles(job'[u]) PROVE f.num < nextFile'
  <2>1. CASE u = t
    BY <1>1, <1>3, <2>1
  <2>2. CASE u # t
    <3>1. f \in JobFiles(job[u]) /\ f.num < nextFile
      BY <1>1, <1>3, <2>2 DEF NumbersInv
    <3> QED BY <3>1, JobFilesType, ManifestType
  <2> QED BY <2>1, <2>2
<1>4. ASSUME NEW u \in Threads, job'[u].pc \in FlushPcs PROVE job'[u].num < nextFile'
  <2>1. CASE u = t
    BY <1>1, <1>4, <2>1
  <2>2. CASE u # t
    <3>1. job'[u] = job[u] /\ job[u].num < nextFile
      BY <1>1, <1>4, <2>2 DEF NumbersInv, FlushPcs
    <3> QED BY <1>4, <3>1, FlushNumType, ManifestType
  <2> QED BY <2>1, <2>2
<1>5. ASSUME NEW u \in Threads, job'[u].pc = "sst"
      PROVE  /\ \A f \in KnownFiles' : f.num # job'[u].num
             /\ \A w \in Threads : \A f \in JobFiles(job'[w]) : f.num # job'[u].num
  <2>1. CASE u = t
    <3>1. job'[u] = j /\ JobFiles(j) = {}
      BY <1>1, <1>5, <2>1 DEF JobFiles
    <3>2. ASSUME NEW w \in Threads, NEW f \in JobFiles(job'[w]) PROVE f.num # j.num
      BY <1>1, <1>5, <2>1, <3>1, <3>2
    <3> QED BY <1>2, <1>5, <3>1, <3>2
  <2>2. CASE u # t
    <3>1. job'[u] = job[u]
      BY <1>1, <2>2
    <3>2. ASSUME NEW w \in Threads, NEW f \in JobFiles(job'[w]) PROVE f.num # job[u].num
      BY <1>1, <1>5, <2>2, <3>1, <3>2 DEF NumbersInv
    <3> QED BY <1>2, <1>5, <3>1, <3>2 DEF NumbersInv
  <2> QED BY <2>1, <2>2
<1> QED BY <1>2, <1>3, <1>4, <1>5 DEF NumbersInv, FlushPcs

\* Steps that get no new files into their hands.
LEMMA NumbersQuiet ==
    ASSUME TypeOK, NumbersInv, NEW t \in Threads, NEW j, Set(t, j),
           UNCHANGED <<version, manifest, log, nextFile>>,
           \A r \in wal' : r \in wal \/ r.log = log,
           JobFiles(j) \subseteq JobFiles(job[t]), j.pc \notin FlushPcs
    PROVE  NumbersInv'
<1>1. \A f \in JobFiles(j) :
         /\ f.num < nextFile'
         /\ \A u \in Threads : job[u].pc = "sst" /\ u # t => f.num # job[u].num
  BY DEF NumbersInv
<1>2. nextFile' \in Nat /\ nextFile' >= nextFile /\ j.pc # "sst"
  BY ManifestType DEF FlushPcs
<1> QED BY <1>1, <1>2, NumbersLocal

\* ... because they end up where a thread has none.
LEMMA NoFiles ==
    ASSUME NEW j, j.pc \in {"idle", "flush", "pressure", "lock", "wal", "apply", "load",
                            "install", "unlink", "get", "got"}
    PROVE  JobFiles(j) = {} /\ j.pc \notin FlushPcs
BY DEF JobFiles, FlushPcs

\* What a leader is left with when a batch was applied or could not be logged.
LEMMA ApplySets ==
    ASSUME NEW t \in Threads, ApplyItem(t)
    PROVE  \E j : Set(t, j) /\ j.pc \in {"idle", "flush", "apply"}
<1>1. ASSUME NEW group, NEW starts, NEW item, NEW flush
      PROVE  [pc |-> "apply", group |-> group, starts |-> starts, item |-> item,
              shouldFlush |-> flush].pc = "apply"
  OBVIOUS
<1>2. Idle.pc = "idle" /\ [pc |-> "flush"].pc = "flush"
  BY DEF Idle
<1> DEFINE o == job[t]
           flush == \/ o.shouldFlush
                    \/ IsFull(Insert(mutable, BatchEntries(o.group[o.item], o.starts[o.item])))
           more == [pc |-> "apply", group |-> o.group, starts |-> o.starts,
                    item |-> o.item + 1, shouldFlush |-> flush]
<1>3. Set(t, IF o.item < Len(o.group) THEN more ELSE IF flush THEN [pc |-> "flush"] ELSE Idle)
  BY Zenon DEF ApplyItem
<1>4. more.pc = "apply"
  BY <1>1
<1> HIDE DEF o, more, flush
<1> QED BY <1>2, <1>3, <1>4

LEMMA WalFailsSets ==
    ASSUME NEW t \in Threads, WalFails(t)
    PROVE  /\ Set(t, Idle) /\ Idle.pc = "idle"
           /\ UNCHANGED <<version, content, manifest, log, nextFile>>
           /\ \A r \in wal' : r \in wal \/ r.log = log
<1>1. Set(t, Idle) /\ UNCHANGED <<versions, files, log>>
  BY Zenon DEF WalFails
<1>2. UNCHANGED <<version, content, manifest, log, nextFile>>
  BY <1>1 DEF versions, files
<1>3. \E b, s : wal' = wal \/ wal' = WithRecord(b, s)
  BY Zenon DEF WalFails
<1>4. \A r \in wal' : r \in wal \/ r.log = log
  <2>1. PICK b, s : wal' = wal \/ wal' = WithRecord(b, s)
    BY <1>3
  <2> QED BY <2>1 DEF WithRecord
<1>5. Idle.pc = "idle"
  BY DEF Idle
<1> QED BY <1>1, <1>2, <1>4, <1>5

LEMMA NumbersWrite ==
    ASSUME TypeOK, NumbersInv, NEW t \in Threads,
           (\E g \in Groups : BeginWrite(t, g)) \/ LockState(t) \/ AppendWal(t) \/ ApplyItem(t)
    PROVE  NumbersInv'
<1>1. PICK j : Set(t, j) /\ j.pc \in {"idle", "flush", "pressure", "lock", "wal", "apply"}
  <2>1. CASE \E g \in Groups : BeginWrite(t, g)
    BY <2>1 DEF BeginWrite
  <2>2. CASE LockState(t)
    BY <2>2 DEF LockState, Idle
  <2>3. CASE AppendWal(t)
    BY <2>3 DEF AppendWal
  <2>4. CASE ApplyItem(t)
    BY <2>4, ApplySets
  <2> QED BY <2>1, <2>2, <2>3, <2>4
<1>2. UNCHANGED <<version, manifest, log, nextFile>>
  BY DEF BeginWrite, LockState, AppendWal, ApplyItem, versions
<1>3. \A r \in wal' : r \in wal \/ r.log = log
  <2>1. CASE AppendWal(t)
    BY <2>1 DEF AppendWal, WithRecord
  <2>2. CASE ~AppendWal(t)
    <3>1. wal' = wal
      BY <2>2 DEF BeginWrite, LockState, ApplyItem
    <3> QED BY <3>1
  <2> QED BY <2>1, <2>2
<1> QED BY <1>1, <1>2, <1>3, NoFiles, NumbersQuiet

LEMMA NumbersFlush ==
    ASSUME TypeOK, LocksAndLocals, NumbersInv, NEW t \in Threads,
           FlushNothing(t) \/ FlushRefused(t) \/ BeginFlush(t) \/ WriteL0Table(t)
    PROVE  NumbersInv'
<1>1. CASE FlushNothing(t)
  <2>1. /\ Set(t, Idle) /\ Idle.pc = "idle" /\ wal' = wal
        /\ UNCHANGED <<version, manifest, log, nextFile>>
    BY <1>1 DEF FlushNothing, Idle, versions
  <2>2. \A r \in wal' : r \in wal \/ r.log = log
    BY <2>1
  <2> QED BY <2>1, <2>2, NoFiles, NumbersQuiet
<1>2. CASE FlushRefused(t)
  <2>1. /\ Set(t, Idle) /\ Idle.pc = "idle" /\ wal' = wal
        /\ UNCHANGED <<version, manifest, log>> /\ nextFile' = nextFile + 1
    BY <1>2 DEF FlushRefused, Idle
  <2>2. \A r \in wal' : r \in wal \/ r.log = log
    BY <2>1
  <2>3. nextFile' \in Nat /\ nextFile' >= nextFile /\ JobFiles(Idle) = {}
        /\ Idle.pc \notin FlushPcs /\ Idle.pc # "sst"
    BY <2>1, NoFiles, ManifestType
  <2> QED BY <2>1, <2>2, <2>3, NumbersLocal
<1>3. CASE BeginFlush(t)
  <2>1. PICK source :
          /\ Set(t, [pc |-> "sst", num |-> nextFile, source |-> source]) /\ wal' = wal
          /\ UNCHANGED <<version, manifest, log>> /\ nextFile' = nextFile + 1
    BY <1>3 DEF BeginFlush
  <2> DEFINE j == [pc |-> "sst", num |-> nextFile, source |-> source]
  <2>2. \A r \in wal' : r \in wal \/ r.log = log
    BY <2>1
  <2>3. nextFile' \in Nat /\ nextFile' >= nextFile /\ JobFiles(j) = {} /\ j.num < nextFile'
    BY <2>1, ManifestType DEF JobFiles
  <2>4. \A f \in KnownFiles : f.num # j.num
    BY ManifestType DEF NumbersInv
  <2>5. ASSUME NEW u \in Threads, NEW f \in JobFiles(job[u]) PROVE f.num # j.num
    <3>1. f.num < nextFile /\ f.num \in Nat
      BY JobFilesType DEF NumbersInv
    <3> QED BY <3>1, ManifestType
  <2>6. Set(t, j)
    BY <2>1
  <2> HIDE DEF j
  <2> QED BY <2>1, <2>2, <2>3, <2>4, <2>5, <2>6, NumbersLocal
<1>4. CASE WriteL0Table(t)
  <2> DEFINE j == FlushAt("add", job[t])
  <2>1. /\ Set(t, j) /\ wal' = wal /\ job[t].pc \in FlushPcs
        /\ UNCHANGED <<version, manifest, log, nextFile>>
    BY <1>4 DEF WriteL0Table, versions, FlushPcs
  <2>2. \A r \in wal' : r \in wal \/ r.log = log
    BY <2>1
  <2>3. nextFile' \in Nat /\ nextFile' >= nextFile /\ JobFiles(j) = {} /\ j.num < nextFile'
        /\ j.pc # "sst"
    BY <2>1, ManifestType DEF JobFiles, NumbersInv, FlushPcs, FlushAt
  <2> HIDE DEF j
  <2> QED BY <2>1, <2>2, <2>3, NumbersLocal
<1> QED BY <1>1, <1>2, <1>3, <1>4

\* While t is past the table it flushes, nobody else is writing one.
LEMMA OneFlush ==
    ASSUME LocksAndLocals, NEW t \in Threads, job[t].pc \in FlushPcs, job[t].pc # "sst"
    PROVE  \A u \in Threads : job[u].pc # "sst"
BY DEF LocksAndLocals, FlushPcs, HoldsState

\* A step of thread t that edits the manifest, nobody writing a table.
LEMMA NumbersEdit ==
    ASSUME TypeOK, NumbersInv, NEW t \in Threads, NEW j, Set(t, j),
           nextFile' \in Nat, nextFile' >= nextFile, wal' = wal,
           \A f \in KnownFiles' : f.num < manifest'.next,
           log' < manifest'.next, manifest'.log < manifest'.next, manifest'.next <= nextFile',
           manifest'.next \in Nat, manifest'.next >= manifest.next,
           JobFiles(j) \subseteq JobFiles(job[t]),
           j.pc \in FlushPcs => j.num < nextFile',
           j.pc # "sst",
           \A u \in Threads : u # t /\ job[u].pc = "sst" =>
                \A f \in KnownFiles' : f.num # job[u].num
    PROVE  NumbersInv'
<1>1. \A u \in Threads : job'[u] = IF u = t THEN j ELSE job[u]
  BY DEF TypeOK, Set
<1>2. ASSUME NEW r \in wal' PROVE r.log < manifest'.next
  <2>1. r.log < manifest.next /\ r.log \in Nat
    BY <1>2 DEF NumbersInv, TypeOK
  <2> QED BY <2>1, ManifestType
<1>3. ASSUME NEW u \in Threads, NEW f \in JobFiles(job'[u])
      PROVE  /\ f.num < nextFile'
             /\ \A w \in Threads : job'[w].pc = "sst" => f.num # job'[w].num
  <2>1. f \in JobFiles(job[u]) /\ f.num < nextFile /\ f.num \in Nat
    BY <1>1, <1>3, JobFilesType DEF NumbersInv
  <2>2. ASSUME NEW w \in Threads, job'[w].pc = "sst" PROVE f.num # job'[w].num
    BY <1>1, <2>1, <2>2 DEF NumbersInv
  <2> QED BY <2>1, <2>2, ManifestType
<1>4. ASSUME NEW u \in Threads, job'[u].pc \in FlushPcs PROVE job'[u].num < nextFile'
  <2>1. CASE u = t
    BY <1>1, <1>4, <2>1
  <2>2. CASE u # t
    <3>1. job'[u] = job[u] /\ job[u].num < nextFile
      BY <1>1, <1>4, <2>2 DEF NumbersInv, FlushPcs
    <3> QED BY <1>4, <3>1, FlushNumType, ManifestType
  <2> QED BY <2>1, <2>2
<1>5. ASSUME NEW u \in Threads, job'[u].pc = "sst"
      PROVE  \A f \in KnownFiles' : f.num # job'[u].num
  BY <1>1, <1>5
<1> QED BY <1>2, <1>3, <1>4, <1>5 DEF NumbersInv, FlushPcs

LEMMA NumbersPublish ==
    ASSUME TypeOK, LocksAndLocals, NumbersInv, NEW t \in Threads,
           PublishAddFile(t) \/ PublishLastSequence(t) \/ PublishLogNumber(t)
    PROVE  NumbersInv'
<1>0. /\ job[t].pc \in FlushPcs /\ job[t].pc # "sst"
      /\ \A u \in Threads : job[u].pc # "sst"
      /\ job[t].num \in Nat /\ job[t].num < nextFile
  <2>1. job[t].pc \in FlushPcs /\ job[t].pc # "sst"
    BY DEF FlushPcs, PublishAddFile, PublishLastSequence, PublishLogNumber
  <2> QED BY <2>1, OneFlush, FlushNumType DEF NumbersInv, FlushPcs
<1>1. CASE PublishAddFile(t)
  <2> DEFINE j == FlushAt("last", job[t])
             f == [level |-> 0, num |-> job[t].num]
  <2>1. /\ Set(t, j) /\ wal' = wal /\ log' = log /\ nextFile' = nextFile
        /\ manifest' = AddFile(manifest, f) /\ version' = version \cup {f}
    BY <1>1 DEF PublishAddFile
  <2>2. /\ manifest'.files = manifest.files \cup {f} /\ manifest'.log = manifest.log
        /\ manifest'.next = MaxOf(manifest.next, job[t].num + 1)
    BY <2>1 DEF AddFile
  <2>3. /\ manifest'.next \in Nat /\ manifest'.next >= manifest.next
        /\ manifest'.next > job[t].num /\ manifest'.next <= nextFile'
    BY <1>0, <2>1, <2>2, ManifestType DEF MaxOf, NumbersInv
  <2>4. \A g \in KnownFiles' : g.num < manifest'.next
    <3>1. KnownFiles' = KnownFiles \cup {f}
      BY <2>1, <2>2 DEF KnownFiles
    <3> QED BY <1>0, <2>3, <3>1, ManifestType DEF NumbersInv
  <2>5. manifest'.log < manifest'.next /\ log' < manifest'.next
    BY <2>1, <2>2, <2>3, ManifestType DEF NumbersInv
  <2>6. JobFiles(j) = {} /\ j.pc # "sst" /\ j.num < nextFile'
    BY <1>0, <2>1 DEF JobFiles, FlushAt
  <2>7. nextFile' \in Nat /\ nextFile' >= nextFile
    BY <2>1, ManifestType
  <2> HIDE DEF j, f
  <2> QED BY <1>0, <2>1, <2>3, <2>4, <2>5, <2>6, <2>7, NumbersEdit
<1>2. CASE PublishLastSequence(t)
  <2> DEFINE j == FlushAt("log", job[t])
  <2>1. /\ Set(t, j) /\ wal' = wal
        /\ UNCHANGED <<version, log, nextFile>>
        /\ manifest'.files = manifest.files /\ manifest'.log = manifest.log
        /\ manifest'.next = manifest.next
    BY <1>2 DEF PublishLastSequence, LastSequence
  <2>2. JobFiles(j) = {} /\ j.pc # "sst" /\ j.num < nextFile'
    BY <1>0, <2>1 DEF JobFiles, FlushAt
  <2> HIDE DEF j
  <2>3. /\ nextFile' \in Nat /\ nextFile' >= nextFile
        /\ manifest'.next \in Nat /\ manifest'.next >= manifest.next
    BY <2>1, ManifestType
  <2>4. /\ \A f \in KnownFiles' : f.num < manifest'.next
        /\ log' < manifest'.next /\ manifest'.log < manifest'.next
        /\ manifest'.next <= nextFile'
    BY <2>1 DEF NumbersInv, KnownFiles
  <2> QED BY <1>0, <2>1, <2>2, <2>3, <2>4, NumbersEdit
<1>3. CASE PublishLogNumber(t)
  <2>1. /\ Set(t, Idle) /\ wal' = wal /\ version' = version
        /\ log' = nextFile /\ nextFile' = nextFile + 1
        /\ manifest'.files = manifest.files /\ manifest'.log = nextFile
        /\ manifest'.next = MaxOf(manifest.next, nextFile + 1)
    BY <1>3 DEF PublishLogNumber, LogNumber
  <2>2. manifest'.next = nextFile + 1
    BY <2>1, ManifestType DEF MaxOf, NumbersInv
  <2>3. JobFiles(Idle) = {} /\ Idle.pc \notin FlushPcs /\ Idle.pc # "sst"
    BY DEF JobFiles, Idle, FlushPcs
  <2>4. \A f \in KnownFiles' : f.num < manifest'.next
    <3>1. KnownFiles' = KnownFiles
      BY <2>1 DEF KnownFiles
    <3> QED BY <2>2, <3>1, ManifestType DEF NumbersInv
  <2>5. /\ nextFile' \in Nat /\ nextFile' >= nextFile
        /\ manifest'.next \in Nat /\ manifest'.next >= manifest.next
        /\ log' < manifest'.next /\ manifest'.log < manifest'.next
        /\ manifest'.next <= nextFile'
    BY <2>1, <2>2, ManifestType DEF NumbersInv
  <2> QED BY <1>0, <2>1, <2>3, <2>4, <2>5, NumbersEdit
<1> QED BY <1>1, <1>2, <1>3

\* What the picker chooses is published already.
LEMMA NumbersPick ==
    ASSUME TypeOK, NumbersInv, NEW t \in Threads, NEW r, NEW g \in Group, Pick(t, r, g)
    PROVE  NumbersInv'
<1> DEFINE inputs == ManualInputs(content, version, r)
           task == TaskForFiles(content, version, inputs)
           j == [pc |-> "oldest", group |-> g, task |-> task]
<1>0. UNCHANGED <<version, manifest, log, nextFile>> /\ wal' = wal
  BY DEF Pick, versions
<1>1. \A q \in wal' : q \in wal \/ q.log = log
  BY <1>0
<1>2. CASE inputs = {}
  <2>1. Set(t, Finish(g)) /\ Finish(g).pc \in {"idle", "lock"}
    BY <1>2 DEF Pick, Finish, Idle
  <2> QED BY <1>0, <1>1, <2>1, NoFiles, NumbersQuiet
<1>3. CASE inputs # {}
  <2>1. Set(t, j)
    BY <1>3 DEF Pick
  <2>2. task.inputFiles = inputs /\ task.overlapFiles \subseteq version
    BY DEF TaskForFiles, FilesAt
  <2>3. AllInputFiles(task) \subseteq KnownFiles
    BY <2>2, ManualInputsSubset DEF AllInputFiles, KnownFiles
  <2> HIDE DEF task
  <2>4. JobFiles(j) \subseteq KnownFiles /\ j.pc \notin FlushPcs /\ j.pc # "sst"
    BY <2>3 DEF JobFiles, FlushPcs
  <2> HIDE DEF j
  <2>5. ASSUME NEW f \in JobFiles(j)
        PROVE  /\ f.num < nextFile'
               /\ \A u \in Threads : job[u].pc = "sst" /\ u # t => f.num # job[u].num
    <3>1. f \in KnownFiles /\ f.num < manifest.next /\ manifest.next <= nextFile
      BY <2>4, <2>5 DEF NumbersInv
    <3>2. f.num < nextFile'
      BY <1>0, <3>1, ManifestType
    <3> QED BY <3>1, <3>2 DEF NumbersInv
  <2>6. nextFile' \in Nat /\ nextFile' >= nextFile
    BY <1>0, ManifestType
  <2> QED BY <1>0, <1>1, <2>1, <2>4, <2>5, <2>6, NumbersLocal
<1> QED BY <1>2, <1>3

LEMMA NumbersCompact ==
    ASSUME TypeOK, NumbersInv, NEW t \in Threads,
           \/ \E r \in Ranges : CompactRange(t, r)
           \/ CompactUnderPressure(t) \/ ReadOldest(t) \/ ReadLastSequence(t)
           \/ CheckTombstones(t) \/ CompactionFails(t)
           \/ LoadVersion(t) \/ InstallTables(t) \/ DeleteObsoleteFiles(t)
    PROVE  NumbersInv'
<1>1. CASE \E r \in Ranges : CompactRange(t, r)
  <2>1. <<>> \in Group
    BY DEF Group
  <2> QED BY <1>1, <2>1, NumbersPick DEF CompactRange
<1>2. CASE CompactUnderPressure(t)
  <2>1. job[t].group \in Group
    BY <1>2, JobShapes DEF CompactUnderPressure, TypeOK
  <2> QED BY <1>2, <2>1, NumbersPick DEF CompactUnderPressure
<1>3. CASE ReadOldest(t) \/ ReadLastSequence(t) \/ CheckTombstones(t)
  <2>1. PICK j : /\ Set(t, j) /\ j.task = job[t].task
                 /\ j.pc \in {"lastseq", "tombstones", "run"}
                 /\ job[t].pc \in {"oldest", "lastseq", "tombstones"}
    BY <1>3 DEF ReadOldest, ReadLastSequence, CheckTombstones
  <2>2. JobFiles(j) = JobFiles(job[t]) /\ j.pc \notin FlushPcs
    BY <2>1 DEF JobFiles, FlushPcs
  <2>3. UNCHANGED <<version, manifest, log, nextFile>> /\ wal' = wal
    BY <1>3 DEF ReadOldest, ReadLastSequence, CheckTombstones, versions
  <2>4. \A q \in wal' : q \in wal \/ q.log = log
    BY <2>3
  <2> QED BY <2>1, <2>2, <2>3, <2>4, NumbersQuiet
<1>4. CASE CompactionFails(t) \/ LoadVersion(t) \/ InstallTables(t) \/ DeleteObsoleteFiles(t)
  <2>1. PICK j : Set(t, j) /\ j.pc \in {"idle", "lock", "install", "unlink"}
    <3>1. CASE CompactionFails(t)
      BY <3>1 DEF CompactionFails, Idle
    <3>2. CASE LoadVersion(t)
      BY <3>2 DEF LoadVersion
    <3>3. CASE InstallTables(t)
      BY <3>3 DEF InstallTables, Finish, Idle
    <3>4. CASE DeleteObsoleteFiles(t)
      BY <3>4 DEF DeleteObsoleteFiles, Finish, Idle
    <3> QED BY <1>4, <3>1, <3>2, <3>3, <3>4
  <2>3. UNCHANGED <<version, manifest, log, nextFile>> /\ wal' = wal
    BY <1>4 DEF CompactionFails, LoadVersion, InstallTables, DeleteObsoleteFiles, versions
  <2>4. \A q \in wal' : q \in wal \/ q.log = log
    BY <2>3
  <2> QED BY <2>1, <2>3, <2>4, NoFiles, NumbersQuiet
<1> QED BY <1>1, <1>2, <1>3, <1>4

LEMMA NumbersRun ==
    ASSUME TypeOK, NumbersInv, NEW t \in Threads, TrivialMove(t) \/ WriteOutputs(t)
    PROVE  NumbersInv'
<1>0. job[t].task \in Task /\ job[t].pc = "run"
  BY JobShapes DEF TypeOK, TrivialMove, WriteOutputs
<1>1. JobFiles(job[t]) = AllInputFiles(job[t].task)
  BY <1>0 DEF JobFiles
<1>2. \A outputs, obsolete :
        LET j == Commit(job[t], outputs, obsolete)
        IN  /\ j.pc \notin FlushPcs /\ j.pc # "sst"
            /\ \A f \in JobFiles(j) : f.num \in outputs
  BY DEF Commit, JobFiles, FlushPcs
<1>3. CASE TrivialMove(t)
  <2> DEFINE outputs == {f.num : f \in job[t].task.inputFiles}
             j == Commit(job[t], outputs, {})
  <2>1. Set(t, j) /\ UNCHANGED <<version, manifest, log, nextFile>> /\ wal' = wal
    BY <1>3 DEF TrivialMove, versions
  <2>2. \A q \in wal' : q \in wal \/ q.log = log
    BY <2>1
  <2>3. \A f \in JobFiles(j) : \E g \in JobFiles(job[t]) : f.num = g.num
    BY <1>1, <1>2 DEF AllInputFiles
  <2>4. j.pc \notin FlushPcs /\ j.pc # "sst"
    BY <1>2
  <2> HIDE DEF j
  <2>5. \A f \in JobFiles(j) :
          /\ f.num < nextFile'
          /\ \A u \in Threads : job[u].pc = "sst" /\ u # t => f.num # job[u].num
    BY <2>1, <2>3 DEF NumbersInv
  <2>6. nextFile' \in Nat /\ nextFile' >= nextFile
    BY <2>1, ManifestType
  <2> QED BY <2>1, <2>2, <2>4, <2>5, <2>6, NumbersLocal
<1>4. CASE WriteOutputs(t)
  <2> DEFINE used == {f.num : f \in AllInputFiles(job[t].task)}
  <2>1. PICK n \in IF Output(job[t]) = {} THEN {0} ELSE 1..MaxOf(1, MaxSubcompactions) :
           nextFile' = nextFile + n /\ Set(t, Commit(job[t], nextFile..(nextFile + n - 1), used))
    BY <1>4 DEF WriteOutputs
  <2> DEFINE j == Commit(job[t], nextFile..(nextFile + n - 1), used)
  <2>2. n \in Nat
    BY SizesAssumption DEF MaxOf
  <2>3. UNCHANGED <<version, manifest, log>> /\ wal' = wal
    BY <1>4 DEF WriteOutputs
  <2>4. \A q \in wal' : q \in wal \/ q.log = log
    BY <2>3
  <2>5. nextFile' \in Nat /\ nextFile' >= nextFile
    BY <2>1, <2>2, ManifestType
  <2>6. j.pc \notin FlushPcs /\ j.pc # "sst" /\ Set(t, j)
    BY <1>2, <2>1
  <2>7. \A f \in JobFiles(j) : f.num \in nextFile..(nextFile + n - 1)
    BY <1>2
  <2> HIDE DEF j
  <2>8. ASSUME NEW f \in JobFiles(j)
        PROVE  /\ f.num < nextFile'
               /\ \A u \in Threads : job[u].pc = "sst" /\ u # t => f.num # job[u].num
    <3>1. f.num \in Nat /\ f.num >= nextFile /\ f.num < nextFile'
      BY <2>1, <2>2, <2>7, <2>8, ManifestType
    <3>2. ASSUME NEW u \in Threads, job[u].pc = "sst" PROVE f.num # job[u].num
      <4>1. job[u].num < nextFile /\ job[u].num \in Nat
        BY <3>2, FlushNumType DEF NumbersInv, FlushPcs
      <4> QED BY <3>1, <4>1, ManifestType
    <3> QED BY <3>1, <3>2
  <2> QED BY <2>3, <2>4, <2>5, <2>6, <2>8, NumbersLocal
<1> QED BY <1>3, <1>4

LEMMA NumbersCommit ==
    ASSUME TypeOK, NumbersInv, NEW t \in Threads, CommitDelete(t) \/ CommitAdd(t)
    PROVE  NumbersInv'
<1> DEFINE o == job[t]
<1>0. o.pc \in {"commit", "edits"} /\ JobFiles(o) = o.adds
  BY DEF CommitDelete, CommitAdd, JobFiles
<1>1. \A dels, adds :
        /\ JobFiles(Committed(o)) = {} /\ Committed(o).pc \notin FlushPcs
        /\ JobFiles(Edits(o, dels, adds)) = adds /\ Edits(o, dels, adds).pc \notin FlushPcs
  BY DEF Committed, Edits, JobFiles, FlushPcs
<1>2. CASE CommitDelete(t)
  <2>1. PICK f \in FirstFiles(content, o.dels) :
           /\ manifest' = DeleteFile(manifest, f) /\ version' = version \ {f}
           /\ Set(t, IF o.dels = {f} /\ o.adds = {} THEN Committed(o)
                     ELSE Edits(o, o.dels \ {f}, o.adds))
    BY <1>2 DEF CommitDelete
  <2>2. PICK j : Set(t, j) /\ JobFiles(j) \subseteq JobFiles(o) /\ j.pc \notin FlushPcs
    <3> HIDE DEF o
    <3> QED BY <1>0, <1>1, <2>1
  <2>3. /\ manifest'.files = manifest.files \ {f} /\ manifest'.log = manifest.log
        /\ manifest'.next = manifest.next /\ UNCHANGED <<log, nextFile, wal>>
    BY <1>2, <2>1 DEF CommitDelete, DeleteFile
  <2>4. /\ nextFile' \in Nat /\ nextFile' >= nextFile
        /\ manifest'.next \in Nat /\ manifest'.next >= manifest.next
    BY <2>3, ManifestType
  <2>5. /\ \A g \in KnownFiles' : g.num < manifest'.next
        /\ log' < manifest'.next /\ manifest'.log < manifest'.next
        /\ manifest'.next <= nextFile'
        /\ \A u \in Threads : u # t /\ job[u].pc = "sst" =>
                \A g \in KnownFiles' : g.num # job[u].num
    <3>1. KnownFiles' \subseteq KnownFiles
      BY <2>1, <2>3 DEF KnownFiles
    <3> QED BY <2>3, <3>1 DEF NumbersInv
  <2>6. j.pc # "sst" /\ wal' = wal
    BY <2>2, <2>3 DEF FlushPcs
  <2> QED BY <2>2, <2>4, <2>5, <2>6, NumbersEdit
<1>3. CASE CommitAdd(t)
  <2>1. PICK f \in FirstFiles(content, o.adds) :
           /\ manifest' = AddFile(manifest, f) /\ version' = version \cup {f}
           /\ Set(t, IF o.adds = {f} THEN Committed(o) ELSE Edits(o, {}, o.adds \ {f}))
    BY <1>3 DEF CommitAdd
  <2>2. PICK j : Set(t, j) /\ JobFiles(j) \subseteq JobFiles(o) /\ j.pc \notin FlushPcs
    <3> HIDE DEF o
    <3> QED BY <1>0, <1>1, <2>1
  <2>3. /\ manifest'.files = manifest.files \cup {f} /\ manifest'.log = manifest.log
        /\ manifest'.next = MaxOf(manifest.next, f.num + 1) /\ UNCHANGED <<log, nextFile, wal>>
    BY <1>3, <2>1 DEF CommitAdd, AddFile
  <2>4. f \in JobFiles(o) /\ f.num \in Nat /\ f.num < nextFile
    <3>1. f \in JobFiles(o)
      BY <1>0, <2>1 DEF FirstFiles
    <3> QED BY <3>1, JobFilesType DEF NumbersInv
  <2>5. /\ nextFile' \in Nat /\ nextFile' >= nextFile
        /\ manifest'.next \in Nat /\ manifest'.next >= manifest.next
        /\ f.num < manifest'.next /\ manifest'.next <= nextFile'
    BY <2>3, <2>4, ManifestType DEF MaxOf, NumbersInv
  <2>a. KnownFiles' = KnownFiles \cup {f}
    BY <2>1, <2>3 DEF KnownFiles
  <2>6. \A u \in Threads : u # t /\ job[u].pc = "sst" =>
                \A g \in KnownFiles' : g.num # job[u].num
    BY <2>4, <2>a DEF NumbersInv
  <2>7. /\ \A g \in KnownFiles' : g.num < manifest'.next
        /\ log' < manifest'.next /\ manifest'.log < manifest'.next
    BY <2>3, <2>5, <2>a, ManifestType DEF NumbersInv
  <2>8. j.pc # "sst" /\ wal' = wal
    BY <2>2, <2>3 DEF FlushPcs
  <2> QED BY <2>2, <2>5, <2>6, <2>7, <2>8, NumbersEdit
<1> QED BY <1>2, <1>3

\* A failed call may have left its manifest edit behind.
LEMMA NumbersFailures ==
    ASSUME TypeOK, LocksAndLocals, NumbersInv, NEW t \in Threads,
           WalFails(t) \/ FlushFails(t) \/ PublishFails(t) \/ OutputsFail(t) \/ CommitFails(t)
    PROVE  NumbersInv'
<1>0. JobFiles(Idle) = {} /\ Idle.pc \notin FlushPcs /\ Idle.pc # "sst"
  BY DEF JobFiles, Idle, FlushPcs
<1>1. CASE WalFails(t) \/ FlushFails(t)
  <2>1. Set(t, Idle) /\ UNCHANGED <<version, manifest, log, nextFile>>
    BY <1>1, WalFailsSets DEF FlushFails, versions
  <2>2. \A r \in wal' : r \in wal \/ r.log = log
    BY <1>1, WalFailsSets DEF FlushFails
  <2> QED BY <1>0, <2>1, <2>2, NumbersQuiet
<1>2. CASE OutputsFail(t)
  <2>1. PICK n \in 1..MaxOf(1, MaxSubcompactions) : nextFile' = nextFile + n
    BY <1>2 DEF OutputsFail
  <2>2. n \in Nat
    BY SizesAssumption DEF MaxOf
  <2>3. nextFile' \in Nat /\ nextFile' >= nextFile
    BY <2>1, <2>2, ManifestType
  <2>4. Set(t, Idle) /\ UNCHANGED <<version, manifest, log>> /\ wal' = wal
    BY <1>2 DEF OutputsFail
  <2>5. \A r \in wal' : r \in wal \/ r.log = log
    BY <2>4
  <2> QED BY <1>0, <2>3, <2>4, <2>5, NumbersLocal
<1>3. CASE PublishFails(t)
  <2>0. /\ job[t].pc \in FlushPcs /\ job[t].pc # "sst"
        /\ \A u \in Threads : job[u].pc # "sst"
        /\ job[t].num \in Nat /\ job[t].num < nextFile
    <3>1. job[t].pc \in FlushPcs /\ job[t].pc # "sst"
      BY <1>3 DEF FlushPcs, PublishFails
    <3> QED BY <3>1, OneFlush, FlushNumType DEF NumbersInv, FlushPcs
  <2>1. Set(t, Idle) /\ UNCHANGED <<version, log, wal>>
    BY <1>3 DEF PublishFails
  <2>2. nextFile' \in Nat /\ nextFile' >= nextFile
    BY <1>3, ManifestType DEF PublishFails
  <2> DEFINE f == [level |-> 0, num |-> job[t].num]
  <2>3. /\ manifest'.files \subseteq manifest.files \cup {f}
        /\ manifest'.next \in Nat /\ manifest'.next >= manifest.next
        /\ manifest'.next <= nextFile' /\ manifest'.log < manifest'.next
        /\ f \in manifest'.files => f \in manifest.files \/ f.num < manifest'.next
    <3>1. CASE manifest' = manifest
      BY <2>2, <3>1, ManifestType DEF NumbersInv
    <3>2. CASE manifest' = AddFile(manifest, f)
      <4>1. /\ manifest'.files = manifest.files \cup {f} /\ manifest'.log = manifest.log
            /\ manifest'.next = MaxOf(manifest.next, job[t].num + 1)
        BY <3>2 DEF AddFile
      <4> QED BY <2>0, <2>2, <4>1, ManifestType DEF MaxOf, NumbersInv
    <3>3. CASE manifest' = LastSequence(manifest, lastSequence)
      <4>1. /\ manifest'.files = manifest.files /\ manifest'.log = manifest.log
            /\ manifest'.next = manifest.next
        BY <3>3 DEF LastSequence
      <4> QED BY <2>2, <4>1, ManifestType DEF NumbersInv
    <3>4. CASE job[t].pc = "log" /\ manifest' = LogNumber(manifest, nextFile)
      <4>1. /\ manifest'.files = manifest.files /\ manifest'.log = nextFile
            /\ manifest'.next = MaxOf(manifest.next, nextFile + 1)
            /\ nextFile' = nextFile + 1
        BY <1>3, <3>4 DEF LogNumber, PublishFails
      <4> QED BY <4>1, ManifestType DEF MaxOf, NumbersInv
    <3> QED BY <1>3, <3>1, <3>2, <3>3, <3>4 DEF PublishFails, NextPublished
  <2>4. \A g \in KnownFiles' : g.num < manifest'.next
    <3>1. ASSUME NEW g \in KnownFiles' PROVE g.num < manifest'.next
      <4>1. g \in KnownFiles \/ (g = f /\ f.num < manifest'.next)
        BY <2>1, <2>3, <3>1 DEF KnownFiles
      <4> QED BY <2>3, <4>1, ManifestType DEF NumbersInv
    <3> QED BY <3>1
  <2>5. log' < manifest'.next
    BY <2>1, <2>3, ManifestType DEF NumbersInv
  <2> QED BY <1>0, <2>0, <2>1, <2>2, <2>3, <2>4, <2>5, NumbersEdit
<1>4. CASE CommitFails(t)
  <2> DEFINE o == job[t]
  <2>1. Set(t, Idle) /\ UNCHANGED <<version, nextFile, log, wal>>
    BY <1>4 DEF CommitFails
  <2>2. \/ manifest' = manifest
        \/ \E f : manifest' = DeleteFile(manifest, f)
        \/ \E f \in JobFiles(o) : manifest' = AddFile(manifest, f)
    BY <1>4 DEF CommitFails, FirstFiles, JobFiles
  <2>3. CASE manifest' = manifest \/ \E f : manifest' = DeleteFile(manifest, f)
    <3>1. /\ manifest'.files \subseteq manifest.files /\ manifest'.log = manifest.log
          /\ manifest'.next = manifest.next
      BY <2>3 DEF DeleteFile
    <3>2. KnownFiles' \subseteq KnownFiles
      BY <2>1, <3>1 DEF KnownFiles
    <3>3. /\ nextFile' \in Nat /\ nextFile' >= nextFile
          /\ manifest'.next \in Nat /\ manifest'.next >= manifest.next
      BY <2>1, <3>1, ManifestType
    <3>4. /\ \A g \in KnownFiles' : g.num < manifest'.next
          /\ log' < manifest'.next /\ manifest'.log < manifest'.next
          /\ manifest'.next <= nextFile'
          /\ \A u \in Threads : u # t /\ job[u].pc = "sst" =>
                  \A g \in KnownFiles' : g.num # job[u].num
      BY <2>1, <3>1, <3>2 DEF NumbersInv
    <3> QED BY <1>0, <2>1, <3>3, <3>4, NumbersEdit
  <2>4. ASSUME NEW f \in JobFiles(o), manifest' = AddFile(manifest, f) PROVE NumbersInv'
    <3>1. /\ manifest'.files = manifest.files \cup {f} /\ manifest'.log = manifest.log
          /\ manifest'.next = MaxOf(manifest.next, f.num + 1)
      BY <2>4 DEF AddFile
    <3>2. f.num \in Nat /\ f.num < nextFile
      BY JobFilesType DEF NumbersInv
    <3>3. /\ nextFile' \in Nat /\ nextFile' >= nextFile
          /\ manifest'.next \in Nat /\ manifest'.next >= manifest.next
          /\ f.num < manifest'.next /\ manifest'.next <= nextFile'
      BY <2>1, <3>1, <3>2, ManifestType DEF MaxOf, NumbersInv
    <3>4. KnownFiles' = KnownFiles \cup {f}
      BY <2>1, <3>1 DEF KnownFiles
    <3>5. \A u \in Threads : u # t /\ job[u].pc = "sst" =>
              \A g \in KnownFiles' : g.num # job[u].num
      BY <3>4 DEF NumbersInv
    <3>6. /\ \A g \in KnownFiles' : g.num < manifest'.next
          /\ log' < manifest'.next /\ manifest'.log < manifest'.next
      BY <2>1, <3>1, <3>3, <3>4, ManifestType DEF NumbersInv
    <3> QED BY <1>0, <2>1, <3>3, <3>5, <3>6, NumbersEdit
  <2> QED BY <2>2, <2>3, <2>4
<1> QED BY <1>1, <1>2, <1>3, <1>4

LEMMA NumbersReads ==
    ASSUME TypeOK, NumbersInv, NEW t \in Threads,
           \/ \E k \in Keys : \E pin \in {{}} \cup {{s} : s \in snaps} : GetMemtables(t, k, pin)
           \/ GetTables(t) \/ ReturnGet(t)
    PROVE  NumbersInv'
<1>1. PICK j : Set(t, j) /\ j.pc \in {"idle", "get", "got"}
  <2>1. ASSUME NEW k \in Keys, NEW pin, GetMemtables(t, k, pin)
        PROVE  \E j : Set(t, j) /\ j.pc \in {"idle", "get", "got"}
    BY <2>1 DEF GetMemtables, Got
  <2>2. CASE GetTables(t)
    <3>1. PICK ok : Set(t, Got(TableGet(content, job[t].files, job[t].key, job[t].seq),
                               ok, job[t].key, job[t].seq))
      BY <2>2 DEF GetTables
    <3>2. \A r, q, k, s : Got(r, q, k, s).pc = "got"
      BY DEF Got
    <3> QED BY <3>1, <3>2
  <2>3. CASE ReturnGet(t)
    BY <2>3 DEF ReturnGet, Idle
  <2> QED BY <2>1, <2>2, <2>3
<1>2. UNCHANGED <<version, manifest, log, nextFile>> /\ wal' = wal
  BY DEF GetMemtables, GetTables, ReturnGet, versions
<1>3. \A q \in wal' : q \in wal \/ q.log = log
  BY <1>2
<1> QED BY <1>1, <1>2, <1>3, NoFiles, NumbersQuiet

\* DB::open: no thread holds anything, and numbering resumes from the
\* manifest.
LEMMA NumbersCrash ==
    ASSUME TypeOK, NumbersInv, CrashAndOpen PROVE NumbersInv'
<1>1. /\ \A t \in Threads : job'[t] = Idle
      /\ version' = manifest.files /\ log' = manifest.log /\ nextFile' = manifest.next
      /\ UNCHANGED <<manifest, wal>>
  BY DEF CrashAndOpen
<1>2. JobFiles(Idle) = {} /\ Idle.pc \notin FlushPcs /\ Idle.pc # "sst"
  BY DEF JobFiles, Idle, FlushPcs
<1>3. manifest.next <= manifest.next /\ KnownFiles' \subseteq KnownFiles
  BY <1>1, ManifestType DEF KnownFiles
<1> QED BY <1>1, <1>2, <1>3 DEF NumbersInv, FlushPcs

LEMMA NumbersInit == Init => NumbersInv
<1> SUFFICES ASSUME Init PROVE NumbersInv
  OBVIOUS
<1>1. \A t \in Threads : JobFiles(job[t]) = {} /\ job[t].pc \notin FlushPcs
  BY DEF Init, JobFiles, Idle, FlushPcs
<1> QED BY <1>1 DEF Init, NumbersInv, KnownFiles, FlushPcs

LEMMA NumbersStep ==
    TypeOK /\ LocksAndLocals /\ NumbersInv /\ [Next]_vars => NumbersInv'
<1> SUFFICES ASSUME TypeOK, LocksAndLocals, NumbersInv, [Next]_vars PROVE NumbersInv'
  OBVIOUS
<1>1. ASSUME UNCHANGED <<versions, log, job, wal>> PROVE NumbersInv'
  BY <1>1 DEF versions, NumbersInv, KnownFiles
<1>2. ASSUME NEW t \in Threads, ThreadStep(t) PROVE NumbersInv'
  <2>1. CASE Close(t)
    BY <1>1, <2>1 DEF Close
  <2> QED BY <1>2, <2>1, NumbersWrite, NumbersFlush, NumbersPublish, NumbersCompact,
             NumbersRun, NumbersCommit, NumbersReads, NumbersFailures DEF ThreadStep
<1>3. ASSUME NEW h \in Holders, TakeSnapshot(h) \/ DropSnapshot(h) PROVE NumbersInv'
  BY <1>1, <1>3 DEF TakeSnapshot, DropSnapshot
<1>4. CASE UNCHANGED vars
  BY <1>1, <1>4 DEF vars
<1> QED BY <1>2, <1>3, <1>4, NumbersCrash DEF Next

\* The inductive invariant behind the two theorems below.
THEOREM NumbersHold == Spec => [](TypeOK /\ LocksAndLocals /\ NumbersInv)
<1>1. Init => TypeOK /\ LocksAndLocals /\ NumbersInv
  BY TypeInit, IdleLocks, NumbersInit DEF Init
<1> QED BY <1>1, TypeStep, NumbersStep, PTL DEF Spec

\* VersionSet hands out no number that the manifest or a log on disk uses,
\* whatever crashed, was flushed or compacted before.
THEOREM NumbersAreFresh == Spec => []FreshNumbers
<1>1. TypeOK /\ NumbersInv => FreshNumbers
  <2> SUFFICES ASSUME TypeOK, NumbersInv PROVE FreshNumbers
    OBVIOUS
  <2>1. \A r \in wal : r.log \in Nat
    BY DEF TypeOK
  <2> QED BY <2>1, ManifestType DEF NumbersInv, FreshNumbers, KnownFiles
<1> QED BY <1>1, NumbersHold, PTL

\* A flush or a compaction writes only to files the manifest does not name.
LEMMA ContentStep ==
    ASSUME TypeOK, LocksAndLocals, NumbersInv, [Next]_vars
    PROVE  \A f \in manifest.files : content'[f.num] = content[f.num]
<1>0. \A f \in manifest.files : f.num \in DOMAIN content
  BY ManifestType DEF TypeOK, File
<1>1. CASE content' = content
  BY <1>1
<1>2. ASSUME NEW t \in Threads, WriteL0Table(t) \/ FlushFails(t)
      PROVE  \A f \in manifest.files : content'[f.num] = content[f.num]
  <2>1. /\ job[t].pc = "sst"
        /\ content' = content \/ content' = [content EXCEPT ![job[t].num] = held[1]]
    BY <1>2 DEF WriteL0Table, FlushFails, RenameTable, files
  <2>2. \A f \in manifest.files : f.num # job[t].num
    BY <2>1 DEF NumbersInv, KnownFiles
  <2> QED BY <1>0, <2>1, <2>2
<1>3. ASSUME NEW t \in Threads, WriteOutputs(t) \/ OutputsFail(t)
      PROVE  \A f \in manifest.files : content'[f.num] = content[f.num]
  <2>1. PICK n, out, part, written :
          /\ written \subseteq nextFile..(nextFile + n - 1)
          /\ content' = WithOutputs(out, part, written)
    <3>1. CASE WriteOutputs(t)
      BY <3>1 DEF WriteOutputs
    <3>2. CASE OutputsFail(t)
      BY <3>2 DEF OutputsFail
    <3> QED BY <1>3, <3>1, <3>2
  <2>2. \A f \in manifest.files : f.num < nextFile /\ f.num \in Nat
    BY ManifestType DEF NumbersInv, KnownFiles
  <2>3. \A f \in manifest.files : f.num \notin written
    BY <2>1, <2>2, ManifestType
  <2> QED BY <1>0, <2>1, <2>3 DEF WithOutputs
<1>4. ASSUME NEW t \in Threads, ThreadStep(t), ~(WriteL0Table(t) \/ FlushFails(t)),
             ~(WriteOutputs(t) \/ OutputsFail(t))
      PROVE  content' = content
  <2>1. CASE \/ \E g \in Groups : BeginWrite(t, g)
             \/ LockState(t) \/ AppendWal(t) \/ WalFails(t) \/ ApplyItem(t)
    BY <2>1 DEF BeginWrite, LockState, AppendWal, WalFails, ApplyItem, files
  <2>2. CASE FlushNothing(t) \/ FlushRefused(t) \/ BeginFlush(t) \/ PublishAddFile(t)
             \/ PublishLastSequence(t) \/ PublishLogNumber(t) \/ PublishFails(t)
    BY <2>2 DEF FlushNothing, FlushRefused, BeginFlush, PublishAddFile, PublishLastSequence,
                PublishLogNumber, PublishFails, files
  <2>3. CASE \/ \E r \in Ranges : CompactRange(t, r)
             \/ CompactUnderPressure(t) \/ ReadOldest(t) \/ ReadLastSequence(t)
             \/ CheckTombstones(t) \/ CompactionFails(t) \/ TrivialMove(t)
    BY <2>3 DEF CompactRange, CompactUnderPressure, Pick, ReadOldest, ReadLastSequence,
                CheckTombstones, CompactionFails, TrivialMove, files
  <2>4. CASE CommitDelete(t) \/ CommitAdd(t) \/ CommitFails(t) \/ LoadVersion(t)
             \/ InstallTables(t) \/ DeleteObsoleteFiles(t)
    BY <2>4 DEF CommitDelete, CommitAdd, CommitFails, LoadVersion, InstallTables,
                DeleteObsoleteFiles, files
  <2>5. CASE \/ \E k \in Keys : \E pin \in {{}} \cup {{s} : s \in snaps} :
                    GetMemtables(t, k, pin)
             \/ GetTables(t) \/ ReturnGet(t) \/ Close(t)
    BY <2>5 DEF GetMemtables, GetTables, ReturnGet, Close, files
  <2> QED BY <1>4, <2>1, <2>2, <2>3, <2>4, <2>5 DEF ThreadStep
<1>5. ASSUME NEW h \in Holders, TakeSnapshot(h) \/ DropSnapshot(h) PROVE content' = content
  BY <1>5 DEF TakeSnapshot, DropSnapshot, files
<1>6. CASE CrashAndOpen \/ UNCHANGED vars
  BY <1>1, <1>6 DEF CrashAndOpen, vars, files
<1> QED BY <1>1, <1>2, <1>3, <1>4, <1>5, <1>6 DEF Next

\* A published SSTable is immutable: no flush or compaction, not even one
\* whose file number an orphan of a crash uses, writes to it.
THEOREM PublishedTablesAreImmutable == Spec => PublishedTablesNeverChange
<1>1. TypeOK /\ LocksAndLocals /\ NumbersInv /\ [Next]_vars
        => [\A f \in manifest.files : content'[f.num] = content[f.num]]_vars
  BY ContentStep
<1> QED BY <1>1, NumbersHold, PTL DEF Spec, PublishedTablesNeverChange

-----------------------------------------------------------------------------
(* Sequence numbers: last_sequence is at least the sequence of everything  *)
(* stored, while threads write, flush and compact and after every crash.   *)
(*                                                                         *)
(* It takes two assumptions on the instance.  A batch without the WAL may  *)
(* reach a table whose AddFile edit survives a crash that the edit for     *)
(* last_sequence does not; and a switch of logs that is reported as failed *)
(* and is in the manifest makes recovery read a log nobody writes to.      *)

WritePcs == {"wal", "apply", "log"}

LEMMA StoredParts ==
    \A e : e \in Stored <=> \/ e \in mutable
                            \/ \E i \in DOMAIN immutables : e \in immutables[i]
                            \/ \E i \in DOMAIN held : e \in held[i]
                            \/ \E n \in 1..MaxFileNumber : e \in content[n]
<1>1. \A e : e \in UNION {immutables[i] : i \in DOMAIN immutables}
              <=> \E i \in DOMAIN immutables : e \in immutables[i]
  OBVIOUS
<1>2. \A e : e \in UNION {held[i] : i \in DOMAIN held} <=> \E i \in DOMAIN held : e \in held[i]
  OBVIOUS
<1>3. \A e : e \in UNION {content[n] : n \in 1..MaxFileNumber}
              <=> \E n \in 1..MaxFileNumber : e \in content[n]
  OBVIOUS
<1> DEFINE A == UNION {immutables[i] : i \in DOMAIN immutables}
           B == UNION {held[i] : i \in DOMAIN held}
           C == UNION {content[n] : n \in 1..MaxFileNumber}
<1>4. \A e : e \in Stored <=> e \in mutable \/ e \in A \/ e \in B \/ e \in C
  <2>1. Stored = mutable \cup A \cup B \cup C
    BY DEF Stored
  <2> HIDE DEF A, B, C
  <2> QED BY <2>1
<1> QED BY <1>1, <1>2, <1>3, <1>4

LEMMA StoredPartsNext ==
    (\A e : e \in Stored <=> \/ e \in mutable
                             \/ \E i \in DOMAIN immutables : e \in immutables[i]
                             \/ \E i \in DOMAIN held : e \in held[i]
                             \/ \E n \in 1..MaxFileNumber : e \in content[n])'
BY StoredParts, PTL

LEMMA StoredType ==
    TypeOK => /\ Stored \subseteq Entry
              /\ \A e \in Stored : e.seq \in Nat
              /\ lastSequence \in Nat /\ manifest.last \in Nat
<1> SUFFICES ASSUME TypeOK
             PROVE  /\ Stored \subseteq Entry
                    /\ \A e \in Stored : e.seq \in Nat
                    /\ lastSequence \in Nat /\ manifest.last \in Nat
  OBVIOUS
<1>1. \A i \in DOMAIN immutables : immutables[i] \subseteq Entry
  BY DEF TypeOK
<1>2. \A i \in DOMAIN held : held[i] \subseteq Entry
  BY DEF TypeOK
<1>3. \A n \in 1..MaxFileNumber : content[n] \subseteq Entry
  BY DEF TypeOK
<1>4. Stored \subseteq Entry
  BY <1>1, <1>2, <1>3, StoredParts DEF TypeOK
<1>5. \A e \in Entry : e.seq \in Nat
  BY DEF Entry
<1> QED BY <1>4, <1>5 DEF TypeOK

\* A step of thread t that stores nothing new and leaves sequences alone.
LEMMA SequencesQuiet ==
    ASSUME TypeOK, SequencesInv, NEW t \in Threads, NEW j, Set(t, j),
           UNCHANGED <<lastSequence, log, snaps, wal>>,
           manifest'.last = manifest.last, manifest'.log = manifest.log,
           Stored' \subseteq Stored,
           j.pc \notin WritePcs \/ (j.pc = "wal" /\ j.starts = <<>>)
    PROVE  SequencesInv'
<1>1. \A u \in Threads : job'[u] = IF u = t THEN j ELSE job[u]
  BY DEF TypeOK, Set
<1>2. \A e : Covered(e) <=> (Covered(e))'
  BY DEF Covered, WalEntries
<1>3. Settled(Stored)'
  BY <1>2 DEF SequencesInv, Settled, Covered
<1>4. ASSUME NEW u \in Threads PROVE JobSettled(job[u])'
  <2>1. CASE u # t
    <3>1. job'[u] = job[u] /\ JobSettled(job[u])
      BY <1>1, <2>1 DEF SequencesInv
    <3> QED BY <3>1 DEF JobSettled, WalEntries
  <2>2. CASE u = t
    <3>1. job'[u] = j
      BY <1>1, <2>2
    <3>2. j.pc = "wal" => DOMAIN j.starts = {}
      BY DEF WritePcs
    <3> QED BY <3>1, <3>2 DEF JobSettled, WritePcs
  <2> QED BY <2>1, <2>2
<1> QED BY <1>3, <1>4 DEF SequencesInv

\* Steps that leave the stored entries and everything about sequences alone.
LEMMA SequencesIdle ==
    ASSUME TypeOK, SequencesInv, NEW t \in Threads, NEW j, Set(t, j), j.pc \notin WritePcs,
           UNCHANGED <<mutable, immutables, held, content, lastSequence, log, snaps, wal>>,
           manifest'.last = manifest.last, manifest'.log = manifest.log
    PROVE  SequencesInv'
<1>1. Stored' = Stored
  BY DEF Stored
<1> QED BY <1>1, SequencesQuiet

LEMMA SequencesLocal ==
    ASSUME TypeOK, SequencesInv, NEW t \in Threads,
           \/ \E g \in Groups : BeginWrite(t, g)
           \/ FlushNothing(t) \/ FlushRefused(t)
           \/ \E r \in Ranges : CompactRange(t, r)
           \/ CompactUnderPressure(t) \/ ReadOldest(t) \/ ReadLastSequence(t)
           \/ CheckTombstones(t) \/ CompactionFails(t) \/ TrivialMove(t)
           \/ LoadVersion(t) \/ InstallTables(t) \/ DeleteObsoleteFiles(t)
           \/ \E k \in Keys : \E pin \in {{}} \cup {{s} : s \in snaps} : GetMemtables(t, k, pin)
           \/ GetTables(t) \/ ReturnGet(t)
    PROVE  SequencesInv'
<1> DEFINE Quiet == UNCHANGED <<mutable, immutables, held, content, lastSequence, log, snaps,
                                wal, manifest>>
           Goal == Quiet /\ \E j : Set(t, j) /\ j.pc \notin WritePcs
<1> SUFFICES Goal
  <2>1. ASSUME Goal PROVE SequencesInv'
    <3>1. PICK j : Set(t, j) /\ j.pc \notin WritePcs
      BY <2>1
    <3>2. /\ UNCHANGED <<mutable, immutables, held, content, lastSequence, log, snaps, wal>>
          /\ manifest'.last = manifest.last /\ manifest'.log = manifest.log
      BY <2>1
    <3> QED BY <3>1, <3>2, SequencesIdle
  <2> QED BY <2>1
<1>0. ASSUME NEW g PROVE Finish(g).pc \notin WritePcs
  BY DEF Finish, Idle, WritePcs
<1>1. CASE \E g \in Groups : BeginWrite(t, g)
  <2>1. Quiet
    BY <1>1 DEF BeginWrite, memory, versions, files
  <2>2. PICK g \in Groups : BeginWrite(t, g)
    BY <1>1
  <2>3. \E j : Set(t, j) /\ j.pc \notin WritePcs
    BY <2>2 DEF BeginWrite, WritePcs
  <2> QED BY <2>1, <2>3
<1>2. CASE FlushNothing(t) \/ FlushRefused(t) \/ CompactionFails(t) \/ ReturnGet(t)
  <2>1. Quiet
    BY <1>2 DEF FlushNothing, FlushRefused, CompactionFails, ReturnGet, memory, versions, files
  <2>2. Set(t, Idle) /\ Idle.pc \notin WritePcs
    BY <1>2 DEF FlushNothing, FlushRefused, CompactionFails, ReturnGet, Idle, WritePcs
  <2> QED BY <2>1, <2>2
<1>3. ASSUME NEW r, NEW g, Pick(t, r, g) PROVE Goal
  <2>1. Quiet
    BY <1>3 DEF Pick, memory, versions, files
  <2> DEFINE q == [pc |-> "oldest", group |-> g,
                   task |-> TaskForFiles(content, version, ManualInputs(content, version, r))]
  <2>2. Set(t, Finish(g)) \/ Set(t, q)
    BY <1>3 DEF Pick
  <2>3. q.pc \notin WritePcs
    BY DEF WritePcs
  <2> HIDE DEF q
  <2> QED BY <1>0, <2>1, <2>2, <2>3
<1>4. CASE (\E r \in Ranges : CompactRange(t, r)) \/ CompactUnderPressure(t)
  BY <1>3, <1>4 DEF CompactRange, CompactUnderPressure
<1>5. CASE ReadOldest(t) \/ ReadLastSequence(t) \/ CheckTombstones(t) \/ LoadVersion(t)
  <2>1. Quiet
    BY <1>5 DEF ReadOldest, ReadLastSequence, CheckTombstones, LoadVersion, memory, versions, files
  <2>2. \E j : Set(t, j) /\ j.pc \notin WritePcs
    <3>1. CASE ReadOldest(t)
      BY <3>1 DEF ReadOldest, WritePcs
    <3>2. CASE ReadLastSequence(t)
      BY <3>2 DEF ReadLastSequence, WritePcs
    <3>3. CASE CheckTombstones(t)
      BY <3>3 DEF CheckTombstones, WritePcs
    <3>4. CASE LoadVersion(t)
      BY <3>4 DEF LoadVersion, WritePcs
    <3> QED BY <1>5, <3>1, <3>2, <3>3, <3>4
  <2> QED BY <2>1, <2>2
<1>6. CASE TrivialMove(t)
  <2>1. Quiet
    BY <1>6 DEF TrivialMove, memory, versions, files
  <2>2. \A o, n, d : Commit(o, n, d).pc \notin WritePcs
    BY DEF Commit, WritePcs
  <2> QED BY <1>6, <2>1, <2>2 DEF TrivialMove
<1>7. CASE InstallTables(t) \/ DeleteObsoleteFiles(t)
  <2>1. Quiet
    BY <1>7 DEF InstallTables, DeleteObsoleteFiles, memory, versions, files
  <2> DEFINE q == [pc |-> "unlink", group |-> job[t].group, obsolete |-> job[t].obsolete]
  <2>2. Set(t, Finish(job[t].group)) \/ Set(t, q)
    BY <1>7 DEF InstallTables, DeleteObsoleteFiles
  <2>3. q.pc \notin WritePcs
    BY DEF WritePcs
  <2> HIDE DEF q
  <2> QED BY <1>0, <2>1, <2>2, <2>3
<1>8. CASE \/ \E k \in Keys : \E pin \in {{}} \cup {{s} : s \in snaps} : GetMemtables(t, k, pin)
           \/ GetTables(t)
  <2>1. Quiet
    BY <1>8 DEF GetMemtables, GetTables, memory, versions, files
  <2>2. \A r, q, k, s : Got(r, q, k, s).pc \notin WritePcs
    BY DEF Got, WritePcs
  <2>3. \E j : Set(t, j) /\ j.pc \notin WritePcs
    <3>1. ASSUME NEW k, NEW pin, GetMemtables(t, k, pin)
          PROVE  \E j : Set(t, j) /\ j.pc \notin WritePcs
      <4> DEFINE s == IF pin = {} THEN lastSequence ELSE (CHOOSE p \in pin : TRUE).seq
                 q == [pc |-> "get", key |-> k, seq |-> s, pinned |-> pin # {}, files |-> tables]
      <4>1. Set(t, Got(MemGet(Memtables, k, s), TRUE, k, s)) \/ Set(t, q)
        BY <3>1 DEF GetMemtables
      <4>2. q.pc \notin WritePcs
        BY DEF WritePcs
      <4> HIDE DEF q
      <4> QED BY <2>2, <4>1, <4>2
    <3>2. CASE GetTables(t)
      <4>1. PICK ok : Set(t, Got(TableGet(content, job[t].files, job[t].key, job[t].seq),
                                 ok, job[t].key, job[t].seq))
        BY <3>2 DEF GetTables
      <4> QED BY <2>2, <4>1
    <3> QED BY <1>8, <3>1, <3>2
  <2> QED BY <2>1, <2>3
<1> QED BY <1>1, <1>2, <1>4, <1>5, <1>6, <1>7, <1>8

LEMMA ConcatFacts ==
    ASSUME NEW S, NEW s \in Seq(S), NEW u \in Seq(S)
    PROVE  /\ DOMAIN (s \o u) = 1..(Len(s) + Len(u))
           /\ Len(s) \in Nat /\ Len(u) \in Nat
           /\ DOMAIN s = 1..Len(s) /\ DOMAIN u = 1..Len(u)
           /\ \A i \in 1..(Len(s) + Len(u)) :
                (s \o u)[i] = IF i <= Len(s) THEN s[i] ELSE u[i - Len(s)]
<1>1. Len(s) \in Nat /\ Len(u) \in Nat /\ DOMAIN s = 1..Len(s) /\ DOMAIN u = 1..Len(u)
  OBVIOUS
<1>2. Len(s \o u) = Len(s) + Len(u)
  OBVIOUS
<1>3. DOMAIN (s \o u) = 1..Len(s \o u)
  OBVIOUS
<1> QED BY <1>1, <1>2, <1>3

\* A memtable changes hands between immutables, the flush and back.
LEMMA RestoreStores ==
    ASSUME TypeOK, Len(held) = 1, NEW source, Restore(source)
    PROVE  /\ \A e \in mutable' : e \in mutable \/ e \in held[1]
           /\ \A i \in DOMAIN immutables' : \A e \in immutables'[i] :
                 e \in held[1] \/ \E k \in DOMAIN immutables : e \in immutables[k]
           /\ DOMAIN held' = {}
<1>0. held \in Seq(SUBSET Entry) /\ immutables \in Seq(SUBSET Entry)
  BY DEF TypeOK
<1>1. \A e \in mutable' : e \in mutable \/ e \in held[1]
  BY DEF Restore
<1>2. DOMAIN held' = {}
  BY DEF Restore
<1>3. ASSUME NEW i \in DOMAIN immutables', NEW e \in immutables'[i]
      PROVE  e \in held[1] \/ \E k \in DOMAIN immutables : e \in immutables[k]
  <2>1. CASE immutables' = immutables
    BY <1>3, <2>1
  <2>2. CASE immutables' = held \o immutables
    <3>1. i \in 1..(1 + Len(immutables)) /\ Len(immutables) \in Nat
      <4>1. DOMAIN (held \o immutables) = 1..(Len(held) + Len(immutables))
        BY <1>0, ConcatFacts
      <4>2. Len(immutables) \in Nat
        BY <1>0
      <4>3. DOMAIN immutables' = 1..(1 + Len(immutables))
        BY <2>2, <4>1
      <4> QED BY <1>3, <4>2, <4>3
    <3>a. immutables'[i] = IF i <= 1 THEN held[i] ELSE immutables[i - 1]
      <4>1. \A k \in 1..(Len(held) + Len(immutables)) :
               (held \o immutables)[k] = IF k <= Len(held) THEN held[k]
                                         ELSE immutables[k - Len(held)]
        BY <1>0, ConcatFacts
      <4>2. (held \o immutables)[i] = IF i <= 1 THEN held[i] ELSE immutables[i - 1]
        BY <3>1, <4>1
      <4> QED BY <2>2, <4>2
    <3>2. CASE i = 1
      BY <1>3, <3>2, <3>a
    <3>3. CASE i # 1
      <4>1. i - 1 \in DOMAIN immutables /\ immutables'[i] = immutables[i - 1]
        BY <1>0, <3>1, <3>3, <3>a
      <4> QED BY <1>3, <4>1
    <3> QED BY <3>2, <3>3
  <2>3. CASE immutables' = Append(immutables, held[1])
    <3>1. i \in 1..(1 + Len(immutables)) /\ Len(immutables) \in Nat
      BY <1>0, <2>3
    <3>2. CASE i = Len(immutables) + 1
      BY <1>0, <1>3, <2>3, <3>1, <3>2
    <3>3. CASE i # Len(immutables) + 1
      <4>1. i \in DOMAIN immutables /\ immutables'[i] = immutables[i]
        BY <1>0, <2>3, <3>1, <3>3
      <4> QED BY <1>3, <4>1
    <3> QED BY <3>2, <3>3
  <2> QED BY <2>1, <2>2, <2>3 DEF Restore
<1> QED BY <1>1, <1>2, <1>3

LEMMA RenameStores ==
    ASSUME TypeOK, NEW num \in 1..MaxFileNumber, NEW entries, RenameTable(num, entries)
    PROVE  \A n \in 1..MaxFileNumber : content'[n] = content[n] \/ content'[n] = entries
BY DEF RenameTable, TypeOK

LEMMA SequencesFlush ==
    ASSUME TypeOK, LocksAndLocals, SequencesInv, NEW t \in Threads,
           \/ BeginFlush(t) \/ WriteL0Table(t) \/ FlushFails(t)
    PROVE  SequencesInv'
<1>0. /\ held \in Seq(SUBSET Entry) /\ immutables \in Seq(SUBSET Entry)
      /\ job[t].pc = "sst" => /\ Len(held) = 1 /\ 1 \in DOMAIN held
                              /\ job[t].num \in 1..MaxFileNumber
  <2>1. job[t].pc = "sst" => Len(held) = 1
    BY DEF LocksAndLocals, LocalsInRange
  <2>2. held \in Seq(SUBSET Entry) /\ immutables \in Seq(SUBSET Entry)
    BY DEF TypeOK
  <2>3. Len(held) = 1 => 1 \in DOMAIN held
    BY <2>2
  <2> QED BY <2>1, <2>2, <2>3, FlushNumType DEF FlushPcs
<1>1. CASE BeginFlush(t)
  <2>1. UNCHANGED <<lastSequence, log, snaps, wal, manifest, content>>
    BY <1>1 DEF BeginFlush, files
  <2>2. PICK j : Set(t, j) /\ j.pc \notin WritePcs
    BY <1>1 DEF BeginFlush, WritePcs
  <2>3. Stored' \subseteq Stored
    <3>1. CASE /\ immutables # <<>> /\ held' = <<Head(immutables)>>
               /\ immutables' = Tail(immutables) /\ mutable' = mutable
      <4>1. /\ Head(immutables) = immutables[1] /\ 1 \in DOMAIN immutables
            /\ DOMAIN held' = {1} /\ held'[1] = immutables[1]
        BY <1>0, <3>1
      <4>2. \A i \in DOMAIN immutables' : i + 1 \in DOMAIN immutables
                                          /\ immutables'[i] = immutables[i + 1]
        BY <1>0, <3>1
      <4>3. ASSUME NEW e \in Stored' PROVE e \in Stored
        <5>1. \/ e \in mutable'
              \/ \E i \in DOMAIN immutables' : e \in immutables'[i]
              \/ \E i \in DOMAIN held' : e \in held'[i]
              \/ \E n \in 1..MaxFileNumber : e \in content'[n]
          BY <4>3, StoredPartsNext
        <5>2. \/ e \in mutable
              \/ \E i \in DOMAIN immutables : e \in immutables[i]
              \/ \E n \in 1..MaxFileNumber : e \in content[n]
          BY <2>1, <3>1, <4>1, <4>2, <5>1
        <5> QED BY <5>2, StoredParts
      <4> QED BY <4>3
    <3>2. CASE held' = <<mutable>> /\ mutable' = {} /\ immutables' = immutables
      <4>1. DOMAIN held' = {1} /\ held'[1] = mutable
        BY <3>2
      <4>2. ASSUME NEW e \in Stored' PROVE e \in Stored
        <5>1. \/ e \in mutable'
              \/ \E i \in DOMAIN immutables' : e \in immutables'[i]
              \/ \E i \in DOMAIN held' : e \in held'[i]
              \/ \E n \in 1..MaxFileNumber : e \in content'[n]
          BY <4>2, StoredPartsNext
        <5>2. \/ e \in mutable
              \/ \E i \in DOMAIN immutables : e \in immutables[i]
              \/ \E n \in 1..MaxFileNumber : e \in content[n]
          BY <2>1, <3>2, <4>1, <5>1
        <5> QED BY <5>2, StoredParts
      <4> QED BY <4>2
    <3> QED BY <1>1, <3>1, <3>2 DEF BeginFlush
  <2> QED BY <2>1, <2>2, <2>3, SequencesQuiet
<1>2. CASE WriteL0Table(t)
  <2>1. UNCHANGED <<lastSequence, log, snaps, wal, manifest, mutable, immutables, held>>
    BY <1>2 DEF WriteL0Table, memory, versions
  <2>2. Set(t, FlushAt("add", job[t])) /\ FlushAt("add", job[t]).pc \notin WritePcs
    BY <1>2 DEF WriteL0Table, FlushAt, WritePcs
  <2>3. Stored' \subseteq Stored
    <3>1. \A n \in 1..MaxFileNumber : content'[n] = content[n] \/ content'[n] = held[1]
      BY <1>0, <1>2, RenameStores DEF WriteL0Table
    <3>2. ASSUME NEW e \in Stored' PROVE e \in Stored
      <4>1. \/ e \in mutable'
            \/ \E i \in DOMAIN immutables' : e \in immutables'[i]
            \/ \E i \in DOMAIN held' : e \in held'[i]
            \/ \E n \in 1..MaxFileNumber : e \in content'[n]
        BY <3>2, StoredPartsNext
      <4>2. 1 \in DOMAIN held
        BY <1>0, <1>2 DEF WriteL0Table
      <4>3. \/ e \in mutable
            \/ \E i \in DOMAIN immutables : e \in immutables[i]
            \/ \E i \in DOMAIN held : e \in held[i]
            \/ \E n \in 1..MaxFileNumber : e \in content[n]
        BY <2>1, <3>1, <4>1, <4>2
      <4> QED BY <4>3, StoredParts
    <3> QED BY <3>2
  <2> QED BY <2>1, <2>2, <2>3, SequencesQuiet
<1>3. CASE FlushFails(t)
  <2>1. UNCHANGED <<lastSequence, log, snaps, wal, manifest>>
    BY <1>3 DEF FlushFails, versions
  <2>2. Set(t, Idle) /\ Idle.pc \notin WritePcs /\ job[t].pc = "sst"
    BY <1>3 DEF FlushFails, Idle, WritePcs
  <2>3. Stored' \subseteq Stored
    <3>1. \A n \in 1..MaxFileNumber : content'[n] = content[n] \/ content'[n] = held[1]
      BY <1>0, <1>3, <2>2, RenameStores DEF FlushFails, files
    <3>2. PICK source : Restore(source)
      BY <1>3 DEF FlushFails
    <3>3. /\ \A e \in mutable' : e \in mutable \/ e \in held[1]
          /\ \A i \in DOMAIN immutables' : \A e \in immutables'[i] :
                e \in held[1] \/ \E k \in DOMAIN immutables : e \in immutables[k]
          /\ DOMAIN held' = {}
      BY <1>0, <2>2, <3>2, RestoreStores
    <3>4. ASSUME NEW e \in Stored' PROVE e \in Stored
      <4>1. \/ e \in mutable'
            \/ \E i \in DOMAIN immutables' : e \in immutables'[i]
            \/ \E i \in DOMAIN held' : e \in held'[i]
            \/ \E n \in 1..MaxFileNumber : e \in content'[n]
        BY <3>4, StoredPartsNext
      <4>2. \/ e \in mutable
            \/ \E i \in DOMAIN immutables : e \in immutables[i]
            \/ e \in held[1]
            \/ \E n \in 1..MaxFileNumber : e \in content[n]
        BY <3>1, <3>3, <4>1
      <4> QED BY <1>0, <2>2, <4>2, StoredParts
    <3> QED BY <3>4
  <2> QED BY <2>1, <2>2, <2>3, SequencesQuiet
<1> QED BY <1>1, <1>2, <1>3

\* A compaction stores no entry that was not in a table file before.
LEMMA SequencesOutputs ==
    ASSUME TypeOK, SequencesInv, NEW t \in Threads, WriteOutputs(t) \/ OutputsFail(t)
    PROVE  SequencesInv'
<1>1. job[t].pc = "run" /\ job[t].task \in Task
  BY JobShapes DEF TypeOK, WriteOutputs, OutputsFail
<1>2. UNCHANGED <<mutable, immutables, held, lastSequence, log, snaps, wal, manifest>>
  BY DEF WriteOutputs, OutputsFail, memory
<1>3. PICK j : Set(t, j) /\ j.pc \notin WritePcs
  <2>1. Idle.pc \notin WritePcs /\ \A o, n, d : Commit(o, n, d).pc \notin WritePcs
    BY DEF Commit, Idle, WritePcs
  <2> QED BY <2>1 DEF WriteOutputs, OutputsFail
<1>4. PICK part, written : content' = WithOutputs(Output(job[t]), part, written)
  <2>1. CASE WriteOutputs(t)
    BY <2>1 DEF WriteOutputs
  <2>2. CASE OutputsFail(t)
    BY <2>2 DEF OutputsFail
  <2> QED BY <2>1, <2>2
<1>5. \A e \in Output(job[t]) : \E n \in 1..MaxFileNumber : e \in content[n]
  <2>1. \A f \in AllInputFiles(job[t].task) : f.num \in 1..MaxFileNumber
    BY <1>1 DEF Task, AllInputFiles, File
  <2>2. \A e \in EntriesOf(content, AllInputFiles(job[t].task)) :
            \E f \in AllInputFiles(job[t].task) : e \in content[f.num]
    BY DEF EntriesOf
  <2> QED BY <1>1, <2>1, <2>2, OutputType
<1>6. \A n \in 1..MaxFileNumber : \A e \in content'[n] :
         e \in content[n] \/ e \in Output(job[t])
  <2>1. DOMAIN content = 1..MaxFileNumber
    BY DEF TypeOK
  <2> QED BY <1>4, <2>1 DEF WithOutputs
<1>7. ASSUME NEW e \in Stored' PROVE e \in Stored
  <2>1. \/ e \in mutable'
        \/ \E i \in DOMAIN immutables' : e \in immutables'[i]
        \/ \E i \in DOMAIN held' : e \in held'[i]
        \/ \E n \in 1..MaxFileNumber : e \in content'[n]
    BY <1>7, StoredPartsNext
  <2>2. \/ e \in mutable
        \/ \E i \in DOMAIN immutables : e \in immutables[i]
        \/ \E i \in DOMAIN held : e \in held[i]
        \/ \E n \in 1..MaxFileNumber : e \in content[n]
    BY <1>2, <1>5, <1>6, <2>1
  <2> QED BY <2>2, StoredParts
<1>8. manifest'.last = manifest.last /\ manifest'.log = manifest.log
  BY <1>2
<1> QED BY <1>2, <1>3, <1>7, <1>8, SequencesQuiet

\* The manifest edits of a compaction, and calls that fail.
LEMMA SequencesEdits ==
    ASSUME TypeOK, LocksAndLocals, SequencesInv, "sync" \notin Failures, NEW t \in Threads,
           \/ PublishAddFile(t) \/ CommitDelete(t) \/ CommitAdd(t)
           \/ CommitFails(t) \/ PublishFails(t) \/ WalFails(t)
    PROVE  SequencesInv'
<1>0. Idle.pc \notin WritePcs
  BY DEF Idle, WritePcs
<1>a. ~Fail("sync")
  BY DEF Fail
<1>1. CASE PublishAddFile(t)
  <2>1. UNCHANGED <<mutable, immutables, held, content, lastSequence, log, snaps, wal>>
    BY <1>1 DEF PublishAddFile, memory, files
  <2>2. manifest'.last = manifest.last /\ manifest'.log = manifest.log
    BY <1>1 DEF PublishAddFile, AddFile
  <2>3. Set(t, FlushAt("last", job[t])) /\ FlushAt("last", job[t]).pc \notin WritePcs
    BY <1>1 DEF PublishAddFile, FlushAt, WritePcs
  <2> QED BY <2>1, <2>2, <2>3, SequencesIdle
<1>2. CASE CommitDelete(t) \/ CommitAdd(t)
  <2>1. UNCHANGED <<mutable, immutables, held, content, lastSequence, log, snaps, wal>>
    BY <1>2 DEF CommitDelete, CommitAdd, memory, files
  <2>2. manifest'.last = manifest.last /\ manifest'.log = manifest.log
    <3>1. \A f : /\ AddFile(manifest, f).last = manifest.last
                 /\ AddFile(manifest, f).log = manifest.log
                 /\ DeleteFile(manifest, f).last = manifest.last
                 /\ DeleteFile(manifest, f).log = manifest.log
      BY DEF AddFile, DeleteFile
    <3>2. (\E f : manifest' = DeleteFile(manifest, f)) \/ \E f : manifest' = AddFile(manifest, f)
      BY <1>2 DEF CommitDelete, CommitAdd
    <3> QED BY <3>1, <3>2
  <2>3. /\ \A o : Committed(o).pc \notin WritePcs
        /\ \A o, d, a : Edits(o, d, a).pc \notin WritePcs
    BY DEF Committed, Edits, WritePcs
  <2>4. PICK j : Set(t, j) /\ j.pc \notin WritePcs
    <3>1. CASE CommitDelete(t)
      BY <2>3, <3>1 DEF CommitDelete
    <3>2. CASE CommitAdd(t)
      BY <2>3, <3>2 DEF CommitAdd
    <3> QED BY <1>2, <3>1, <3>2
  <2> QED BY <2>1, <2>2, <2>4, SequencesIdle
<1>3. CASE CommitFails(t) \/ WalFails(t)
  <2>1. UNCHANGED <<mutable, immutables, held, content, lastSequence, log, snaps>>
    BY <1>3 DEF CommitFails, WalFails, memory, files
  <2>2. manifest' = manifest /\ wal' = wal
    <3>1. CASE CommitFails(t)
      BY <1>a, <3>1 DEF CommitFails
    <3>2. CASE WalFails(t)
      BY <1>a, <3>2 DEF WalFails, versions
    <3> QED BY <1>3, <3>1, <3>2
  <2>3. Set(t, Idle)
    BY <1>3 DEF CommitFails, WalFails
  <2> QED BY <1>0, <2>1, <2>2, <2>3, SequencesIdle
<1>4. CASE PublishFails(t)
  <2>1. UNCHANGED <<lastSequence, log, snaps, wal, manifest, content>>
    BY <1>4, <1>a DEF PublishFails, files
  <2>2. Set(t, Idle) /\ job[t].pc \in {"add", "last", "log"}
    BY <1>4 DEF PublishFails
  <2>3. Stored' \subseteq Stored
    <3>1. Len(held) = 1 /\ 1 \in DOMAIN held
      BY <2>2 DEF LocksAndLocals, LocalsInRange, TypeOK
    <3>2. PICK source : Restore(source)
      BY <1>4 DEF PublishFails
    <3>3. /\ \A e \in mutable' : e \in mutable \/ e \in held[1]
          /\ \A i \in DOMAIN immutables' : \A e \in immutables'[i] :
                e \in held[1] \/ \E k \in DOMAIN immutables : e \in immutables[k]
          /\ DOMAIN held' = {}
      BY <3>1, <3>2, RestoreStores
    <3>4. ASSUME NEW e \in Stored' PROVE e \in Stored
      <4>1. \/ e \in mutable'
            \/ \E i \in DOMAIN immutables' : e \in immutables'[i]
            \/ \E i \in DOMAIN held' : e \in held'[i]
            \/ \E n \in 1..MaxFileNumber : e \in content'[n]
        BY <3>4, StoredPartsNext
      <4>2. \/ e \in mutable
            \/ \E i \in DOMAIN immutables : e \in immutables[i]
            \/ e \in held[1]
            \/ \E n \in 1..MaxFileNumber : e \in content[n]
        BY <2>1, <3>3, <4>1
      <4> QED BY <3>1, <4>2, StoredParts
    <3> QED BY <3>4
  <2> QED BY <1>0, <2>1, <2>2, <2>3, SequencesQuiet
<1> QED BY <1>1, <1>2, <1>3, <1>4

\* A writer starts at last_sequence + 1 and logs its batches one by one.
LEMMA SequencesLog ==
    ASSUME TypeOK, LocksAndLocals, SequencesInv, AllBatchesLogged, NEW t \in Threads,
           LockState(t) \/ AppendWal(t)
    PROVE  SequencesInv'
<1>1. CASE LockState(t)
  <2>1. UNCHANGED <<mutable, immutables, held, content, lastSequence, log, snaps, wal, manifest>>
    BY <1>1 DEF LockState, memory, versions, files
  <2>2. Stored' = Stored
    BY <2>1 DEF Stored
  <2> DEFINE q == [pc |-> "wal", group |-> job[t].group, starts |-> <<>>,
                   next |-> lastSequence + 1]
  <2>3. Set(t, q) \/ Set(t, Idle)
    BY <1>1 DEF LockState
  <2>4. q.pc = "wal" /\ q.starts = <<>> /\ Idle.pc \notin WritePcs
    BY DEF Idle, WritePcs
  <2>5. PICK j : /\ Set(t, j)
                 /\ j.pc \notin WritePcs \/ (j.pc = "wal" /\ j.starts = <<>>)
    <3> HIDE DEF q
    <3> QED BY <2>3, <2>4
  <2>6. manifest'.last = manifest.last /\ manifest'.log = manifest.log /\ Stored' \subseteq Stored
    BY <2>1, <2>2
  <2> QED BY <2>1, <2>5, <2>6, SequencesQuiet
<1>2. CASE AppendWal(t)
  <2> DEFINE o == job[t]
             n == Len(o.starts) + 1
             b == o.group[n]
             starts == Append(o.starts, o.next)
  <2>1. /\ o.pc = "wal" /\ o.group \in Group /\ o.starts \in Seq(Nat) /\ o.next \in Nat
        /\ Len(o.starts) < Len(o.group)
    <3>1. o.pc = "wal"
      BY <1>2 DEF AppendWal
    <3>2. o \in [pc : {"wal"}, group : Group, starts : Seq(Nat), next : Nat]
      BY <3>1, JobShapes DEF TypeOK
    <3> QED BY <3>1, <3>2 DEF LocksAndLocals, LocalsInRange
  <2>2. n \in 1..Len(o.group) /\ b.wal
    <3>1. o.group \in Seq(Batch) /\ Len(o.group) \in Nat /\ (o.group # <<>> => o.group \in Groups)
      BY <2>1, GroupFacts
    <3>2. Len(o.starts) \in Nat
      BY <2>1
    <3>3. n \in 1..Len(o.group) /\ o.group # <<>>
      BY <2>1, <3>1, <3>2
    <3>4. n \in DOMAIN o.group
      BY <3>1, <3>3
    <3> QED BY <3>1, <3>3, <3>4 DEF AllBatchesLogged
  <2>3. /\ UNCHANGED <<mutable, immutables, held, content, lastSequence, log, snaps, manifest>>
        /\ wal' = wal \cup {[log |-> log, entry |-> e] : e \in BatchEntries(b, o.next)}
    BY <1>2, <2>2 DEF AppendWal, WithRecord, memory, versions, files
  <2>4. PICK j : /\ Set(t, j) /\ j.pc \in {"wal", "apply"}
                 /\ j.group = o.group /\ j.starts = starts
    <3> DEFINE p == [pc |-> "apply", group |-> o.group, starts |-> starts,
                     item |-> 1, shouldFlush |-> FALSE]
               q == [pc |-> "wal", group |-> o.group, starts |-> starts,
                     next |-> o.next + Len(b.recs)]
    <3>1. Set(t, p) \/ Set(t, q)
      BY <1>2 DEF AppendWal
    <3>2. /\ p.pc = "apply" /\ p.group = o.group /\ p.starts = starts
          /\ q.pc = "wal" /\ q.group = o.group /\ q.starts = starts
      OBVIOUS
    <3> HIDE DEF p, q
    <3> QED BY <3>1, <3>2
  <2>5. WalEntries(wal, manifest.log) \subseteq WalEntries(wal', manifest'.log)
    BY <2>3 DEF WalEntries
  <2>6. BatchEntries(b, o.next) \subseteq WalEntries(wal', manifest'.log)
    <3>1. log = manifest'.log
      BY <2>3 DEF SequencesInv
    <3>2. \A e \in BatchEntries(b, o.next) : [log |-> log, entry |-> e] \in wal'
      BY <2>3
    <3>3. \A e : [log |-> log, entry |-> e].log = log /\ [log |-> log, entry |-> e].entry = e
      OBVIOUS
    <3> HIDE DEF b, o
    <3> QED BY <3>1, <3>2, <3>3 DEF WalEntries
  <2>7. \A u \in Threads : job'[u] = IF u = t THEN j ELSE job[u]
    BY <2>4 DEF TypeOK, Set
  <2>8. Settled(Stored)'
    <3>1. Stored' = Stored
      BY <2>3 DEF Stored
    <3> QED BY <2>3, <2>5, <3>1 DEF SequencesInv, Settled, Covered
  <2>9. ASSUME NEW u \in Threads PROVE JobSettled(job[u])'
    <3>1. CASE u # t
      <4>1. job'[u] = job[u] /\ JobSettled(job[u])
        BY <2>7, <3>1 DEF SequencesInv
      <4> QED BY <2>3, <2>5, <4>1 DEF JobSettled
    <3>2. CASE u = t
      <4>1. job'[u] = j /\ JobSettled(o)
        BY <2>7, <3>2 DEF SequencesInv
      <4>2. ASSUME NEW m \in DOMAIN starts
            PROVE  BatchEntries(o.group[m], starts[m]) \subseteq WalEntries(wal', manifest'.log)
        <5>1. m = n \/ m \in DOMAIN o.starts
          BY <2>1
        <5>2. CASE m = n
          <6>1. starts[m] = o.next
            BY <2>1, <5>2
          <6> QED BY <2>6, <5>2, <6>1
        <5>3. CASE m \in DOMAIN o.starts
          <6>1. starts[m] = o.starts[m]
            BY <2>1, <5>3
          <6>2. BatchEntries(o.group[m], o.starts[m]) \subseteq WalEntries(wal, manifest.log)
            BY <2>1, <4>1, <5>3 DEF JobSettled
          <6> QED BY <2>5, <6>1, <6>2
        <5> QED BY <5>1, <5>2, <5>3
      <4> HIDE DEF starts, o
      <4> QED BY <2>4, <4>1, <4>2 DEF JobSettled
    <3> QED BY <3>1, <3>2
  <2> QED BY <2>3, <2>8, <2>9 DEF SequencesInv
<1> QED BY <1>1, <1>2

\* The memtables after apply_batch hold what they held and the new entries.
LEMMA ApplyStores ==
    ASSUME TypeOK, NEW filled, NEW frozen,
           mutable' = IF frozen THEN {} ELSE filled,
           immutables' = IF frozen THEN Append(immutables, filled) ELSE immutables,
           UNCHANGED <<held, content>>
    PROVE  \A e \in Stored' : e \in Stored \/ e \in filled
<1>0. immutables \in Seq(SUBSET Entry)
  BY DEF TypeOK
<1>1. ASSUME NEW i \in DOMAIN immutables' PROVE immutables'[i] = filled \/
                                                (i \in DOMAIN immutables /\ immutables'[i] = immutables[i])
  <2>1. CASE frozen
    <3>1. DOMAIN immutables = 1..Len(immutables) /\ Len(immutables) \in Nat
      BY <1>0
    <3>2. /\ DOMAIN Append(immutables, filled) = 1..(Len(immutables) + 1)
          /\ Append(immutables, filled)[Len(immutables) + 1] = filled
          /\ \A k \in 1..Len(immutables) : Append(immutables, filled)[k] = immutables[k]
      BY <1>0
    <3>3. immutables' = Append(immutables, filled)
      BY <2>1
    <3>4. i \in 1..(Len(immutables) + 1)
      BY <3>2, <3>3
    <3>5. CASE i = Len(immutables) + 1
      BY <3>2, <3>3, <3>5
    <3>6. CASE i \in 1..Len(immutables)
      BY <3>1, <3>2, <3>3, <3>6
    <3> QED BY <3>1, <3>4, <3>5, <3>6
  <2>2. CASE ~frozen
    BY <2>2, <1>1
  <2> QED BY <2>1, <2>2
<1>2. ASSUME NEW e \in Stored' PROVE e \in Stored \/ e \in filled
  <2>1. \/ e \in mutable'
        \/ \E i \in DOMAIN immutables' : e \in immutables'[i]
        \/ \E i \in DOMAIN held' : e \in held'[i]
        \/ \E n \in 1..MaxFileNumber : e \in content'[n]
    BY <1>2, StoredPartsNext
  <2>2. e \in mutable' => e \in filled
    OBVIOUS
  <2>3. (\E i \in DOMAIN immutables' : e \in immutables'[i])
           => e \in filled \/ \E i \in DOMAIN immutables : e \in immutables[i]
    BY <1>1
  <2> QED BY <2>1, <2>2, <2>3, StoredParts
<1> QED BY <1>2

\* What is applied is in the log, and last_sequence moves past it.
LEMMA SequencesApply ==
    ASSUME TypeOK, LocksAndLocals, SequencesInv, NEW t \in Threads, ApplyItem(t)
    PROVE  SequencesInv'
<1> DEFINE o == job[t]
           b == o.group[o.item]
           start == o.starts[o.item]
           new == BatchEntries(b, start)
           filled == Insert(mutable, new)
           frozen == IsFull(filled)
           flush == o.shouldFlush \/ frozen
<1>1. /\ o.pc = "apply" /\ o.item \in 1..Len(o.group) /\ Len(o.starts) = Len(o.group)
      /\ o.group \in Group /\ o.starts \in Seq(Nat)
  <2>1. o.pc = "apply"
    BY DEF ApplyItem
  <2> QED BY <2>1, JobShapes DEF TypeOK, LocksAndLocals, LocalsInRange
<1>2. b \in Batch /\ start \in Nat /\ o.item \in DOMAIN o.starts
  <2>1. b \in Batch
    BY <1>1, GroupFacts
  <2>2. o.item \in 1..Len(o.starts)
    BY <1>1
  <2> QED BY <1>1, <2>1, <2>2
<1>3. /\ UNCHANGED <<held, content, log, snaps, wal, manifest>>
      /\ mutable' = IF frozen THEN {} ELSE filled
      /\ immutables' = IF frozen THEN Append(immutables, filled) ELSE immutables
      /\ lastSequence' = MaxOf(lastSequence, start + Len(b.recs) - 1)
  BY DEF ApplyItem, versions, files
<1>4. PICK j : /\ Set(t, j) /\ j.pc # "log"
               /\ j.pc \in {"wal", "apply"} => j.group = o.group /\ j.starts = o.starts
  <2> DEFINE p == [pc |-> "apply", group |-> o.group, starts |-> o.starts,
                   item |-> o.item + 1, shouldFlush |-> flush]
             q == [pc |-> "flush"]
  <2>1. Set(t, p) \/ Set(t, q) \/ Set(t, Idle)
    BY DEF ApplyItem
  <2>2. p.pc = "apply" /\ p.group = o.group /\ p.starts = o.starts
    OBVIOUS
  <2>3. q.pc = "flush" /\ Idle.pc = "idle"
    BY DEF Idle
  <2> HIDE DEF p, q
  <2> QED BY <2>1, <2>2, <2>3
<1>5. new \subseteq WalEntries(wal, manifest.log)
  <2>1. JobSettled(o)
    BY DEF SequencesInv
  <2> QED BY <1>1, <1>2, <2>1 DEF JobSettled
<1>6. \A e \in new : e.seq <= lastSequence'
  <2>1. Len(b.recs) \in Nat \ {0} /\ lastSequence \in Nat /\ DOMAIN b.recs = 1..Len(b.recs)
    BY <1>2, BatchEntriesType DEF TypeOK, Batch
  <2>2. \A e \in new : \E i \in DOMAIN b.recs : e.seq = start + i - 1
    BY DEF BatchEntries
  <2> HIDE DEF new, start, b
  <2>3. \A i \in 1..Len(b.recs) : start + i - 1 <= start + Len(b.recs) - 1
    BY <1>2, <2>1
  <2>4. start + Len(b.recs) - 1 <= lastSequence'
    BY <1>2, <1>3, <2>1 DEF MaxOf
  <2>5. lastSequence' \in Nat
    BY <1>2, <1>3, <2>1 DEF MaxOf
  <2>6. ASSUME NEW e \in new PROVE e.seq <= lastSequence'
    <3>1. PICK i \in 1..Len(b.recs) : e.seq = start + i - 1
      BY <2>1, <2>2
    <3> QED BY <1>2, <2>1, <2>3, <2>4, <2>5, <3>1
  <2> QED BY <2>6
<1>7. lastSequence <= lastSequence' /\ lastSequence' \in Nat
  <2>1. Len(b.recs) \in Nat \ {0} /\ lastSequence \in Nat
    BY <1>2, BatchEntriesType DEF TypeOK
  <2> HIDE DEF b, start
  <2> QED BY <1>2, <1>3, <2>1 DEF MaxOf
<1>8. Settled(Stored)'
  <2>0. \A e \in Stored' : e \in Stored \/ e \in filled
    <3> HIDE DEF filled, frozen
    <3> QED BY <1>3, ApplyStores
  <2>1. \A e \in Stored' : e \in Stored \/ e \in new
    BY <2>0, StoredParts DEF Insert
  <2>2. \A e : (Covered(e))' <=> Covered(e)
    BY <1>3 DEF Covered
  <2>3. \A e \in Stored : e.seq <= lastSequence' /\ Covered(e)
    <3>1. \A e \in Stored : e.seq <= lastSequence /\ Covered(e) /\ e.seq \in Nat
      BY StoredType DEF SequencesInv, Settled
    <3>2. lastSequence \in Nat
      BY DEF TypeOK
    <3> QED BY <1>7, <3>1, <3>2
  <2>4. \A e \in new : e.seq <= lastSequence' /\ Covered(e)
    BY <1>5, <1>6 DEF Covered
  <2> HIDE DEF new
  <2> QED BY <2>1, <2>2, <2>3, <2>4 DEF Settled
<1>9. ASSUME NEW u \in Threads PROVE JobSettled(job[u])'
  <2>0. job'[u] = IF u = t THEN j ELSE job[u]
    BY <1>4 DEF TypeOK, Set
  <2>1. CASE u = t
    <3>1. job'[u] = j /\ JobSettled(o) /\ o.pc = "apply"
      BY <1>1, <2>0, <2>1 DEF SequencesInv
    <3> HIDE DEF o
    <3> QED BY <1>3, <1>4, <3>1 DEF JobSettled
  <2>2. CASE u # t
    <3>1. job'[u] = job[u] /\ JobSettled(job[u]) /\ job[u].pc # "log"
      BY <1>1, <2>0, <2>2 DEF SequencesInv, LocksAndLocals, HoldsState
    <3> QED BY <1>3, <3>1 DEF JobSettled
  <2> QED BY <2>1, <2>2
<1>10. manifest'.last <= lastSequence' /\ \A s \in snaps' : s.seq <= lastSequence'
  <2>1. /\ manifest.last \in Nat /\ lastSequence \in Nat
        /\ \A s \in snaps : s.seq \in Nat
    BY DEF TypeOK
  <2>2. manifest.last <= lastSequence /\ \A s \in snaps : s.seq <= lastSequence
    BY DEF SequencesInv
  <2>3. manifest' = manifest /\ snaps' = snaps
    BY <1>3
  <2> QED BY <1>7, <2>1, <2>2, <2>3
<1> QED BY <1>3, <1>8, <1>9, <1>10 DEF SequencesInv

\* The flush publishes last_sequence under the state lock and then switches
\* logs: all that is stored is covered by what the manifest says.
LEMMA SequencesPublish ==
    ASSUME TypeOK, LocksAndLocals, SequencesInv, NEW t \in Threads,
           PublishLastSequence(t) \/ PublishLogNumber(t)
    PROVE  SequencesInv'
<1>0. /\ lastSequence \in Nat /\ manifest.last \in Nat
      /\ \A e \in Stored : e.seq \in Nat
      /\ \A e \in Stored : e.seq <= lastSequence /\ Covered(e)
  BY StoredType DEF SequencesInv, Settled
<1>1. CASE PublishLastSequence(t)
  <2>1. /\ UNCHANGED <<mutable, immutables, held, content, lastSequence, log, snaps, wal>>
        /\ manifest' = LastSequence(manifest, lastSequence)
        /\ Set(t, FlushAt("log", job[t]))
    BY <1>1 DEF PublishLastSequence, memory, files
  <2>2. manifest'.last = lastSequence /\ manifest'.log = manifest.log
    BY <1>0, <2>1 DEF LastSequence, MaxOf, SequencesInv
  <2>3. Stored' = Stored
    BY <2>1 DEF Stored
  <2>4. Settled(Stored)'
    BY <1>0, <2>1, <2>2, <2>3 DEF Settled, Covered
  <2>5. ASSUME NEW u \in Threads PROVE JobSettled(job[u])'
    <3>0. job'[u] = IF u = t THEN FlushAt("log", job[t]) ELSE job[u]
      BY <2>1 DEF TypeOK, Set
    <3>1. lastSequence' <= manifest'.last /\ WalEntries(wal', manifest'.log) = WalEntries(wal, manifest.log)
      BY <1>0, <2>1, <2>2
    <3>2. CASE u = t
      BY <3>0, <3>1, <3>2 DEF JobSettled, FlushAt
    <3>3. CASE u # t
      <4>1. JobSettled(job[u])
        BY DEF SequencesInv
      <4> QED BY <3>0, <3>1, <3>3, <4>1 DEF JobSettled
    <3> QED BY <3>2, <3>3
  <2>6. manifest'.last <= lastSequence'
    BY <1>0, <2>1, <2>2
  <2> QED BY <2>1, <2>2, <2>4, <2>5, <2>6 DEF SequencesInv
<1>2. CASE PublishLogNumber(t)
  <2>1. /\ UNCHANGED <<mutable, immutables, content, lastSequence, snaps, wal>> /\ held' = <<>>
        /\ manifest' = LogNumber(manifest, nextFile) /\ log' = nextFile
        /\ Set(t, Idle) /\ job[t].pc = "log"
    BY <1>2 DEF PublishLogNumber, files
  <2>2. manifest'.last = manifest.last /\ manifest'.log = nextFile
    BY <2>1 DEF LogNumber
  <2>3. lastSequence <= manifest.last
    BY <2>1 DEF SequencesInv, JobSettled
  <2>4. Stored' \subseteq Stored
    <3>1. DOMAIN held' = {}
      BY <2>1
    <3>2. ASSUME NEW e \in Stored' PROVE e \in Stored
      BY <2>1, <3>1, <3>2, StoredParts, StoredPartsNext
    <3> QED BY <3>2
  <2>5. Settled(Stored)'
    <3>1. \A e \in Stored : e.seq <= lastSequence' /\ e.seq <= manifest'.last
      BY <1>0, <2>1, <2>2, <2>3
    <3> QED BY <2>4, <3>1 DEF Settled, Covered
  <2>6. ASSUME NEW u \in Threads PROVE JobSettled(job[u])'
    <3>0. job'[u] = IF u = t THEN Idle ELSE job[u]
      BY <2>1 DEF TypeOK, Set
    <3>1. job'[u].pc \notin {"log", "wal", "apply"}
      <4>1. CASE u = t
        BY <3>0, <4>1 DEF Idle
      <4>2. CASE u # t
        BY <2>1, <3>0, <4>2 DEF LocksAndLocals, HoldsState
      <4> QED BY <4>1, <4>2
    <3> QED BY <3>1 DEF JobSettled
  <2> QED BY <2>1, <2>2, <2>5, <2>6 DEF SequencesInv
<1> QED BY <1>1, <1>2

LEMMA SequencesSnapshots ==
    ASSUME TypeOK, SequencesInv, NEW h \in Holders, TakeSnapshot(h) \/ DropSnapshot(h)
    PROVE  SequencesInv'
<1>1. UNCHANGED <<mutable, immutables, held, content, lastSequence, log, wal, manifest, job>>
  BY DEF TakeSnapshot, DropSnapshot, memory, versions, files
<1>2. \A s \in snaps' : s \in snaps \/ s.seq = lastSequence
  BY DEF TakeSnapshot, DropSnapshot
<1>3. \A s \in snaps' : s.seq <= lastSequence
  BY <1>2, StoredType DEF SequencesInv
<1>4. Stored' = Stored
  BY <1>1 DEF Stored
<1>5. Settled(Stored)'
  BY <1>1, <1>4 DEF SequencesInv, Settled, Covered
<1>6. \A u \in Threads : JobSettled(job[u])'
  BY <1>1 DEF SequencesInv, JobSettled
<1> QED BY <1>1, <1>3, <1>5, <1>6 DEF SequencesInv

\* DB::open: last_sequence becomes the largest that the manifest or the log
\* it names speaks of.
LEMMA SequencesCrash ==
    ASSUME TypeOK, SequencesInv, CrashAndOpen PROVE SequencesInv'
<1> DEFINE replayed == WalEntries(wal, manifest.log)
<1>1. /\ UNCHANGED <<manifest, wal, content>> /\ mutable' = replayed
      /\ immutables' = <<>> /\ held' = <<>> /\ log' = manifest.log /\ snaps' = {}
      /\ \A t \in Threads : job'[t] = Idle
  BY DEF CrashAndOpen, files
<1>2. /\ lastSequence' >= manifest.last /\ \A e \in replayed : lastSequence' >= e.seq
      /\ lastSequence' \in Nat
  <2>0. replayed \subseteq Entry
    BY DEF TypeOK, WalEntries
  <2>1. \A e \in replayed : e.seq \in Nat
    BY <2>0 DEF Entry
  <2> HIDE DEF replayed
  <2>2. PICK s \in {manifest.last} \cup {e.seq : e \in replayed} :
           s >= manifest.last /\ (\A e \in replayed : s >= e.seq) /\ lastSequence' = s
    BY DEF CrashAndOpen, replayed
  <2> QED BY <2>1, <2>2, StoredType
<1>3. ASSUME NEW e \in Stored' PROVE e \in Stored \/ e \in replayed
  <2>1. DOMAIN immutables' = {} /\ DOMAIN held' = {}
    BY <1>1
  <2> HIDE DEF replayed
  <2> QED BY <1>1, <1>3, <2>1, StoredParts, StoredPartsNext
<1>4. \A e : Covered(e) <=> (Covered(e))'
  BY <1>1 DEF Covered
<1>5. \A e \in Stored : e.seq <= lastSequence' /\ Covered(e)
  <2>1. ASSUME NEW e \in Stored PROVE e.seq <= lastSequence' /\ Covered(e)
    <3>1. Covered(e) /\ e.seq \in Nat /\ manifest.last \in Nat
      BY StoredType DEF SequencesInv, Settled
    <3>2. CASE e.seq <= manifest.last
      BY <1>2, <3>1, <3>2
    <3>3. CASE e \in replayed
      BY <1>2, <3>1, <3>3
    <3> QED BY <3>1, <3>2, <3>3 DEF Covered
  <2> QED BY <2>1
<1>6. \A e \in replayed : e.seq <= lastSequence' /\ Covered(e)
  <2>1. \A e \in replayed : e.seq \in Nat
    BY DEF TypeOK, WalEntries, Entry
  <2>2. \A e \in replayed : Covered(e)
    BY DEF Covered
  <2> HIDE DEF replayed
  <2> QED BY <1>2, <2>1, <2>2
<1>7. Settled(Stored)'
  <2> HIDE DEF replayed
  <2> QED BY <1>3, <1>4, <1>5, <1>6 DEF Settled
<1>8. \A t \in Threads : JobSettled(job[t])'
  <2>1. Idle.pc \notin {"log", "wal", "apply"}
    BY DEF Idle
  <2> QED BY <1>1, <2>1 DEF JobSettled
<1>9. manifest'.last <= lastSequence'
  BY <1>1, <1>2, StoredType
<1> QED BY <1>1, <1>7, <1>8, <1>9 DEF SequencesInv

LEMMA SequencesInit == Init => SequencesInv
<1> SUFFICES ASSUME Init PROVE SequencesInv
  OBVIOUS
<1>1. DOMAIN immutables = {} /\ DOMAIN held = {} /\ mutable = {}
      /\ \A n \in 1..MaxFileNumber : content[n] = {}
  BY DEF Init
<1>2. \A e : e \notin Stored
  BY <1>1, StoredParts
<1>3. \A t \in Threads : JobSettled(job[t])
  <2>1. \A t \in Threads : job[t].pc \notin {"log", "wal", "apply"}
    BY DEF Init, Idle
  <2> QED BY <2>1 DEF JobSettled
<1> QED BY <1>2, <1>3 DEF Init, SequencesInv, Settled

LEMMA SequencesStep ==
    ASSUME AllBatchesLogged, "sync" \notin Failures,
           TypeOK, LocksAndLocals, SequencesInv, [Next]_vars
    PROVE  SequencesInv'
<1>1. ASSUME UNCHANGED <<mutable, immutables, held, content, lastSequence, log, snaps, job, wal,
                         manifest>>
      PROVE  SequencesInv'
  <2>1. Stored' = Stored
    BY <1>1 DEF Stored
  <2>2. Settled(Stored)'
    BY <1>1, <2>1 DEF SequencesInv, Settled, Covered
  <2>3. \A u \in Threads : JobSettled(job[u])'
    BY <1>1 DEF SequencesInv, JobSettled
  <2> QED BY <1>1, <2>2, <2>3 DEF SequencesInv
<1>2. ASSUME NEW t \in Threads, ThreadStep(t) PROVE SequencesInv'
  <2>1. CASE Close(t)
    BY <1>1, <2>1 DEF Close, versions, files
  <2> QED BY <1>2, <2>1, SequencesLocal, SequencesFlush, SequencesOutputs, SequencesEdits,
             SequencesLog, SequencesApply, SequencesPublish DEF ThreadStep
<1>3. CASE UNCHANGED vars
  BY <1>1, <1>3 DEF vars, memory, versions, files
<1> QED BY <1>2, <1>3, SequencesSnapshots, SequencesCrash DEF Next

\* The next write gets a sequence number that nothing in memory, in a live
\* table or in a snapshot has or exceeds, whatever was flushed, compacted,
\* failed or crashed before: DBState::last_sequence, as DB::open recovers it
\* from the manifest and the log, is never behind what the tables hold.
THEOREM SequencesAreFresh ==
    ASSUME AllBatchesLogged, "sync" \notin Failures
    PROVE  Spec => []SequencesFresh
<1>1. TypeOK /\ SequencesInv => SequencesFresh
  <2> SUFFICES ASSUME TypeOK, SequencesInv PROVE SequencesFresh
    OBVIOUS
  <2>1. \A e \in Stored : e.seq <= lastSequence
    BY DEF SequencesInv, Settled
  <2>2. ASSUME NEW i \in DOMAIN Memtables, NEW e \in Memtables[i] PROVE e \in Stored
    <3>1. /\ held \in Seq(SUBSET Entry) /\ immutables \in Seq(SUBSET Entry)
          /\ mutable \in SUBSET Entry
      BY DEF TypeOK
    <3>2. <<mutable>> \in Seq(SUBSET Entry) /\ DOMAIN <<mutable>> = {1} /\ <<mutable>>[1] = mutable
      BY <3>1, Singleton
    <3>3. PICK m : m = held \o immutables
      OBVIOUS
    <3>4. m \in Seq(SUBSET Entry) /\ Len(m) \in Nat
      BY <3>1, <3>3
    <3>5. /\ DOMAIN (m \o <<mutable>>) = 1..(Len(m) + 1)
          /\ \A k \in 1..(Len(m) + 1) :
               (m \o <<mutable>>)[k] = IF k <= Len(m) THEN m[k] ELSE <<mutable>>[k - Len(m)]
      BY <3>2, <3>4, ConcatFacts
    <3>6. Memtables = m \o <<mutable>>
      BY <3>3 DEF Memtables
    <3>7. i \in 1..(Len(m) + 1)
      BY <3>5, <3>6
    <3>8. CASE i = Len(m) + 1
      <4>1. Memtables[i] = mutable
        BY <3>2, <3>4, <3>5, <3>6, <3>7, <3>8
      <4> QED BY <2>2, <4>1, StoredParts
    <3>9. CASE i \in 1..Len(m)
      <4>1. Memtables[i] = m[i]
        BY <3>4, <3>5, <3>6, <3>7, <3>9
      <4>2. /\ DOMAIN m = 1..Len(m) /\ DOMAIN m = 1..(Len(held) + Len(immutables))
            /\ Len(held) \in Nat /\ Len(immutables) \in Nat
            /\ DOMAIN held = 1..Len(held) /\ DOMAIN immutables = 1..Len(immutables)
        BY <3>1, <3>3, <3>4, ConcatFacts
      <4>3. \A k \in 1..(Len(held) + Len(immutables)) :
               m[k] = IF k <= Len(held) THEN held[k] ELSE immutables[k - Len(held)]
        BY <3>1, <3>3, ConcatFacts
      <4>4. i \in 1..(Len(held) + Len(immutables))
        BY <3>9, <4>2
      <4>5. \/ i \in DOMAIN held /\ m[i] = held[i]
            \/ i - Len(held) \in DOMAIN immutables /\ m[i] = immutables[i - Len(held)]
        BY <4>2, <4>3, <4>4
      <4> QED BY <2>2, <4>1, <4>5, StoredParts
    <3> QED BY <3>4, <3>7, <3>8, <3>9
  <2>3. ASSUME NEW e \in EntriesOf(content, version \cup tables) PROVE e \in Stored
    <3>1. PICK f \in version \cup tables : e \in content[f.num]
      BY <2>3 DEF EntriesOf
    <3>2. f.num \in 1..MaxFileNumber
      BY DEF TypeOK, File
    <3> QED BY <3>1, <3>2, StoredParts
  <2> QED BY <2>1, <2>2, <2>3 DEF SequencesFresh, SequencesInv
<1>2. Init => TypeOK /\ LocksAndLocals /\ SequencesInv
  BY TypeInit, IdleLocks, SequencesInit DEF Init
<1>3. TypeOK /\ LocksAndLocals /\ SequencesInv /\ [Next]_vars => SequencesInv'
  BY SequencesStep
<1> QED BY <1>1, <1>2, <1>3, TypeStep, PTL DEF Spec

-----------------------------------------------------------------------------
(* What is in the live log *)

\* A step of thread t that leaves the log and last_sequence alone, at a time
\* when t has nothing in flight.
LEMMA LoggedKept ==
    ASSUME TypeOK, LoggedSequencesFresh, NEW t \in Threads, NEW j, Set(t, j),
           job[t].pc \notin {"wal", "apply"}, UNCHANGED <<wal, log, lastSequence>>
    PROVE  LoggedSequencesFresh'
<1>1. \A u \in Threads : u # t => job'[u] = job[u]
  BY DEF TypeOK, Set
<1>2. ASSUME NEW e \in WalEntries(wal, log), e.seq > lastSequence
      PROVE  \E u \in Threads : job'[u].pc \in {"wal", "apply"} /\ e \in InFlight(job'[u])
  <2>1. PICK u \in Threads : job[u].pc \in {"wal", "apply"} /\ e \in InFlight(job[u])
    BY <1>2 DEF LoggedSequencesFresh
  <2> QED BY <1>1, <2>1
<1> QED BY <1>2 DEF LoggedSequencesFresh, InFlight, WalEntries

LEMMA InFlightParts ==
    ASSUME NEW j, NEW e
    PROVE  e \in InFlight(j) <=>
             \E m \in DOMAIN j.starts : /\ j.group[m].wal /\ (j.pc = "apply" => m >= j.item)
                                        /\ e \in BatchEntries(j.group[m], j.starts[m])
BY DEF InFlight

\* Nobody else has anything in flight while thread t writes.
LEMMA OneWriter ==
    ASSUME LocksAndLocals, NEW t \in Threads, job[t].pc \in HoldsState,
           NEW u \in Threads, job[u].pc \in {"wal", "apply"}
    PROVE  u = t
BY DEF LocksAndLocals, HoldsState

\* A record goes to the log, or an append fails and leaves nothing there.
LEMMA LoggedAppend ==
    ASSUME TypeOK, LocksAndLocals, LoggedSequencesFresh, "sync" \notin Failures,
           NEW t \in Threads, AppendWal(t) \/ WalFails(t)
    PROVE  LoggedSequencesFresh'
<1> DEFINE o == job[t]
           n == Len(o.starts) + 1
           b == o.group[n]
           starts == Append(o.starts, o.next)
<1>1. /\ o.pc = "wal" /\ o.group \in Group /\ o.starts \in Seq(Nat) /\ o.next \in Nat
      /\ Len(o.starts) < Len(o.group) /\ o.pc \in HoldsState
  <2>1. o.pc = "wal"
    BY DEF AppendWal, WalFails
  <2>2. o \in [pc : {"wal"}, group : Group, starts : Seq(Nat), next : Nat]
    BY <2>1, JobShapes DEF TypeOK
  <2> QED BY <2>1, <2>2 DEF LocksAndLocals, LocalsInRange, HoldsState
<1>2. ASSUME NEW e \in WalEntries(wal, log), e.seq > lastSequence
      PROVE  \E m \in DOMAIN o.starts : o.group[m].wal /\ e \in BatchEntries(o.group[m], o.starts[m])
  <2>1. PICK u \in Threads : job[u].pc \in {"wal", "apply"} /\ e \in InFlight(job[u])
    BY <1>2 DEF LoggedSequencesFresh
  <2>2. u = t
    BY <1>1, <2>1, OneWriter
  <2> QED BY <2>1, <2>2, InFlightParts
<1>3. UNCHANGED <<log, lastSequence>>
  BY DEF AppendWal, WalFails, memory
<1>4. CASE AppendWal(t)
  <2>1. wal' = WithRecord(b, o.next)
    BY <1>4 DEF AppendWal
  <2>2. PICK j : /\ Set(t, j) /\ j.group = o.group /\ j.starts = starts
                 /\ j.pc = "wal" \/ (j.pc = "apply" /\ j.item = 1)
    <3> DEFINE p == [pc |-> "apply", group |-> o.group, starts |-> starts,
                     item |-> 1, shouldFlush |-> FALSE]
               q == [pc |-> "wal", group |-> o.group, starts |-> starts,
                     next |-> o.next + Len(b.recs)]
    <3>1. Set(t, p) \/ Set(t, q)
      BY <1>4 DEF AppendWal
    <3>2. /\ p.pc = "apply" /\ p.item = 1 /\ p.group = o.group /\ p.starts = starts
          /\ q.pc = "wal" /\ q.group = o.group /\ q.starts = starts
      OBVIOUS
    <3> HIDE DEF p, q
    <3> QED BY <3>1, <3>2
  <2>3. job'[t] = j
    BY <2>2 DEF TypeOK, Set
  <2>4. /\ n \in DOMAIN starts /\ starts[n] = o.next
        /\ \A m \in DOMAIN o.starts : m \in DOMAIN starts /\ starts[m] = o.starts[m]
        /\ \A m \in DOMAIN starts : m >= 1
    BY <1>1
  <2>5. ASSUME NEW e \in WalEntries(wal', log), e.seq > lastSequence
        PROVE  e \in InFlight(j)
    <3>1. e \in WalEntries(wal, log) \/ (b.wal /\ e \in BatchEntries(b, o.next))
      <4>1. PICK r \in wal' : r.log = log /\ e = r.entry
        BY <2>5 DEF WalEntries
      <4>2. r \in wal \/ (b.wal /\ \E f \in BatchEntries(b, o.next) : r = [log |-> log, entry |-> f])
        <5> HIDE DEF b, o
        <5> QED BY <2>1, <4>1 DEF WithRecord
      <4> HIDE DEF b, o
      <4> QED BY <4>1, <4>2 DEF WalEntries
    <3>2. PICK m \in DOMAIN starts : o.group[m].wal /\ e \in BatchEntries(o.group[m], starts[m])
      <4>1. CASE e \in WalEntries(wal, log)
        <5>1. PICK m \in DOMAIN o.starts : o.group[m].wal /\ e \in BatchEntries(o.group[m], o.starts[m])
          BY <1>2, <2>5, <4>1
        <5> HIDE DEF o, starts
        <5> QED BY <2>4, <5>1
      <4>2. CASE b.wal /\ e \in BatchEntries(b, o.next)
        <5> HIDE DEF o, starts
        <5> QED BY <2>4, <4>2
      <4> QED BY <3>1, <4>1, <4>2
    <3> HIDE DEF o, starts
    <3> QED BY <2>2, <2>4, <3>2, InFlightParts
  <2> HIDE DEF o
  <2> QED BY <1>3, <2>2, <2>3, <2>5 DEF LoggedSequencesFresh
<1>5. CASE WalFails(t)
  <2>1. b.wal /\ Fail(IF \E i \in 1..(n - 1) : o.group[i].wal THEN "sync" ELSE "wal")
        /\ wal' = wal
    BY <1>5 DEF WalFails, Fail
  <2>2. ~ \E i \in DOMAIN o.starts : o.group[i].wal
    <3>1. ~ \E i \in 1..(n - 1) : o.group[i].wal
      BY <2>1 DEF Fail
    <3>2. DOMAIN o.starts = 1..(n - 1)
      BY <1>1
    <3> QED BY <3>1, <3>2
  <2>3. \A e \in WalEntries(wal, log) : ~(e.seq > lastSequence)
    BY <1>2, <2>2
  <2> QED BY <1>3, <2>1, <2>3 DEF LoggedSequencesFresh
<1> QED BY <1>4, <1>5

\* What is applied is no longer in flight and no longer above last_sequence.
LEMMA LoggedApply ==
    ASSUME TypeOK, LocksAndLocals, LoggedSequencesFresh, NEW t \in Threads, ApplyItem(t)
    PROVE  LoggedSequencesFresh'
<1> DEFINE o == job[t]
           b == o.group[o.item]
           start == o.starts[o.item]
           flush == o.shouldFlush \/ IsFull(Insert(mutable, BatchEntries(b, start)))
           p == [pc |-> "apply", group |-> o.group, starts |-> o.starts,
                 item |-> o.item + 1, shouldFlush |-> flush]
<1>1. /\ o.pc = "apply" /\ o.item \in 1..Len(o.group) /\ Len(o.starts) = Len(o.group)
      /\ o.group \in Group /\ o.starts \in Seq(Nat) /\ o.pc \in HoldsState
      /\ Len(o.group) \in Nat
  <2>1. o.pc = "apply"
    BY DEF ApplyItem
  <2> QED BY <2>1, JobShapes, GroupFacts DEF TypeOK, LocksAndLocals, LocalsInRange, HoldsState
<1>2. b \in Batch /\ start \in Nat /\ DOMAIN o.starts = 1..Len(o.group)
  <2>1. b \in Batch
    BY <1>1, GroupFacts
  <2> QED BY <1>1, <2>1
<1>3. /\ UNCHANGED <<log, wal>>
      /\ lastSequence' = MaxOf(lastSequence, start + Len(b.recs) - 1)
      /\ o.item < Len(o.group) => Set(t, p)
  BY DEF ApplyItem
<1>4. Len(b.recs) \in Nat \ {0} /\ lastSequence \in Nat /\ DOMAIN b.recs = 1..Len(b.recs)
  BY <1>2, BatchEntriesType DEF TypeOK, Batch
<1>5. \A e \in BatchEntries(b, start) : e.seq <= lastSequence'
  <2>1. \A e \in BatchEntries(b, start) : \E i \in DOMAIN b.recs : e.seq = start + i - 1
    BY DEF BatchEntries
  <2> HIDE DEF b, start
  <2>2. ASSUME NEW i \in 1..Len(b.recs) PROVE start + i - 1 <= lastSequence'
    BY <1>2, <1>3, <1>4 DEF MaxOf
  <2> QED BY <1>4, <2>1, <2>2
<1>6. lastSequence <= lastSequence' /\ lastSequence' \in Nat
  <2> HIDE DEF b, start
  <2> QED BY <1>2, <1>3, <1>4 DEF MaxOf
<1>7. ASSUME NEW e \in WalEntries(wal, log), e.seq > lastSequence'
      PROVE  \E u \in Threads : job'[u].pc \in {"wal", "apply"} /\ e \in InFlight(job'[u])
  <2>1. e.seq > lastSequence
    <3>1. e.seq \in Nat
      BY DEF TypeOK, WalEntries, Entry
    <3> QED BY <1>4, <1>6, <1>7, <3>1
  <2>2. PICK u \in Threads : job[u].pc \in {"wal", "apply"} /\ e \in InFlight(job[u])
    BY <2>1 DEF LoggedSequencesFresh
  <2>3. u = t
    BY <1>1, <2>2, OneWriter
  <2>4. PICK m \in DOMAIN o.starts : /\ o.group[m].wal /\ m >= o.item
                                     /\ e \in BatchEntries(o.group[m], o.starts[m])
    BY <1>1, <2>2, <2>3, InFlightParts
  <2>5. m # o.item
    <3>1. e.seq \in Nat
      BY DEF TypeOK, WalEntries, Entry
    <3> QED BY <1>5, <1>6, <1>7, <2>4, <3>1
  <2>6. m >= o.item + 1 /\ o.item < Len(o.group)
    BY <1>1, <1>2, <2>4, <2>5
  <2>7. job'[t] = p
    BY <1>3, <2>6 DEF TypeOK, Set
  <2>8. p.pc = "apply" /\ p.group = o.group /\ p.starts = o.starts /\ p.item = o.item + 1
    OBVIOUS
  <2> HIDE DEF p, o
  <2>9. e \in InFlight(p)
    BY <2>4, <2>6, <2>8, InFlightParts
  <2> QED BY <2>7, <2>8, <2>9
<1> QED BY <1>3, <1>7 DEF LoggedSequencesFresh

LEMMA LoggedStep ==
    ASSUME "sync" \notin Failures, TypeOK, LocksAndLocals, NumbersInv,
           LoggedSequencesFresh, [Next]_vars
    PROVE  LoggedSequencesFresh'
<1>1. CASE UNCHANGED <<wal, log, lastSequence, job>>
  BY <1>1 DEF LoggedSequencesFresh
<1>2. ASSUME NEW t \in Threads, ThreadStep(t) PROVE LoggedSequencesFresh'
  <2>1. CASE AppendWal(t) \/ WalFails(t) \/ ApplyItem(t)
    BY <2>1, LoggedAppend, LoggedApply
  <2>2. CASE PublishLogNumber(t)
    <3>1. wal' = wal /\ log' = nextFile
      BY <2>2 DEF PublishLogNumber
    <3>2. \A r \in wal : r.log < nextFile
      <4>1. \A r \in wal : r.log \in Nat /\ r.log < manifest.next
        BY DEF TypeOK, NumbersInv
      <4> QED BY <4>1, ManifestType DEF NumbersInv
    <3>3. WalEntries(wal', log') = {}
      <4>1. nextFile \in Nat /\ \A r \in wal : r.log \in Nat
        BY DEF TypeOK
      <4> QED BY <3>1, <3>2, <4>1 DEF WalEntries
    <3> QED BY <3>3 DEF LoggedSequencesFresh
  <2>3. ASSUME UNCHANGED <<wal, log, lastSequence>>, job[t].pc \notin {"wal", "apply"},
               \E j : Set(t, j)
        PROVE  LoggedSequencesFresh'
    BY <2>3, LoggedKept
  <2>4. CASE \/ \E g \in Groups : BeginWrite(t, g)
             \/ LockState(t) \/ FlushNothing(t) \/ FlushRefused(t) \/ BeginFlush(t)
             \/ WriteL0Table(t) \/ Close(t)
    <3>1. Idle.pc = "idle"
      BY DEF Idle
    <3>2. CASE (\E g \in Groups : BeginWrite(t, g)) \/ LockState(t) \/ WriteL0Table(t)
      BY <2>3, <3>1, <3>2 DEF BeginWrite, LockState, WriteL0Table, memory
    <3>3. CASE FlushNothing(t) \/ FlushRefused(t) \/ BeginFlush(t)
      BY <2>3, <3>1, <3>3 DEF FlushNothing, FlushRefused, BeginFlush, MayFlush, memory
    <3>4. CASE Close(t)
      BY <1>1, <3>4 DEF Close
    <3> QED BY <2>4, <3>2, <3>3, <3>4
  <2>5. CASE PublishAddFile(t) \/ PublishLastSequence(t) \/ FlushFails(t) \/ PublishFails(t)
    BY <2>3, <2>5 DEF PublishAddFile, PublishLastSequence, FlushFails, PublishFails, memory
  <2>6. CASE \/ \E r \in Ranges : CompactRange(t, r)
             \/ CompactUnderPressure(t) \/ ReadOldest(t) \/ ReadLastSequence(t)
             \/ CheckTombstones(t) \/ CompactionFails(t) \/ TrivialMove(t)
    <3>1. Idle.pc = "idle"
      BY DEF Idle
    <3> QED BY <2>3, <2>6, <3>1 DEF CompactRange, CompactUnderPressure, Pick, ReadOldest,
               ReadLastSequence, CheckTombstones, CompactionFails, TrivialMove, memory
  <2>7. CASE \/ WriteOutputs(t) \/ OutputsFail(t) \/ CommitDelete(t) \/ CommitAdd(t)
             \/ CommitFails(t) \/ LoadVersion(t) \/ InstallTables(t) \/ DeleteObsoleteFiles(t)
    BY <2>3, <2>7 DEF WriteOutputs, OutputsFail, CommitDelete, CommitAdd, CommitFails,
                      LoadVersion, InstallTables, DeleteObsoleteFiles, memory
  <2>8. CASE \/ \E k \in Keys : \E pin \in {{}} \cup {{s} : s \in snaps} : GetMemtables(t, k, pin)
             \/ GetTables(t) \/ ReturnGet(t)
    <3>1. Idle.pc = "idle"
      BY DEF Idle
    <3> QED BY <2>3, <2>8, <3>1 DEF GetMemtables, GetTables, ReturnGet, memory
  <2> QED BY <1>2, <2>1, <2>2, <2>4, <2>5, <2>6, <2>7, <2>8 DEF ThreadStep
<1>3. CASE \E h \in Holders : TakeSnapshot(h) \/ DropSnapshot(h)
  BY <1>1, <1>3 DEF TakeSnapshot, DropSnapshot, memory
<1>4. CASE CrashAndOpen
  <2>1. /\ wal' = wal /\ log' = manifest.log
        /\ \A e \in WalEntries(wal, manifest.log) : lastSequence' >= e.seq
    BY <1>4 DEF CrashAndOpen
  <2>2. \A e \in WalEntries(wal, manifest.log) : e.seq \in Nat
    BY DEF TypeOK, WalEntries, Entry
  <2>3. lastSequence' \in Nat
    BY <1>4, TypeCrash DEF TypeOK
  <2> QED BY <2>1, <2>2, <2>3 DEF LoggedSequencesFresh
<1> QED BY <1>1, <1>2, <1>3, <1>4 DEF Next, vars, memory

\* No record of a write that failed or was cut off stays in the live log with a
\* sequence that the next write will get, whoever writes, flushes, compacts or
\* crashes and whichever batches skip the log: WalWriter::append that fails
\* leaves nothing behind, and DB::open takes last_sequence from what it replays.
THEOREM LoggedSequencesAreFresh ==
    ASSUME "sync" \notin Failures
    PROVE  Spec => []LoggedSequencesFresh
<1>1. Init => LoggedSequencesFresh
  <2>1. Init => WalEntries(wal, log) = {}
    BY DEF Init, WalEntries
  <2> QED BY <2>1 DEF LoggedSequencesFresh
<1>2. TypeOK /\ LocksAndLocals /\ NumbersInv /\ LoggedSequencesFresh /\ [Next]_vars
      => LoggedSequencesFresh'
  BY LoggedStep
<1> QED BY <1>1, <1>2, NumbersHold, PTL DEF Spec

-----------------------------------------------------------------------------
(* Table files *)

\* Fewer known files, and more of them on disk, do no harm.
LEMMA ApartMono ==
    ASSUME NEW j, CompactionApart(j), KnownFiles' \subseteq KnownFiles,
           version \subseteq version', onDisk \subseteq onDisk'
    PROVE  (CompactionApart(j))'
BY DEF CompactionApart

LEMMA NoApart ==
    ASSUME NEW j, j.pc \notin CompactPcs PROVE CompactionApart(j) /\ (CompactionApart(j))'
BY DEF CompactionApart, CompactPcs, PickedPcs, InstallPcs

LEMMA NoObsolete ==
    ASSUME NEW j, j.pc \notin {"commit", "edits"} \cup InstallPcs PROVE Obsolete(j) = {}
BY DEF Obsolete

\* While thread t compacts, no other does.
LEMMA NobodyElse ==
    ASSUME FilesInv, OneCompactor, NEW t \in Threads, Compacts(t), NEW u \in Threads, u # t
    PROVE  job[u].pc \notin CompactPcs
BY DEF FilesInv, OneCompactor

\* What a step of thread t must see to.
LEMMA FilesFrame ==
    ASSUME TypeOK, FilesInv, NEW t \in Threads, NEW j, Set(t, j),
           nextFile' \in Nat, nextFile <= nextFile',
           \A f \in KnownFiles' : f.num \in onDisk',
           \A f, g \in KnownFiles' : f.num = g.num => f = g,
           \A u \in Threads : u # t /\ job[u].pc \in {"sst", "add"} =>
              /\ job[u].num \in onDisk => job[u].num \in onDisk'
              /\ \A f \in KnownFiles' : f.num # job[u].num
              /\ job[u].num \notin Obsolete(j)
              /\ \A f \in JobFiles(j) : f.num # job[u].num,
           \A u \in Threads : u # t => (CompactionApart(job[u]))',
           (CompactionApart(j))', j.pc \in CompactPcs => Compacts(t),
           \A n \in Obsolete(j) : n < nextFile',
           j.pc \in {"sst", "add"} =>
              /\ j.pc = "add" => j.num \in onDisk'
              /\ \A f \in KnownFiles' : f.num # j.num
              /\ \A u \in Threads : u # t => j.num \notin Obsolete(job[u])
                                             /\ \A f \in JobFiles(job[u]) : f.num # j.num
    PROVE  FilesInv'
<1>1. \A u \in Threads : job'[u] = IF u = t THEN j ELSE job[u]
  BY DEF TypeOK, Set
<1>2. ASSUME NEW u \in Threads PROVE (CompactionApart(job[u]))'
  <2>1. CASE u = t
    <3>1. job'[u] = j
      BY <1>1, <2>1
    <3> QED BY <3>1 DEF CompactionApart
  <2>2. CASE u # t
    BY <2>2
  <2> QED BY <2>1, <2>2
<1>3. ASSUME NEW u \in Threads PROVE (FlushApart(job[u]))'
  <2> SUFFICES ASSUME job'[u].pc \in {"sst", "add"}
               PROVE  /\ job'[u].pc = "add" => job'[u].num \in onDisk'
                      /\ \A f \in KnownFiles' : f.num # job'[u].num
                      /\ \A w \in Threads :
                           /\ job'[u].num \notin Obsolete(job'[w])
                           /\ \A f \in JobFiles(job'[w]) : f.num # job'[u].num
    BY DEF FlushApart
  <2>1. CASE u = t
    <3>1. job'[u] = j
      BY <1>1, <2>1
    <3>2. Obsolete(j) = {} /\ JobFiles(j) = {}
      BY <3>1 DEF Obsolete, JobFiles, InstallPcs
    <3>3. ASSUME NEW w \in Threads
          PROVE  j.num \notin Obsolete(job'[w]) /\ \A f \in JobFiles(job'[w]) : f.num # j.num
      <4>1. CASE w = t
        BY <1>1, <3>2, <4>1
      <4>2. CASE w # t
        BY <1>1, <3>1, <4>2
      <4> QED BY <4>1, <4>2
    <3> QED BY <3>1, <3>3
  <2>2. CASE u # t
    <3>1. job'[u] = job[u] /\ FlushApart(job[u])
      BY <1>1, <2>2 DEF FilesInv
    <3>2. ASSUME NEW w \in Threads
          PROVE  /\ job[u].num \notin Obsolete(job'[w])
                 /\ \A f \in JobFiles(job'[w]) : f.num # job[u].num
      <4>1. CASE w = t
        BY <1>1, <2>2, <3>1, <4>1
      <4>2. CASE w # t
        BY <1>1, <3>1, <4>2 DEF FlushApart
      <4> QED BY <4>1, <4>2
    <3> QED BY <2>2, <3>1, <3>2 DEF FlushApart
  <2> QED BY <2>1, <2>2
<1>4. ASSUME NEW u \in Threads PROVE \A n \in Obsolete(job'[u]) : n < nextFile'
  <2>1. CASE u = t
    BY <1>1, <2>1
  <2>2. CASE u # t
    <3>1. job'[u] = job[u]
      BY <1>1, <2>2
    <3>2. \A n \in Obsolete(job[u]) : n \in Nat /\ n < nextFile
      <4>1. Obsolete(job[u]) \subseteq Nat
        BY JobShapes DEF TypeOK, Obsolete, InstallPcs
      <4> QED BY <4>1 DEF FilesInv
    <3> QED BY <3>1, <3>2, ManifestType
  <2> QED BY <2>1, <2>2
<1>5. \A u \in Threads : job'[u].pc \in CompactPcs => Compacts(u)
  BY <1>1 DEF FilesInv
<1> QED BY <1>2, <1>3, <1>4, <1>5 DEF FilesInv, Compacts

\* A step that publishes, unlinks and picks nothing.
LEMMA FilesQuiet ==
    ASSUME TypeOK, FilesInv, NEW t \in Threads, NEW j, Set(t, j),
           nextFile' \in Nat, nextFile <= nextFile',
           KnownFiles' \subseteq KnownFiles, version' = version, onDisk \subseteq onDisk',
           JobFiles(j) \subseteq JobFiles(job[t]), Obsolete(j) \subseteq Obsolete(job[t]),
           CompactionApart(j), j.pc \notin {"sst", "add"}, j.pc \in CompactPcs => Compacts(t)
    PROVE  FilesInv'
<1>1. \A u \in Threads : job'[u] = IF u = t THEN j ELSE job[u]
  BY DEF TypeOK, Set
<1>2. ASSUME NEW u \in Threads, u # t PROVE (CompactionApart(job[u]))'
  <2>1. PICK w : w = job[u]
    OBVIOUS
  <2>2. CompactionApart(w)
    BY <2>1 DEF FilesInv
  <2>3. (CompactionApart(w))'
    BY <2>2, ApartMono
  <2>4. job'[u] = w
    BY <1>1, <1>2, <2>1
  <2> QED BY <2>3, <2>4 DEF CompactionApart
<1>3. (CompactionApart(j))'
  BY ApartMono
<1>4. \A f \in KnownFiles' : f.num \in onDisk'
  BY DEF FilesInv
<1>5. \A f, g \in KnownFiles' : f.num = g.num => f = g
  BY DEF FilesInv
<1>6. \A u \in Threads : u # t /\ job[u].pc \in {"sst", "add"} =>
         /\ job[u].num \in onDisk => job[u].num \in onDisk'
         /\ \A f \in KnownFiles' : f.num # job[u].num
         /\ job[u].num \notin Obsolete(j)
         /\ \A f \in JobFiles(j) : f.num # job[u].num
  BY DEF FilesInv, FlushApart
<1>7. \A n \in Obsolete(j) : n < nextFile'
  <2>1. Obsolete(job[t]) \subseteq Nat
    BY JobShapes DEF TypeOK, Obsolete, InstallPcs
  <2>2. \A n \in Obsolete(job[t]) : n < nextFile
    BY DEF FilesInv
  <2> QED BY <2>1, <2>2, ManifestType
<1> QED BY <1>2, <1>3, <1>4, <1>5, <1>6, <1>7, FilesFrame

\* ... because the thread ends up outside of flushes and compactions.
LEMMA FilesOutside ==
    ASSUME TypeOK, FilesInv, NEW t \in Threads, NEW j, Set(t, j),
           nextFile' \in Nat, nextFile <= nextFile',
           KnownFiles' \subseteq KnownFiles, version' = version, onDisk \subseteq onDisk',
           j.pc \in {"idle", "flush", "lock", "wal", "apply", "last", "log", "get", "got"}
    PROVE  FilesInv'
<1>1. /\ JobFiles(j) = {} /\ Obsolete(j) = {} /\ j.pc \notin CompactPcs
      /\ j.pc \notin {"sst", "add"}
  BY DEF JobFiles, Obsolete, CompactPcs, PickedPcs, InstallPcs
<1>2. CompactionApart(j)
  BY <1>1, NoApart
<1> QED BY <1>1, <1>2, FilesQuiet

LEMMA SameFiles ==
    ASSUME TypeOK, UNCHANGED <<version, onDisk, nextFile>>, manifest'.files = manifest.files
    PROVE  /\ nextFile' \in Nat /\ nextFile <= nextFile'
           /\ KnownFiles' \subseteq KnownFiles /\ onDisk \subseteq onDisk'
BY ManifestType DEF KnownFiles

LEMMA FilesWrite ==
    ASSUME TypeOK, FilesInv, NEW t \in Threads,
           \/ \E g \in Groups : BeginWrite(t, g)
           \/ LockState(t) \/ AppendWal(t) \/ WalFails(t) \/ ApplyItem(t)
    PROVE  FilesInv'
<1>1. UNCHANGED <<version, onDisk, nextFile, manifest>>
  BY DEF BeginWrite, LockState, AppendWal, WalFails, ApplyItem, versions, files
<1>a. /\ nextFile' \in Nat /\ nextFile <= nextFile'
      /\ KnownFiles' \subseteq KnownFiles /\ onDisk \subseteq onDisk' /\ version' = version
  BY <1>1, SameFiles
<1>2. CASE \E g \in Groups : BeginWrite(t, g)
  <2>1. PICK g \in Groups : BeginWrite(t, g)
    BY <1>2
  <2> DEFINE p == [pc |-> "pressure", group |-> g]
             q == [pc |-> "lock", group |-> g]
  <2>2. Set(t, p) \/ Set(t, q)
    BY <2>1 DEF BeginWrite
  <2>3. CASE Set(t, p)
    <3>1. /\ JobFiles(p) = {} /\ Obsolete(p) = {} /\ p.pc \notin {"sst", "add"}
          /\ CompactionApart(p)
      BY DEF JobFiles, Obsolete, InstallPcs, CompactionApart, PickedPcs
    <3>2. Compacts(t)
      BY <2>1 DEF BeginWrite, Compacts
    <3> HIDE DEF p
    <3> QED BY <1>a, <2>3, <3>1, <3>2, FilesQuiet
  <2>4. CASE Set(t, q)
    <3>1. q.pc = "lock"
      OBVIOUS
    <3> HIDE DEF q
    <3> QED BY <1>a, <2>4, <3>1, FilesOutside
  <2> QED BY <2>2, <2>3, <2>4
<1>3. CASE LockState(t) \/ AppendWal(t) \/ WalFails(t) \/ ApplyItem(t)
  <2>1. PICK j : Set(t, j) /\ j.pc \in {"idle", "flush", "wal", "apply"}
    <3>1. CASE LockState(t)
      BY <3>1 DEF LockState, Idle
    <3>2. CASE AppendWal(t)
      BY <3>2 DEF AppendWal
    <3>3. CASE WalFails(t)
      BY <3>3, WalFailsSets
    <3>4. CASE ApplyItem(t)
      BY <3>4, ApplySets
    <3> QED BY <1>3, <3>1, <3>2, <3>3, <3>4
  <2> QED BY <1>a, <2>1, FilesOutside
<1> QED BY <1>2, <1>3

LEMMA FilesReads ==
    ASSUME TypeOK, FilesInv, NEW t \in Threads,
           \/ \E k \in Keys : \E pin \in {{}} \cup {{s} : s \in snaps} : GetMemtables(t, k, pin)
           \/ GetTables(t) \/ ReturnGet(t)
    PROVE  FilesInv'
<1>1. PICK j : Set(t, j) /\ j.pc \in {"idle", "get", "got"}
  <2>1. ASSUME NEW k \in Keys, NEW pin, GetMemtables(t, k, pin)
        PROVE  \E j : Set(t, j) /\ j.pc \in {"idle", "get", "got"}
    BY <2>1 DEF GetMemtables, Got
  <2>2. CASE GetTables(t)
    <3>1. PICK ok : Set(t, Got(TableGet(content, job[t].files, job[t].key, job[t].seq),
                               ok, job[t].key, job[t].seq))
      BY <2>2 DEF GetTables
    <3>2. \A r, q, k, s : Got(r, q, k, s).pc = "got"
      BY DEF Got
    <3> QED BY <3>1, <3>2
  <2>3. CASE ReturnGet(t)
    BY <2>3 DEF ReturnGet, Idle
  <2> QED BY <2>1, <2>2, <2>3
<1>2. UNCHANGED <<version, onDisk, nextFile, manifest>>
  BY DEF GetMemtables, GetTables, ReturnGet, versions, files
<1>3. /\ nextFile' \in Nat /\ nextFile <= nextFile'
      /\ KnownFiles' \subseteq KnownFiles /\ onDisk \subseteq onDisk' /\ version' = version
  BY <1>2, SameFiles
<1> QED BY <1>1, <1>3, FilesOutside

\* A file that nobody knows or handles becomes known.
LEMMA ApartFromNew ==
    ASSUME NEW j, CompactionApart(j), NEW f, KnownFiles' \subseteq KnownFiles \cup {f},
           version \subseteq version', onDisk \subseteq onDisk',
           f.num \notin Obsolete(j), \A g \in JobFiles(j) : g.num # f.num
    PROVE  (CompactionApart(j))'
<1>1. j.pc \in PickedPcs => (AllInputFiles(j.task) \subseteq version)'
  BY DEF CompactionApart
<1>2. ASSUME j.pc \in {"commit", "edits"}
      PROVE  /\ \A a \in j.adds : /\ a.num \in onDisk' /\ a.num \notin j.obsolete
                                  /\ \A g \in KnownFiles' : g.num = a.num => g \in j.dels
                                  /\ \A g \in j.adds : g.num = a.num => g = a
             /\ \A n \in j.obsolete : \A g \in KnownFiles' : g.num = n => g \in j.dels
  <2>1. JobFiles(j) = j.adds /\ Obsolete(j) = j.obsolete
    BY <1>2 DEF JobFiles, Obsolete
  <2> QED BY <1>2, <2>1 DEF CompactionApart
<1>3. ASSUME j.pc \in InstallPcs
      PROVE  \A n \in j.obsolete : \A g \in KnownFiles' : g.num # n
  <2>1. Obsolete(j) = j.obsolete
    BY <1>3 DEF Obsolete
  <2> QED BY <1>3, <2>1 DEF CompactionApart
<1> QED BY <1>1, <1>2, <1>3 DEF CompactionApart

\* A flush adds its table, to the version or only to the manifest.
LEMMA FilesPublish ==
    ASSUME TypeOK, LocksAndLocals, FilesInv, NEW t \in Threads, job[t].pc = "add",
           NEW j, Set(t, j), j.pc \in {"idle", "last"}, UNCHANGED <<onDisk, nextFile>>,
           version \subseteq version', 
           KnownFiles' \subseteq KnownFiles \cup {[level |-> 0, num |-> job[t].num]}
    PROVE  FilesInv'
<1> DEFINE f == [level |-> 0, num |-> job[t].num]
<1>0. f.num = job[t].num /\ KnownFiles' \subseteq KnownFiles \cup {f}
  OBVIOUS
<1> HIDE DEF f
<1>1. /\ job[t].num \in onDisk /\ \A g \in KnownFiles : g.num # f.num
      /\ \A u \in Threads : f.num \notin Obsolete(job[u])
                            /\ \A g \in JobFiles(job[u]) : g.num # f.num
  <2>1. FlushApart(job[t])
    BY DEF FilesInv
  <2> QED BY <1>0, <2>1 DEF FlushApart
<1>2. \A u \in Threads : u # t => job[u].pc \notin {"sst", "add"}
  BY DEF LocksAndLocals, HoldsState
<1>3. /\ JobFiles(j) = {} /\ Obsolete(j) = {} /\ j.pc \notin CompactPcs
      /\ j.pc \notin {"sst", "add"}
  BY DEF JobFiles, Obsolete, CompactPcs, PickedPcs, InstallPcs
<1>4. (CompactionApart(j))'
  BY <1>3, NoApart
<1>5. ASSUME NEW u \in Threads, u # t PROVE (CompactionApart(job[u]))'
  <2>1. PICK w : w = job[u]
    OBVIOUS
  <2>2. /\ CompactionApart(w) /\ f.num \notin Obsolete(w)
        /\ \A g \in JobFiles(w) : g.num # f.num
    BY <1>1, <2>1 DEF FilesInv
  <2>3. (CompactionApart(w))'
    BY <1>0, <2>2, ApartFromNew
  <2>4. job'[u] = w
    BY <1>5, <2>1 DEF TypeOK, Set
  <2> QED BY <2>3, <2>4 DEF CompactionApart
<1>6. \A g \in KnownFiles' : g.num \in onDisk'
  BY <1>0, <1>1 DEF FilesInv
<1>7. \A g, h \in KnownFiles' : g.num = h.num => g = h
  BY <1>0, <1>1 DEF FilesInv
<1>8. nextFile' \in Nat /\ nextFile <= nextFile'
  BY ManifestType
<1> QED BY <1>2, <1>3, <1>4, <1>5, <1>6, <1>7, <1>8, FilesFrame

LEMMA FilesFlush ==
    ASSUME TypeOK, LocksAndLocals, NumbersInv, FilesInv, NEW t \in Threads,
           \/ FlushNothing(t) \/ FlushRefused(t) \/ BeginFlush(t) \/ WriteL0Table(t)
           \/ PublishAddFile(t) \/ PublishLastSequence(t) \/ PublishLogNumber(t)
           \/ FlushFails(t) \/ PublishFails(t)
    PROVE  FilesInv'
<1>0. Idle.pc = "idle"
  BY DEF Idle
<1>a. nextFile \in Nat
  BY ManifestType
<1>1. CASE FlushNothing(t) \/ FlushRefused(t)
  <2>1. UNCHANGED <<version, manifest, onDisk>> /\ Set(t, Idle)
    BY <1>1 DEF FlushNothing, FlushRefused, versions, files
  <2>2. nextFile' \in Nat /\ nextFile <= nextFile'
    BY <1>1, <1>a DEF FlushNothing, FlushRefused, versions
  <2>3. KnownFiles' \subseteq KnownFiles
    BY <2>1 DEF KnownFiles
  <2> QED BY <1>0, <2>1, <2>2, <2>3, FilesOutside
<1>2. CASE BeginFlush(t)
  <2>1. /\ UNCHANGED <<version, manifest, onDisk>> /\ nextFile' = nextFile + 1
        /\ \E src : Set(t, [pc |-> "sst", num |-> nextFile, source |-> src])
    BY <1>2 DEF BeginFlush, files
  <2>2. PICK j : Set(t, j) /\ j.pc = "sst" /\ j.num = nextFile
    BY <2>1
  <2>3. KnownFiles' = KnownFiles
    BY <2>1 DEF KnownFiles
  <2>4. /\ JobFiles(j) = {} /\ Obsolete(j) = {} /\ j.pc \notin CompactPcs
    BY <2>2 DEF JobFiles, Obsolete, CompactPcs, PickedPcs, InstallPcs
  <2>5. (CompactionApart(j))'
    BY <2>4, NoApart
  <2>6. ASSUME NEW u \in Threads, u # t PROVE (CompactionApart(job[u]))'
    <3>1. job'[u] = job[u] /\ CompactionApart(job[u])
      BY <2>2, <2>6 DEF TypeOK, Set, FilesInv
    <3> QED BY <2>1, <2>3, <3>1 DEF CompactionApart
  <2>7. \A f \in KnownFiles' : f.num # j.num
    <3>1. \A f \in KnownFiles : f.num < manifest.next /\ manifest.next <= nextFile
      BY DEF NumbersInv
    <3> QED BY <2>2, <2>3, <3>1, ManifestType
  <2>8. ASSUME NEW u \in Threads
        PROVE  j.num \notin Obsolete(job[u]) /\ \A f \in JobFiles(job[u]) : f.num # j.num
    <3>1. \A n \in Obsolete(job[u]) : n < nextFile
      BY DEF FilesInv
    <3>2. \A f \in JobFiles(job[u]) : f.num < nextFile /\ f.num \in Nat
      BY JobFilesType DEF NumbersInv
    <3> QED BY <1>a, <2>2, <3>1, <3>2
  <2>9. \A u \in Threads : u # t => job[u].pc \notin {"sst", "add"}
    BY <1>2 DEF BeginFlush, StateFree, HoldsState
  <2>10. nextFile' \in Nat /\ nextFile <= nextFile'
    BY <1>a, <2>1
  <2>11. /\ \A f \in KnownFiles' : f.num \in onDisk'
         /\ \A f, g \in KnownFiles' : f.num = g.num => f = g
    BY <2>1, <2>3 DEF FilesInv
  <2> QED BY <2>2, <2>4, <2>5, <2>6, <2>7, <2>8, <2>9, <2>10, <2>11, FilesFrame
<1>3. CASE WriteL0Table(t)
  <2>1. /\ UNCHANGED <<version, manifest, nextFile>> /\ onDisk' = onDisk \cup {job[t].num}
        /\ job[t].pc = "sst"
    BY <1>3 DEF WriteL0Table, RenameTable, versions
  <2>2. PICK j : Set(t, j) /\ j.pc = "add" /\ j.num = job[t].num
    BY <1>3 DEF WriteL0Table, FlushAt
  <2>3. KnownFiles' = KnownFiles
    BY <2>1 DEF KnownFiles
  <2>4. /\ JobFiles(j) = {} /\ Obsolete(j) = {} /\ j.pc \notin CompactPcs
    BY <2>2 DEF JobFiles, Obsolete, CompactPcs, PickedPcs, InstallPcs
  <2>5. (CompactionApart(j))'
    BY <2>4, NoApart
  <2>6. ASSUME NEW u \in Threads, u # t PROVE (CompactionApart(job[u]))'
    <3>1. job'[u] = job[u] /\ CompactionApart(job[u])
      BY <2>2, <2>6 DEF TypeOK, Set, FilesInv
    <3> QED BY <2>1, <2>3, <3>1 DEF CompactionApart
  <2>7. /\ \A f \in KnownFiles' : f.num # j.num
        /\ \A u \in Threads : j.num \notin Obsolete(job[u])
                              /\ \A f \in JobFiles(job[u]) : f.num # j.num
    <3>1. FlushApart(job[t])
      BY DEF FilesInv
    <3> QED BY <2>1, <2>2, <2>3, <3>1 DEF FlushApart
  <2>8. \A u \in Threads : u # t => job[u].pc \notin {"sst", "add"}
    BY <2>1 DEF LocksAndLocals, HoldsState
  <2>9. nextFile' \in Nat /\ nextFile <= nextFile' /\ j.num \in onDisk'
    BY <1>a, <2>1, <2>2
  <2>10. /\ \A f \in KnownFiles' : f.num \in onDisk'
         /\ \A f, g \in KnownFiles' : f.num = g.num => f = g
    BY <2>1, <2>3 DEF FilesInv
  <2> QED BY <2>2, <2>4, <2>5, <2>6, <2>7, <2>8, <2>9, <2>10, FilesFrame
<1>4. CASE PublishAddFile(t)
  <2>1. /\ job[t].pc = "add" /\ UNCHANGED <<onDisk, nextFile>> /\ version \subseteq version'
        /\ KnownFiles' \subseteq KnownFiles \cup {[level |-> 0, num |-> job[t].num]}
    BY <1>4 DEF PublishAddFile, files, AddFile, KnownFiles
  <2>2. PICK j : Set(t, j) /\ j.pc \in {"idle", "last"}
    BY <1>4 DEF PublishAddFile, FlushAt
  <2> QED BY <2>1, <2>2, FilesPublish
<1>5. CASE PublishLastSequence(t) \/ PublishLogNumber(t)
  <2>1. /\ UNCHANGED <<version, onDisk>> /\ manifest'.files = manifest.files
        /\ nextFile' = nextFile \/ nextFile' = nextFile + 1
    BY <1>5 DEF PublishLastSequence, PublishLogNumber, LastSequence, LogNumber, files
  <2>2. PICK j : Set(t, j) /\ j.pc \in {"idle", "log"}
    BY <1>0, <1>5 DEF PublishLastSequence, PublishLogNumber, FlushAt
  <2>3. nextFile' \in Nat /\ nextFile <= nextFile' /\ KnownFiles' \subseteq KnownFiles
    BY <1>a, <2>1 DEF KnownFiles
  <2> QED BY <2>1, <2>2, <2>3, FilesOutside
<1>6. CASE FlushFails(t)
  <2>1. UNCHANGED <<version, manifest, nextFile>> /\ onDisk \subseteq onDisk' /\ Set(t, Idle)
    BY <1>6 DEF FlushFails, RenameTable, versions, files
  <2>2. nextFile' \in Nat /\ nextFile <= nextFile' /\ KnownFiles' \subseteq KnownFiles
    BY <1>a, <2>1 DEF KnownFiles
  <2> QED BY <1>0, <2>1, <2>2, FilesOutside
<1>7. CASE PublishFails(t)
  <2>1. /\ UNCHANGED <<version, onDisk>> /\ Set(t, Idle)
        /\ nextFile' = IF job[t].pc = "log" THEN nextFile + 1 ELSE nextFile
    BY <1>7 DEF PublishFails, files
  <2>2. nextFile' \in Nat /\ nextFile <= nextFile'
    BY <1>a, <2>1
  <2>3. CASE job[t].pc = "add"
    <3>1. manifest' = manifest \/ manifest' = AddFile(manifest, [level |-> 0, num |-> job[t].num])
      BY <1>7, <2>3 DEF PublishFails, NextPublished
    <3>2. /\ KnownFiles' \subseteq KnownFiles \cup {[level |-> 0, num |-> job[t].num]}
          /\ nextFile' = nextFile
      BY <2>1, <2>3, <3>1 DEF KnownFiles, AddFile
    <3> QED BY <1>0, <2>1, <2>3, <3>2, FilesPublish
  <2>4. CASE job[t].pc # "add"
    <3>1. manifest'.files = manifest.files
      BY <1>7, <2>4 DEF PublishFails, NextPublished, LastSequence, LogNumber
    <3>2. KnownFiles' \subseteq KnownFiles
      BY <2>1, <3>1 DEF KnownFiles
    <3> QED BY <1>0, <2>1, <2>2, <3>2, FilesOutside
  <2> QED BY <2>3, <2>4
<1> QED BY <1>1, <1>2, <1>3, <1>4, <1>5, <1>6, <1>7

\* Nobody but t compacts, so that t's steps disturb no other compaction.
LEMMA OthersApart ==
    ASSUME TypeOK, FilesInv, OneCompactor, NEW t \in Threads, Compacts(t), NEW j, Set(t, j)
    PROVE  \A u \in Threads : u # t => (CompactionApart(job[u]))'
<1>1. ASSUME NEW u \in Threads, u # t PROVE (CompactionApart(job[u]))'
  <2>1. PICK w : w = job[u]
    OBVIOUS
  <2>2. w.pc \notin CompactPcs
    BY <1>1, <2>1, NobodyElse
  <2>3. (CompactionApart(w))'
    BY <2>2, NoApart
  <2>4. job'[u] = w
    BY <1>1, <2>1 DEF TypeOK, Set
  <2> QED BY <2>3, <2>4 DEF CompactionApart
<1> QED BY <1>1

LEMMA TaskWithin ==
    ASSUME NEW v, NEW inputs \in SUBSET v
    PROVE  AllInputFiles(TaskForFiles(content, v, inputs)) \subseteq v
BY DEF TaskForFiles, AllInputFiles, FilesAt

LEMMA FilesPick ==
    ASSUME TypeOK, FilesInv, OneCompactor, NEW t \in Threads, Compacts(t), NEW r, NEW g \in Group,
           Pick(t, r, g)
    PROVE  FilesInv'
<1> DEFINE inputs == ManualInputs(content, version, r)
           q == [pc |-> "oldest", group |-> g, task |-> TaskForFiles(content, version, inputs)]
<1>1. UNCHANGED <<version, manifest, onDisk, nextFile>> /\ (Set(t, Finish(g)) \/ Set(t, q))
  BY DEF Pick, versions, files
<1>2. /\ nextFile' \in Nat /\ nextFile <= nextFile'
      /\ KnownFiles' \subseteq KnownFiles /\ onDisk \subseteq onDisk' /\ version' = version
  BY <1>1, SameFiles
<1>3. CASE Set(t, Finish(g))
  <2>1. Finish(g).pc \in {"idle", "lock"}
    BY DEF Finish, Idle
  <2> QED BY <1>2, <1>3, <2>1, FilesOutside
<1>4. CASE Set(t, q)
  <2>1. AllInputFiles(q.task) \subseteq version
    <3>1. inputs \subseteq version
      BY ManualInputsSubset
    <3> HIDE DEF inputs
    <3> QED BY <3>1, TaskWithin
  <2>2. PICK j : Set(t, j) /\ j.pc = "oldest" /\ AllInputFiles(j.task) \subseteq version
    BY <1>4, <2>1
  <2>3. /\ JobFiles(j) = AllInputFiles(j.task) /\ Obsolete(j) = {} /\ CompactionApart(j)
    BY <2>2 DEF JobFiles, Obsolete, CompactionApart, InstallPcs
  <2>4. (CompactionApart(j))'
    BY <1>2, <2>3, ApartMono
  <2>5. \A u \in Threads : u # t => (CompactionApart(job[u]))'
    BY <2>2, OthersApart
  <2>6. \A u \in Threads : u # t /\ job[u].pc \in {"sst", "add"} =>
           /\ job[u].num \in onDisk => job[u].num \in onDisk'
           /\ \A f \in KnownFiles' : f.num # job[u].num
           /\ job[u].num \notin Obsolete(j)
           /\ \A f \in JobFiles(j) : f.num # job[u].num
    BY <1>2, <2>2, <2>3 DEF FilesInv, FlushApart, KnownFiles
  <2>7. /\ \A f \in KnownFiles' : f.num \in onDisk'
        /\ \A f, h \in KnownFiles' : f.num = h.num => f = h
    BY <1>2 DEF FilesInv
  <2> QED BY <1>2, <2>2, <2>3, <2>4, <2>5, <2>6, <2>7, FilesFrame
<1> QED BY <1>1, <1>3, <1>4

LEMMA FilesBeforeRun ==
    ASSUME TypeOK, FilesInv, OneCompactor, NEW t \in Threads,
           \/ \E r \in Ranges : CompactRange(t, r)
           \/ CompactUnderPressure(t) \/ ReadOldest(t) \/ ReadLastSequence(t)
           \/ CheckTombstones(t) \/ CompactionFails(t)
    PROVE  FilesInv'
<1>0. job[t].pc \in CompactPcs => Compacts(t)
  BY DEF FilesInv
<1>1. ASSUME NEW r \in Ranges, CompactRange(t, r) PROVE FilesInv'
  <2>1. PICK g : g = <<>>
    OBVIOUS
  <2>2. Compacts(t)
    BY <1>1 DEF CompactRange, Compacts
  <2>3. Pick(t, r, g) /\ g \in Group
    BY <1>1, <2>1 DEF CompactRange, Group
  <2> QED BY <2>2, <2>3, FilesPick
<1>2. CASE CompactUnderPressure(t)
  <2>1. job[t].pc = "pressure" /\ Pick(t, FullRange, job[t].group)
    BY <1>2 DEF CompactUnderPressure
  <2>2. Compacts(t) /\ job[t].group \in Group
    BY <1>0, <2>1, JobShapes DEF CompactPcs, TypeOK
  <2>3. PICK g, r : g = job[t].group /\ r = FullRange
    OBVIOUS
  <2>4. Pick(t, r, g) /\ g \in Group
    BY <2>1, <2>2, <2>3
  <2> QED BY <2>2, <2>4, FilesPick
<1>3. CASE ReadOldest(t) \/ ReadLastSequence(t) \/ CheckTombstones(t) \/ CompactionFails(t)
  <2>1. UNCHANGED <<version, manifest, onDisk, nextFile>> /\ job[t].pc \in PickedPcs
    BY <1>3 DEF ReadOldest, ReadLastSequence, CheckTombstones, CompactionFails, versions, files,
                PickedPcs
  <2>2. /\ nextFile' \in Nat /\ nextFile <= nextFile'
        /\ KnownFiles' \subseteq KnownFiles /\ onDisk \subseteq onDisk' /\ version' = version
    BY <2>1, SameFiles
  <2>3. CASE CompactionFails(t)
    <3>1. Set(t, Idle) /\ Idle.pc = "idle"
      BY <2>3 DEF CompactionFails, Idle
    <3> QED BY <2>2, <3>1, FilesOutside
  <2>4. CASE ReadOldest(t) \/ ReadLastSequence(t) \/ CheckTombstones(t)
    <3>1. PICK j : Set(t, j) /\ j.pc \in PickedPcs /\ j.task = job[t].task
      <4>1. CASE ReadOldest(t)
        BY <4>1 DEF ReadOldest, PickedPcs
      <4>2. CASE ReadLastSequence(t)
        BY <4>2 DEF ReadLastSequence, PickedPcs
      <4>3. CASE CheckTombstones(t)
        BY <4>3 DEF CheckTombstones, PickedPcs
      <4> QED BY <2>4, <4>1, <4>2, <4>3
    <3>2. CompactionApart(job[t])
      BY DEF FilesInv
    <3>3. /\ JobFiles(j) = JobFiles(job[t]) /\ Obsolete(j) = {} /\ CompactionApart(j)
          /\ j.pc \notin {"sst", "add"}
      BY <2>1, <3>1, <3>2 DEF JobFiles, Obsolete, CompactionApart, InstallPcs, PickedPcs
    <3>4. Compacts(t)
      BY <1>0, <2>1 DEF CompactPcs
    <3> QED BY <2>2, <3>1, <3>3, <3>4, FilesQuiet
  <2> QED BY <1>3, <2>3, <2>4
<1> QED BY <1>1, <1>2, <1>3

\* The compaction runs: its outputs have the numbers of its inputs, which the
\* move is about to delete, or new ones.
LEMMA FilesRun ==
    ASSUME TypeOK, NumbersInv, FilesInv, OneCompactor, NEW t \in Threads,
           TrivialMove(t) \/ WriteOutputs(t) \/ OutputsFail(t)
    PROVE  FilesInv'
<1> DEFINE task == job[t].task
<1>0. /\ job[t].pc = "run" /\ Compacts(t) /\ InputsExist(job[t])
      /\ AllInputFiles(task) \subseteq version
      /\ JobFiles(job[t]) = AllInputFiles(task) /\ nextFile \in Nat
  <2>1. job[t].pc = "run" /\ InputsExist(job[t])
    BY DEF TrivialMove, WriteOutputs, OutputsFail
  <2>2. CompactionApart(job[t]) /\ (job[t].pc \in CompactPcs => Compacts(t))
    BY DEF FilesInv
  <2> QED BY <2>1, <2>2, ManifestType DEF CompactionApart, PickedPcs, CompactPcs, JobFiles
<1>a. task.inputFiles \subseteq AllInputFiles(task)
  BY DEF AllInputFiles
<1>b. \A f \in AllInputFiles(task) : f \in KnownFiles /\ f.num \in Nat /\ f.num < nextFile
  BY <1>0, JobFilesType DEF NumbersInv, KnownFiles
<1>c. \A u \in Threads : u # t /\ job[u].pc \in {"sst", "add"} =>
         /\ \A f \in KnownFiles : f.num # job[u].num
         /\ job[u].num < nextFile /\ job[u].num \in Nat
  BY FlushNumType DEF FilesInv, FlushApart, NumbersInv, FlushPcs
<1>1. ASSUME NEW outputs, NEW obsolete,
             Set(t, Commit(job[t], outputs, obsolete)),
             UNCHANGED <<version, manifest>>, nextFile' \in Nat, nextFile <= nextFile',
             onDisk \subseteq onDisk', outputs \subseteq onDisk',
             outputs \cap obsolete = {},
             \A n \in obsolete : \E f \in AllInputFiles(task) : n = f.num,
             \/ \A n \in outputs : \E f \in AllInputFiles(task) : n = f.num
             \/ \A n \in outputs : n \in Nat /\ nextFile <= n
      PROVE  FilesInv'
  <2>1. PICK j : j = Commit(job[t], outputs, obsolete)
    OBVIOUS
  <2>2. /\ Set(t, j) /\ j.pc = "commit" /\ j.dels = AllInputFiles(task) /\ j.obsolete = obsolete
        /\ j.adds = {[level |-> task.outputLevel, num |-> n] : n \in outputs}
    BY <1>1, <2>1 DEF Commit
  <2>3. /\ \A f \in j.adds : f.num \in outputs
        /\ \A f, g \in j.adds : f.num = g.num => f = g
    BY <2>2
  <2>4. KnownFiles' = KnownFiles
    BY <1>1 DEF KnownFiles
  <2>5. JobFiles(j) = j.adds /\ Obsolete(j) = obsolete /\ j.pc \notin {"sst", "add"}
    BY <2>2 DEF JobFiles, Obsolete
  <2>6. \A f, g \in KnownFiles : f.num = g.num => f = g
    BY DEF FilesInv
  <2>7. ASSUME NEW n \in outputs, NEW g \in KnownFiles, g.num = n PROVE g \in j.dels
    <3>1. g.num \in Nat /\ g.num < nextFile
      BY ManifestType DEF NumbersInv
    <3>2. PICK f \in AllInputFiles(task) : n = f.num
      BY <1>0, <1>1, <2>7, <3>1
    <3> QED BY <1>b, <2>2, <2>6, <2>7, <3>2
  <2>8. ASSUME NEW n \in obsolete, NEW g \in KnownFiles, g.num = n PROVE g \in j.dels
    <3>1. PICK f \in AllInputFiles(task) : n = f.num
      BY <1>1
    <3> QED BY <1>b, <2>2, <2>6, <2>8, <3>1
  <2>9. (CompactionApart(j))'
    <3>1. \A f \in j.adds : /\ f.num \in onDisk' /\ f.num \notin j.obsolete
                            /\ \A g \in KnownFiles' : g.num = f.num => g \in j.dels
                            /\ \A g \in j.adds : g.num = f.num => g = f
      BY <1>1, <2>2, <2>3, <2>4, <2>7
    <3>2. \A n \in j.obsolete : \A g \in KnownFiles' : g.num = n => g \in j.dels
      BY <2>2, <2>4, <2>8
    <3> QED BY <2>2, <3>1, <3>2 DEF CompactionApart, PickedPcs, InstallPcs
  <2>10. \A u \in Threads : u # t => (CompactionApart(job[u]))'
    BY <1>0, <2>2, OthersApart
  <2>11. ASSUME NEW u \in Threads, u # t, job[u].pc \in {"sst", "add"}
         PROVE  /\ job[u].num \in onDisk => job[u].num \in onDisk'
                /\ \A f \in KnownFiles' : f.num # job[u].num
                /\ job[u].num \notin Obsolete(j)
                /\ \A f \in JobFiles(j) : f.num # job[u].num
    <3>1. \A f \in AllInputFiles(task) : f.num # job[u].num
      BY <1>b, <1>c, <2>11
    <3>2. \A n \in outputs : n # job[u].num
      BY <1>0, <1>1, <1>c, <2>11, <3>1
    <3> QED BY <1>1, <1>c, <2>3, <2>4, <2>5, <2>11, <3>1, <3>2
  <2>12. \A n \in Obsolete(j) : n < nextFile'
    <3>1. \A n \in obsolete : n \in Nat /\ n < nextFile
      BY <1>1, <1>b
    <3> QED BY <1>0, <1>1, <2>5, <3>1
  <2>13. /\ \A f \in KnownFiles' : f.num \in onDisk'
         /\ \A f, g \in KnownFiles' : f.num = g.num => f = g
    BY <1>1, <2>4 DEF FilesInv
  <2> QED BY <1>0, <1>1, <2>2, <2>5, <2>9, <2>10, <2>11, <2>12, <2>13, FilesFrame
<1>2. CASE TrivialMove(t)
  <2>1. PICK outputs : outputs = {f.num : f \in task.inputFiles}
    OBVIOUS
  <2>2. /\ UNCHANGED <<version, manifest, nextFile, onDisk>> /\ Set(t, Commit(job[t], outputs, {}))
    BY <1>2, <2>1 DEF TrivialMove, versions, files
  <2>3. outputs \subseteq onDisk'
    BY <1>0, <1>a, <2>1, <2>2 DEF InputsExist
  <2>4. \A n \in outputs : \E f \in AllInputFiles(task) : n = f.num
    BY <1>a, <2>1
  <2>5. /\ nextFile' \in Nat /\ nextFile <= nextFile' /\ onDisk \subseteq onDisk'
        /\ outputs \cap {} = {}
    BY <1>0, <2>2
  <2> QED BY <1>1, <2>2, <2>3, <2>4, <2>5
<1>3. CASE WriteOutputs(t)
  <2>1. PICK n \in IF Output(job[t]) = {} THEN {0} ELSE 1..MaxOf(1, MaxSubcompactions) :
           /\ onDisk' = onDisk \cup (nextFile..(nextFile + n - 1)) /\ nextFile' = nextFile + n
           /\ Set(t, Commit(job[t], nextFile..(nextFile + n - 1),
                            {f.num : f \in AllInputFiles(task)}))
    BY <1>3 DEF WriteOutputs
  <2>2. n \in Nat
    BY <2>1, SizesAssumption DEF MaxOf
  <2>3. PICK outputs, obsolete : /\ outputs = nextFile..(nextFile + n - 1)
                                 /\ obsolete = {f.num : f \in AllInputFiles(task)}
    OBVIOUS
  <2>4. /\ UNCHANGED <<version, manifest>> /\ nextFile' \in Nat /\ nextFile <= nextFile'
        /\ Set(t, Commit(job[t], outputs, obsolete))
        /\ onDisk \subseteq onDisk' /\ outputs \subseteq onDisk'
    BY <1>0, <1>3, <2>1, <2>2, <2>3 DEF WriteOutputs
  <2>5. \A m \in outputs : m \in Nat /\ nextFile <= m
    BY <1>0, <2>2, <2>3
  <2>6. \A m \in obsolete : \E f \in AllInputFiles(task) : m = f.num
    BY <2>3
  <2>7. outputs \cap obsolete = {}
    BY <1>0, <1>b, <2>5, <2>6
  <2> QED BY <1>1, <2>4, <2>5, <2>6, <2>7
<1>4. CASE OutputsFail(t)
  <2>1. PICK n \in 1..MaxOf(1, MaxSubcompactions) : nextFile' = nextFile + n
    BY <1>4 DEF OutputsFail
  <2>2. n \in Nat
    BY SizesAssumption DEF MaxOf
  <2>3. nextFile' \in Nat /\ nextFile <= nextFile'
    BY <1>0, <2>1, <2>2
  <2>4. UNCHANGED <<version, manifest>> /\ onDisk \subseteq onDisk' /\ Set(t, Idle)
    BY <1>4 DEF OutputsFail
  <2>5. KnownFiles' \subseteq KnownFiles /\ Idle.pc = "idle"
    BY <2>4 DEF KnownFiles, Idle
  <2> QED BY <2>3, <2>4, <2>5, FilesOutside
<1> QED BY <1>2, <1>3, <1>4

\* An AddFile edit of a compaction whose DeleteFile edits are all made.
LEMMA FilesAdd ==
    ASSUME TypeOK, FilesInv, OneCompactor, NEW t \in Threads,
           job[t].pc \in {"commit", "edits"}, job[t].dels = {}, NEW f \in job[t].adds,
           KnownFiles' \subseteq KnownFiles \cup {f}, UNCHANGED <<onDisk, nextFile>>,
           NEW j, Set(t, j), j.pc \in {"edits", "load", "idle"},
           j.pc # "idle" => j.obsolete = job[t].obsolete,
           j.pc = "edits" => j.dels = {} /\ j.adds = job[t].adds \ {f}
    PROVE  FilesInv'
<1> DEFINE o == job[t]
<1>0. /\ Compacts(t) /\ JobFiles(o) = o.adds /\ Obsolete(o) = o.obsolete
      /\ nextFile' \in Nat /\ nextFile <= nextFile'
  <2>1. o.pc \in CompactPcs => Compacts(t)
    BY DEF FilesInv
  <2> QED BY <2>1, ManifestType DEF CompactPcs, JobFiles, Obsolete
<1>1. /\ \A a \in o.adds : /\ a.num \in onDisk /\ a.num \notin o.obsolete
                           /\ \A g \in KnownFiles : g.num # a.num
                           /\ \A g \in o.adds : g.num = a.num => g = a
      /\ \A n \in o.obsolete : \A g \in KnownFiles : g.num # n
  <2>1. CompactionApart(o)
    BY DEF FilesInv
  <2> QED BY <2>1 DEF CompactionApart
<1> HIDE DEF o
<1>2. f \in o.adds /\ o = job[t]
  BY DEF o
<1>3. JobFiles(j) \subseteq o.adds /\ Obsolete(j) \subseteq o.obsolete
  BY <1>2 DEF JobFiles, Obsolete, InstallPcs
<1>4. (CompactionApart(j))'
  <2>1. CASE j.pc = "edits"
    <3>0. j.dels = {} /\ j.adds = o.adds \ {f} /\ j.obsolete = o.obsolete
      BY <1>2, <2>1
    <3>1. \A a \in j.adds : /\ a.num \in onDisk' /\ a.num \notin j.obsolete
                            /\ \A g \in KnownFiles' : g.num = a.num => g \in j.dels
                            /\ \A g \in j.adds : g.num = a.num => g = a
      <4>1. ASSUME NEW a \in j.adds, NEW g \in KnownFiles' PROVE g.num # a.num
        <5>1. a \in o.adds /\ a # f
          BY <3>0, <4>1
        <5> QED BY <1>1, <1>2, <5>1
      <4>2. \A a \in j.adds : a.num \in onDisk' /\ a.num \notin j.obsolete
        BY <1>1, <3>0
      <4>3. \A a, g \in j.adds : g.num = a.num => g = a
        BY <1>1, <3>0
      <4> QED BY <4>1, <4>2, <4>3
    <3>2. \A n \in j.obsolete : \A g \in KnownFiles' : g.num = n => g \in j.dels
      BY <1>1, <1>2, <3>0
    <3> QED BY <2>1, <3>1, <3>2 DEF CompactionApart, PickedPcs, InstallPcs
  <2>2. CASE j.pc = "load"
    <3>1. \A n \in j.obsolete : \A g \in KnownFiles' : g.num # n
      BY <1>1, <1>2, <2>2
    <3> QED BY <2>2, <3>1 DEF CompactionApart, PickedPcs, InstallPcs
  <2>3. CASE j.pc = "idle"
    BY <2>3, NoApart DEF CompactPcs, PickedPcs, InstallPcs
  <2> QED BY <2>1, <2>2, <2>3
<1>5. \A u \in Threads : u # t => (CompactionApart(job[u]))'
  BY <1>0, OthersApart
<1>6. /\ \A g \in KnownFiles' : g.num \in onDisk'
      /\ \A g, h \in KnownFiles' : g.num = h.num => g = h
  BY <1>1, <1>2 DEF FilesInv
<1>7. ASSUME NEW u \in Threads, u # t, job[u].pc \in {"sst", "add"}
      PROVE  /\ job[u].num \in onDisk => job[u].num \in onDisk'
             /\ \A g \in KnownFiles' : g.num # job[u].num
             /\ job[u].num \notin Obsolete(j)
             /\ \A g \in JobFiles(j) : g.num # job[u].num
  <2>1. FlushApart(job[u])
    BY DEF FilesInv
  <2>2. /\ \A g \in KnownFiles : g.num # job[u].num
        /\ job[u].num \notin Obsolete(job[t]) /\ \A g \in JobFiles(job[t]) : g.num # job[u].num
    BY <1>7, <2>1 DEF FlushApart
  <2> QED BY <1>0, <1>2, <1>3, <2>2
<1>8. \A n \in Obsolete(j) : n < nextFile'
  BY <1>0, <1>2, <1>3 DEF FilesInv
<1> QED BY <1>0, <1>4, <1>5, <1>6, <1>7, <1>8, FilesFrame

\* A DeleteFile edit of a compaction.
LEMMA FilesDelete ==
    ASSUME TypeOK, FilesInv, OneCompactor, NEW t \in Threads, CommitDelete(t)
    PROVE  FilesInv'
<1>1. PICK f \in job[t].dels :
         /\ manifest' = DeleteFile(manifest, f) /\ version' = version \ {f}
         /\ Set(t, IF job[t].dels = {f} /\ job[t].adds = {} THEN Committed(job[t])
                   ELSE Edits(job[t], job[t].dels \ {f}, job[t].adds))
  BY DEF CommitDelete, FirstFiles
<1>2. /\ UNCHANGED <<onDisk, nextFile>> /\ job[t].pc \in {"commit", "edits"}
  BY DEF CommitDelete, files
<1>3. KnownFiles' = KnownFiles \ {f}
  BY <1>1 DEF DeleteFile, KnownFiles
<1>4. PICK o : o = job[t]
  OBVIOUS
<1>5. PICK j : /\ Set(t, j) /\ j.obsolete = o.obsolete
               /\ \/ j.pc = "load" /\ o.dels = {f}
                  \/ j.pc = "edits" /\ j.dels = o.dels \ {f} /\ j.adds = o.adds
  BY <1>1, <1>4 DEF Committed, Edits
<1>6. /\ Compacts(t) /\ JobFiles(o) = o.adds /\ Obsolete(o) = o.obsolete
      /\ nextFile' \in Nat /\ nextFile <= nextFile' /\ CompactionApart(o)
  <2>1. (o.pc \in CompactPcs => Compacts(t)) /\ CompactionApart(o)
    BY <1>4 DEF FilesInv
  <2> QED BY <1>2, <1>4, <2>1, ManifestType DEF CompactPcs, JobFiles, Obsolete
<1>7. JobFiles(j) \subseteq o.adds /\ Obsolete(j) \subseteq o.obsolete
  BY <1>5 DEF JobFiles, Obsolete, InstallPcs
<1>8. (CompactionApart(j))'
  <2>0. /\ \A a \in o.adds : /\ a.num \in onDisk /\ a.num \notin o.obsolete
                             /\ \A g \in KnownFiles : g.num = a.num => g \in o.dels
                             /\ \A g \in o.adds : g.num = a.num => g = a
        /\ \A n \in o.obsolete : \A g \in KnownFiles : g.num = n => g \in o.dels
    BY <1>2, <1>4, <1>6 DEF CompactionApart
  <2>1. CASE j.pc = "edits"
    <3>0. j.dels = o.dels \ {f} /\ j.adds = o.adds /\ j.obsolete = o.obsolete
      BY <1>5, <2>1
    <3>1. \A a \in j.adds : /\ a.num \in onDisk' /\ a.num \notin j.obsolete
                            /\ \A g \in KnownFiles' : g.num = a.num => g \in j.dels
                            /\ \A g \in j.adds : g.num = a.num => g = a
      BY <1>2, <1>3, <2>0, <3>0
    <3>2. \A n \in j.obsolete : \A g \in KnownFiles' : g.num = n => g \in j.dels
      BY <1>3, <2>0, <3>0
    <3> QED BY <2>1, <3>1, <3>2 DEF CompactionApart, PickedPcs, InstallPcs
  <2>2. CASE j.pc = "load"
    <3>1. \A n \in j.obsolete : \A g \in KnownFiles' : g.num # n
      BY <1>3, <1>5, <2>0, <2>2
    <3> QED BY <2>2, <3>1 DEF CompactionApart, PickedPcs, InstallPcs
  <2> QED BY <1>5, <2>1, <2>2
<1>9. \A u \in Threads : u # t => (CompactionApart(job[u]))'
  BY <1>5, <1>6, OthersApart
<1>10. /\ \A g \in KnownFiles' : g.num \in onDisk'
       /\ \A g, h \in KnownFiles' : g.num = h.num => g = h
  BY <1>2, <1>3 DEF FilesInv
<1>11. ASSUME NEW u \in Threads, u # t, job[u].pc \in {"sst", "add"}
       PROVE  /\ job[u].num \in onDisk => job[u].num \in onDisk'
              /\ \A g \in KnownFiles' : g.num # job[u].num
              /\ job[u].num \notin Obsolete(j)
              /\ \A g \in JobFiles(j) : g.num # job[u].num
  <2>1. FlushApart(job[u])
    BY DEF FilesInv
  <2>2. /\ \A g \in KnownFiles : g.num # job[u].num
        /\ job[u].num \notin Obsolete(job[t]) /\ \A g \in JobFiles(job[t]) : g.num # job[u].num
    BY <1>11, <2>1 DEF FlushApart
  <2> QED BY <1>2, <1>3, <1>4, <1>6, <1>7, <2>2
<1>12. \A n \in Obsolete(j) : n < nextFile'
  BY <1>2, <1>4, <1>6, <1>7 DEF FilesInv
<1>13. j.pc \notin {"sst", "add"}
  BY <1>5
<1> QED BY <1>5, <1>6, <1>8, <1>9, <1>10, <1>11, <1>12, <1>13, FilesFrame

LEMMA FilesCommit ==
    ASSUME TypeOK, FilesInv, OneCompactor, NEW t \in Threads, CommitAdd(t) \/ CommitFails(t)
    PROVE  FilesInv'
<1>0. Idle.pc = "idle"
  BY DEF Idle
<1>1. CASE CommitAdd(t)
  <2>1. PICK f \in job[t].adds :
           /\ manifest' = AddFile(manifest, f) /\ version' = version \cup {f}
           /\ Set(t, IF job[t].adds = {f} THEN Committed(job[t])
                     ELSE Edits(job[t], {}, job[t].adds \ {f}))
    BY <1>1 DEF CommitAdd, FirstFiles
  <2>2. UNCHANGED <<onDisk, nextFile>> /\ job[t].pc = "edits" /\ job[t].dels = {}
    BY <1>1 DEF CommitAdd, files
  <2>3. KnownFiles' \subseteq KnownFiles \cup {f}
    BY <2>1 DEF AddFile, KnownFiles
  <2>4. PICK j : /\ Set(t, j) /\ j.pc \in {"edits", "load", "idle"} /\ j.obsolete = job[t].obsolete
                 /\ j.pc = "edits" => j.dels = {} /\ j.adds = job[t].adds \ {f}
    BY <2>1 DEF Committed, Edits
  <2> QED BY <2>1, <2>2, <2>3, <2>4, FilesAdd
<1>2. CASE CommitFails(t)
  <2>1. /\ UNCHANGED <<version, onDisk, nextFile>> /\ Set(t, Idle)
        /\ job[t].pc \in {"commit", "edits"}
    BY <1>2 DEF CommitFails, files
  <2>2. \/ manifest' = manifest
        \/ \E f : manifest' = DeleteFile(manifest, f)
        \/ job[t].dels = {} /\ \E f \in job[t].adds : manifest' = AddFile(manifest, f)
    BY <1>2 DEF CommitFails, FirstFiles
  <2>3. CASE manifest' = manifest \/ \E f : manifest' = DeleteFile(manifest, f)
    <3>1. /\ nextFile' \in Nat /\ nextFile <= nextFile' /\ onDisk \subseteq onDisk'
          /\ KnownFiles' \subseteq KnownFiles
      BY <2>1, <2>3, ManifestType DEF DeleteFile, KnownFiles
    <3> QED BY <1>0, <2>1, <3>1, FilesOutside
  <2>4. ASSUME NEW f \in job[t].adds, job[t].dels = {}, manifest' = AddFile(manifest, f)
        PROVE  FilesInv'
    <3>1. KnownFiles' \subseteq KnownFiles \cup {f}
      BY <2>1, <2>4 DEF AddFile, KnownFiles
    <3> QED BY <1>0, <2>1, <2>4, <3>1, FilesAdd
  <2> QED BY <2>2, <2>3, <2>4
<1> QED BY <1>1, <1>2

\* The tables of the version become readable; then the inputs are unlinked,
\* which nobody knows any more.
LEMMA FilesInstall ==
    ASSUME TypeOK, FilesInv, OneCompactor, NEW t \in Threads,
           LoadVersion(t) \/ InstallTables(t) \/ DeleteObsoleteFiles(t)
    PROVE  FilesInv'
<1>0. /\ job[t].pc \in InstallPcs /\ Compacts(t)
      /\ \A n \in job[t].obsolete : \A g \in KnownFiles : g.num # n
      /\ Obsolete(job[t]) = job[t].obsolete
  <2>1. job[t].pc \in InstallPcs
    BY DEF LoadVersion, InstallTables, DeleteObsoleteFiles, InstallPcs
  <2>2. (job[t].pc \in CompactPcs => Compacts(t)) /\ CompactionApart(job[t])
    BY DEF FilesInv
  <2> QED BY <2>1, <2>2 DEF CompactPcs, CompactionApart, Obsolete
<1>a. \A g : Finish(g).pc \in {"idle", "lock"}
  BY DEF Finish, Idle
<1>1. CASE LoadVersion(t) \/ InstallTables(t)
  <2>1. UNCHANGED <<version, manifest, onDisk, nextFile>>
    BY <1>1 DEF LoadVersion, InstallTables, versions, files
  <2>2. /\ nextFile' \in Nat /\ nextFile <= nextFile'
        /\ KnownFiles' \subseteq KnownFiles /\ onDisk \subseteq onDisk' /\ version' = version
    BY <2>1, SameFiles
  <2>3. \/ Set(t, Finish(job[t].group))
        \/ \E j : Set(t, j) /\ j.pc \in {"install", "unlink"} /\ j.obsolete = job[t].obsolete
    <3>1. CASE LoadVersion(t)
      BY <3>1 DEF LoadVersion
    <3>2. CASE InstallTables(t)
      <4> DEFINE q == [pc |-> "unlink", group |-> job[t].group, obsolete |-> job[t].obsolete]
      <4>1. Set(t, Finish(job[t].group)) \/ Set(t, q)
        BY <3>2 DEF InstallTables
      <4>2. q.pc = "unlink" /\ q.obsolete = job[t].obsolete
        OBVIOUS
      <4> HIDE DEF q
      <4> QED BY <4>1, <4>2
    <3> QED BY <1>1, <3>1, <3>2
  <2>4. CASE Set(t, Finish(job[t].group))
    <3>1. PICK j : j = Finish(job[t].group)
      OBVIOUS
    <3>2. Set(t, j) /\ j.pc \in {"idle", "lock"}
      BY <1>a, <2>4, <3>1
    <3> QED BY <2>2, <3>2, FilesOutside
  <2>5. ASSUME NEW j, Set(t, j), j.pc \in {"install", "unlink"}, j.obsolete = job[t].obsolete
        PROVE  FilesInv'
    <3>1. /\ JobFiles(j) = {} /\ Obsolete(j) = Obsolete(job[t]) /\ j.pc \notin {"sst", "add"}
          /\ CompactionApart(j)
      BY <1>0, <2>5 DEF JobFiles, Obsolete, InstallPcs, CompactionApart, PickedPcs
    <3> QED BY <1>0, <2>2, <2>5, <3>1, FilesQuiet
  <2> QED BY <2>3, <2>4, <2>5
<1>2. CASE DeleteObsoleteFiles(t)
  <2>1. /\ UNCHANGED <<version, manifest, nextFile>> /\ onDisk' = onDisk \ job[t].obsolete
        /\ Set(t, Finish(job[t].group))
    BY <1>2 DEF DeleteObsoleteFiles, versions
  <2>2. PICK j : j = Finish(job[t].group)
    OBVIOUS
  <2>3. Set(t, j) /\ j.pc \in {"idle", "lock"}
    BY <1>a, <2>1, <2>2
  <2>4. /\ JobFiles(j) = {} /\ Obsolete(j) = {} /\ j.pc \notin CompactPcs
        /\ j.pc \notin {"sst", "add"}
    BY <2>3 DEF JobFiles, Obsolete, CompactPcs, PickedPcs, InstallPcs
  <2>5. (CompactionApart(j))'
    BY <2>4, NoApart
  <2>6. KnownFiles' = KnownFiles /\ nextFile' \in Nat /\ nextFile <= nextFile'
    BY <2>1, ManifestType DEF KnownFiles
  <2>7. \A u \in Threads : u # t => (CompactionApart(job[u]))'
    BY <1>0, <2>3, OthersApart
  <2>8. /\ \A f \in KnownFiles' : f.num \in onDisk'
        /\ \A f, g \in KnownFiles' : f.num = g.num => f = g
    BY <1>0, <2>1, <2>6 DEF FilesInv
  <2>9. \A u \in Threads : u # t /\ job[u].pc \in {"sst", "add"} =>
           /\ job[u].num \in onDisk => job[u].num \in onDisk'
           /\ \A f \in KnownFiles' : f.num # job[u].num
    BY <1>0, <2>1, <2>6 DEF FilesInv, FlushApart
  <2> QED BY <2>3, <2>4, <2>5, <2>6, <2>7, <2>8, <2>9, FilesFrame
<1> QED BY <1>1, <1>2

\* Nobody is at work.
LEMMA FilesIdle ==
    ASSUME \A t \in Threads : job[t] = Idle, \A f \in KnownFiles : f.num \in onDisk,
           \A f, g \in KnownFiles : f.num = g.num => f = g
    PROVE  FilesInv
<1>1. /\ Idle.pc \notin CompactPcs /\ Idle.pc \notin {"sst", "add"} /\ Obsolete(Idle) = {}
  BY DEF Idle, Obsolete, CompactPcs, PickedPcs, InstallPcs
<1>2. CompactionApart(Idle) /\ FlushApart(Idle)
  BY <1>1 DEF CompactionApart, FlushApart, CompactPcs
<1> QED BY <1>1, <1>2 DEF FilesInv

LEMMA FilesCrash ==
    ASSUME FilesInv, CrashAndOpen PROVE FilesInv'
<1>1. /\ \A t \in Threads : job'[t] = Idle
      /\ version' = manifest.files /\ UNCHANGED <<manifest, onDisk>>
  BY DEF CrashAndOpen, files
<1>2. KnownFiles' \subseteq KnownFiles
  BY <1>1 DEF KnownFiles
<1>3. /\ \A f \in KnownFiles' : f.num \in onDisk'
      /\ \A f, g \in KnownFiles' : f.num = g.num => f = g
  BY <1>1, <1>2 DEF FilesInv
<1>4. /\ Idle.pc \notin CompactPcs /\ Idle.pc \notin {"sst", "add"} /\ Obsolete(Idle) = {}
  BY DEF Idle, Obsolete, CompactPcs, PickedPcs, InstallPcs
<1>5. (CompactionApart(Idle))' /\ (FlushApart(Idle))'
  BY <1>4 DEF CompactionApart, FlushApart, CompactPcs, Idle
<1> QED BY <1>1, <1>3, <1>4, <1>5 DEF FilesInv, CompactionApart, FlushApart

LEMMA FilesStep ==
    ASSUME OneCompactor, TypeOK, LocksAndLocals, NumbersInv, FilesInv, [Next]_vars
    PROVE  FilesInv'
<1>1. ASSUME UNCHANGED <<versions, files, job>> PROVE FilesInv'
  <2>1. KnownFiles' = KnownFiles
    BY <1>1 DEF versions, KnownFiles
  <2> QED BY <1>1, <2>1 DEF versions, files, FilesInv, FlushApart, CompactionApart
<1>2. ASSUME NEW t \in Threads, ThreadStep(t) PROVE FilesInv'
  <2>1. CASE Close(t)
    BY <1>1, <2>1 DEF Close
  <2> QED BY <1>2, <2>1, FilesWrite, FilesFlush, FilesBeforeRun, FilesRun, FilesDelete,
             FilesCommit, FilesInstall, FilesReads DEF ThreadStep
<1>3. ASSUME NEW h \in Holders, TakeSnapshot(h) \/ DropSnapshot(h) PROVE FilesInv'
  BY <1>1, <1>3 DEF TakeSnapshot, DropSnapshot
<1>4. CASE UNCHANGED vars
  BY <1>1, <1>4 DEF vars
<1> QED BY <1>2, <1>3, <1>4, FilesCrash DEF Next

LEMMA FilesHold ==
    ASSUME OneCompactor PROVE Spec => []FilesInv
<1>1. Init => FilesInv
  <2> SUFFICES ASSUME Init PROVE FilesInv
    OBVIOUS
  <2>1. KnownFiles = {} /\ \A t \in Threads : job[t] = Idle
    BY DEF Init, KnownFiles
  <2> QED BY <2>1, FilesIdle
<1>2. TypeOK /\ LocksAndLocals /\ NumbersInv /\ FilesInv /\ [Next]_vars => FilesInv'
  BY FilesStep
<1> QED BY <1>1, <1>2, NumbersHold, PTL DEF Spec

\* With one thread that compacts, DB::open finds every table the manifest
\* names: no compaction unlinks a file that a manifest edit, made or failed,
\* of a flush or of itself refers to, and no crash comes at a point where one
\* already has.
THEOREM ManifestFilesAlwaysExist ==
    ASSUME OneCompactor PROVE Spec => []ManifestFilesExist
<1>1. FilesInv => ManifestFilesExist
  BY DEF FilesInv, KnownFiles, ManifestFilesExist
<1> QED BY <1>1, FilesHold, PTL

-----------------------------------------------------------------------------
(* Levels *)

DeepFilesKept == \A g \in version' : g.level > 0 => g \in version
ContentKept(S) == \A f \in S : content'[f.num] = content[f.num]

LEMMA LevelsKept ==
    ASSUME LevelsDisjoint, DeepFilesKept, ContentKept(version) PROVE LevelsDisjoint'
BY DEF LevelsDisjoint, Apart, DeepFilesKept, ContentKept

LEMMA TaskKept ==
    ASSUME NEW task, TaskFits(task), DeepFilesKept, ContentKept(version),
           ContentKept(AllInputFiles(task))
    PROVE  (TaskFits(task))'
<1>1. ASSUME NEW f \in task.inputFiles, NEW g \in version' \ AllInputFiles(task),
             g.level = task.outputLevel
      PROVE  (Apart(f, g))'
  <2>1. g \in version /\ f \in AllInputFiles(task)
    BY <1>1 DEF TaskFits, DeepFilesKept, AllInputFiles
  <2>2. Apart(f, g)
    BY <1>1, <2>1 DEF TaskFits
  <2>3. content'[f.num] = content[f.num] /\ content'[g.num] = content[g.num]
    BY <2>1 DEF ContentKept
  <2> QED BY <2>2, <2>3 DEF Apart
<1> QED BY <1>1 DEF TaskFits

LEMMA AddsKept ==
    ASSUME NEW j, AddsFit(j), DeepFilesKept, ContentKept(version), ContentKept(j.adds)
    PROVE  (AddsFit(j))'
<1>1. ASSUME NEW f \in j.adds, NEW g \in (version' \ j.dels) \cup j.adds,
             g.level = f.level, g # f
      PROVE  (Apart(f, g))'
  <2>1. f.level > 0 /\ g \in (version \ j.dels) \cup j.adds
    BY <1>1 DEF AddsFit, DeepFilesKept
  <2>2. Apart(f, g)
    BY <1>1, <2>1 DEF AddsFit
  <2>3. content'[f.num] = content[f.num] /\ content'[g.num] = content[g.num]
    BY <2>1 DEF ContentKept
  <2> QED BY <2>2, <2>3 DEF Apart
<1> QED BY <1>1 DEF AddsFit

\* A step of thread t that changes no file of a deeper level.
LEMMA LevelsFrame ==
    ASSUME TypeOK, LevelsInv, NEW t \in Threads, NEW j, Set(t, j),
           version' = manifest'.files, DeepFilesKept, ContentKept(version),
           \A u \in Threads : u # t => ContentKept(JobFiles(job[u])),
           j.pc \in PickedPcs => (TaskFits(j.task))',
           j.pc \in {"commit", "edits"} => (AddsFit(j))'
    PROVE  LevelsInv'
<1>1. \A u \in Threads : job'[u] = IF u = t THEN j ELSE job[u]
  BY DEF TypeOK, Set
<1>2. LevelsDisjoint'
  BY LevelsKept DEF LevelsInv
<1>3. ASSUME NEW u \in Threads, job'[u].pc \in PickedPcs PROVE (TaskFits(job[u].task))'
  <2>1. CASE u = t
    <3>1. job'[u] = j
      BY <1>1, <2>1
    <3> QED BY <1>3, <3>1 DEF TaskFits
  <2>2. CASE u # t
    <3>1. PICK task : task = job[u].task
      OBVIOUS
    <3>2. job'[u] = job[u] /\ JobFiles(job[u]) = AllInputFiles(task)
      BY <1>1, <1>3, <2>2, <3>1 DEF JobFiles, PickedPcs
    <3>3. TaskFits(task) /\ ContentKept(AllInputFiles(task))
      BY <1>3, <2>2, <3>1, <3>2 DEF LevelsInv
    <3>4. (TaskFits(task))'
      BY <3>3, TaskKept
    <3> QED BY <3>1, <3>2, <3>4 DEF TaskFits
  <2> QED BY <2>1, <2>2
<1>4. ASSUME NEW u \in Threads, job'[u].pc \in {"commit", "edits"} PROVE (AddsFit(job[u]))'
  <2>1. CASE u = t
    <3>1. job'[u] = j
      BY <1>1, <2>1
    <3> QED BY <1>4, <3>1 DEF AddsFit
  <2>2. CASE u # t
    <3>1. PICK w : w = job[u]
      OBVIOUS
    <3>2. job'[u] = w /\ JobFiles(w) = w.adds
      BY <1>1, <1>4, <2>2, <3>1 DEF JobFiles
    <3>3. AddsFit(w) /\ ContentKept(w.adds)
      BY <1>4, <2>2, <3>1, <3>2 DEF LevelsInv
    <3>4. (AddsFit(w))'
      BY <3>3, AddsKept
    <3> QED BY <3>2, <3>4 DEF AddsFit
  <2> QED BY <2>1, <2>2
<1> QED BY <1>2, <1>3, <1>4 DEF LevelsInv

\* A step that leaves version, manifest and tables alone.
LEMMA LevelsQuiet ==
    ASSUME TypeOK, LevelsInv, NEW t \in Threads, NEW j, Set(t, j),
           UNCHANGED <<version, content>>, manifest'.files = manifest.files,
           j.pc \notin PickedPcs \cup {"commit", "edits"}
    PROVE  LevelsInv'
<1>1. /\ DeepFilesKept /\ ContentKept(version) /\ version' = manifest'.files
      /\ \A u \in Threads : ContentKept(JobFiles(job[u]))
  BY DEF DeepFilesKept, ContentKept, LevelsInv
<1> QED BY <1>1, LevelsFrame

\* A step of the only thread that compacts.
LEMMA LevelsCompactor ==
    ASSUME TypeOK, FilesInv, OneCompactor, NEW t \in Threads, Compacts(t), NEW j, Set(t, j),
           version' = manifest'.files, LevelsDisjoint',
           j.pc \in PickedPcs => (TaskFits(j.task))',
           j.pc \in {"commit", "edits"} => (AddsFit(j))'
    PROVE  LevelsInv'
<1>1. \A u \in Threads : job'[u] = IF u = t THEN j ELSE job[u]
  BY DEF TypeOK, Set
<1>2. ASSUME NEW u \in Threads
      PROVE  /\ job'[u].pc \in PickedPcs => (TaskFits(job[u].task))'
             /\ job'[u].pc \in {"commit", "edits"} => (AddsFit(job[u]))'
  <2>1. CASE u = t
    <3>1. job'[u] = j
      BY <1>1, <2>1
    <3> QED BY <3>1 DEF TaskFits, AddsFit
  <2>2. CASE u # t
    <3>1. job'[u].pc \notin CompactPcs
      BY <1>1, <2>2, NobodyElse
    <3> QED BY <3>1 DEF CompactPcs
  <2> QED BY <2>1, <2>2
<1> QED BY <1>2 DEF LevelsInv

LEMMA LevelsLocal ==
    ASSUME TypeOK, LevelsInv, "sync" \notin Failures, NEW t \in Threads,
           \/ \E g \in Groups : BeginWrite(t, g)
           \/ LockState(t) \/ AppendWal(t) \/ WalFails(t) \/ ApplyItem(t)
           \/ FlushNothing(t) \/ FlushRefused(t) \/ BeginFlush(t)
           \/ PublishLastSequence(t) \/ PublishLogNumber(t) \/ PublishFails(t)
           \/ CompactionFails(t) \/ CommitFails(t)
           \/ LoadVersion(t) \/ InstallTables(t) \/ DeleteObsoleteFiles(t)
           \/ \E k \in Keys : \E pin \in {{}} \cup {{s} : s \in snaps} : GetMemtables(t, k, pin)
           \/ GetTables(t) \/ ReturnGet(t)
    PROVE  LevelsInv'
<1> DEFINE Pcs == PickedPcs \cup {"commit", "edits"}
           Goal == /\ UNCHANGED <<version, content>> /\ manifest'.files = manifest.files
                   /\ \E j : Set(t, j) /\ j.pc \notin Pcs
<1> SUFFICES Goal
  <2>1. ASSUME Goal PROVE LevelsInv'
    <3>1. PICK j : Set(t, j) /\ j.pc \notin Pcs
      BY <2>1
    <3> QED BY <2>1, <3>1, LevelsQuiet
  <2> QED BY <2>1
<1>0. Idle.pc \notin Pcs /\ ~Fail("sync") /\ \A g : Finish(g).pc \notin Pcs
  BY DEF Idle, Fail, Finish, PickedPcs
<1>1. CASE \E g \in Groups : BeginWrite(t, g)
  <2>1. PICK g \in Groups : BeginWrite(t, g)
    BY <1>1
  <2>2. \E j : Set(t, j) /\ j.pc \notin Pcs
    BY <2>1 DEF BeginWrite, PickedPcs
  <2> QED BY <2>1, <2>2 DEF BeginWrite, versions, files
<1>2. CASE LockState(t) \/ AppendWal(t) \/ WalFails(t) \/ ApplyItem(t)
  <2>1. UNCHANGED <<version, content, manifest>>
    BY <1>2 DEF LockState, AppendWal, WalFails, ApplyItem, versions, files
  <2>2. PICK j : Set(t, j) /\ j.pc \in {"idle", "flush", "wal", "apply"}
    <3>1. CASE LockState(t)
      BY <3>1 DEF LockState, Idle
    <3>2. CASE AppendWal(t)
      BY <3>2 DEF AppendWal
    <3>3. CASE WalFails(t)
      BY <3>3, WalFailsSets
    <3>4. CASE ApplyItem(t)
      BY <3>4, ApplySets
    <3> QED BY <1>2, <3>1, <3>2, <3>3, <3>4
  <2> QED BY <2>1, <2>2 DEF PickedPcs
<1>3. CASE FlushNothing(t) \/ FlushRefused(t) \/ CompactionFails(t) \/ ReturnGet(t)
  BY <1>0, <1>3 DEF FlushNothing, FlushRefused, CompactionFails, ReturnGet, versions, files
<1>4. CASE BeginFlush(t)
  <2>1. \E j : Set(t, j) /\ j.pc \notin Pcs
    BY <1>4 DEF BeginFlush, PickedPcs
  <2> QED BY <1>4, <2>1 DEF BeginFlush, files
<1>5. CASE PublishLastSequence(t) \/ PublishLogNumber(t)
  <2>1. UNCHANGED <<version, content>> /\ manifest'.files = manifest.files
    BY <1>5 DEF PublishLastSequence, PublishLogNumber, LastSequence, LogNumber, files
  <2>2. FlushAt("log", job[t]).pc \notin Pcs
    BY DEF FlushAt, PickedPcs
  <2> QED BY <1>0, <1>5, <2>1, <2>2 DEF PublishLastSequence, PublishLogNumber
<1>6. CASE PublishFails(t) \/ CommitFails(t)
  <2>1. UNCHANGED <<version, content, manifest>>
    BY <1>0, <1>6 DEF PublishFails, CommitFails, files
  <2> QED BY <1>0, <1>6, <2>1 DEF PublishFails, CommitFails
<1>7. CASE LoadVersion(t)
  <2>1. \E j : Set(t, j) /\ j.pc \notin Pcs
    BY <1>7 DEF LoadVersion, PickedPcs
  <2> QED BY <1>7, <2>1 DEF LoadVersion, versions, files
<1>8. CASE InstallTables(t) \/ DeleteObsoleteFiles(t)
  <2> DEFINE q == [pc |-> "unlink", group |-> job[t].group, obsolete |-> job[t].obsolete]
  <2>1. Set(t, Finish(job[t].group)) \/ Set(t, q)
    BY <1>8 DEF InstallTables, DeleteObsoleteFiles
  <2>2. q.pc \notin Pcs
    BY DEF PickedPcs
  <2>3. UNCHANGED <<version, content, manifest>>
    BY <1>8 DEF InstallTables, DeleteObsoleteFiles, versions, files
  <2> HIDE DEF q
  <2> QED BY <1>0, <2>1, <2>2, <2>3
<1>9. CASE \/ \E k \in Keys : \E pin \in {{}} \cup {{s} : s \in snaps} : GetMemtables(t, k, pin)
           \/ GetTables(t)
  <2>1. UNCHANGED <<version, content, manifest>>
    BY <1>9 DEF GetMemtables, GetTables, versions, files
  <2>2. PICK j : Set(t, j) /\ j.pc \in {"get", "got"}
    <3>1. ASSUME NEW k \in Keys, NEW pin, GetMemtables(t, k, pin)
          PROVE  \E j : Set(t, j) /\ j.pc \in {"get", "got"}
      BY <3>1 DEF GetMemtables, Got
    <3>2. CASE GetTables(t)
      <4>1. PICK ok : Set(t, Got(TableGet(content, job[t].files, job[t].key, job[t].seq),
                                 ok, job[t].key, job[t].seq))
        BY <3>2 DEF GetTables
      <4>2. \A r, q, k, s : Got(r, q, k, s).pc = "got"
        BY DEF Got
      <4> QED BY <4>1, <4>2
    <3> QED BY <1>9, <3>1, <3>2
  <2> QED BY <2>1, <2>2 DEF PickedPcs
<1> QED BY <1>1, <1>2, <1>3, <1>4, <1>5, <1>6, <1>7, <1>8, <1>9

\* The table of a flush is none that anyone knows or handles until it is
\* published, and then it is in level 0.
LEMMA LevelsFlush ==
    ASSUME TypeOK, FilesInv, LevelsInv, NEW t \in Threads,
           WriteL0Table(t) \/ FlushFails(t) \/ PublishAddFile(t)
    PROVE  LevelsInv'
<1>1. CASE WriteL0Table(t) \/ FlushFails(t)
  <2>1. /\ job[t].pc = "sst" /\ UNCHANGED <<version, manifest>>
        /\ content' = content \/ content' = [content EXCEPT ![job[t].num] = held[1]]
    BY <1>1 DEF WriteL0Table, FlushFails, RenameTable, versions, files
  <2>2. /\ \A f \in KnownFiles : f.num # job[t].num
        /\ \A u \in Threads : \A f \in JobFiles(job[u]) : f.num # job[t].num
    <3>1. FlushApart(job[t])
      BY DEF FilesInv
    <3> QED BY <2>1, <3>1 DEF FlushApart
  <2>3. \A f \in File : f.num \in DOMAIN content
    BY DEF TypeOK, File
  <2>4. ContentKept(version)
    <3>1. version \subseteq File
      BY DEF TypeOK
    <3> QED BY <2>1, <2>2, <2>3, <3>1 DEF ContentKept, KnownFiles
  <2>5. \A u \in Threads : ContentKept(JobFiles(job[u]))
    BY <2>1, <2>2, <2>3, JobFilesType DEF ContentKept
  <2>6. PICK j : Set(t, j) /\ j.pc \in {"idle", "add"}
    BY <1>1 DEF WriteL0Table, FlushFails, FlushAt, Idle
  <2>7. DeepFilesKept /\ version' = manifest'.files
    BY <2>1 DEF DeepFilesKept, LevelsInv
  <2>8. j.pc \notin PickedPcs /\ j.pc \notin {"commit", "edits"}
    BY <2>6 DEF PickedPcs
  <2> QED BY <2>4, <2>5, <2>6, <2>7, <2>8, LevelsFrame
<1>2. CASE PublishAddFile(t)
  <2> DEFINE f == [level |-> 0, num |-> job[t].num]
  <2>1. /\ content' = content /\ version' = version \cup {f}
        /\ manifest'.files = manifest.files \cup {f}
    BY <1>2 DEF PublishAddFile, AddFile, files
  <2>2. f.level = 0
    OBVIOUS
  <2>3. PICK j : Set(t, j) /\ j.pc = "last"
    BY <1>2 DEF PublishAddFile, FlushAt
  <2> HIDE DEF f
  <2>4. DeepFilesKept /\ version' = manifest'.files
    BY <2>1, <2>2 DEF DeepFilesKept, LevelsInv
  <2>5. ContentKept(version) /\ \A u \in Threads : ContentKept(JobFiles(job[u]))
    BY <2>1 DEF ContentKept
  <2>6. j.pc \notin PickedPcs /\ j.pc \notin {"commit", "edits"}
    BY <2>3 DEF PickedPcs
  <2> QED BY <2>3, <2>4, <2>5, <2>6, LevelsFrame
<1> QED BY <1>1, <1>2

\* The picker's inputs are of one level, and not of the last one.
LEMMA InputsLevel ==
    ASSUME NEW v \in SUBSET File, NEW r
    PROVE  /\ \A f, g \in ManualInputs(content, v, r) : f.level = g.level
           /\ \A f \in ManualInputs(content, v, r) : f.level \in Nat /\ f.level + 1 < NumLevels
<1> DEFINE l0 == L0ManualInputs(content, v, r)
           deeper == {f \in InRange(content, v, r) : f.level > 0 /\ f.level < NumLevels - 1}
<1>0. NumLevels \in Nat /\ NumLevels >= 2 /\ \A f \in File : f.level \in Nat
  BY LevelsAssumption DEF File
<1>1. CASE l0 # {}
  <2>1. ManualInputs(content, v, r) = l0
    BY <1>1 DEF ManualInputs
  <2>2. \A f \in l0 : f.level = 0
    BY DEF L0ManualInputs, InRange, FilesAt
  <2> HIDE DEF l0
  <2> QED BY <1>0, <2>1, <2>2
<1>2. CASE l0 = {}
  <2>1. ManualInputs(content, v, r) = FirstFiles(content, deeper)
    BY <1>2 DEF ManualInputs
  <2>2. \A f \in deeper : f.level \in Nat /\ f.level > 0 /\ f.level < NumLevels - 1
    BY <1>0 DEF InRange
  <2> HIDE DEF deeper
  <2>3. FirstFiles(content, deeper) \subseteq deeper
    BY DEF FirstFiles
  <2>4. ASSUME NEW f \in FirstFiles(content, deeper), NEW g \in FirstFiles(content, deeper)
        PROVE  f.level = g.level
    <3>1. CASE f = g
      BY <3>1
    <3>2. CASE f # g
      <4>1. FileBefore(content, f, g) /\ FileBefore(content, g, f)
        BY <2>3, <2>4, <3>2 DEF FirstFiles
      <4>2. (f.level < g.level \/ f.level = g.level) /\ (g.level < f.level \/ f.level = g.level)
        BY <4>1 DEF FileBefore
      <4>3. f.level \in Nat /\ g.level \in Nat
        BY <2>2, <2>3, <2>4
      <4> QED BY <4>2, <4>3
    <3> QED BY <3>1, <3>2
  <2>5. \A f \in FirstFiles(content, deeper) : f.level \in Nat /\ f.level + 1 < NumLevels
    BY <1>0, <2>2, <2>3
  <2> QED BY <2>1, <2>4, <2>5
<1> QED BY <1>1, <1>2

\* The task the picker makes of its inputs.
LEMMA PickedShape ==
    ASSUME TypeOK, NEW inputs, inputs # {}, NEW r, inputs = ManualInputs(content, version, r),
           NEW task, task = TaskForFiles(content, version, inputs)
    PROVE  /\ task.inputFiles = inputs /\ inputs \subseteq version /\ version \subseteq File
           /\ task.inputLevel \in Nat /\ task.outputLevel = task.inputLevel + 1
           /\ task.outputLevel < NumLevels
           /\ \A f \in inputs : f.level = task.inputLevel
           /\ task.overlapFiles =
                {f \in FilesAt(version, task.outputLevel) :
                    \/ task.inputLevel = 0
                    \/ OverlapsEntries(content[f.num], EntriesOf(content, inputs))}
<1> DEFINE lvl == (CHOOSE f \in inputs : TRUE).level
           out == IF lvl + 1 < NumLevels THEN lvl + 1 ELSE NumLevels - 1
<1>0. version \subseteq File /\ inputs \subseteq version
  BY ManualInputsSubset DEF TypeOK
<1>1. /\ task.inputLevel = lvl /\ task.outputLevel = out /\ task.inputFiles = inputs
      /\ task.overlapFiles = {f \in FilesAt(version, out) :
                                \/ lvl = 0
                                \/ OverlapsEntries(content[f.num], EntriesOf(content, inputs))}
  BY DEF TaskForFiles
<1>2. /\ \A f \in inputs : f.level = lvl
      /\ lvl \in Nat /\ lvl + 1 < NumLevels
  <2>1. (CHOOSE f \in inputs : TRUE) \in inputs
    OBVIOUS
  <2>2. /\ \A f, g \in inputs : f.level = g.level
        /\ \A f \in inputs : f.level \in Nat /\ f.level + 1 < NumLevels
    <3>1. PICK v : v = version
      OBVIOUS
    <3>2. v \in SUBSET File
      BY <1>0, <3>1
    <3> QED BY <3>1, <3>2, InputsLevel
  <2> QED BY <2>1, <2>2
<1>3. out = lvl + 1
  <2> HIDE DEF lvl
  <2> QED BY <1>2
<1> HIDE DEF lvl, out
<1> QED BY <1>0, <1>1, <1>2, <1>3

\* CompactionPicker: what is left at the output level has no key in common
\* with the inputs.
LEMMA PickedTaskFits ==
    ASSUME TypeOK, NEW inputs, inputs # {}, NEW r, inputs = ManualInputs(content, version, r)
    PROVE  TaskFits(TaskForFiles(content, version, inputs))
<1>0. PICK task : task = TaskForFiles(content, version, inputs)
  OBVIOUS
<1>1. /\ task.inputFiles = inputs /\ inputs \subseteq version /\ version \subseteq File
      /\ task.inputLevel \in Nat /\ task.outputLevel = task.inputLevel + 1
      /\ \A f \in inputs : f.level = task.inputLevel
      /\ task.overlapFiles =
           {f \in FilesAt(version, task.outputLevel) :
               \/ task.inputLevel = 0
               \/ OverlapsEntries(content[f.num], EntriesOf(content, inputs))}
  BY <1>0, PickedShape
<1>2. \A f \in task.overlapFiles : f.level = task.outputLevel
  BY <1>1 DEF FilesAt
<1>3. ASSUME NEW f \in inputs, NEW g \in version \ AllInputFiles(task), g.level = task.outputLevel
      PROVE  Apart(f, g)
  <2>1. g \notin task.overlapFiles
    BY <1>3 DEF AllInputFiles
  <2>2. ~ OverlapsEntries(content[g.num], EntriesOf(content, inputs))
    BY <1>1, <1>3, <2>1 DEF FilesAt
  <2>3. ASSUME NEW a \in content[f.num], NEW b \in content[g.num], a.key = b.key PROVE FALSE
    <3>1. a \in EntriesOf(content, inputs)
      BY <1>3, <2>3 DEF EntriesOf
    <3>2. b.key \in Nat
      <4>1. g.num \in 1..MaxFileNumber
        BY <1>1, <1>3 DEF File
      <4>2. b \in Entry
        BY <2>3, <4>1 DEF TypeOK
      <4> QED BY <4>2, KeysAssumption DEF Entry
    <3>3. b.key <= a.key /\ b.key >= a.key
      BY <2>3, <3>2
    <3> QED BY <2>2, <2>3, <3>1, <3>3 DEF OverlapsEntries
  <2> QED BY <2>3 DEF Apart
<1>4. task.outputLevel > 0
  BY <1>1
<1>5. TaskFits(task)
  BY <1>1, <1>2, <1>3, <1>4 DEF TaskFits
<1> QED BY <1>0, <1>5

LEMMA LevelsPick ==
    ASSUME TypeOK, LevelsInv, NEW t \in Threads, NEW r, NEW g, Pick(t, r, g)
    PROVE  LevelsInv'
<1>0. /\ UNCHANGED <<version, manifest, content>>
      /\ DeepFilesKept /\ ContentKept(version) /\ version' = manifest'.files
      /\ \A u \in Threads : ContentKept(JobFiles(job[u]))
  BY DEF Pick, versions, files, DeepFilesKept, ContentKept, LevelsInv
<1>1. PICK inputs : inputs = ManualInputs(content, version, r)
  OBVIOUS
<1>2. CASE inputs = {}
  <2>1. Set(t, Finish(g)) /\ Finish(g).pc \notin PickedPcs \cup {"commit", "edits"}
    BY <1>1, <1>2 DEF Pick, Finish, Idle, PickedPcs
  <2> QED BY <1>0, <2>1, LevelsQuiet
<1>3. CASE inputs # {}
  <2>1. PICK task : task = TaskForFiles(content, version, inputs)
    OBVIOUS
  <2>2. PICK j : Set(t, j) /\ j.pc = "oldest" /\ j.task = task
    BY <1>1, <1>3, <2>1 DEF Pick
  <2>3. TaskFits(task)
    BY <1>1, <1>3, <2>1, PickedTaskFits
  <2>4. (TaskFits(task))'
    BY <1>0, <2>3 DEF TaskFits, Apart
  <2> QED BY <1>0, <2>2, <2>4, LevelsFrame
<1> QED BY <1>2, <1>3

LEMMA LevelsBeforeRun ==
    ASSUME TypeOK, LevelsInv, NEW t \in Threads,
           \/ \E r \in Ranges : CompactRange(t, r)
           \/ CompactUnderPressure(t) \/ ReadOldest(t) \/ ReadLastSequence(t)
           \/ CheckTombstones(t)
    PROVE  LevelsInv'
<1>1. ASSUME NEW r \in Ranges, CompactRange(t, r) PROVE LevelsInv'
  BY <1>1, LevelsPick DEF CompactRange
<1>2. CASE CompactUnderPressure(t)
  <2>1. PICK g, r : g = job[t].group /\ r = FullRange
    OBVIOUS
  <2>2. Pick(t, r, g)
    BY <1>2, <2>1 DEF CompactUnderPressure
  <2> QED BY <2>2, LevelsPick
<1>3. CASE ReadOldest(t) \/ ReadLastSequence(t) \/ CheckTombstones(t)
  <2>1. /\ UNCHANGED <<version, manifest, content>> /\ job[t].pc \in PickedPcs
        /\ DeepFilesKept /\ ContentKept(version) /\ version' = manifest'.files
        /\ \A u \in Threads : ContentKept(JobFiles(job[u]))
    BY <1>3 DEF ReadOldest, ReadLastSequence, CheckTombstones, versions, files, DeepFilesKept,
                ContentKept, LevelsInv, PickedPcs
  <2>2. PICK j : Set(t, j) /\ j.pc \in PickedPcs /\ j.task = job[t].task
    <3>1. CASE ReadOldest(t)
      BY <3>1 DEF ReadOldest, PickedPcs
    <3>2. CASE ReadLastSequence(t)
      BY <3>2 DEF ReadLastSequence, PickedPcs
    <3>3. CASE CheckTombstones(t)
      BY <3>3 DEF CheckTombstones, PickedPcs
    <3> QED BY <1>3, <3>1, <3>2, <3>3
  <2>3. TaskFits(j.task)
    BY <2>1, <2>2 DEF LevelsInv
  <2>4. (TaskFits(j.task))'
    BY <2>1, <2>3 DEF TaskFits, Apart
  <2>5. j.pc \notin {"commit", "edits"}
    BY <2>2 DEF PickedPcs
  <2> QED BY <2>1, <2>2, <2>4, <2>5, LevelsFrame
<1> QED BY <1>1, <1>2, <1>3

\* What a compaction is going to add fits into the output level.
LEMMA LevelsRun ==
    ASSUME TypeOK, NumbersInv, FilesInv, LevelsInv, OneCompactor, EmptyKey \notin Keys,
           NEW t \in Threads, TrivialMove(t) \/ WriteOutputs(t) \/ OutputsFail(t)
    PROVE  LevelsInv'
<1>1. PICK o, task : o = job[t] /\ task = job[t].task
  OBVIOUS
<1>2. /\ o.pc = "run" /\ Compacts(t) /\ AllInputFiles(task) \subseteq version /\ TaskFits(task)
      /\ task \in Task /\ nextFile \in Nat
  <2>1. o.pc = "run"
    BY <1>1 DEF TrivialMove, WriteOutputs, OutputsFail
  <2>2. CompactionApart(job[t]) /\ (job[t].pc \in CompactPcs => Compacts(t))
    BY DEF FilesInv
  <2>3. Compacts(t) /\ AllInputFiles(task) \subseteq version
    BY <1>1, <2>1, <2>2 DEF CompactionApart, PickedPcs, CompactPcs
  <2>4. TaskFits(task)
    BY <1>1, <2>1 DEF LevelsInv, PickedPcs
  <2>5. task \in Task
    BY <1>1, <2>1, JobShapes DEF TypeOK
  <2> QED BY <2>1, <2>3, <2>4, <2>5, ManifestType
<1>3. UNCHANGED <<version, manifest>> /\ version' = manifest'.files /\ DeepFilesKept
  <2>1. UNCHANGED <<version, manifest>>
    BY DEF TrivialMove, WriteOutputs, OutputsFail, versions
  <2> QED BY <2>1 DEF LevelsInv, DeepFilesKept
<1>4. \A f \in version : f.num < nextFile /\ f.num \in 1..MaxFileNumber /\ f.num \in Nat
  <2>1. \A f \in version : f.num \in 1..MaxFileNumber /\ f \in KnownFiles
    BY DEF TypeOK, File, KnownFiles
  <2>2. \A f \in KnownFiles : f.num < manifest.next /\ manifest.next <= nextFile
    BY DEF NumbersInv
  <2> QED BY <2>1, <2>2, ManifestType
<1>5. task.inputFiles \subseteq AllInputFiles(task) /\ task.overlapFiles \subseteq AllInputFiles(task)
  BY DEF AllInputFiles
<1>6. CASE TrivialMove(t)
  <2>1. PICK j : /\ Set(t, j) /\ j.pc = "commit" /\ j.dels = AllInputFiles(task)
                 /\ j.adds = {[level |-> task.outputLevel, num |-> n] :
                                 n \in {f.num : f \in task.inputFiles}}
    BY <1>1, <1>6 DEF TrivialMove, Commit
  <2>2. content' = content /\ task.inputLevel > 0
    BY <1>1, <1>6 DEF TrivialMove, MovesTrivially, IsTrivialMove, files
  <2>3. \A f \in j.adds : f.level = task.outputLevel /\ \E i \in task.inputFiles : f.num = i.num
    BY <2>1
  <2>4. \A f, g \in j.adds : f.num = g.num => f = g
    BY <2>1
  <2>5. ASSUME NEW f \in j.adds, NEW g \in (version \ j.dels) \cup j.adds,
               g.level = f.level, g # f
        PROVE  Apart(f, g)
    <3>1. PICK i \in task.inputFiles : f.num = i.num
      BY <2>3, <2>5
    <3>2. CASE g \in version \ j.dels
      <4>1. Apart(i, g)
        BY <1>2, <2>1, <2>3, <2>5, <3>1, <3>2 DEF TaskFits
      <4> QED BY <3>1, <4>1 DEF Apart
    <3>3. CASE g \in j.adds
      <4>1. PICK k \in task.inputFiles : g.num = k.num
        BY <2>3, <3>3
      <4>2. i # k
        BY <2>4, <2>5, <3>1, <3>3, <4>1
      <4>3. i \in version /\ k \in version /\ i.level = task.inputLevel /\ k.level = task.inputLevel
        BY <1>2, <1>5, <3>1, <4>1 DEF TaskFits
      <4>4. Apart(i, k)
        BY <2>2, <4>2, <4>3 DEF LevelsInv, LevelsDisjoint
      <4> QED BY <3>1, <4>1, <4>4 DEF Apart
    <3> QED BY <2>5, <3>2, <3>3
  <2>6. (AddsFit(j))'
    <3>1. \A f \in j.adds : f.level > 0
      BY <1>2, <2>3 DEF TaskFits
    <3>2. AddsFit(j)
      BY <2>5, <3>1 DEF AddsFit
    <3> QED BY <1>3, <2>2, <3>2 DEF AddsFit, Apart
  <2>7. LevelsDisjoint'
    BY <1>3, <2>2 DEF LevelsInv, LevelsDisjoint, Apart
  <2>8. j.pc \notin PickedPcs
    BY <2>1 DEF PickedPcs
  <2> QED BY <1>2, <1>3, <2>1, <2>6, <2>7, <2>8, LevelsCompactor
<1>7. CASE WriteOutputs(t) \/ OutputsFail(t)
  <2>1. PICK out, n, part, written :
          /\ out = Output(o) /\ n \in Nat /\ part \in Splits(out, n)
          /\ nextFile + n - 1 <= MaxFileNumber
          /\ written \subseteq nextFile..(nextFile + n - 1)
          /\ content' = WithOutputs(out, part, written)
          /\ \/ Set(t, Idle)
             \/ Set(t, Commit(o, written, {f.num : f \in AllInputFiles(task)}))
    <3>1. CASE WriteOutputs(t)
      <4>1. PICK out : out = Output(job[t])
        OBVIOUS
      <4>2. PICK n \in IF out = {} THEN {0} ELSE 1..MaxOf(1, MaxSubcompactions) :
               /\ nextFile + n - 1 <= MaxFileNumber
               /\ \E part \in Splits(out, n) :
                     content' = WithOutputs(out, part, nextFile..(nextFile + n - 1))
               /\ Set(t, Commit(job[t], nextFile..(nextFile + n - 1),
                                {f.num : f \in AllInputFiles(job[t].task)}))
        BY <3>1, <4>1 DEF WriteOutputs
      <4>3. n \in Nat
        BY <4>2, SizesAssumption DEF MaxOf
      <4>4. PICK written : written = nextFile..(nextFile + n - 1)
        OBVIOUS
      <4> QED BY <1>1, <4>1, <4>2, <4>3, <4>4
    <3>2. CASE OutputsFail(t)
      <4>1. PICK out : out = Output(job[t])
        OBVIOUS
      <4>2. PICK n \in 1..MaxOf(1, MaxSubcompactions) :
               /\ nextFile + n - 1 <= MaxFileNumber
               /\ \E part \in Splits(out, n), written \in SUBSET (nextFile..(nextFile + n - 1)) :
                     content' = WithOutputs(out, part, written)
        BY <3>2, <4>1 DEF OutputsFail
      <4>3. n \in Nat
        BY SizesAssumption DEF MaxOf
      <4>4. Set(t, Idle)
        BY <3>2 DEF OutputsFail
      <4> QED BY <1>1, <4>1, <4>2, <4>3, <4>4
    <3> QED BY <1>7, <3>1, <3>2
  <2>2. \A m \in written : m \in Nat /\ nextFile <= m
    BY <1>2, <2>1
  <2>3. DOMAIN content = 1..MaxFileNumber
    BY DEF TypeOK
  <2>4. ContentKept(version)
    <3>1. \A f \in version : f.num \notin written
      BY <1>2, <1>4, <2>2
    <3> QED BY <1>4, <2>1, <2>3, <3>1 DEF ContentKept, WithOutputs
  <2>5. LevelsDisjoint'
    BY <1>3, <2>4, LevelsKept DEF LevelsInv
  <2>6. CASE Set(t, Idle)
    <3>1. Idle.pc \notin PickedPcs /\ Idle.pc \notin {"commit", "edits"}
      BY DEF Idle, PickedPcs
    <3> QED BY <1>2, <1>3, <2>5, <2>6, <3>1, LevelsCompactor
  <2>7. CASE Set(t, Commit(o, written, {f.num : f \in AllInputFiles(task)}))
    <3>1. PICK j : /\ Set(t, j) /\ j.pc = "commit" /\ j.dels = AllInputFiles(task)
                   /\ j.adds = {[level |-> task.outputLevel, num |-> m] : m \in written}
      BY <1>1, <2>7 DEF Commit
    <3>2. /\ \A f \in j.adds : f.level = task.outputLevel /\ f.num \in written
          /\ \A f, g \in j.adds : f.num = g.num => f = g
      BY <3>1
    <3>3. ASSUME NEW f \in j.adds, NEW e \in content'[f.num], f.num \in DOMAIN content
          PROVE  e \in out /\ part[e] = f.num - nextFile
      BY <2>1, <3>2, <3>3 DEF WithOutputs
    <3>4. /\ out \subseteq Entry
          /\ \A e \in out : \E i \in AllInputFiles(task) : e \in content[i.num]
      <4>1. out \subseteq Entry /\ out \subseteq EntriesOf(content, AllInputFiles(task))
        BY <1>1, <1>2, <2>1, OutputType
      <4> QED BY <4>1 DEF EntriesOf
    <3>5. \A a, b \in out : a.key = b.key => part[a] = part[b]
      <4>1. \A a \in out : a.key # EmptyKey
        BY <3>4 DEF Entry
      <4> QED BY <2>1, <4>1 DEF Splits
    <3>6. ASSUME NEW f \in j.adds, f.num \in DOMAIN content, NEW g \in version \ j.dels,
                 g.level = f.level
          PROVE  (Apart(f, g))'
      <4>1. ASSUME NEW a \in content'[f.num], NEW b \in content'[g.num] PROVE a.key # b.key
        <5>1. b \in content[g.num] /\ g \notin AllInputFiles(task) /\ g.level = task.outputLevel
          BY <2>4, <3>1, <3>2, <3>6, <4>1 DEF ContentKept
        <5>2. PICK i \in AllInputFiles(task) : a \in content[i.num]
          BY <3>3, <3>4, <3>6, <4>1
        <5>3. CASE i \in task.inputFiles
          <6>1. Apart(i, g)
            BY <1>2, <3>6, <5>1, <5>3 DEF TaskFits
          <6> QED BY <5>1, <5>2, <6>1 DEF Apart
        <5>4. CASE i \in task.overlapFiles
          <6>1. i \in version /\ g \in version /\ i # g /\ i.level = g.level /\ i.level > 0
            BY <1>2, <3>6, <5>1, <5>2, <5>4 DEF TaskFits
          <6>2. Apart(i, g)
            BY <6>1 DEF LevelsInv, LevelsDisjoint
          <6> QED BY <5>1, <5>2, <6>2 DEF Apart
        <5> QED BY <5>2, <5>3, <5>4 DEF AllInputFiles
      <4> QED BY <4>1 DEF Apart
    <3>7. ASSUME NEW f \in j.adds, f.num \in DOMAIN content, NEW g \in j.adds,
                 g.num \in DOMAIN content, g # f
          PROVE  (Apart(f, g))'
      <4>1. ASSUME NEW a \in content'[f.num], NEW b \in content'[g.num], a.key = b.key PROVE FALSE
        <5>1. a \in out /\ b \in out /\ part[a] = f.num - nextFile /\ part[b] = g.num - nextFile
          BY <3>3, <3>7, <4>1
        <5>2. f.num - nextFile = g.num - nextFile
          BY <3>5, <4>1, <5>1
        <5>3. f.num = g.num
          BY <1>2, <2>2, <3>2, <5>2
        <5> QED BY <3>2, <3>7, <5>3
      <4> QED BY <4>1 DEF Apart
    <3>8. \A f \in j.adds : f.num \in DOMAIN content
      <4>1. nextFile \in Nat \ {0}
        BY DEF TypeOK
      <4>2. written \subseteq 1..MaxFileNumber
        BY <2>1, <4>1, SizesAssumption
      <4> QED BY <2>3, <3>2, <4>2
    <3>9. (AddsFit(j))'
      <4>1. \A f \in j.adds : f.level > 0
        BY <1>2, <3>2 DEF TaskFits
      <4>2. ASSUME NEW f \in j.adds, NEW g \in (version' \ j.dels) \cup j.adds,
                   g.level = f.level, g # f
            PROVE  (Apart(f, g))'
        BY <1>3, <3>6, <3>7, <3>8, <4>2
      <4> QED BY <4>1, <4>2 DEF AddsFit
    <3>10. j.pc \notin PickedPcs
      BY <3>1 DEF PickedPcs
    <3> QED BY <1>2, <1>3, <2>5, <3>1, <3>9, <3>10, LevelsCompactor
  <2> QED BY <2>1, <2>6, <2>7
<1> QED BY <1>6, <1>7

LEMMA LevelsDelete ==
    ASSUME TypeOK, FilesInv, LevelsInv, OneCompactor, NEW t \in Threads, CommitDelete(t)
    PROVE  LevelsInv'
<1>1. PICK o : o = job[t]
  OBVIOUS
<1>2. PICK f \in o.dels :
         /\ manifest' = DeleteFile(manifest, f) /\ version' = version \ {f}
         /\ Set(t, IF o.dels = {f} /\ o.adds = {} THEN Committed(o)
                   ELSE Edits(o, o.dels \ {f}, o.adds))
  BY <1>1 DEF CommitDelete, FirstFiles
<1>3. content' = content /\ o.pc \in {"commit", "edits"}
  BY <1>1 DEF CommitDelete, files
<1>4. Compacts(t) /\ AddsFit(o)
  BY <1>1, <1>3 DEF FilesInv, CompactPcs, LevelsInv
<1>5. version' = manifest'.files /\ LevelsDisjoint'
  <2>1. version' = manifest'.files
    BY <1>2 DEF DeleteFile, LevelsInv
  <2>2. ASSUME NEW g \in version', NEW h \in version', g.level = h.level, g.level > 0, g # h
        PROVE  (Apart(g, h))'
    BY <1>2, <1>3, <2>2 DEF LevelsInv, LevelsDisjoint, Apart
  <2> QED BY <2>1, <2>2 DEF LevelsDisjoint
<1>6. PICK j : /\ Set(t, j)
               /\ \/ j.pc = "load"
                  \/ j.pc = "edits" /\ j.dels = o.dels \ {f} /\ j.adds = o.adds
  BY <1>2 DEF Committed, Edits
<1>7. j.pc = "edits" => (AddsFit(j))'
  <2> SUFFICES ASSUME j.pc = "edits" PROVE (AddsFit(j))'
    OBVIOUS
  <2>1. j.dels = o.dels \ {f} /\ j.adds = o.adds
    BY <1>6
  <2>2. (version' \ j.dels) \cup j.adds \subseteq (version \ o.dels) \cup o.adds
    BY <1>2, <2>1
  <2>3. ASSUME NEW g \in j.adds
        PROVE  /\ g.level > 0
               /\ \A h \in (version' \ j.dels) \cup j.adds :
                     h.level = g.level /\ h # g => (Apart(g, h))'
    BY <1>3, <1>4, <2>1, <2>2 DEF AddsFit, Apart
  <2> QED BY <2>3 DEF AddsFit
<1>8. j.pc \notin PickedPcs /\ j.pc # "commit"
  BY <1>6 DEF PickedPcs
<1> QED BY <1>4, <1>5, <1>6, <1>7, <1>8, LevelsCompactor

\* The output of a compaction enters a level from which its inputs are gone.
LEMMA LevelsAdd ==
    ASSUME TypeOK, FilesInv, LevelsInv, OneCompactor, NEW t \in Threads, CommitAdd(t)
    PROVE  LevelsInv'
<1>1. PICK o : o = job[t]
  OBVIOUS
<1>2. PICK f \in o.adds :
         /\ manifest' = AddFile(manifest, f) /\ version' = version \cup {f}
         /\ Set(t, IF o.adds = {f} THEN Committed(o) ELSE Edits(o, {}, o.adds \ {f}))
  BY <1>1 DEF CommitAdd, FirstFiles
<1>3. content' = content /\ o.pc = "edits" /\ o.dels = {}
  BY <1>1 DEF CommitAdd, files
<1>4. Compacts(t) /\ AddsFit(o)
  BY <1>1, <1>3 DEF FilesInv, CompactPcs, LevelsInv
<1>5. version' = manifest'.files /\ LevelsDisjoint'
  <2>1. version' = manifest'.files
    BY <1>2 DEF AddFile, LevelsInv
  <2>2. ASSUME NEW g \in version', NEW h \in version', g.level = h.level, g.level > 0, g # h
        PROVE  Apart(g, h)
    <3>1. CASE g = f
      BY <1>2, <1>3, <1>4, <2>2, <3>1 DEF AddsFit
    <3>2. CASE h = f
      <4>1. Apart(h, g)
        BY <1>2, <1>3, <1>4, <2>2, <3>2 DEF AddsFit
      <4> QED BY <4>1 DEF Apart
    <3>3. CASE g # f /\ h # f
      BY <1>2, <2>2, <3>3 DEF LevelsInv, LevelsDisjoint
    <3> QED BY <3>1, <3>2, <3>3
  <2> QED BY <1>3, <2>1, <2>2 DEF LevelsDisjoint, Apart
<1>6. PICK j : /\ Set(t, j)
               /\ \/ j.pc = "load"
                  \/ j.pc = "edits" /\ j.dels = {} /\ j.adds = o.adds \ {f}
  BY <1>2 DEF Committed, Edits
<1>7. j.pc = "edits" => (AddsFit(j))'
  <2> SUFFICES ASSUME j.pc = "edits" PROVE (AddsFit(j))'
    OBVIOUS
  <2>1. j.dels = {} /\ j.adds \subseteq o.adds
    BY <1>6
  <2>2. (version' \ j.dels) \cup j.adds \subseteq (version \ o.dels) \cup o.adds
    BY <1>2, <1>3, <2>1
  <2>3. ASSUME NEW g \in j.adds
        PROVE  /\ g.level > 0
               /\ \A h \in (version' \ j.dels) \cup j.adds :
                     h.level = g.level /\ h # g => (Apart(g, h))'
    BY <1>3, <1>4, <2>1, <2>2 DEF AddsFit, Apart
  <2> QED BY <2>3 DEF AddsFit
<1>8. j.pc \notin PickedPcs /\ j.pc # "commit"
  BY <1>6 DEF PickedPcs
<1> QED BY <1>4, <1>5, <1>6, <1>7, <1>8, LevelsCompactor

LEMMA LevelsCrash ==
    ASSUME LevelsInv, CrashAndOpen PROVE LevelsInv'
<1>1. /\ \A t \in Threads : job'[t] = Idle
      /\ version' = version /\ version' = manifest'.files /\ content' = content
  BY DEF CrashAndOpen, files, LevelsInv
<1>2. LevelsDisjoint'
  BY <1>1 DEF LevelsInv, LevelsDisjoint, Apart
<1>3. Idle.pc \notin PickedPcs \cup {"commit", "edits"}
  BY DEF Idle, PickedPcs
<1> QED BY <1>1, <1>2, <1>3 DEF LevelsInv

LEMMA LevelsStep ==
    ASSUME OneCompactor, "sync" \notin Failures, EmptyKey \notin Keys,
           TypeOK, NumbersInv, FilesInv, LevelsInv, [Next]_vars
    PROVE  LevelsInv'
<1>1. ASSUME UNCHANGED <<versions, files, job>> PROVE LevelsInv'
  BY <1>1 DEF versions, files, LevelsInv, LevelsDisjoint, TaskFits, AddsFit, Apart
<1>2. ASSUME NEW t \in Threads, ThreadStep(t) PROVE LevelsInv'
  <2>1. CASE Close(t)
    BY <1>1, <2>1 DEF Close
  <2> QED BY <1>2, <2>1, LevelsLocal, LevelsFlush, LevelsBeforeRun, LevelsRun, LevelsDelete,
             LevelsAdd DEF ThreadStep
<1>3. ASSUME NEW h \in Holders, TakeSnapshot(h) \/ DropSnapshot(h) PROVE LevelsInv'
  BY <1>1, <1>3 DEF TakeSnapshot, DropSnapshot
<1>4. CASE UNCHANGED vars
  BY <1>1, <1>4 DEF vars
<1> QED BY <1>2, <1>3, <1>4, LevelsCrash DEF Next

\* With one thread that compacts, no manifest edit that is reported as failed
\* and is nevertheless written, and no empty key (on which the output splitter
\* restarts its count), no two files of a level below level 0 have a key in
\* common, whatever flushes, failures and crashes come between the picking of
\* a compaction and its last edit: get may look into one file per level.
THEOREM LevelsStayDisjoint ==
    ASSUME OneCompactor, "sync" \notin Failures, EmptyKey \notin Keys
    PROVE  Spec => []LevelsDisjoint
<1>1. Init => LevelsInv
  <2> SUFFICES ASSUME Init PROVE LevelsInv
    OBVIOUS
  <2>1. version = {} /\ manifest.files = {} /\ \A t \in Threads : job[t].pc = "idle"
    BY DEF Init, Idle
  <2> QED BY <2>1 DEF LevelsInv, LevelsDisjoint, PickedPcs
<1>2. TypeOK /\ NumbersInv /\ FilesInv /\ LevelsInv /\ [Next]_vars => LevelsInv'
  BY LevelsStep
<1>3. LevelsInv => LevelsDisjoint
  BY DEF LevelsInv
<1> QED BY <1>1, <1>2, <1>3, FilesHold, NumbersHold, PTL DEF Spec
=============================================================================
