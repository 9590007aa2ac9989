-------------------------- MODULE EngineReadProofs --------------------------
(***************************************************************************)
(* Reads: with one thread that writes, flushes and compacts, beside any    *)
(* number of threads that read and of clients that hold snapshots, every   *)
(* get and every scan returns what was written.                            *)
(*                                                                         *)
(* The argument has two halves.  Lookups stop at the first hit, which is   *)
(* right in a store whose sources are ordered: a source searched earlier   *)
(* has the newer versions of each key.  Every step keeps that order, and   *)
(* keeps what a reader at a live sequence finds in the whole of the store. *)
(* Hence the engine implements KVStore: a flush or a compaction shows      *)
(* nothing, and a batch shows all at once.                                 *)
(***************************************************************************)
EXTENDS EngineFileProofs, LsmTreeProofs, EngineRefinement

-----------------------------------------------------------------------------
(* Lookups *)

LEMMA FileFacts ==
    ASSUME TypeOK, NEW f \in File
    PROVE  /\ f.level \in Nat /\ f.num \in 1..MaxFileNumber /\ f.num \in Nat
           /\ f.num <= MaxFileNumber /\ content[f.num] \subseteq Entry
BY LevelsAssumption, SizesAssumption DEF File, TypeOK

LEMMA MemtablesAt ==
    ASSUME TypeOK
    PROVE  /\ Len(held) \in Nat /\ Len(immutables) \in Nat
           /\ DOMAIN held = 1..Len(held) /\ DOMAIN immutables = 1..Len(immutables)
           /\ DOMAIN Memtables = 1..(Len(held) + Len(immutables) + 1)
           /\ \A i \in 1..(Len(held) + Len(immutables) + 1) :
                Memtables[i] = IF i <= Len(held) THEN held[i]
                               ELSE IF i <= Len(held) + Len(immutables)
                                    THEN immutables[i - Len(held)]
                               ELSE mutable
<1>1. /\ held \in Seq(SUBSET Entry) /\ immutables \in Seq(SUBSET Entry)
      /\ <<mutable>> \in Seq(SUBSET Entry)
  BY Singleton DEF TypeOK
<1> DEFINE both == held \o immutables
<1>2. both \in Seq(SUBSET Entry) /\ Len(both) = Len(held) + Len(immutables)
  BY <1>1
<1>3. /\ Len(held) \in Nat /\ Len(immutables) \in Nat
      /\ DOMAIN held = 1..Len(held) /\ DOMAIN immutables = 1..Len(immutables)
      /\ \A i \in 1..(Len(held) + Len(immutables)) :
           both[i] = IF i <= Len(held) THEN held[i] ELSE immutables[i - Len(held)]
  BY <1>1, ConcatFacts
<1> HIDE DEF both
<1>4. /\ DOMAIN (both \o <<mutable>>) = 1..(Len(both) + Len(<<mutable>>))
      /\ \A i \in 1..(Len(both) + Len(<<mutable>>)) :
           (both \o <<mutable>>)[i] = IF i <= Len(both) THEN both[i]
                                      ELSE <<mutable>>[i - Len(both)]
  <2>1. PICK a, b \in Seq(SUBSET Entry) : a = both /\ b = <<mutable>>
    BY <1>1, <1>2
  <2>2. /\ DOMAIN (a \o b) = 1..(Len(a) + Len(b))
        /\ \A i \in 1..(Len(a) + Len(b)) :
             (a \o b)[i] = IF i <= Len(a) THEN a[i] ELSE b[i - Len(a)]
    BY ConcatFacts
  <2> QED BY <2>1, <2>2
<1>5. Len(<<mutable>>) = 1 /\ <<mutable>>[1] = mutable
  OBVIOUS
<1>6. Memtables = both \o <<mutable>>
  BY DEF Memtables, both
<1>7. DOMAIN Memtables = 1..(Len(held) + Len(immutables) + 1)
  BY <1>2, <1>4, <1>5, <1>6
<1>8. ASSUME NEW i \in 1..(Len(held) + Len(immutables) + 1)
      PROVE  Memtables[i] = IF i <= Len(held) THEN held[i]
                            ELSE IF i <= Len(held) + Len(immutables)
                                 THEN immutables[i - Len(held)]
                            ELSE mutable
  <2>1. i \in Nat /\ Memtables[i] = IF i <= Len(both) THEN both[i] ELSE <<mutable>>[i - Len(both)]
    BY <1>2, <1>3, <1>4, <1>5, <1>6
  <2>2. CASE i <= Len(both)
    BY <1>2, <1>3, <2>1, <2>2
  <2>3. CASE ~(i <= Len(both))
    <3>1. i - Len(both) = 1 /\ ~(i <= Len(held)) /\ ~(i <= Len(held) + Len(immutables))
      BY <1>2, <1>3, <2>1, <2>3
    <3> QED BY <1>5, <2>1, <2>3, <3>1
  <2> QED BY <2>2, <2>3
<1> QED BY <1>3, <1>7, <1>8

LEMMA MemtablesUnion ==
    ASSUME TypeOK PROVE UNION {Memtables[i] : i \in DOMAIN Memtables} = MemEntries
<1> DEFINE h == Len(held)
           n == Len(immutables)
<1>1. /\ h \in Nat /\ n \in Nat /\ DOMAIN held = 1..h /\ DOMAIN immutables = 1..n
      /\ DOMAIN Memtables = 1..(h + n + 1)
      /\ \A i \in 1..(h + n + 1) :
           Memtables[i] = IF i <= h THEN held[i]
                          ELSE IF i <= h + n THEN immutables[i - h] ELSE mutable
  BY MemtablesAt
<1> HIDE DEF h, n
<1>2. ASSUME NEW i \in DOMAIN Memtables
      PROVE  \/ i \in DOMAIN held /\ Memtables[i] = held[i]
             \/ i - h \in DOMAIN immutables /\ Memtables[i] = immutables[i - h]
             \/ Memtables[i] = mutable
  BY <1>1
<1>3. \A i \in DOMAIN held : i \in DOMAIN Memtables /\ Memtables[i] = held[i]
  BY <1>1
<1>4. \A i \in DOMAIN immutables : i + h \in DOMAIN Memtables /\ Memtables[i + h] = immutables[i]
  <2> SUFFICES ASSUME NEW i \in DOMAIN immutables
               PROVE  i + h \in DOMAIN Memtables /\ Memtables[i + h] = immutables[i]
    OBVIOUS
  <2>1. i \in Nat /\ i + h \in 1..(h + n + 1) /\ ~(i + h <= h) /\ i + h <= h + n /\ (i + h) - h = i
    BY <1>1
  <2> QED BY <1>1, <2>1
<1>5. h + n + 1 \in DOMAIN Memtables /\ Memtables[h + n + 1] = mutable
  BY <1>1
<1>6. ASSUME NEW e PROVE e \in MemEntries <=> \E i \in DOMAIN Memtables : e \in Memtables[i]
  <2>1. ASSUME NEW i \in DOMAIN Memtables, e \in Memtables[i] PROVE e \in MemEntries
    BY <1>2, <2>1 DEF MemEntries
  <2>2. ASSUME e \in MemEntries PROVE \E i \in DOMAIN Memtables : e \in Memtables[i]
    BY <1>3, <1>4, <1>5, <2>2 DEF MemEntries
  <2> QED BY <2>1, <2>2
<1> QED BY <1>6

LEMMA MemtablesOrder ==
    ASSUME TypeOK, MemOrdered
    PROVE  \A i, l \in DOMAIN Memtables : i < l => Older(Memtables[i], Memtables[l])
<1> DEFINE h == Len(held)
           n == Len(immutables)
<1>1. /\ h \in Nat /\ n \in Nat /\ DOMAIN held = 1..h /\ DOMAIN immutables = 1..n
      /\ DOMAIN Memtables = 1..(h + n + 1)
      /\ \A i \in 1..(h + n + 1) :
           Memtables[i] = IF i <= h THEN held[i]
                          ELSE IF i <= h + n THEN immutables[i - h] ELSE mutable
  BY MemtablesAt
<1>0. h <= 1
  BY DEF TypeOK
<1> HIDE DEF h, n
<1> SUFFICES ASSUME NEW i \in 1..(h + n + 1), NEW l \in 1..(h + n + 1), i < l
             PROVE  Older(Memtables[i], Memtables[l])
  BY <1>1
<1>2. i \in Nat /\ l \in Nat
  BY <1>1
<1>3. CASE i <= h
  <2>1. i \in DOMAIN held /\ Memtables[i] = held[i] /\ ~(l <= h)
    BY <1>0, <1>1, <1>2, <1>3
  <2>2. CASE l <= h + n
    <3>1. l - h \in DOMAIN immutables /\ Memtables[l] = immutables[l - h]
      BY <1>1, <1>2, <2>1, <2>2
    <3> QED BY <2>1, <3>1 DEF MemOrdered
  <2>3. CASE ~(l <= h + n)
    <3>1. Memtables[l] = mutable
      BY <1>1, <1>2, <2>1, <2>3
    <3> QED BY <2>1, <3>1 DEF MemOrdered
  <2> QED BY <2>2, <2>3
<1>4. CASE ~(i <= h)
  <2>1. i <= h + n
    BY <1>1, <1>2
  <2>2. i - h \in DOMAIN immutables /\ Memtables[i] = immutables[i - h]
    BY <1>1, <1>2, <1>4, <2>1
  <2>3. ~(l <= h)
    BY <1>1, <1>2, <1>4
  <2>4. CASE l <= h + n
    <3>1. l - h \in DOMAIN immutables /\ Memtables[l] = immutables[l - h] /\ i - h < l - h
      BY <1>1, <1>2, <1>4, <2>3, <2>4
    <3> QED BY <2>2, <3>1 DEF MemOrdered
  <2>5. CASE ~(l <= h + n)
    <3>1. Memtables[l] = mutable
      BY <1>1, <1>2, <2>3, <2>5
    <3> QED BY <2>2, <3>1 DEF MemOrdered
  <2> QED BY <2>4, <2>5
<1> QED BY <1>3, <1>4

\* get_opt, which stops at the first memtable or table that has the key, finds
\* the newest version in the whole store.
LEMMA LookupIsNewest ==
    ASSUME TypeOK, StoreReads, NEW k \in Keys, NEW s \in Nat
    PROVE  Lookup(k, s) = Newest(Reachable(tables), k, s)
<1>1. /\ Reachable(tables) \subseteq history /\ history \subseteq Entry /\ UniqueSeqs(history)
      /\ TreeOrdered(content, tables) /\ Older(EntriesOf(content, tables), MemEntries)
      /\ MemOrdered /\ tables \subseteq File /\ k \in Nat /\ MaxFileNumber \in Nat
  BY KeysAssumption, SizesAssumption DEF StoreReads, Readable, TypeOK
<1>2. PICK M, T : M = MemEntries /\ T = EntriesOf(content, tables)
  OBVIOUS
<1>3. Reachable(tables) = M \cup T /\ M \cup T \subseteq Entry /\ UniqueSeqs(M \cup T)
  BY <1>1, <1>2 DEF Reachable, UniqueSeqs
<1>4. UniqueSeqs(M) /\ UniqueSeqs(T) /\ M \subseteq Entry /\ T \subseteq Entry
  BY <1>3 DEF UniqueSeqs
<1>5. MemGet(Memtables, k, s) = Newest(M, k, s)
  <2>1. PICK m \in Seq(SUBSET Entry) : m = Memtables
    BY MemtablesType
  <2>2. M = UNION {m[i] : i \in DOMAIN m} /\ \A i, l \in DOMAIN m : i < l => Older(m[i], m[l])
    BY <1>1, <1>2, <2>1, MemtablesUnion, MemtablesOrder
  <2>3. MemGet(m, k, s) = Newest(M, k, s)
    BY <1>4, <2>2, MemGetIsNewest
  <2> QED BY <2>1, <2>3
<1>6. TableGet(content, tables, k, s) = Newest(T, k, s)
  <2>1. PICK c, fs : c = content /\ fs = tables
    OBVIOUS
  <2>2. \A f \in fs : /\ f.level \in Nat /\ f.num \in Nat /\ f.num <= MaxFileNumber
                      /\ c[f.num] \subseteq Entry
    BY <1>1, <2>1, FileFacts
  <2>3. TableGet(c, fs, k, s) = Newest(T, k, s)
    BY <1>1, <1>2, <1>4, <2>1, <2>2, TableGetIsNewest
  <2> QED BY <2>1, <2>3
<1>7. CASE Newest(M, k, s) # {}
  <2>1. \A e \in M \cup T : e.key = k /\ e.seq <= s =>
           e \in M \/ \A d \in M : d.key = k => e.seq < d.seq
    BY <1>1, <1>2 DEF Older
  <2>2. Newest(M \cup T, k, s) = Newest(M, k, s)
    <3>1. PICK E : E = M \cup T
      OBVIOUS
    <3>2. Newest(E, k, s) = Newest(M, k, s)
      BY <1>3, <1>7, <2>1, <3>1, NewestInPart
    <3> QED BY <3>1, <3>2
  <2> QED BY <1>3, <1>5, <1>7, <2>2 DEF Lookup
<1>8. CASE Newest(M, k, s) = {}
  <2>1. \A e \in M : ~(e.key = k /\ e.seq <= s)
    BY <1>4, <1>8, NewestExists
  <2>2. VersionsOf(M \cup T, k, s) = VersionsOf(T, k, s)
    BY <2>1 DEF VersionsOf
  <2>3. Newest(M \cup T, k, s) = Newest(T, k, s)
    BY <2>2 DEF Newest
  <2> QED BY <1>3, <1>5, <1>6, <1>8, <2>3 DEF Lookup
<1> QED BY <1>7, <1>8

-----------------------------------------------------------------------------
(* Steps that leave the store alone *)

\* Snapshots are dropped, or taken at last_sequence.
SnapsLive == \A p \in snaps' : p.seq = lastSequence \/ \E q \in snaps : q.seq = p.seq

LEMMA ReadableKept ==
    ASSUME NEW fs, Readable(fs), \A f \in fs : content'[f.num] = content[f.num],
           MemEntries' = MemEntries, UNCHANGED <<history, lastSequence>>, SnapsLive
    PROVE  Readable(fs)'
<1>1. EntriesOf(content', fs) = EntriesOf(content, fs)
  BY DEF EntriesOf
<1>2. Reachable(fs)' = Reachable(fs)
  BY <1>1 DEF Reachable
<1>3. TreeOrdered(content', fs)
  BY DEF Readable, TreeOrdered
<1>4. ASSUME NEW s, s = lastSequence' \/ \E p \in snaps' : s = p.seq PROVE Faithful(fs, s)'
  <2>1. Faithful(fs, s)
    BY <1>4 DEF Readable, SnapsLive
  <2> QED BY <1>2, <2>1 DEF Faithful
<1> QED BY <1>1, <1>2, <1>3, <1>4 DEF Readable

\* Memtables change places, and files that are no tables change.
LEMMA StoreMoved ==
    ASSUME TypeOK, StoreReads, MemEntries' = MemEntries, MemOrdered',
           UNCHANGED <<tables, lastSequence, history>>,
           \A f \in tables : content'[f.num] = content[f.num],
           nextFile' \in Nat, nextFile <= nextFile', SnapsLive
    PROVE  StoreReads'
<1>1. PICK fs : fs = tables
  OBVIOUS
<1>2. Readable(fs)'
  BY <1>1, ReadableKept DEF StoreReads
<1>3. Readable(tables)'
  BY <1>1, <1>2
<1>4. \A f \in tables : f.num \in Nat /\ f.num < nextFile
  BY FileFacts DEF StoreReads, TypeOK
<1>5. nextFile \in Nat /\ lastSequence \in Nat
  BY DEF TypeOK
<1>6. \A p \in snaps' : p.seq <= lastSequence
  BY <1>5 DEF StoreReads, SnapsLive
<1> QED BY <1>3, <1>4, <1>5, <1>6 DEF StoreReads

LEMMA StoreKept ==
    ASSUME TypeOK, StoreReads,
           UNCHANGED <<mutable, immutables, held, tables, lastSequence, history>>,
           \A f \in tables : content'[f.num] = content[f.num],
           nextFile' \in Nat, nextFile <= nextFile', SnapsLive
    PROVE  StoreReads'
<1>1. MemEntries' = MemEntries /\ MemOrdered'
  BY DEF StoreReads, MemEntries, MemOrdered
<1> QED BY <1>1, StoreMoved

LEMMA WriterKept ==
    ASSUME TypeOK, NEW j, WriterReads(j), SnapsLive,
           UNCHANGED <<mutable, immutables, held, tables, lastSequence, history, version, content>>
    PROVE  WriterReads(j)'
<1>1. MemEntries' = MemEntries
  BY DEF MemEntries
<1>2. \A fs : Readable(fs) => Readable(fs)'
  BY <1>1, ReadableKept
<1>3. j.pc \in {"commit", "edits"} => Readable((version \ j.dels) \cup j.adds)'
  <2> SUFFICES ASSUME j.pc \in {"commit", "edits"}
               PROVE  Readable((version \ j.dels) \cup j.adds)'
    OBVIOUS
  <2>1. PICK fs : fs = (version \ j.dels) \cup j.adds
    OBVIOUS
  <2>2. Readable(fs)'
    BY <1>2, <2>1 DEF WriterReads, JobReads
  <2> QED BY <2>1, <2>2
<1>4. j.pc = "load" => Readable(version)'
  <2> SUFFICES ASSUME j.pc = "load" PROVE Readable(version)'
    OBVIOUS
  <2>1. PICK fs : fs = version
    OBVIOUS
  <2>2. Readable(fs)'
    BY <1>2, <2>1 DEF WriterReads, JobReads
  <2> QED BY <2>1, <2>2
<1>5. j.pc = "install" => Readable(j.loaded)' /\ j.loaded = version'
  BY <1>2 DEF WriterReads, JobReads
<1>6. j.pc \in PickedPcs => TaskWhole(j.task)' /\ WatermarkLow(j)'
  <2> SUFFICES ASSUME j.pc \in PickedPcs PROVE TaskWhole(j.task)' /\ WatermarkLow(j)'
    OBVIOUS
  <2>1. TaskWhole(j.task) /\ WatermarkLow(j)
    BY DEF WriterReads, JobReads
  <2>2. TaskWhole(j.task)'
    BY <2>1 DEF TaskWhole
  <2>3. \A p \in snaps' : p.seq = lastSequence \/ \E q \in snaps : q.seq = p.seq
    BY DEF SnapsLive
  <2>4. j.pc = "run" /\ j.drop => CanDropTombstones(content', tables', j.task)
    BY <2>1 DEF WatermarkLow
  <2>5. WatermarkLow(j)'
    <3>1. j.pc = "lastseq" =>
            /\ \A o \in j.oldest : o <= lastSequence' /\ \A p \in snaps' : o <= p.seq
            /\ j.oldest = {} => \A p \in snaps' : p.seq = lastSequence'
      BY <2>1, <2>3 DEF WatermarkLow
    <3>2. j.pc \in {"tombstones", "run"} =>
            j.watermark <= lastSequence' /\ \A p \in snaps' : j.watermark <= p.seq
      BY <2>1, <2>3 DEF WatermarkLow
    <3> QED BY <2>4, <3>1, <3>2 DEF WatermarkLow
  <2> QED BY <2>2, <2>5
<1>7. FlushOrdered(j)'
  BY DEF WriterReads, JobReads, FlushOrdered
<1>8. StartsAfter(j)'
  BY DEF WriterReads, StartsAfter
<1>9. JobReads(j)'
  BY <1>3, <1>4, <1>5, <1>6, <1>7 DEF JobReads
<1> QED BY <1>8, <1>9 DEF WriterReads

-----------------------------------------------------------------------------
(* What other threads' gets rely on *)

\* Whatever a reader may have got hold of stays as it is.
KeepsOldTables ==
    \A n \in 1..MaxFileNumber :
        n < nextFile /\ (\A u \in Threads : job[u].pc \in FlushPcs => n < job[u].num)
        => content'[n] = content[n]
HistoryGrows ==
    /\ history \subseteq history' /\ \A e \in history' \ history : e.seq > lastSequence
    /\ lastSequence <= lastSequence'
NewNumbers ==
    /\ nextFile <= nextFile'
    /\ \A u \in Threads : job'[u].pc \in FlushPcs =>
         \/ job'[u].num >= nextFile
         \/ \E w \in Threads : job[w].pc \in FlushPcs /\ job[w].num = job'[u].num

LEMMA GetKept ==
    ASSUME TypeOK, TypeOK', NEW j \in Job, GetSees(j),
           KeepsOldTables, HistoryGrows, NewNumbers
    PROVE  GetSees(j)'
<1> SUFFICES ASSUME j.pc = "get"
             PROVE  /\ j.seq <= lastSequence'
                    /\ Visible(TableGet(content', j.files, j.key, j.seq))
                         = Visible(Newest(history', j.key, j.seq))
                    /\ \A f \in j.files :
                         /\ f.num < nextFile'
                         /\ \A u \in Threads : job'[u].pc \in FlushPcs => f.num < job'[u].num
  BY DEF GetSees
<1>1. /\ j.key \in Keys /\ j.seq \in Nat /\ j.files \subseteq File
      /\ lastSequence \in Nat /\ lastSequence' \in Nat /\ nextFile \in Nat /\ nextFile' \in Nat
  BY JobShapes DEF TypeOK
<1>2. /\ j.seq <= lastSequence
      /\ Visible(TableGet(content, j.files, j.key, j.seq)) = Visible(Newest(history, j.key, j.seq))
      /\ \A f \in j.files :
           f.num < nextFile /\ \A u \in Threads : job[u].pc \in FlushPcs => f.num < job[u].num
  BY DEF GetSees
<1>3. \A f \in j.files : f.num \in Nat /\ f.num \in 1..MaxFileNumber
  BY <1>1, FileFacts
<1>4. \A f \in j.files : content'[f.num] = content[f.num]
  BY <1>2, <1>3 DEF KeepsOldTables
<1>5. TableGet(content', j.files, j.key, j.seq) = TableGet(content, j.files, j.key, j.seq)
  <2>1. PICK c, d, fs, k, s : c = content /\ d = content' /\ fs = j.files /\ k = j.key /\ s = j.seq
    OBVIOUS
  <2>2. TableGet(d, fs, k, s) = TableGet(c, fs, k, s)
    BY <1>4, <2>1, TableGetReadsFiles
  <2> QED BY <2>1, <2>2
<1>6. Newest(history', j.key, j.seq) = Newest(history, j.key, j.seq)
  <2>1. \A e \in history' \ history : e.seq > lastSequence /\ e.seq \in Nat
    BY DEF HistoryGrows, TypeOK, Entry
  <2>2. \A e \in history' \ history : ~(e.seq <= j.seq)
    BY <1>1, <1>2, <2>1
  <2> QED BY <2>2, NewestIgnoresNewer DEF HistoryGrows
<1>7. ASSUME NEW f \in j.files, NEW u \in Threads, job'[u].pc \in FlushPcs
      PROVE  f.num < job'[u].num
  <2>1. job'[u].num \in Nat
    <3>1. PICK x \in Job : x = job'[u]
      BY DEF TypeOK
    <3>2. x \in [pc : {"sst", "add", "last", "log"}, num : 1..MaxFileNumber,
                 source : {"mutable", "immutable"}]
      BY <1>7, <3>1, JobShapes DEF FlushPcs
    <3> QED BY <3>1, <3>2
  <2>2. CASE job'[u].num >= nextFile
    BY <1>1, <1>2, <1>3, <2>1, <2>2
  <2>3. CASE \E w \in Threads : job[w].pc \in FlushPcs /\ job[w].num = job'[u].num
    BY <1>2, <2>3
  <2> QED BY <1>7, <2>2, <2>3 DEF NewNumbers
<1>8. \A f \in j.files : f.num < nextFile'
  BY <1>1, <1>2, <1>3 DEF NewNumbers
<1>9. j.seq <= lastSequence'
  BY <1>1, <1>2 DEF HistoryGrows
<1> QED BY <1>2, <1>5, <1>6, <1>7, <1>8, <1>9

\* What a step of the writing thread must see to.
LEMMA WriterStep ==
    ASSUME TypeOK, TypeOK', SingleWriter, ReadsInv,
           NEW t \in Threads, Maintains(t), NEW j \in Job, Set(t, j),
           StoreReads', WriterReads(j)', GetSees(j)', KeepsOldTables, HistoryGrows, NewNumbers
    PROVE  ReadsInv'
<1>1. \A u \in Threads : job'[u] = IF u = t THEN j ELSE job[u]
  BY DEF TypeOK, Set
<1>2. ASSUME NEW u \in Threads
      PROVE  /\ job'[u].pc \notin ReaderPcs => Maintains(u)
             /\ Maintains(u) => WriterReads(job[u])'
             /\ GetSees(job[u])'
  <2>1. CASE u = t
    <3>1. job'[u] = j
      BY <1>1, <2>1
    <3> QED BY <2>1, <3>1
  <2>2. CASE u # t
    <3>1. job'[u] = job[u] /\ ~Maintains(u)
      BY <1>1, <2>2 DEF SingleWriter
    <3>2. PICK w \in Job : w = job[u]
      BY DEF TypeOK
    <3>3. GetSees(w)
      BY <3>2 DEF ReadsInv
    <3>4. GetSees(w)'
      BY <3>3, GetKept
    <3>5. GetSees(job[u])'
      BY <3>1, <3>2, <3>4
    <3> QED BY <3>1, <3>5 DEF ReadsInv
  <2> QED BY <2>1, <2>2
<1> QED BY <1>2 DEF ReadsInv, Maintains

\* At these points a thread has nothing in hand.
LEMMA NothingInHand ==
    ASSUME NEW j, j.pc \in ReaderPcs \cup {"flush", "pressure", "lock", "unlink"}
    PROVE  /\ version = tables /\ held = <<>> => WriterReads(j)
           /\ version' = tables' /\ held' = <<>> => WriterReads(j)'
<1>1. /\ j.pc \notin PickedPcs /\ j.pc \notin {"commit", "edits"} /\ j.pc # "load" /\ j.pc # "install"
      /\ j.pc \notin FlushPcs /\ j.pc \notin {"add", "last", "log"}
      /\ j.pc \notin {"wal", "apply"} /\ j.pc # "wal" /\ j.pc # "apply"
  BY DEF ReaderPcs, PickedPcs, FlushPcs
<1>2. StartsAfter(j) /\ StartsAfter(j)'
  BY <1>1 DEF StartsAfter
<1>3. FlushOrdered(j) /\ FlushOrdered(j)'
  BY <1>1 DEF FlushOrdered
<1>4. JobReads(j) /\ JobReads(j)'
  BY <1>1, <1>3 DEF JobReads
<1> QED BY <1>1, <1>2, <1>4 DEF WriterReads

\* A step that leaves alone what reads depend on.
LEMMA QuietStep ==
    ASSUME TypeOK, TypeOK', ReadsInv,
           NEW t \in Threads, NEW j \in Job, Set(t, j),
           j.pc \notin ReaderPcs => Maintains(t), Maintains(t) => WriterReads(j), GetSees(j),
           UNCHANGED <<mutable, immutables, held, tables, lastSequence, history, version,
                       content, snaps>>,
           nextFile <= nextFile',
           j.pc \in FlushPcs => job[t].pc \in FlushPcs /\ j.num = job[t].num
    PROVE  ReadsInv'
<1>1. \A u \in Threads : job'[u] = IF u = t THEN j ELSE job[u]
  BY DEF TypeOK, Set
<1>2. /\ KeepsOldTables /\ HistoryGrows /\ SnapsLive /\ lastSequence \in Nat /\ nextFile' \in Nat
  BY DEF KeepsOldTables, HistoryGrows, SnapsLive, TypeOK
<1>3. NewNumbers
  <2>1. ASSUME NEW u \in Threads, job'[u].pc \in FlushPcs
        PROVE  \E w \in Threads : job[w].pc \in FlushPcs /\ job[w].num = job'[u].num
    BY <1>1, <2>1
  <2> QED BY <2>1 DEF NewNumbers
<1>4. StoreReads'
  BY <1>2, StoreKept DEF ReadsInv
<1>5. ASSUME NEW u \in Threads
      PROVE  /\ job'[u].pc \notin ReaderPcs => Maintains(u)
             /\ Maintains(u) => WriterReads(job[u])'
             /\ GetSees(job[u])'
  <2>1. PICK w \in Job : w = job'[u]
    BY DEF TypeOK
  <2>2. (Maintains(u) => WriterReads(w)) /\ GetSees(w) /\ (w.pc \notin ReaderPcs => Maintains(u))
    <3>1. CASE u = t
      <4>1. w = j
        BY <1>1, <2>1, <3>1
      <4> QED BY <3>1, <4>1
    <3>2. CASE u # t
      <4>1. w = job[u]
        BY <1>1, <2>1, <3>2
      <4> QED BY <4>1 DEF ReadsInv
    <3> QED BY <3>1, <3>2
  <2>3. (Maintains(u) => WriterReads(w)') /\ GetSees(w)'
    BY <1>2, <1>3, <2>2, WriterKept, GetKept
  <2> QED BY <2>1, <2>2, <2>3
<1> QED BY <1>4, <1>5 DEF ReadsInv, Maintains

\* A step of a client that holds snapshots, or one that closes the database.
LEMMA OutsideStep ==
    ASSUME TypeOK, TypeOK', ReadsInv, SnapsLive,
           UNCHANGED <<mutable, immutables, held, tables, lastSequence, history, version,
                       content, nextFile, job>>
    PROVE  ReadsInv'
<1>1. /\ KeepsOldTables /\ HistoryGrows /\ NewNumbers /\ nextFile' \in Nat /\ nextFile <= nextFile'
  BY DEF KeepsOldTables, HistoryGrows, NewNumbers, TypeOK
<1>2. StoreReads'
  BY <1>1, StoreKept DEF ReadsInv
<1>3. ASSUME NEW u \in Threads
      PROVE  /\ job'[u].pc \notin ReaderPcs => Maintains(u)
             /\ Maintains(u) => WriterReads(job[u])'
             /\ GetSees(job[u])'
  <2>1. PICK w \in Job : w = job[u] /\ w = job'[u]
    BY DEF TypeOK
  <2>2. (Maintains(u) => WriterReads(w)) /\ GetSees(w) /\ (w.pc \notin ReaderPcs => Maintains(u))
    BY <2>1 DEF ReadsInv
  <2>3. (Maintains(u) => WriterReads(w)') /\ GetSees(w)'
    BY <1>1, <2>2, WriterKept, GetKept
  <2> QED BY <2>1, <2>2, <2>3
<1> QED BY <1>2, <1>3 DEF ReadsInv, Maintains

-----------------------------------------------------------------------------
(* Reads and clients *)

LEMMA SetIsJob ==
    ASSUME TypeOK, TypeOK', NEW t \in Threads, NEW j, Set(t, j) PROVE j \in Job
<1>1. job'[t] = j
  BY DEF Set, TypeOK
<1> QED BY <1>1 DEF TypeOK

\* A thread that reads has the current version before its eyes, if it is the
\* one that writes.
LEMMA ReaderStep ==
    ASSUME TypeOK, TypeOK', ReadsInv, NEW t \in Threads, job[t].pc \in ReaderPcs,
           NEW j, Set(t, j), j.pc \in ReaderPcs, GetSees(j),
           UNCHANGED <<memory, versions, files, ghosts, snaps>>
    PROVE  ReadsInv'
<1>1. j \in Job
  BY SetIsJob
<1>2. Maintains(t) => version = tables /\ held = <<>>
  BY DEF ReadsInv, WriterReads, ReaderPcs, UnsettledPcs, FlushPcs
<1>3. Maintains(t) => WriterReads(j)
  BY <1>2, NothingInHand
<1>4. nextFile <= nextFile' /\ j.pc \notin FlushPcs
  BY DEF versions, TypeOK, ReaderPcs, FlushPcs
<1> QED BY <1>1, <1>3, <1>4, QuietStep DEF memory, versions, files, ghosts

LEMMA ReadsGetMemtables ==
    ASSUME TypeOK, TypeOK', ReadsInv, NEW t \in Threads, NEW k \in Keys,
           NEW pin \in {{}} \cup {{p} : p \in snaps}, GetMemtables(t, k, pin)
    PROVE  ReadsInv'
<1>1. PICK s : s = IF pin = {} THEN lastSequence ELSE (CHOOSE p \in pin : TRUE).seq
  OBVIOUS
<1>2. s = lastSequence \/ \E p \in snaps : s = p.seq
  <2>1. CASE pin = {}
    BY <1>1, <2>1
  <2>2. CASE pin # {}
    <3>1. PICK p \in snaps : pin = {p}
      BY <2>2
    <3> QED BY <1>1, <3>1
  <2> QED BY <2>1, <2>2
<1>3. s \in Nat /\ s <= lastSequence
  <2>1. lastSequence \in Nat /\ \A p \in snaps : p.seq \in Nat
    BY DEF TypeOK
  <2>2. \A p \in snaps : p.seq <= lastSequence
    BY DEF ReadsInv, StoreReads
  <2> QED BY <1>2, <2>1, <2>2
<1>4. Visible(Lookup(k, s)) = Visible(Newest(history, k, s))
  <2>1. Lookup(k, s) = Newest(Reachable(tables), k, s)
    BY <1>3, LookupIsNewest DEF ReadsInv
  <2>2. Faithful(tables, s)
    BY <1>2 DEF ReadsInv, StoreReads, Readable
  <2> QED BY <2>1, <2>2 DEF Faithful
<1>5. PICK found : found = MemGet(Memtables, k, s)
  OBVIOUS
<1>6. /\ job[t] = Idle /\ StateFree /\ UNCHANGED <<memory, versions, files, ghosts, snaps>>
      /\ Set(t, IF found # {} THEN Got(found, TRUE, k, s)
                ELSE [pc |-> "get", key |-> k, seq |-> s, pinned |-> pin # {}, files |-> tables])
  BY <1>1, <1>5 DEF GetMemtables
<1>7. job[t].pc \in ReaderPcs
  BY <1>6 DEF Idle, ReaderPcs
<1>8. CASE found # {}
  <2>1. Lookup(k, s) = found
    BY <1>5, <1>8 DEF Lookup
  <2>2. PICK j : j = Got(found, TRUE, k, s)
    OBVIOUS
  <2>3. j.pc = "got" /\ j.result = j.want
    BY <1>4, <2>1, <2>2 DEF Got
  <2>4. j.pc \in ReaderPcs /\ GetSees(j) /\ Set(t, j)
    BY <1>6, <1>8, <2>2, <2>3 DEF GetSees, ReaderPcs
  <2> QED BY <1>6, <1>7, <2>4, ReaderStep
<1>9. CASE found = {}
  <2>1. Lookup(k, s) = TableGet(content, tables, k, s)
    BY <1>5, <1>9 DEF Lookup
  <2>2. PICK j : j = [pc |-> "get", key |-> k, seq |-> s, pinned |-> pin # {}, files |-> tables]
    OBVIOUS
  <2>3. j.pc = "get" /\ j.key = k /\ j.seq = s /\ j.files = tables
    BY <2>2
  <2>4. \A u \in Threads : job[u].pc \notin FlushPcs
    BY <1>6 DEF StateFree, HoldsState, FlushPcs
  <2>5. \A f \in tables : f.num < nextFile
    BY DEF ReadsInv, StoreReads
  <2>6. GetSees(j)
    BY <1>3, <1>4, <2>1, <2>3, <2>4, <2>5 DEF GetSees
  <2>7. j.pc \in ReaderPcs /\ Set(t, j)
    BY <1>6, <1>9, <2>2, <2>3 DEF ReaderPcs
  <2> QED BY <1>6, <1>7, <2>6, <2>7, ReaderStep
<1> QED BY <1>8, <1>9

LEMMA ReadsReads ==
    ASSUME TypeOK, TypeOK', ReadsInv, NEW t \in Threads,
           \/ \E k \in Keys : \E pin \in {{}} \cup {{s} : s \in snaps} : GetMemtables(t, k, pin)
           \/ GetTables(t) \/ ReturnGet(t) \/ Close(t)
    PROVE  ReadsInv'
<1>1. CASE GetTables(t)
  <2>1. /\ job[t].pc = "get" /\ UNCHANGED <<memory, versions, files, ghosts, snaps>>
        /\ \E ok : Set(t, Got(TableGet(content, job[t].files, job[t].key, job[t].seq), ok,
                              job[t].key, job[t].seq))
    BY <1>1 DEF GetTables
  <2>2. PICK ok : Set(t, Got(TableGet(content, job[t].files, job[t].key, job[t].seq), ok,
                             job[t].key, job[t].seq))
    BY <2>1
  <2>3. PICK j : j = Got(TableGet(content, job[t].files, job[t].key, job[t].seq), ok,
                         job[t].key, job[t].seq)
    OBVIOUS
  <2>4. GetSees(job[t])
    BY DEF ReadsInv
  <2>5. j.pc = "got" /\ j.result = j.want
    BY <2>1, <2>3, <2>4 DEF Got, GetSees
  <2>6. j.pc \in ReaderPcs /\ job[t].pc \in ReaderPcs /\ GetSees(j) /\ Set(t, j)
    BY <2>1, <2>2, <2>3, <2>5 DEF ReaderPcs, GetSees
  <2> QED BY <2>1, <2>6, ReaderStep
<1>2. CASE ReturnGet(t)
  <2>1. Idle.pc \in ReaderPcs /\ job[t].pc \in ReaderPcs /\ GetSees(Idle)
    BY <1>2 DEF Idle, ReaderPcs, GetSees, ReturnGet
  <2>2. PICK j : j = Idle
    OBVIOUS
  <2> QED BY <1>2, <2>1, <2>2, ReaderStep DEF ReturnGet
<1>3. CASE Close(t)
  BY <1>3, OutsideStep DEF Close, versions, files, ghosts, SnapsLive
<1> QED BY <1>1, <1>2, <1>3, ReadsGetMemtables

LEMMA ReadsSnapshots ==
    ASSUME TypeOK, TypeOK', ReadsInv, NEW h \in Holders, TakeSnapshot(h) \/ DropSnapshot(h)
    PROVE  ReadsInv'
<1>1. UNCHANGED <<memory, versions, files, ghosts, job>>
  BY DEF TakeSnapshot, DropSnapshot
<1>2. SnapsLive
  BY DEF TakeSnapshot, DropSnapshot, SnapsLive
<1> QED BY <1>1, <1>2, OutsideStep DEF memory, versions, files, ghosts

-----------------------------------------------------------------------------
(* The writer's steps that only change its locals *)

LEMMA WriterNow ==
    ASSUME ReadsInv, NEW t \in Threads, job[t].pc \notin ReaderPcs \/ Maintains(t)
    PROVE  Maintains(t) /\ WriterReads(job[t]) /\ StoreReads
BY DEF ReadsInv

\* The writer ends a call, or goes on to the next one.
LEMMA WriterRests ==
    ASSUME TypeOK, TypeOK', ReadsInv, NEW t \in Threads, Maintains(t), version = tables, held = <<>>,
           NEW j, Set(t, j), j.pc \in {"idle", "flush", "pressure", "lock", "unlink"},
           UNCHANGED <<mutable, immutables, held, tables, lastSequence, history, version,
                       content, snaps>>,
           nextFile <= nextFile'
    PROVE  ReadsInv'
<1>1. j \in Job
  BY SetIsJob
<1>2. WriterReads(j)
  BY NothingInHand DEF ReaderPcs
<1>3. GetSees(j) /\ j.pc \notin FlushPcs
  BY DEF GetSees, FlushPcs
<1> QED BY <1>1, <1>2, <1>3, QuietStep

LEMMA StartsAppended ==
    ASSUME NEW starts \in Seq(Nat), NEW next \in Nat, NEW group, NEW last \in Nat,
           starts = <<>> => next = last + 1,
           starts # <<>> => /\ starts[1] = last + 1
                            /\ next = starts[Len(starts)] + Len(group[Len(starts)].recs),
           \A m \in 1..(Len(starts) - 1) : starts[m + 1] = starts[m] + Len(group[m].recs)
    PROVE  LET longer == Append(starts, next)
           IN  /\ longer # <<>> /\ longer[1] = last + 1 /\ longer[Len(longer)] = next
               /\ Len(longer) = Len(starts) + 1
               /\ \A m \in 1..(Len(longer) - 1) : longer[m + 1] = longer[m] + Len(group[m].recs)
<1> DEFINE longer == Append(starts, next)
           n == Len(starts)
<1>b. longer \in Seq(Nat) /\ n \in Nat /\ Len(longer) = n + 1
  OBVIOUS
<1>c. longer[n + 1] = next /\ \A m \in 1..n : longer[m] = starts[m]
  OBVIOUS
<1>1. /\ n \in Nat /\ Len(longer) = n + 1 /\ longer \in Seq(Nat) /\ longer # <<>>
      /\ longer[n + 1] = next /\ \A m \in 1..n : longer[m] = starts[m]
  <2> HIDE DEF longer, n
  <2>1. Len(longer) # 0
    BY <1>b
  <2> QED BY <1>b, <1>c, <2>1
<1>2. starts # <<>> => n >= 1
  OBVIOUS
<1>a. starts = <<>> => n = 0
  OBVIOUS
<1> HIDE DEF longer, n
<1>3. longer[1] = last + 1
  <2>1. CASE starts = <<>>
    BY <1>1, <1>a, <2>1
  <2>2. CASE starts # <<>>
    BY <1>1, <1>2, <2>2
  <2> QED BY <2>1, <2>2
<1>4. ASSUME NEW m \in 1..(Len(longer) - 1)
      PROVE  longer[m + 1] = longer[m] + Len(group[m].recs)
  <2>1. m \in Nat /\ m \in 1..n /\ starts # <<>>
    BY <1>1, <1>a
  <2>2. CASE m = n
    <3>1. longer[m + 1] = next /\ longer[m] = starts[m]
      BY <1>1, <2>1, <2>2
    <3>2. next = starts[n] + Len(group[n].recs)
      BY <2>1 DEF n
    <3> QED BY <2>2, <3>1, <3>2
  <2>3. CASE m # n
    <3>1. m + 1 \in 1..n /\ m \in 1..(n - 1)
      BY <1>1, <2>1, <2>3
    <3>2. longer[m + 1] = starts[m + 1] /\ longer[m] = starts[m]
      BY <1>1, <2>1, <3>1
    <3>3. starts[m + 1] = starts[m] + Len(group[m].recs)
      BY <3>1 DEF n
    <3> QED BY <3>2, <3>3
  <2> QED BY <2>2, <2>3
<1> QED BY <1>1, <1>3, <1>4 DEF longer, n

\* The writer has its batches numbered, and nothing else in hand.
LEMMA WriterNumbers ==
    ASSUME NEW j, j.pc \in {"wal", "apply"}, StartsAfter(j), version = tables, held = <<>>
    PROVE  WriterReads(j)
<1>1. /\ j.pc \notin PickedPcs /\ j.pc \notin {"commit", "edits"} /\ j.pc # "load" /\ j.pc # "install"
      /\ j.pc \notin FlushPcs /\ j.pc \notin {"add", "last", "log"}
  BY DEF PickedPcs, FlushPcs
<1>2. FlushOrdered(j)
  BY <1>1 DEF FlushOrdered
<1> QED BY <1>1, <1>2 DEF WriterReads, JobReads

LEMMA ReadsLog ==
    ASSUME TypeOK, TypeOK', LocksAndLocals, ReadsInv, NEW t \in Threads,
           LockState(t) \/ AppendWal(t)
    PROVE  ReadsInv'
<1>1. /\ job[t].pc \in {"lock", "wal"} /\ UNCHANGED <<memory, versions, files, ghosts, snaps>>
  BY DEF LockState, AppendWal
<1>2. /\ Maintains(t) /\ WriterReads(job[t])
  BY <1>1, WriterNow DEF ReaderPcs
<1>3. version = tables /\ held = <<>> /\ nextFile <= nextFile' /\ lastSequence \in Nat
  BY <1>1, <1>2 DEF WriterReads, UnsettledPcs, FlushPcs, versions, TypeOK
<1>4. CASE LockState(t) /\ status # "open"
  <2>1. Set(t, Idle) /\ Idle.pc = "idle"
    BY <1>4 DEF LockState, Idle
  <2>2. PICK j : j = Idle
    OBVIOUS
  <2> QED BY <1>1, <1>2, <1>3, <2>1, <2>2, WriterRests DEF memory, versions, files, ghosts
<1>5. ASSUME NEW j, Set(t, j), j.pc \in {"wal", "apply"}, StartsAfter(j) PROVE ReadsInv'
  <2>1. j \in Job
    BY <1>5, SetIsJob
  <2>2. WriterReads(j)
    BY <1>3, <1>5, WriterNumbers
  <2>3. GetSees(j) /\ j.pc \notin FlushPcs
    BY <1>5 DEF GetSees, FlushPcs
  <2> QED BY <1>1, <1>2, <1>3, <1>5, <2>1, <2>2, <2>3, QuietStep DEF memory, versions, files, ghosts
<1>6. CASE LockState(t) /\ status = "open"
  <2>1. PICK j : j = [pc |-> "wal", group |-> job[t].group, starts |-> <<>>, next |-> lastSequence + 1]
    OBVIOUS
  <2>2. Set(t, j)
    BY <1>6, <2>1 DEF LockState
  <2>3. j.pc = "wal" /\ j.starts = <<>> /\ j.next = lastSequence + 1 /\ 1..(Len(j.starts) - 1) = {}
    BY <2>1
  <2>4. StartsAfter(j)
    BY <2>3 DEF StartsAfter
  <2> QED BY <1>5, <2>2, <2>3, <2>4
<1>7. CASE AppendWal(t)
  <2>1. PICK o \in Job : o = job[t]
    BY DEF TypeOK
  <2>2. /\ o.pc = "wal" /\ o.starts \in Seq(Nat) /\ o.next \in Nat /\ StartsAfter(o)
    BY <1>2, <1>7, <2>1, JobShapes DEF AppendWal, TypeOK, WriterReads
  <2>3. PICK longer : longer = Append(o.starts, o.next)
    OBVIOUS
  <2>4. /\ longer # <<>> /\ longer[1] = lastSequence + 1 /\ longer[Len(longer)] = o.next
        /\ Len(longer) = Len(o.starts) + 1
        /\ \A m \in 1..(Len(longer) - 1) : longer[m + 1] = longer[m] + Len(o.group[m].recs)
    <3>1. PICK starts, next, group, last :
             starts = o.starts /\ next = o.next /\ group = o.group /\ last = lastSequence
      OBVIOUS
    <3>2. /\ starts = <<>> => next = last + 1
          /\ starts # <<>> => /\ starts[1] = last + 1
                              /\ next = starts[Len(starts)] + Len(group[Len(starts)].recs)
          /\ \A m \in 1..(Len(starts) - 1) : starts[m + 1] = starts[m] + Len(group[m].recs)
      BY <2>2, <3>1 DEF StartsAfter
    <3>3. starts \in Seq(Nat) /\ next \in Nat /\ last \in Nat
      BY <1>3, <2>2, <3>1
    <3>4. LET l == Append(starts, next)
          IN  /\ l # <<>> /\ l[1] = last + 1 /\ l[Len(l)] = next
              /\ Len(l) = Len(starts) + 1
              /\ \A m \in 1..(Len(l) - 1) : l[m + 1] = l[m] + Len(group[m].recs)
      BY <3>2, <3>3, StartsAppended
    <3> QED BY <2>3, <3>1, <3>4
  <2>5. CASE Len(longer) = Len(o.group)
    <3>1. PICK j : j = [pc |-> "apply", group |-> o.group, starts |-> longer,
                        item |-> 1, shouldFlush |-> FALSE]
      OBVIOUS
    <3>2. Set(t, j)
      BY <1>7, <2>1, <2>3, <2>5, <3>1 DEF AppendWal
    <3>3. j.pc = "apply" /\ j.starts = longer /\ j.group = o.group /\ j.item = 1
      BY <3>1
    <3>4. StartsAfter(j)
      BY <2>4, <3>3 DEF StartsAfter
    <3> QED BY <1>5, <3>2, <3>3, <3>4
  <2>6. CASE Len(longer) # Len(o.group)
    <3>1. PICK j : j = [pc |-> "wal", group |-> o.group, starts |-> longer,
                        next |-> o.next + Len(o.group[Len(o.starts) + 1].recs)]
      OBVIOUS
    <3>2. Set(t, j)
      BY <1>7, <2>1, <2>3, <2>6, <3>1 DEF AppendWal
    <3>3. /\ j.pc = "wal" /\ j.starts = longer /\ j.group = o.group
          /\ j.next = o.next + Len(o.group[Len(o.starts) + 1].recs)
      BY <3>1
    <3>4. StartsAfter(j)
      BY <2>4, <3>3 DEF StartsAfter
    <3> QED BY <1>5, <3>2, <3>3, <3>4
  <2> QED BY <2>5, <2>6
<1> QED BY <1>4, <1>6, <1>7

LEMMA ReadsRest ==
    ASSUME TypeOK, TypeOK', ReadsInv, NEW t \in Threads,
           \/ \E g \in Groups : BeginWrite(t, g)
           \/ WalFails(t) \/ FlushNothing(t) \/ FlushRefused(t)
           \/ CompactionFails(t) \/ DeleteObsoleteFiles(t)
    PROVE  ReadsInv'
<1>0. Idle.pc = "idle" /\ \A g : Finish(g).pc \in {"idle", "lock"}
  BY DEF Idle, Finish
<1> DEFINE same == UNCHANGED <<mutable, immutables, held, tables, lastSequence, history, version,
                               content, snaps>>
<1>1. /\ \E j : Set(t, j) /\ j.pc \in {"idle", "pressure", "lock"}
      /\ job[t].pc \in {"idle", "wal", "flush", "run", "unlink"}
      /\ job[t].pc = "idle" => Ops[t] \cap {"write", "flush"} # {}
      /\ same /\ nextFile <= nextFile'
  <2>1. nextFile \in Nat
    BY DEF TypeOK
  <2>2. CASE \E g \in Groups : BeginWrite(t, g)
    BY <1>0, <2>1, <2>2 DEF BeginWrite, memory, versions, files, ghosts
  <2>3. CASE WalFails(t)
    BY <1>0, <2>1, <2>3 DEF WalFails, memory, versions, files, ghosts
  <2>4. CASE FlushNothing(t)
    BY <1>0, <2>1, <2>4 DEF FlushNothing, MayFlush, memory, versions, files, ghosts
  <2>5. CASE FlushRefused(t)
    BY <1>0, <2>1, <2>5 DEF FlushRefused, MayFlush, memory, versions, files, ghosts
  <2>6. CASE CompactionFails(t)
    BY <1>0, <2>1, <2>6 DEF CompactionFails, memory, versions, files, ghosts
  <2>7. CASE DeleteObsoleteFiles(t)
    BY <1>0, <2>1, <2>7 DEF DeleteObsoleteFiles, memory, versions, files, ghosts
  <2> QED BY <2>2, <2>3, <2>4, <2>5, <2>6, <2>7
<1>2. PICK j : Set(t, j) /\ j.pc \in {"idle", "pressure", "lock"}
  BY <1>1
<1>3. Maintains(t) /\ WriterReads(job[t])
  BY <1>1, WriterNow DEF ReaderPcs, Maintains
<1>4. version = tables /\ held = <<>>
  BY <1>1, <1>3 DEF WriterReads, UnsettledPcs, FlushPcs
<1> QED BY <1>1, <1>2, <1>3, <1>4, WriterRests

-----------------------------------------------------------------------------
(* A compaction up to its run *)

\* What a compaction has in hand before it runs.
LEMMA WriterPicked ==
    ASSUME NEW j, j.pc \in PickedPcs, TaskWhole(j.task), WatermarkLow(j), version = tables, held = <<>>
    PROVE  WriterReads(j) /\ GetSees(j) /\ j.pc \notin FlushPcs
<1>1. /\ j.pc \notin {"commit", "edits"} /\ j.pc # "load" /\ j.pc # "install"
      /\ j.pc \notin FlushPcs /\ j.pc \notin {"add", "last", "log"} /\ j.pc \notin {"get", "got"}
      /\ j.pc \notin {"wal", "apply"} /\ j.pc # "wal" /\ j.pc # "apply"
      /\ j.pc \notin {"last", "log"}
  BY DEF PickedPcs, FlushPcs
<1>2. FlushOrdered(j) /\ StartsAfter(j) /\ GetSees(j)
  BY <1>1 DEF FlushOrdered, StartsAfter, GetSees
<1> QED BY <1>1, <1>2 DEF WriterReads, JobReads

\* pick_manual over the whole key space.
LEMMA PickedTaskWhole ==
    ASSUME TypeOK, version = tables, NEW inputs, inputs # {},
           inputs = ManualInputs(content, version, FullRange),
           NEW task, task = TaskForFiles(content, version, inputs)
    PROVE  TaskWhole(task)
<1>1. /\ task.inputFiles = inputs /\ inputs \subseteq version
      /\ task.inputLevel \in Nat /\ task.outputLevel = task.inputLevel + 1
      /\ \A f \in inputs : f.level = task.inputLevel
      /\ task.overlapFiles =
           {f \in FilesAt(version, task.outputLevel) :
               \/ task.inputLevel = 0
               \/ OverlapsEntries(content[f.num], EntriesOf(content, inputs))}
  BY PickedShape
<1>2. AllInputFiles(task) \subseteq tables /\ \A f \in task.overlapFiles : f.level = task.outputLevel
  BY <1>1 DEF AllInputFiles, FilesAt
<1>3. ASSUME task.inputLevel = 0, NEW g \in tables, g.level <= 1
      PROVE  g \in AllInputFiles(task)
  <2>1. g.level \in Nat
    BY FileFacts DEF TypeOK
  <2>2. CASE g.level = 0
    <3>1. \A e : OverlapsRange(e, FullRange)
      BY DEF OverlapsRange, FullRange, Unbounded
    <3>2. L0ManualInputs(content, version, FullRange) = FilesAt(version, 0)
      BY <3>1 DEF L0ManualInputs, InRange
    <3>3. g \in FilesAt(version, 0)
      BY <2>2 DEF FilesAt
    <3>4. inputs = FilesAt(version, 0)
      BY <3>2, <3>3 DEF ManualInputs
    <3> QED BY <1>1, <3>3, <3>4 DEF AllInputFiles
  <2>3. CASE g.level = 1
    BY <1>1, <1>3, <2>3 DEF AllInputFiles, FilesAt
  <2> QED BY <1>3, <2>1, <2>2, <2>3
<1>4. ASSUME task.inputLevel > 0, NEW g \in FilesAt(tables, task.outputLevel)
      PROVE  g \in task.overlapFiles <=>
                OverlapsEntries(content[g.num], EntriesOf(content, task.inputFiles))
  <2>1. task.inputLevel # 0
    BY <1>1, <1>4
  <2> QED BY <1>1, <1>4, <2>1
<1> QED BY <1>1, <1>2, <1>3, <1>4 DEF TaskWhole

LEMMA ReadsPick ==
    ASSUME TypeOK, TypeOK', ReadsInv, Ranges \subseteq {FullRange}, NEW t \in Threads,
           (\E r \in Ranges : CompactRange(t, r)) \/ CompactUnderPressure(t)
    PROVE  ReadsInv'
<1>1. PICK g : /\ Pick(t, FullRange, g) /\ job[t].pc \in {"idle", "pressure"}
               /\ job[t].pc = "idle" => "compact" \in Ops[t]
  <2>1. CASE \E r \in Ranges : CompactRange(t, r)
    <3>1. CompactRange(t, FullRange)
      BY <2>1
    <3>2. PICK g : g = <<>>
      OBVIOUS
    <3> QED BY <3>1, <3>2 DEF CompactRange, Idle
  <2>2. CASE CompactUnderPressure(t)
    <3>1. PICK g : g = job[t].group
      OBVIOUS
    <3> QED BY <2>2, <3>1 DEF CompactUnderPressure
  <2> QED BY <2>1, <2>2
<1>2. Maintains(t) /\ WriterReads(job[t])
  BY <1>1, WriterNow DEF ReaderPcs, Maintains
<1>3. version = tables /\ held = <<>>
  BY <1>1, <1>2 DEF WriterReads, UnsettledPcs, FlushPcs
<1>4. /\ UNCHANGED <<mutable, immutables, held, tables, lastSequence, history, version,
                     content, snaps>>
      /\ nextFile <= nextFile'
  BY <1>1 DEF Pick, memory, versions, files, ghosts, TypeOK
<1>5. PICK inputs : inputs = ManualInputs(content, version, FullRange)
  OBVIOUS
<1>6. CASE inputs = {}
  <2>1. PICK j : j = Finish(g)
    OBVIOUS
  <2>2. Set(t, j) /\ j.pc \in {"idle", "lock"}
    BY <1>1, <1>5, <1>6, <2>1 DEF Pick, Finish, Idle
  <2> QED BY <1>2, <1>3, <1>4, <2>2, WriterRests
<1>7. CASE inputs # {}
  <2>1. PICK task : task = TaskForFiles(content, version, inputs)
    OBVIOUS
  <2>2. PICK j : Set(t, j) /\ j.pc = "oldest" /\ j.task = task
    BY <1>1, <1>5, <1>7, <2>1 DEF Pick
  <2>3. TaskWhole(j.task)
    BY <1>3, <1>5, <1>7, <2>1, <2>2, PickedTaskWhole
  <2>4. WatermarkLow(j)
    BY <2>2 DEF WatermarkLow
  <2>5. WriterReads(j) /\ GetSees(j) /\ j.pc \notin FlushPcs
    BY <1>3, <2>2, <2>3, <2>4, WriterPicked DEF PickedPcs
  <2>6. j \in Job
    BY <2>2, SetIsJob
  <2> QED BY <1>2, <1>4, <2>2, <2>5, <2>6, QuietStep
<1> QED BY <1>6, <1>7

\* gc_watermark's first half sees every snapshot.
LEMMA OldestLow ==
    ASSUME TypeOK, ReadsInv,
           NEW oldest, oldest = {s \in ActiveSequences : \A u \in ActiveSequences : s <= u}
    PROVE  /\ \A o \in oldest : o <= lastSequence /\ \A p \in snaps : o <= p.seq
           /\ oldest = {} => \A p \in snaps : p.seq = lastSequence
<1>1. \A p \in snaps : p.seq \in ActiveSequences
  BY DEF ActiveSequences
<1>2. ASSUME NEW s \in ActiveSequences PROVE s \in Nat /\ s <= lastSequence
  <2>1. CASE \E p \in snaps : s = p.seq
    BY <2>1 DEF ReadsInv, StoreReads, TypeOK
  <2>2. CASE \E u \in Threads : job[u].pc = "get" /\ s = job[u].seq
    <3>1. PICK u \in Threads : job[u].pc = "get" /\ s = job[u].seq
      BY <2>2
    <3>2. PICK w \in Job : w = job[u]
      BY DEF TypeOK
    <3>3. w.seq \in Nat /\ s = w.seq
      BY <3>1, <3>2, JobShapes
    <3>4. GetSees(job[u])
      BY DEF ReadsInv
    <3> QED BY <3>1, <3>3, <3>4 DEF GetSees
  <2> QED BY <2>1, <2>2 DEF ActiveSequences
<1>3. ASSUME oldest = {}, NEW p \in snaps PROVE FALSE
  <2>1. PICK T : T = ActiveSequences
    OBVIOUS
  <2>2. T \subseteq Nat /\ T # {}
    BY <1>1, <1>2, <2>1
  <2>3. \E x \in T : \A y \in T : x <= y
    BY <2>2, LeastElement
  <2> QED BY <1>3, <2>1, <2>3
<1> QED BY <1>1, <1>2, <1>3

LEMMA ReadsWatermark ==
    ASSUME TypeOK, TypeOK', ReadsInv, NEW t \in Threads,
           ReadOldest(t) \/ ReadLastSequence(t) \/ CheckTombstones(t)
    PROVE  ReadsInv'
<1>0. PICK o \in Job : o = job[t]
  BY DEF TypeOK
<1>1. /\ o.pc \in {"oldest", "lastseq", "tombstones"}
      /\ UNCHANGED <<memory, versions, files, ghosts, snaps>>
  BY <1>0 DEF ReadOldest, ReadLastSequence, CheckTombstones
<1>2. /\ Maintains(t) /\ WriterReads(o) /\ WriterReads(job[t])
  BY <1>0, <1>1, WriterNow DEF ReaderPcs
<1>3. version = tables /\ held = <<>> /\ TaskWhole(o.task) /\ WatermarkLow(o)
  BY <1>1, <1>2 DEF WriterReads, UnsettledPcs, JobReads, PickedPcs, FlushPcs
<1>4. /\ UNCHANGED <<mutable, immutables, held, tables, lastSequence, history, version,
                     content, snaps>>
      /\ nextFile <= nextFile' /\ lastSequence \in Nat
  BY <1>1 DEF memory, versions, files, ghosts, TypeOK
<1>5. ASSUME NEW j, Set(t, j), j.pc \in PickedPcs, j.task = o.task, WatermarkLow(j)
      PROVE  ReadsInv'
  <2>1. j \in Job
    BY <1>5, SetIsJob
  <2>2. WriterReads(j) /\ GetSees(j) /\ j.pc \notin FlushPcs
    BY <1>3, <1>5, WriterPicked
  <2> QED BY <1>2, <1>4, <1>5, <2>1, <2>2, QuietStep
<1>6. CASE ReadOldest(t)
  <2>1. PICK oldest : oldest = {s \in ActiveSequences : \A u \in ActiveSequences : s <= u}
    OBVIOUS
  <2>2. PICK j : Set(t, j) /\ j.pc = "lastseq" /\ j.task = o.task /\ j.oldest = oldest
    BY <1>0, <1>6, <2>1 DEF ReadOldest
  <2>3. /\ \A x \in oldest : x <= lastSequence /\ \A p \in snaps : x <= p.seq
        /\ oldest = {} => \A p \in snaps : p.seq = lastSequence
    BY <2>1, OldestLow
  <2>4. WatermarkLow(j)
    BY <2>2, <2>3 DEF WatermarkLow
  <2> QED BY <1>5, <2>2, <2>4 DEF PickedPcs
<1>7. CASE ReadLastSequence(t)
  <2>1. PICK w : w = IF o.oldest = {} THEN lastSequence ELSE CHOOSE s \in o.oldest : TRUE
    OBVIOUS
  <2>a. PICK j : j = [pc |-> "tombstones", group |-> o.group, task |-> o.task, watermark |-> w]
    OBVIOUS
  <2>b. Set(t, j)
    BY <1>0, <1>7, <2>1, <2>a, Zenon DEF ReadLastSequence
  <2>2. Set(t, j) /\ j.pc = "tombstones" /\ j.task = o.task /\ j.watermark = w
    BY <2>a, <2>b
  <2>3. w <= lastSequence /\ \A p \in snaps : w <= p.seq
    <3>1. /\ \A x \in o.oldest : x <= lastSequence /\ \A p \in snaps : x <= p.seq
          /\ o.oldest = {} => \A p \in snaps : p.seq = lastSequence
      BY <1>0, <1>3, <1>7 DEF WatermarkLow, ReadLastSequence
    <3>2. CASE o.oldest = {}
      BY <1>4, <2>1, <3>1, <3>2
    <3>3. CASE o.oldest # {}
      BY <2>1, <3>1, <3>3
    <3> QED BY <3>2, <3>3
  <2>4. WatermarkLow(j)
    BY <2>2, <2>3 DEF WatermarkLow
  <2> QED BY <1>5, <2>2, <2>4 DEF PickedPcs
<1>8. CASE CheckTombstones(t)
  <2>1. PICK d \in BOOLEAN : d = CanDropTombstones(content, version, o.task)
    BY DEF CanDropTombstones
  <2>2. PICK j : j = [pc |-> "run", group |-> o.group, task |-> o.task,
                      watermark |-> o.watermark, drop |-> d]
    OBVIOUS
  <2>3. Set(t, j)
    BY <1>0, <1>8, <2>1, <2>2, Zenon DEF CheckTombstones
  <2>4. j.pc = "run" /\ j.task = o.task /\ j.watermark = o.watermark
    BY <2>2
  <2>5. j.drop = d
    BY <2>2
  <2>6. o.watermark <= lastSequence /\ \A p \in snaps : o.watermark <= p.seq
    BY <1>0, <1>3, <1>8 DEF WatermarkLow, CheckTombstones
  <2>7. j.pc = "run" /\ j.drop => CanDropTombstones(content, tables, j.task)
    BY <1>3, <2>1, <2>4, <2>5, Zenon
  <2>8. WatermarkLow(j)
    <3>1. /\ j.pc # "lastseq"
          /\ j.watermark <= lastSequence /\ \A p \in snaps : j.watermark <= p.seq
      BY <2>4, <2>6
    <3> QED BY <2>7, <3>1, Zenon DEF WatermarkLow
  <2> QED BY <1>5, <2>3, <2>4, <2>8 DEF PickedPcs
<1> QED BY <1>6, <1>7, <1>8

-----------------------------------------------------------------------------
(* Edits of the version *)

\* A step of the writer that changes no table a reader may have.
LEMMA WriterEdits ==
    ASSUME TypeOK, TypeOK', SingleWriter, ReadsInv,
           NEW t \in Threads, Maintains(t), NEW j, Set(t, j), WriterReads(j)',
           UNCHANGED <<mutable, immutables, held, tables, lastSequence, history, snaps>>,
           \A n \in 1..MaxFileNumber : n < nextFile => content'[n] = content[n],
           nextFile <= nextFile', j.pc \notin {"get", "got"},
           j.pc \in FlushPcs => job[t].pc \in FlushPcs /\ j.num = job[t].num
    PROVE  ReadsInv'
<1>0. \A u \in Threads : job'[u] = IF u = t THEN j ELSE job[u]
  BY DEF TypeOK, Set
<1>1. j \in Job
  BY SetIsJob
<1>2. /\ KeepsOldTables /\ HistoryGrows /\ SnapsLive /\ nextFile' \in Nat
  BY DEF KeepsOldTables, HistoryGrows, SnapsLive, TypeOK
<1>3. NewNumbers
  <2>1. ASSUME NEW u \in Threads, job'[u].pc \in FlushPcs
        PROVE  \E w \in Threads : job[w].pc \in FlushPcs /\ job[w].num = job'[u].num
    BY <1>0, <2>1
  <2> QED BY <2>1 DEF NewNumbers
<1>4. \A f \in tables : content'[f.num] = content[f.num]
  <2>1. \A f \in tables : f.num \in 1..MaxFileNumber /\ f.num < nextFile
    BY FileFacts DEF ReadsInv, StoreReads, TypeOK
  <2> QED BY <2>1
<1>5. StoreReads'
  BY <1>2, <1>4, StoreKept DEF ReadsInv
<1>6. GetSees(j)'
  BY DEF GetSees
<1> QED BY <1>1, <1>2, <1>3, <1>5, <1>6, WriterStep

\* What the writer has in hand from the run of a compaction to its end.
WillRead(j) ==
    \/ j.pc \in {"commit", "edits"} /\ Readable((version \ j.dels) \cup j.adds)
    \/ j.pc = "load" /\ Readable(version)
    \/ j.pc = "install" /\ Readable(j.loaded) /\ j.loaded = version

LEMMA WriterCommits ==
    ASSUME NEW j, WillRead(j)', held' = <<>>
    PROVE  WriterReads(j)' /\ j.pc \notin FlushPcs /\ j.pc \notin {"get", "got"}
<1>1. /\ j.pc \notin PickedPcs /\ j.pc \in UnsettledPcs
      /\ j.pc \notin FlushPcs /\ j.pc \notin {"add", "last", "log"} /\ j.pc \notin {"get", "got"}
      /\ j.pc \notin {"wal", "apply"} /\ j.pc # "wal" /\ j.pc # "apply"
      /\ j.pc \notin {"last", "log"}
  BY DEF WillRead, PickedPcs, FlushPcs, UnsettledPcs
<1>2. FlushOrdered(j)' /\ StartsAfter(j)'
  BY <1>1 DEF FlushOrdered, StartsAfter
<1>3. JobReads(j)'
  BY <1>1, <1>2 DEF WillRead, JobReads
<1> QED BY <1>1, <1>2, <1>3 DEF WriterReads

LEMMA ReadsCommit ==
    ASSUME TypeOK, TypeOK', SingleWriter, ReadsInv, NEW t \in Threads,
           CommitDelete(t) \/ CommitAdd(t)
    PROVE  ReadsInv'
<1>0. PICK o : o = job[t]
  OBVIOUS
<1>1. /\ o.pc \in {"commit", "edits"} /\ UNCHANGED <<memory, files, ghosts, snaps, nextFile>>
  BY <1>0 DEF CommitDelete, CommitAdd
<1>2. Maintains(t) /\ WriterReads(job[t]) /\ WriterReads(o)
  BY <1>0, <1>1, WriterNow DEF ReaderPcs
<1>3. PICK fs : fs = (version \ o.dels) \cup o.adds
  OBVIOUS
<1>4. Readable(fs) /\ held' = <<>>
  BY <1>1, <1>2, <1>3 DEF WriterReads, JobReads, FlushPcs, memory
<1>5. Readable(fs)'
  <2>1. MemEntries' = MemEntries
    BY <1>1 DEF MemEntries, memory
  <2> QED BY <1>1, <1>4, <2>1, ReadableKept DEF SnapsLive, memory, files, ghosts
<1>6. PICK j : /\ Set(t, j)
               /\ \/ j.pc = "load" /\ version' = fs
                  \/ j.pc = "edits" /\ (version' \ j.dels) \cup j.adds = fs
  <2>1. CASE CommitDelete(t)
    <3>1. PICK f \in o.dels :
             /\ version' = version \ {f}
             /\ Set(t, IF o.dels = {f} /\ o.adds = {} THEN Committed(o)
                       ELSE Edits(o, o.dels \ {f}, o.adds))
      BY <1>0, <2>1 DEF CommitDelete, FirstFiles
    <3>2. CASE o.dels = {f} /\ o.adds = {}
      <4>1. Committed(o).pc = "load" /\ version' = fs
        BY <1>3, <3>1, <3>2 DEF Committed
      <4> QED BY <3>1, <3>2, <4>1
    <3>3. CASE ~(o.dels = {f} /\ o.adds = {})
      <4>1. PICK j : j = Edits(o, o.dels \ {f}, o.adds)
        OBVIOUS
      <4>2. j.pc = "edits" /\ j.dels = o.dels \ {f} /\ j.adds = o.adds
        BY <4>1 DEF Edits
      <4>3. (version' \ j.dels) \cup j.adds = fs
        BY <1>3, <3>1, <4>2
      <4>4. Set(t, j)
        BY <3>1, <3>3, <4>1
      <4> QED BY <4>2, <4>3, <4>4
    <3> QED BY <3>2, <3>3
  <2>2. CASE CommitAdd(t)
    <3>1. PICK f \in o.adds :
             /\ version' = version \cup {f}
             /\ Set(t, IF o.adds = {f} THEN Committed(o) ELSE Edits(o, {}, o.adds \ {f}))
      BY <1>0, <2>2 DEF CommitAdd, FirstFiles
    <3>0. o.dels = {}
      BY <1>0, <2>2 DEF CommitAdd
    <3>2. CASE o.adds = {f}
      <4>1. Committed(o).pc = "load" /\ version' = fs
        BY <1>3, <3>0, <3>1, <3>2 DEF Committed
      <4> QED BY <3>1, <3>2, <4>1
    <3>3. CASE o.adds # {f}
      <4>1. PICK j : j = Edits(o, {}, o.adds \ {f})
        OBVIOUS
      <4>2. j.pc = "edits" /\ j.dels = {} /\ j.adds = o.adds \ {f}
        BY <4>1 DEF Edits
      <4>3. (version' \ j.dels) \cup j.adds = fs
        BY <1>3, <3>0, <3>1, <4>2
      <4>4. Set(t, j)
        BY <3>1, <3>3, <4>1
      <4> QED BY <4>2, <4>3, <4>4
    <3> QED BY <3>2, <3>3
  <2> QED BY <2>1, <2>2
<1>7. WillRead(j)'
  <2>1. CASE j.pc = "load" /\ version' = fs
    <3>1. Readable(version)'
      BY <1>5, <2>1
    <3> QED BY <2>1, <3>1 DEF WillRead
  <2>2. CASE j.pc = "edits" /\ (version' \ j.dels) \cup j.adds = fs
    <3>1. Readable((version \ j.dels) \cup j.adds)'
      BY <1>5, <2>2
    <3> QED BY <2>2, <3>1 DEF WillRead
  <2> QED BY <1>6, <2>1, <2>2
<1>9. WriterReads(j)' /\ j.pc \notin FlushPcs /\ j.pc \notin {"get", "got"}
  BY <1>4, <1>7, WriterCommits
<1>8. nextFile <= nextFile' /\ UNCHANGED <<content>>
  BY <1>1 DEF TypeOK, files
<1> QED BY <1>1, <1>2, <1>6, <1>8, <1>9, WriterEdits DEF memory, ghosts

LEMMA ReadsInstall ==
    ASSUME TypeOK, TypeOK', NumbersInv, SingleWriter, ReadsInv, NEW t \in Threads,
           LoadVersion(t) \/ InstallTables(t)
    PROVE  ReadsInv'
<1>0. PICK o : o = job[t]
  OBVIOUS
<1>1. /\ o.pc \in {"load", "install"} /\ UNCHANGED <<versions, files, ghosts, snaps>>
      /\ UNCHANGED <<mutable, immutables, held, lastSequence>>
  BY <1>0 DEF LoadVersion, InstallTables, memory
<1>2. Maintains(t) /\ WriterReads(job[t]) /\ WriterReads(o) /\ StoreReads
  BY <1>0, <1>1, WriterNow DEF ReaderPcs
<1>3. held = <<>> /\ held' = <<>> /\ nextFile <= nextFile' /\ version' = version /\ content' = content
  BY <1>1, <1>2 DEF WriterReads, FlushPcs, versions, files, TypeOK
<1>4. PICK fs : fs = version
  OBVIOUS
<1>5. Readable(fs)
  BY <1>1, <1>2, <1>4 DEF WriterReads, JobReads
<1>6. MemEntries' = MemEntries
  BY <1>1 DEF MemEntries
<1>7. Readable(fs)'
  BY <1>1, <1>3, <1>5, <1>6, ReadableKept DEF SnapsLive, ghosts
<1>8. CASE LoadVersion(t)
  <2>1. PICK j : Set(t, j) /\ j.pc = "install" /\ j.loaded = version
    BY <1>8 DEF LoadVersion
  <2>2. Readable(j.loaded)' /\ j.loaded = version'
    BY <1>3, <1>4, <1>7, <2>1
  <2>3. WriterReads(j)' /\ j.pc \notin FlushPcs /\ j.pc \notin {"get", "got"}
    <3>1. WillRead(j)'
      BY <2>1, <2>2 DEF WillRead
    <3> QED BY <1>3, <3>1, WriterCommits
  <2>4. tables' = tables
    BY <1>8 DEF LoadVersion, memory
  <2> QED BY <1>1, <1>2, <1>3, <2>1, <2>3, <2>4, WriterEdits DEF ghosts
<1>9. CASE InstallTables(t)
  <2>1. tables' = fs /\ version' = fs
    BY <1>0, <1>2, <1>3, <1>4, <1>9 DEF InstallTables, WriterReads, JobReads
  <2>2. PICK j : Set(t, j) /\ j.pc \in {"idle", "lock", "unlink"}
    BY <1>9 DEF InstallTables, Finish, Idle
  <2>3. WriterReads(j)' /\ GetSees(j)'
    BY <1>3, <2>1, <2>2, NothingInHand DEF ReaderPcs, GetSees
  <2>4. KeepsOldTables /\ HistoryGrows /\ lastSequence \in Nat /\ nextFile \in Nat
    BY <1>1, <1>3 DEF KeepsOldTables, HistoryGrows, ghosts, TypeOK
  <2>5. NewNumbers
    <3>1. \A u \in Threads : job'[u] = IF u = t THEN j ELSE job[u]
      BY <2>2 DEF TypeOK, Set
    <3>2. j.pc \notin FlushPcs
      BY <2>2 DEF FlushPcs
    <3> QED BY <1>3, <3>1, <3>2 DEF NewNumbers
  <2>6. \A f \in fs : f.num < nextFile'
    <3>1. \A f \in version : f.num \in Nat /\ f.num < manifest.next
      BY FileFacts DEF NumbersInv, KnownFiles, TypeOK
    <3>2. manifest.next \in Nat /\ manifest.next <= nextFile
      BY DEF NumbersInv, TypeOK
    <3> QED BY <1>1, <1>4, <2>4, <3>1, <3>2 DEF versions
  <2>7. MemOrdered'
    BY <1>1, <1>2 DEF StoreReads, MemOrdered
  <2>8. Readable(tables)'
    BY <1>7, <2>1
  <2>9. StoreReads'
    BY <1>1, <1>2, <2>1, <2>6, <2>7, <2>8 DEF StoreReads, ghosts
  <2>10. j \in Job
    BY <2>2, SetIsJob
  <2> QED BY <1>2, <2>2, <2>3, <2>4, <2>5, <2>9, <2>10, WriterStep
<1> QED BY <1>8, <1>9

-----------------------------------------------------------------------------
(* What a compaction leaves *)

LEMMA EntryFacts == \A e \in Entry : e.key \in Nat /\ e.seq \in Nat
BY KeysAssumption DEF Entry

LEMMA SharedKey ==
    ASSUME NEW A, NEW B, NEW x \in A, NEW y \in B, x.key = y.key, x.key \in Nat
    PROVE  OverlapsEntries(A, B)
<1>1. x.key <= y.key /\ x.key >= y.key
  OBVIOUS
<1> QED BY <1>1 DEF OverlapsEntries

\* A file that stays has only newer versions of the inputs' keys if it lies
\* above the output level, only older ones if it lies below, and none if it is
\* of that level.
LEMMA TaskApart ==
    ASSUME TypeOK, TreeOrdered(content, tables), NEW task \in Task, TaskWhole(task),
           NEW d \in AllInputFiles(task), NEW g \in tables \ AllInputFiles(task),
           NEW x \in content[d.num], NEW y \in content[g.num], x.key = y.key
    PROVE  /\ g.level # task.outputLevel
           /\ g.level < task.outputLevel => x.seq < y.seq
           /\ g.level > task.outputLevel => y.seq < x.seq
<1>1. /\ d \in tables /\ d \in File /\ g \in File /\ tables \subseteq File
      /\ task.inputLevel \in Nat /\ task.outputLevel = task.inputLevel + 1
      /\ task.outputLevel \in Nat
      /\ \/ d \in task.inputFiles /\ d.level = task.inputLevel
         \/ d \in task.overlapFiles /\ d.level = task.outputLevel
  <2>1. task.inputLevel \in Nat /\ task.outputLevel \in Nat
    BY LevelsAssumption DEF Task
  <2> QED BY <2>1 DEF TaskWhole, AllInputFiles, TypeOK
<1>2. /\ d.level \in Nat /\ g.level \in Nat /\ content[d.num] \subseteq Entry
      /\ content[g.num] \subseteq Entry
  BY <1>1, FileFacts
<1>3. x.key \in Nat /\ OverlapsEntries(content[d.num], content[g.num])
      /\ OverlapsEntries(content[g.num], content[d.num])
  BY <1>2, EntryFacts, SharedKey
<1>4. d # g
  OBVIOUS
<1>5. d.level = g.level => d.level = 0
  BY <1>1, <1>3, <1>4 DEF TreeOrdered
<1>6. task.inputLevel = 0 => g.level > 1
  BY <1>2 DEF TaskWhole
<1>7. g.level # task.outputLevel
  <2> SUFFICES ASSUME g.level = task.outputLevel PROVE FALSE
    OBVIOUS
  <2>1. task.inputLevel > 0
    BY <1>1, <1>2, <1>6
  <2>2. d.level = task.inputLevel /\ d \in task.inputFiles
    BY <1>1, <1>5
  <2>3. g \in FilesAt(tables, task.outputLevel) /\ g \notin task.overlapFiles
    BY DEF FilesAt, AllInputFiles
  <2>4. ~ OverlapsEntries(content[g.num], EntriesOf(content, task.inputFiles))
    BY <2>1, <2>3 DEF TaskWhole
  <2>5. x \in EntriesOf(content, task.inputFiles)
    BY <2>2 DEF EntriesOf
  <2> QED BY <1>3, <2>4, <2>5, SharedKey
<1>8. ASSUME g.level < task.outputLevel PROVE x.seq < y.seq
  <2>1. g.level < d.level
    BY <1>1, <1>2, <1>5, <1>6, <1>8
  <2>2. Older(content[d.num], content[g.num])
    BY <1>1, <2>1 DEF TreeOrdered
  <2> QED BY <2>2 DEF Older
<1>9. ASSUME g.level > task.outputLevel PROVE y.seq < x.seq
  <2>1. g.level > d.level
    BY <1>1, <1>2, <1>9
  <2>2. Older(content[g.num], content[d.num])
    BY <1>1, <2>1 DEF TreeOrdered
  <2> QED BY <2>2 DEF Older
<1> QED BY <1>7, <1>8, <1>9

\* A file that stays at the output level has its keys on one side of all the
\* inputs' keys.
LEMMA TaskBeside ==
    ASSUME TypeOK, TreeOrdered(content, tables), NEW task \in Task, TaskWhole(task),
           NEW g \in tables \ AllInputFiles(task), g.level = task.outputLevel,
           NEW X, X = EntriesOf(content, AllInputFiles(task))
    PROVE  \/ \A x \in X, y \in content[g.num] : x.key < y.key
           \/ \A x \in X, y \in content[g.num] : y.key < x.key
<1>1. PICK G, I : G = content[g.num] /\ I = EntriesOf(content, task.inputFiles)
  OBVIOUS
<1>2. /\ task.inputLevel \in Nat /\ task.outputLevel = task.inputLevel + 1
      /\ AllInputFiles(task) \subseteq tables /\ tables \subseteq File
  BY LevelsAssumption DEF TaskWhole, TypeOK, Task
<1>3. task.inputLevel > 0
  <2>1. task.inputLevel # 0
    BY <1>2 DEF TaskWhole
  <2> QED BY <1>2, <2>1
<1>4. \A f \in tables : content[f.num] \subseteq Entry
  BY <1>2, FileFacts
<1>5. G \subseteq Entry /\ I \subseteq Entry /\ X \subseteq Entry
  <2>1. \A f \in task.inputFiles : f \in tables
    BY <1>2 DEF AllInputFiles
  <2> QED BY <1>1, <1>2, <1>4, <2>1 DEF EntriesOf
<1>6. /\ \A e \in G : e.key \in Nat
      /\ \A e \in I : e.key \in Nat
      /\ \A e \in X : e.key \in Nat
  BY <1>5, EntryFacts
<1>7. ~ OverlapsEntries(G, I)
  <2>1. g \in FilesAt(tables, task.outputLevel) /\ g \notin task.overlapFiles
    BY DEF FilesAt, AllInputFiles
  <2> QED BY <1>1, <1>3, <2>1 DEF TaskWhole
<1>8. ASSUME NEW x \in X
      PROVE  x \in I \/ \E D : /\ x \in D /\ D \subseteq Entry /\ OverlapsEntries(D, I)
                               /\ ~ OverlapsEntries(D, G)
  <2>1. PICK d \in AllInputFiles(task) : x \in content[d.num]
    BY DEF EntriesOf
  <2>2. CASE d \in task.inputFiles
    BY <1>1, <2>1, <2>2 DEF EntriesOf
  <2>3. CASE d \in task.overlapFiles
    <3>1. d \in tables /\ d.level = task.outputLevel /\ d # g
      BY <1>2, <2>1, <2>3 DEF TaskWhole
    <3>2. d \in FilesAt(tables, task.outputLevel)
      BY <3>1 DEF FilesAt
    <3>3. OverlapsEntries(content[d.num], I)
      BY <1>1, <1>3, <2>3, <3>2 DEF TaskWhole
    <3>4. d.level # 0 /\ d.level = g.level
      BY <1>2, <1>3, <3>1
    <3>5. ~ OverlapsEntries(content[d.num], G)
      BY <1>1, <3>1, <3>4 DEF TreeOrdered
    <3>6. PICK D : D = content[d.num]
      OBVIOUS
    <3> QED BY <1>4, <2>1, <3>1, <3>3, <3>5, <3>6
  <2> QED BY <2>1, <2>2, <2>3 DEF AllInputFiles
<1>9. CASE I = {}
  <2>1. \A D : ~ OverlapsEntries(D, I)
    BY <1>9 DEF OverlapsEntries
  <2>2. X = {}
    BY <1>8, <1>9, <2>1
  <2> QED BY <2>2
<1>10. CASE G = {}
  BY <1>1, <1>10
<1>11. CASE I # {} /\ G # {}
  <2>1. PICK i \in I, z \in G : TRUE
    BY <1>11
  <2>2. i.key \in Nat /\ z.key \in Nat
    BY <1>6
  <2>3. CASE z.key <= i.key
    <3>1. \A y \in G, x \in I : y.key < x.key
      BY <1>6, <1>7, <2>2, <2>3 DEF OverlapsEntries
    <3>2. ASSUME NEW x \in X, NEW y \in G PROVE y.key < x.key
      <4>1. CASE x \in I
        BY <3>1, <4>1
      <4>2. CASE x \notin I
        <5>1. PICK D : /\ x \in D /\ D \subseteq Entry /\ OverlapsEntries(D, I)
                       /\ ~ OverlapsEntries(D, G)
          BY <1>8, <4>2
        <5>2. PICK b \in D, c \in I : b.key >= c.key
          BY <5>1 DEF OverlapsEntries
        <5>3. y.key < c.key /\ b.key \in Nat /\ c.key \in Nat /\ y.key \in Nat /\ x.key \in Nat
          BY <1>6, <3>1, <5>1, EntryFacts
        <5>4. b.key >= y.key
          BY <5>2, <5>3
        <5>5. ~(x.key <= y.key)
          BY <5>1, <5>4 DEF OverlapsEntries
        <5> QED BY <5>3, <5>5
      <4> QED BY <4>1, <4>2
    <3> QED BY <1>1, <3>2
  <2>4. CASE z.key >= i.key
    <3>1. \A y \in G, x \in I : x.key < y.key
      BY <1>6, <1>7, <2>2, <2>4 DEF OverlapsEntries
    <3>2. ASSUME NEW x \in X, NEW y \in G PROVE x.key < y.key
      <4>1. CASE x \in I
        BY <3>1, <4>1
      <4>2. CASE x \notin I
        <5>1. PICK D : /\ x \in D /\ D \subseteq Entry /\ OverlapsEntries(D, I)
                       /\ ~ OverlapsEntries(D, G)
          BY <1>8, <4>2
        <5>2. PICK a \in D, c \in I : a.key <= c.key
          BY <5>1 DEF OverlapsEntries
        <5>3. c.key < y.key /\ a.key \in Nat /\ c.key \in Nat /\ y.key \in Nat /\ x.key \in Nat
          BY <1>6, <3>1, <5>1, EntryFacts
        <5>4. a.key <= y.key
          BY <5>2, <5>3
        <5>5. ~(x.key >= y.key)
          BY <5>1, <5>4 DEF OverlapsEntries
        <5> QED BY <5>3, <5>5
      <4> QED BY <4>1, <4>2
    <3> QED BY <1>1, <3>2
  <2> QED BY <2>2, <2>3, <2>4
<1> QED BY <1>9, <1>10, <1>11

\* The files that stay and the outputs of a compaction, which are disjoint and
\* hold what compact_entries keeps, can be what readers see.
LEMMA RunOrdered ==
    ASSUME TypeOK, TypeOK', TreeOrdered(content, tables), NEW task \in Task, TaskWhole(task),
           NEW adds \in SUBSET File, \A f \in adds : f.level = task.outputLevel,
           \A f, g \in adds : f # g => ~ OverlapsEntries(content'[f.num], content'[g.num]),
           EntriesOf(content', adds) \subseteq EntriesOf(content, AllInputFiles(task)),
           \A g \in tables : content'[g.num] = content[g.num],
           NEW fs, fs = (tables \ AllInputFiles(task)) \cup adds
    PROVE  TreeOrdered(content', fs)
<1> DEFINE dels == AllInputFiles(task)
           Fits(f, g) == /\ f.level > g.level => Older(content'[f.num], content'[g.num])
                         /\ f.level = 0 /\ g.level = 0 /\ f.num < g.num
                              => Older(content'[f.num], content'[g.num])
                         /\ f.level = g.level /\ f # g =>
                              IF f.level = 0 THEN f.num # g.num
                              ELSE ~ OverlapsEntries(content'[f.num], content'[g.num])
<1>1. /\ task.outputLevel \in Nat /\ task.outputLevel # 0
      /\ \A f \in tables \cup adds : f.level \in Nat
  <2>1. task.inputLevel \in Nat /\ task.outputLevel \in Nat
    BY LevelsAssumption DEF Task
  <2>2. task.outputLevel # 0
    BY <2>1 DEF TaskWhole
  <2> QED BY <2>1, <2>2, FileFacts DEF TypeOK
<1>2. ASSUME NEW f \in adds, NEW x \in content'[f.num]
      PROVE  /\ x \in EntriesOf(content, dels)
             /\ \E d \in dels : x \in content[d.num]
  BY DEF EntriesOf
<1>3. \A f, g \in tables \ dels : Fits(f, g)
  BY DEF TreeOrdered
<1>4. \A f, g \in adds : Fits(f, g)
  BY <1>1
<1>5. ASSUME NEW f \in adds, NEW g \in tables \ dels PROVE Fits(f, g) /\ Fits(g, f)
  <2>1. ASSUME NEW x \in content'[f.num], NEW y \in content'[g.num], x.key = y.key
        PROVE  /\ g.level < task.outputLevel => x.seq < y.seq
               /\ g.level > task.outputLevel => y.seq < x.seq
    <3>1. PICK d \in dels : x \in content[d.num]
      BY <1>2
    <3>2. y \in content[g.num]
      BY <1>5
    <3> QED BY <2>1, <3>1, <3>2, TaskApart
  <2>2. f.level > g.level => Older(content'[f.num], content'[g.num])
    BY <1>1, <2>1 DEF Older
  <2>3. g.level > f.level => Older(content'[g.num], content'[f.num])
    BY <1>1, <2>1 DEF Older
  <2>4. ASSUME f.level = g.level
        PROVE  /\ ~ OverlapsEntries(content'[f.num], content'[g.num])
               /\ ~ OverlapsEntries(content'[g.num], content'[f.num])
    <3>1. PICK X, F, G : X = EntriesOf(content, dels) /\ F = content'[f.num] /\ G = content'[g.num]
      OBVIOUS
    <3>2. G = content[g.num] /\ F \subseteq X
      BY <1>2, <3>1
    <3>3. \/ \A x \in X, y \in G : x.key < y.key
          \/ \A x \in X, y \in G : y.key < x.key
      BY <1>5, <2>4, <3>1, <3>2, TaskBeside
    <3>4. /\ \A e \in F : e.key \in Nat
          /\ \A e \in G : e.key \in Nat
      <4>1. f \in File /\ g \in File
        BY DEF TypeOK
      <4>2. F \subseteq Entry /\ G \subseteq Entry
        BY <3>1, <4>1 DEF File, TypeOK
      <4> QED BY <4>2, EntryFacts
    <3>5. ~ OverlapsEntries(F, G) /\ ~ OverlapsEntries(G, F)
      <4>1. CASE \A x \in X, y \in G : x.key < y.key
        <5>1. \A x \in F, y \in G : x.key < y.key /\ ~(x.key >= y.key)
          BY <3>2, <3>4, <4>1
        <5> QED BY <3>4, <5>1 DEF OverlapsEntries
      <4>2. CASE \A x \in X, y \in G : y.key < x.key
        <5>1. \A x \in F, y \in G : y.key < x.key /\ ~(y.key >= x.key)
          BY <3>2, <3>4, <4>2
        <5> QED BY <3>4, <5>1 DEF OverlapsEntries
      <4> QED BY <3>3, <4>1, <4>2
    <3> QED BY <3>1, <3>5
  <2> QED BY <1>1, <2>2, <2>3, <2>4
<1>6. \A f, g \in fs : Fits(f, g)
  <2> HIDE DEF Fits
  <2> QED BY <1>3, <1>4, <1>5
<1> QED BY <1>6 DEF TreeOrdered

LEMMA RunReadable ==
    ASSUME TypeOK, TypeOK', StoreReads, NEW task \in Task, TaskWhole(task), NEW w \in Nat, NEW drop,
           w <= lastSequence, \A p \in snaps : w <= p.seq,
           drop => CanDropTombstones(content, tables, task),
           NEW adds \in SUBSET File, \A f \in adds : f.level = task.outputLevel,
           \A f, g \in adds : f # g => ~ OverlapsEntries(content'[f.num], content'[g.num]),
           EntriesOf(content', adds)
              = CompactEntries(EntriesOf(content, AllInputFiles(task)), w, drop),
           \A g \in tables : content'[g.num] = content[g.num],
           UNCHANGED <<mutable, immutables, held, lastSequence, history, snaps>>,
           NEW fs, fs = (tables \ AllInputFiles(task)) \cup adds
    PROVE  Readable(fs)'
<1>1. PICK dels, In, Out, R, M :
         /\ dels = AllInputFiles(task)
         /\ In = EntriesOf(content, dels) /\ Out = EntriesOf(content', adds)
         /\ R = EntriesOf(content, tables \ dels) /\ M = MemEntries
  OBVIOUS
<1>2. /\ Out \subseteq In /\ MemEntries' = M /\ EntriesOf(content', fs) = R \cup Out
      /\ EntriesOf(content, tables) = R \cup In
  <2>1. Out \subseteq In
    BY <1>1 DEF CompactEntries
  <2>2. MemEntries' = M
    BY <1>1 DEF MemEntries
  <2>3. EntriesOf(content', fs) = R \cup Out
    BY <1>1 DEF EntriesOf
  <2>4. EntriesOf(content, tables) = R \cup In
    BY <1>1 DEF EntriesOf, TaskWhole
  <2> QED BY <2>1, <2>2, <2>3, <2>4
<1>3. /\ M \cup (R \cup In) \subseteq history /\ TreeOrdered(content, tables)
      /\ Older(R \cup In, M) /\ UniqueSeqs(history) /\ history \subseteq Entry
  BY <1>1, <1>2 DEF StoreReads, Readable, Reachable, TypeOK
<1>4. TreeOrdered(content', fs)
  <2>1. EntriesOf(content', adds) \subseteq EntriesOf(content, AllInputFiles(task))
    BY <1>1, <1>2
  <2> QED BY <1>3, <2>1, RunOrdered
<1>5. ASSUME NEW s \in Nat, w <= s, Faithful(tables, s) PROVE Faithful(fs, s)'
  <2> SUFFICES ASSUME NEW k \in Keys
               PROVE  Visible(Newest(Reachable(fs)', k, s)) = Visible(Newest(history, k, s))
    BY DEF Faithful
  <2>1. PICK rest : rest = M \cup R
    OBVIOUS
  <2>2. /\ rest \cup In = Reachable(tables) /\ rest \cup Out = Reachable(fs)'
        /\ rest \cup In \subseteq Entry /\ UniqueSeqs(rest \cup In)
    <3>1. Reachable(tables) = M \cup (R \cup In) /\ Reachable(fs)' = M \cup (R \cup Out)
      BY <1>1, <1>2 DEF Reachable
    <3>2. rest \cup In = Reachable(tables) /\ rest \cup Out = Reachable(fs)'
      BY <2>1, <3>1
    <3>3. rest \cup In \subseteq history
      BY <1>3, <2>1
    <3>4. UniqueSeqs(rest \cup In)
      BY <1>3, <3>3 DEF UniqueSeqs
    <3> QED BY <1>3, <3>2, <3>3, <3>4
  <2>3. ASSUME NEW e \in rest
        PROVE  \/ \A f \in In : f.key = e.key => f.seq < e.seq
               \/ ~drop /\ \A f \in In : f.key = e.key => e.seq < f.seq
    <3>1. CASE e \in M
      BY <1>3, <3>1 DEF Older
    <3>2. CASE e \in R
      <4>1. PICK g \in tables \ dels : e \in content[g.num]
        BY <1>1, <3>2 DEF EntriesOf
      <4>2. ASSUME NEW f \in In, f.key = e.key
            PROVE  /\ g.level # task.outputLevel
                   /\ g.level < task.outputLevel => f.seq < e.seq
                   /\ g.level > task.outputLevel => e.seq < f.seq
        <5>1. PICK d \in dels : f \in content[d.num]
          BY <1>1 DEF EntriesOf
        <5> QED BY <1>1, <1>3, <4>1, <4>2, <5>1, TaskApart
      <4>3. g.level \in Nat /\ task.outputLevel \in Nat /\ content[g.num] \subseteq Entry
        <5>1. task.outputLevel \in Nat
          BY LevelsAssumption DEF Task
        <5>2. g \in File
          BY <4>1 DEF TypeOK
        <5> QED BY <5>1, <5>2, FileFacts
      <4>4. CASE g.level <= task.outputLevel
        BY <4>2, <4>3, <4>4
      <4>5. CASE g.level > task.outputLevel /\ drop
        <5>1. ~ OverlapsEntries(content[g.num], In)
          BY <1>1, <4>1, <4>5 DEF CanDropTombstones
        <5>2. e.key \in Nat
          BY <4>1, <4>3, EntryFacts
        <5>3. \A f \in In : f.key # e.key
          BY <4>1, <5>1, <5>2, SharedKey
        <5> QED BY <5>3
      <4>6. CASE g.level > task.outputLevel /\ ~drop
        BY <4>2, <4>6
      <4> QED BY <4>3, <4>4, <4>5, <4>6
    <3> QED BY <2>1, <3>1, <3>2
  <2>4. Visible(Newest(rest \cup CompactEntries(In, w, drop), k, s)) = Visible(Newest(rest \cup In, k, s))
    <3>1. Separate(rest, In, drop)
      BY <2>3, Zenon DEF Separate
    <3> QED BY <1>5, <2>2, <3>1, CompactionKeepsReads
  <2>5. Out = CompactEntries(In, w, drop)
    BY <1>1
  <2>6. Visible(Newest(Reachable(tables), k, s)) = Visible(Newest(history, k, s))
    BY <1>5 DEF Faithful
  <2> QED BY <2>2, <2>4, <2>5, <2>6
<1>6. ASSUME NEW s, s = lastSequence' \/ \E p \in snaps' : s = p.seq PROVE Faithful(fs, s)'
  <2>1. s \in Nat /\ w <= s
    BY <1>6 DEF TypeOK
  <2>2. Faithful(tables, s)
    BY <1>6 DEF StoreReads, Readable
  <2> QED BY <1>5, <2>1, <2>2
<1>7. Reachable(fs)' \subseteq history' /\ Older(EntriesOf(content', fs), MemEntries')
  BY <1>2, <1>3 DEF Reachable, Older
<1> QED BY <1>4, <1>6, <1>7 DEF Readable

AtLevel(level, numbers) == {[level |-> level, num |-> n] : n \in numbers}

LEMMA RunStep ==
    ASSUME TypeOK, TypeOK', SingleWriter, ReadsInv, NEW t \in Threads,
           NEW o \in Job, o = job[t], o.pc = "run",
           NEW outputs, NEW obsolete, Set(t, Commit(o, outputs, obsolete)),
           \A n \in 1..MaxFileNumber : n < nextFile => content'[n] = content[n],
           nextFile <= nextFile', UNCHANGED <<memory, version, ghosts, snaps>>,
           NEW adds, adds = AtLevel(o.task.outputLevel, outputs),
           \A f, g \in adds : f # g => ~ OverlapsEntries(content'[f.num], content'[g.num]),
           EntriesOf(content', adds) = Output(o)
    PROVE  ReadsInv'
<1>1. PICK j : j = Commit(o, outputs, obsolete)
  OBVIOUS
<1>2. j.pc = "commit" /\ j.dels = AllInputFiles(o.task) /\ j.adds = adds
  BY <1>1 DEF Commit, AtLevel
<1>3. Set(t, j) /\ j \in Job
  BY <1>1, SetIsJob
<1>4. adds \in SUBSET File /\ o.task \in Task /\ o.watermark \in Nat
  BY <1>2, <1>3, JobShapes
<1>5. Maintains(t) /\ WriterReads(o) /\ StoreReads
  BY WriterNow DEF ReaderPcs
<1>6. /\ TaskWhole(o.task) /\ WatermarkLow(o) /\ version = tables /\ held = <<>>
  BY <1>5 DEF WriterReads, JobReads, PickedPcs, UnsettledPcs, FlushPcs
<1>7. o.watermark <= lastSequence /\ \A p \in snaps : o.watermark <= p.seq
  BY <1>6 DEF WatermarkLow
<1>8. PICK task, w, drop : task = o.task /\ w = o.watermark /\ drop = o.drop
  OBVIOUS
<1>9. drop => CanDropTombstones(content, tables, task)
  BY <1>6, <1>8, Zenon DEF WatermarkLow
<1>10. EntriesOf(content', adds)
          = CompactEntries(EntriesOf(content, AllInputFiles(task)), w, drop)
  BY <1>8, Zenon DEF Output
<1>11. UNCHANGED <<mutable, immutables, held, tables, lastSequence, history, snaps>>
  BY DEF memory, ghosts
<1>12. \A g \in tables : content'[g.num] = content[g.num]
  <2>1. \A g \in tables : g.num \in 1..MaxFileNumber /\ g.num < nextFile
    BY <1>5, FileFacts DEF StoreReads, TypeOK
  <2> QED BY <2>1
<1>13. PICK fs : fs = (tables \ AllInputFiles(task)) \cup adds
  OBVIOUS
<1>14. \A f \in adds : f.level = task.outputLevel
  BY <1>8 DEF AtLevel
<1>15. Readable(fs)'
  <2>1. /\ task \in Task /\ TaskWhole(task) /\ w \in Nat /\ w <= lastSequence
        /\ \A p \in snaps : w <= p.seq
    BY <1>4, <1>6, <1>7, <1>8
  <2> QED BY <1>4, <1>5, <1>9, <1>10, <1>11, <1>12, <1>13, <1>14, <2>1, RunReadable
<1>16. (version' \ j.dels) \cup j.adds = fs
  BY <1>2, <1>6, <1>8, <1>13
<1>17. Readable((version \ j.dels) \cup j.adds)'
  BY <1>15, <1>16
<1>18. WillRead(j)'
  BY <1>2, <1>17 DEF WillRead
<1>19. held' = <<>>
  BY <1>6, <1>11
<1>20. WriterReads(j)' /\ j.pc \notin FlushPcs /\ j.pc \notin {"get", "got"}
  BY <1>18, <1>19, WriterCommits
<1> QED BY <1>3, <1>5, <1>11, <1>20, WriterEdits

Chunk(out, part, i) == {e \in out : part[e] = i}

\* split_compaction_entries: no two outputs overlap.
LEMMA ChunksApart ==
    ASSUME EmptyKey \notin Keys, NEW out \in SUBSET Entry, NEW n \in Nat, NEW part \in Splits(out, n),
           NEW a, NEW b, a # b
    PROVE  ~ OverlapsEntries(Chunk(out, part, a), Chunk(out, part, b))
<1>1. \A e \in out : part[e] \in 0..(n - 1) /\ e.key \in Nat /\ e.key \in Keys
  BY KeysAssumption DEF Splits, Entry
<1>2. \A e, f \in out : e.key < f.key => part[e] <= part[f]
  BY DEF Splits, Before
<1>3. \A e, f \in out : e.key = f.key => part[e] = part[f]
  BY <1>1 DEF Splits
<1> SUFFICES ASSUME NEW x \in out, NEW y \in out, NEW c \in out, NEW d \in out,
                    part[x] = a, part[y] = a, part[c] = b, part[d] = b,
                    x.key <= d.key, y.key >= c.key
             PROVE  FALSE
  BY DEF OverlapsEntries, Chunk
<1>4. a \in Nat /\ b \in Nat
  BY <1>1
<1>5. x.key < d.key
  BY <1>1, <1>3
<1>6. a <= b
  BY <1>2, <1>5
<1>7. c.key < y.key
  BY <1>1, <1>3
<1>8. b <= a
  BY <1>2, <1>7
<1> QED BY <1>4, <1>6, <1>8

LEMMA Numbered ==
    ASSUME NEW numbers, NEW level, NEW fs, fs = AtLevel(level, numbers)
    PROVE  /\ \A f \in fs : f.level = level /\ f.num \in numbers
           /\ \A m \in numbers : \E f \in fs : f.num = m
<1>1. \A m \in numbers : [level |-> level, num |-> m] \in fs
  BY DEF AtLevel
<1>2. ASSUME NEW m \in numbers PROVE \E f \in fs : f.num = m
  <2>1. PICK f \in fs : f = [level |-> level, num |-> m]
    BY <1>1
  <2> QED BY <2>1
<1> QED BY <1>2 DEF AtLevel

\* write_compaction_outputs writes n chunks; the new files hold the output.
ChunksWritten(out, n, part, numbers) ==
    /\ out \in SUBSET Entry /\ n \in Nat /\ part \in Splits(out, n)
    /\ numbers = nextFile..(nextFile + n - 1) /\ nextFile + n - 1 <= MaxFileNumber
    /\ content' = WithOutputs(out, part, numbers)
FilesHaveOutput(fs, out) ==
    /\ \A m \in 1..MaxFileNumber : m < nextFile => content'[m] = content[m]
    /\ \A f, g \in fs : f # g => ~ OverlapsEntries(content'[f.num], content'[g.num])
    /\ EntriesOf(content', fs) = out

LEMMA OutputsWritten ==
    ASSUME TypeOK, EmptyKey \notin Keys, NEW out, NEW n, NEW part, NEW numbers,
           ChunksWritten(out, n, part, numbers),
           NEW level, NEW adds, adds = AtLevel(level, numbers)
    PROVE  FilesHaveOutput(adds, out)
<1>0. /\ out \in SUBSET Entry /\ n \in Nat /\ part \in Splits(out, n)
      /\ numbers = nextFile..(nextFile + n - 1) /\ nextFile + n - 1 <= MaxFileNumber
      /\ content' = WithOutputs(out, part, numbers)
  BY DEF ChunksWritten
<1> USE <1>0
<1>1. /\ nextFile \in Nat /\ nextFile # 0 /\ MaxFileNumber \in Nat
      /\ DOMAIN content = 1..MaxFileNumber
  BY SizesAssumption DEF TypeOK
<1>2. \A m \in 1..MaxFileNumber :
         content'[m] = IF m \in numbers THEN Chunk(out, part, m - nextFile) ELSE content[m]
  BY <1>1 DEF WithOutputs, Chunk
<1>3. \A m \in numbers : m \in 1..MaxFileNumber /\ m \in Nat /\ m >= nextFile
  BY <1>1
<1>4. \A m \in 1..MaxFileNumber : m < nextFile => content'[m] = content[m]
  <2> SUFFICES ASSUME NEW m \in 1..MaxFileNumber, m < nextFile PROVE content'[m] = content[m]
    OBVIOUS
  <2>1. m \notin numbers
    BY <1>1, <1>3
  <2> QED BY <1>2, <2>1
<1>5. \A m \in numbers : content'[m] = Chunk(out, part, m - nextFile)
  BY <1>2, <1>3
<1>6. ASSUME NEW f \in adds, NEW g \in adds, f # g
      PROVE  ~ OverlapsEntries(content'[f.num], content'[g.num])
  <2>1. PICK x \in numbers, y \in numbers : f.num = x /\ g.num = y /\ x # y
    BY <1>6 DEF AtLevel
  <2>2. PICK a, b : a = x - nextFile /\ b = y - nextFile
    OBVIOUS
  <2>3. a # b
    BY <1>1, <1>3, <2>1, <2>2
  <2>4. ~ OverlapsEntries(Chunk(out, part, a), Chunk(out, part, b))
    BY <2>3, ChunksApart
  <2> QED BY <1>5, <2>1, <2>2, <2>4
<1>7. /\ \A f \in adds : f.num \in numbers
      /\ \A m \in numbers : \E f \in adds : f.num = m
  <2>1. PICK N : N = numbers
    OBVIOUS
  <2>2. adds = AtLevel(level, N)
    BY <2>1
  <2>3. /\ \A f \in adds : f.num \in N
        /\ \A m \in N : \E f \in adds : f.num = m
    BY ONLY <2>2, Numbered
  <2> QED BY <2>1, <2>3
<1>8. ASSUME NEW e \in out PROVE \E m \in numbers : e \in content'[m]
  <2>1. part[e] \in 0..(n - 1)
    BY DEF Splits
  <2>2. PICK m : m = nextFile + part[e]
    OBVIOUS
  <2>3. m \in numbers /\ m - nextFile = part[e]
    BY <1>1, <2>1, <2>2
  <2> QED BY <1>5, <2>3 DEF Chunk
<1>9. EntriesOf(content', adds) = out
  <2>1. \A m \in numbers : content'[m] \subseteq out
    BY <1>5 DEF Chunk
  <2>2. \A f \in adds : content'[f.num] \subseteq out
    BY <1>7, <2>1
  <2>3. \A e \in out : \E f \in adds : e \in content'[f.num]
    BY <1>7, <1>8
  <2> QED BY <2>2, <2>3 DEF EntriesOf
<1> QED BY <1>4, <1>6, <1>9 DEF FilesHaveOutput

LEMMA ReadsRun ==
    ASSUME TypeOK, TypeOK', SingleWriter, EmptyKey \notin Keys, ReadsInv, NEW t \in Threads,
           TrivialMove(t) \/ WriteOutputs(t)
    PROVE  ReadsInv'
<1>0. PICK o \in Job : o = job[t]
  BY DEF TypeOK
<1>1. o.pc = "run"
  BY <1>0 DEF TrivialMove, WriteOutputs
<1>2. o.task \in Task
  BY <1>1, JobShapes
<1>3. WriterReads(o) /\ StoreReads
  BY <1>0, <1>1, WriterNow DEF ReaderPcs
<1>4. TaskWhole(o.task)
  BY <1>1, <1>3 DEF WriterReads, JobReads, PickedPcs
<1>5. CASE TrivialMove(t)
  <2>1. PICK outputs, adds : /\ outputs = {f.num : f \in o.task.inputFiles}
                             /\ adds = AtLevel(o.task.outputLevel, outputs)
    OBVIOUS
  <2>2. /\ Set(t, Commit(o, outputs, {})) /\ MovesTrivially(o)
        /\ UNCHANGED <<memory, versions, files, ghosts, snaps>>
    BY <1>0, <1>5, <2>1 DEF TrivialMove
  <2>3. content' = content /\ version' = version /\ nextFile <= nextFile'
    BY <2>2 DEF versions, files, TypeOK
  <2>4. EntriesOf(content', adds) = Output(o)
    <3>0. /\ \A f \in adds : \E g \in o.task.inputFiles : f.num = g.num
          /\ \A g \in o.task.inputFiles : \E f \in adds : f.num = g.num
      <4>1. PICK level : level = o.task.outputLevel
        OBVIOUS
      <4>2. adds = AtLevel(level, outputs)
        BY <2>1, <4>1
      <4>3. /\ \A f \in adds : f.num \in outputs
            /\ \A n \in outputs : \E f \in adds : f.num = n
        BY <4>2, Numbered
      <4> QED BY <2>1, <4>3
    <3>1. EntriesOf(content, adds) = EntriesOf(content, o.task.inputFiles)
      BY <3>0 DEF EntriesOf
    <3> QED BY <2>2, <2>3, <3>1 DEF MovesTrivially
  <2>5. ASSUME NEW f \in adds, NEW g \in adds, f # g
        PROVE  ~ OverlapsEntries(content'[f.num], content'[g.num])
    <3>1. PICK x \in o.task.inputFiles, y \in o.task.inputFiles :
             x.num = f.num /\ y.num = g.num /\ x # y
      BY <2>1, <2>5 DEF AtLevel
    <3>2. /\ x \in tables /\ y \in tables /\ x.level = y.level /\ x.level = o.task.inputLevel
      BY <1>4, <3>1 DEF TaskWhole, AllInputFiles
    <3>3. o.task.inputLevel # 0
      <4>1. o.task.inputLevel \in Nat
        BY <1>2, LevelsAssumption DEF Task
      <4> QED BY <2>2, <4>1 DEF MovesTrivially, IsTrivialMove
    <3> QED BY <1>3, <2>3, <3>1, <3>2, <3>3 DEF StoreReads, Readable, TreeOrdered
  <2> QED BY <1>0, <1>1, <2>1, <2>2, <2>3, <2>4, <2>5, RunStep
<1>6. CASE WriteOutputs(t)
  <2>0. PICK out, used : out = Output(o) /\ used = {f.num : f \in AllInputFiles(o.task)}
    OBVIOUS
  <2>1. PICK n \in IF out = {} THEN {0} ELSE 1..MaxOf(1, MaxSubcompactions) :
             LET numbers == nextFile..(nextFile + n - 1)
             IN  /\ nextFile + n - 1 <= MaxFileNumber
                 /\ \E part \in Splits(out, n) : content' = WithOutputs(out, part, numbers)
                 /\ nextFile' = nextFile + n
                 /\ Set(t, Commit(o, numbers, used))
    BY <1>0, <1>6, <2>0 DEF WriteOutputs
  <2>2. n \in Nat
    BY SizesAssumption DEF MaxOf
  <2>3. PICK numbers, adds :
           /\ numbers = nextFile..(nextFile + n - 1)
           /\ adds = AtLevel(o.task.outputLevel, numbers)
    OBVIOUS
  <2>4. out \in SUBSET Entry
    BY <1>0, <1>1, <2>0, OutputType
  <2>5. PICK part \in Splits(out, n) : content' = WithOutputs(out, part, numbers)
    BY <2>1, <2>3
  <2>6. /\ \A m \in 1..MaxFileNumber : m < nextFile => content'[m] = content[m]
        /\ \A f, g \in adds : f # g => ~ OverlapsEntries(content'[f.num], content'[g.num])
        /\ EntriesOf(content', adds) = out
    <3>1. PICK level : level = o.task.outputLevel
      OBVIOUS
    <3>2. nextFile + n - 1 <= MaxFileNumber
      BY <2>1
    <3>3. adds = AtLevel(level, numbers)
      BY <2>3, <3>1
    <3>4. ChunksWritten(out, n, part, numbers)
      BY <2>2, <2>3, <2>4, <2>5, <3>2 DEF ChunksWritten
    <3>5. FilesHaveOutput(adds, out)
      BY <3>3, <3>4, OutputsWritten
    <3> QED BY <3>5 DEF FilesHaveOutput
  <2>7. /\ Set(t, Commit(o, numbers, used)) /\ nextFile' = nextFile + n
        /\ UNCHANGED <<memory, version, ghosts, snaps>>
    BY <1>6, <2>1, <2>3 DEF WriteOutputs
  <2>8. nextFile <= nextFile'
    BY <2>2, <2>7 DEF TypeOK
  <2>9. EntriesOf(content', adds) = Output(o)
    BY <2>0, <2>6
  <2>10. \A n2 \in 1..MaxFileNumber : n2 < nextFile => content'[n2] = content[n2]
    BY <2>6
  <2>11. adds = AtLevel(o.task.outputLevel, numbers)
    BY <2>3
  <2> QED BY <1>0, <1>1, <2>6, <2>7, <2>8, <2>9, <2>10, <2>11, RunStep
<1> QED BY <1>5, <1>6

\* One or more outputs could not be written: nobody knows about the others.
LEMMA ReadsRunFails ==
    ASSUME TypeOK, TypeOK', SingleWriter, ReadsInv, NEW t \in Threads, OutputsFail(t)
    PROVE  ReadsInv'
<1>1. /\ job[t].pc = "run" /\ Set(t, Idle) /\ Idle.pc = "idle"
      /\ UNCHANGED <<memory, version, ghosts, snaps>>
  BY DEF OutputsFail, Idle
<1>2. Maintains(t) /\ WriterReads(job[t])
  BY <1>1, WriterNow DEF ReaderPcs
<1>3. version' = tables' /\ held' = <<>>
  BY <1>1, <1>2 DEF WriterReads, UnsettledPcs, FlushPcs, memory
<1>4. PICK n \in 1..MaxOf(1, MaxSubcompactions) :
         /\ nextFile' = nextFile + n
         /\ \E part : \E written \in SUBSET (nextFile..(nextFile + n - 1)) :
               content' = WithOutputs(Output(job[t]), part, written)
  BY DEF OutputsFail
<1>5. n \in Nat /\ nextFile \in Nat
  BY SizesAssumption DEF MaxOf, TypeOK
<1>6. PICK part : \E written \in SUBSET (nextFile..(nextFile + n - 1)) :
         content' = WithOutputs(Output(job[t]), part, written)
  BY <1>4
<1>6b. PICK written \in SUBSET (nextFile..(nextFile + n - 1)) :
         content' = WithOutputs(Output(job[t]), part, written)
  BY <1>6
<1>7. \A m \in 1..MaxFileNumber : m < nextFile => content'[m] = content[m]
  <2>1. \A m \in written : m \in Nat /\ m >= nextFile
    BY <1>5
  <2>2. \A m \in 1..MaxFileNumber : m \notin written => content'[m] = content[m]
    BY <1>6b DEF WithOutputs, TypeOK
  <2> QED BY <1>5, <2>1, <2>2, SizesAssumption
<1>8. PICK j : j = Idle
  OBVIOUS
<1>9. WriterReads(j)'
  BY <1>1, <1>3, <1>8, NothingInHand DEF ReaderPcs
<1>10. nextFile <= nextFile'
  BY <1>4, <1>5
<1>11. j.pc \notin FlushPcs /\ j.pc \notin {"get", "got"} /\ Set(t, j)
  BY <1>1, <1>8 DEF FlushPcs
<1> QED BY <1>1, <1>2, <1>7, <1>9, <1>10, <1>11, WriterEdits DEF memory, ghosts

-----------------------------------------------------------------------------
(* Flushes *)

LEMMA WriterFlushes ==
    ASSUME NEW j, j.pc \in FlushPcs, FlushOrdered(j)',
           version' = IF j.pc \in {"last", "log"} THEN tables' \cup {[level |-> 0, num |-> j.num]}
                      ELSE tables'
    PROVE  WriterReads(j)' /\ j.pc \notin {"get", "got"} /\ GetSees(j)'
<1>1. /\ j.pc \notin PickedPcs /\ j.pc \notin {"commit", "edits"} /\ j.pc # "load" /\ j.pc # "install"
      /\ j.pc \notin {"wal", "apply"} /\ j.pc # "wal" /\ j.pc # "apply" /\ j.pc \notin {"get", "got"}
  BY DEF FlushPcs, PickedPcs
<1>2. StartsAfter(j)' /\ GetSees(j)'
  BY <1>1 DEF StartsAfter, GetSees
<1>3. JobReads(j)'
  BY <1>1 DEF JobReads
<1>4. j.pc \notin UnsettledPcs => version' = tables'
  BY DEF UnsettledPcs, FlushPcs
<1>5. j.pc \in {"last", "log"} => version' = tables' \cup {[level |-> 0, num |-> j.num]}
  OBVIOUS
<1> QED BY <1>1, <1>2, <1>3, <1>4, <1>5 DEF WriterReads

LEMMA ReadsPublishEdits ==
    ASSUME TypeOK, TypeOK', SingleWriter, ReadsInv, NEW t \in Threads,
           PublishAddFile(t) \/ PublishLastSequence(t)
    PROVE  ReadsInv'
<1>0. PICK o : o = job[t]
  OBVIOUS
<1>1. PICK j : j = IF o.pc = "add" THEN FlushAt("last", o) ELSE FlushAt("log", o)
  OBVIOUS
<1>2. /\ o.pc \in {"add", "last"} /\ Set(t, j) /\ UNCHANGED <<memory, nextFile, files, ghosts, snaps>>
      /\ version' = IF o.pc = "add" THEN version \cup {[level |-> 0, num |-> o.num]} ELSE version
  BY <1>0, <1>1 DEF PublishAddFile, PublishLastSequence
<1>3. j.pc \in {"last", "log"} /\ j.pc \in FlushPcs /\ o.pc \in FlushPcs
      /\ j.num = o.num /\ j.source = o.source
  BY <1>1, <1>2 DEF FlushAt, FlushPcs
<1>4. Maintains(t) /\ WriterReads(o)
  BY <1>0, <1>2, WriterNow DEF ReaderPcs
<1>5. version' = tables' \cup {[level |-> 0, num |-> j.num]}
  BY <1>2, <1>3, <1>4 DEF WriterReads, UnsettledPcs, memory
<1>6. FlushOrdered(j)'
  <2>1. /\ \A f \in tables : f.num < o.num
        /\ o.source = "mutable" => mutable = {} /\ immutables = <<>>
        /\ content[o.num] = held[1]
    BY <1>2, <1>3, <1>4 DEF WriterReads, JobReads, FlushOrdered
  <2> QED BY <1>2, <1>3, <2>1 DEF FlushOrdered, memory, files
<1>7. WriterReads(j)' /\ j.pc \notin {"get", "got"}
  BY <1>3, <1>5, <1>6, WriterFlushes
<1>8. /\ UNCHANGED <<mutable, immutables, held, tables, lastSequence, history, snaps>>
      /\ \A n \in 1..MaxFileNumber : n < nextFile => content'[n] = content[n]
      /\ nextFile <= nextFile' /\ job[t].pc \in FlushPcs /\ j.num = job[t].num
  BY <1>0, <1>2, <1>3 DEF memory, ghosts, files, TypeOK
<1> QED BY <1>2, <1>4, <1>7, <1>8, WriterEdits

\* The flushed memtable becomes a table of level 0: readers find in it what
\* they found in memory.
LEMMA FlushedReadable ==
    ASSUME TypeOK, TypeOK', StoreReads, NEW num \in 1..MaxFileNumber, \A f \in tables : f.num < num,
           Len(held) = 1, content[num] = held[1], held' = <<>>,
           UNCHANGED <<mutable, immutables, lastSequence, content, history, snaps>>,
           NEW new, new = [level |-> 0, num |-> num], NEW fs, fs = tables \cup {new}
    PROVE  Readable(fs)' /\ MemOrdered'
<1>1. /\ Reachable(tables) \subseteq history
      /\ TreeOrdered(content, tables) /\ Older(EntriesOf(content, tables), MemEntries)
      /\ \A s \in {lastSequence} \cup {p.seq : p \in snaps} : Faithful(tables, s)
      /\ MemOrdered
  BY DEF StoreReads, Readable
<1>2. PICK M, h : M = MemEntries' /\ h = held[1]
  OBVIOUS
<1>3. DOMAIN held = {1} /\ DOMAIN held' = {} /\ held' \in Seq(SUBSET Entry)
  BY DEF TypeOK
<1>4. MemEntries = M \cup h
  BY <1>2, <1>3 DEF MemEntries
<1>5. EntriesOf(content', fs) = EntriesOf(content, tables) \cup h
  BY <1>2 DEF EntriesOf
<1>6. Reachable(fs)' = Reachable(tables)
  BY <1>2, <1>4, <1>5 DEF Reachable
<1>7. Older(h, M)
  <2>1. /\ Older(h, mutable) /\ \A l \in DOMAIN immutables : Older(h, immutables[l])
    BY <1>1, <1>2, <1>3 DEF MemOrdered
  <2>2. M = mutable \cup (UNION {immutables[l] : l \in DOMAIN immutables})
    BY <1>2, <1>3 DEF MemEntries
  <2> QED BY <2>1, <2>2 DEF Older
<1>8. Older(EntriesOf(content', fs), MemEntries')
  BY <1>1, <1>2, <1>4, <1>5, <1>7 DEF Older
<1>9. MemOrdered'
  BY <1>1, <1>3 DEF MemOrdered
<1>10. TreeOrdered(content', fs)
  <2>1. \A g \in tables : /\ Older(content[g.num], h) /\ g.num \in Nat /\ g.num < num
                          /\ g.level \in Nat
    <3>1. \A g \in tables : content[g.num] \subseteq EntriesOf(content, tables)
      BY DEF EntriesOf
    <3>2. \A g \in tables : g.num \in Nat /\ g.level \in Nat
      BY FileFacts DEF TypeOK
    <3> QED BY <1>1, <1>4, <3>1, <3>2 DEF Older
  <2>2. new.level = 0 /\ new.num = num /\ content[new.num] = h /\ num \in Nat
    BY <1>2
  <2>3. \A f \in tables : /\ ~(new.level > f.level) /\ new.num # f.num
                          /\ ~(new.num < f.num) /\ new # f
    BY <2>1, <2>2
  <2>4. ASSUME NEW f \in fs, NEW g \in fs
        PROVE  /\ f.level > g.level => Older(content[f.num], content[g.num])
               /\ f.level = 0 /\ g.level = 0 /\ f.num < g.num => Older(content[f.num], content[g.num])
               /\ f.level = g.level /\ f # g =>
                    IF f.level = 0 THEN f.num # g.num
                    ELSE ~ OverlapsEntries(content[f.num], content[g.num])
    <3>1. CASE f \in tables /\ g \in tables
      BY <1>1, <3>1 DEF TreeOrdered
    <3>2. CASE f = new /\ g \in tables
      BY <2>2, <2>3, <3>2
    <3>3. CASE f \in tables /\ g = new
      BY <2>1, <2>2, <2>3, <3>3
    <3>4. CASE f = new /\ g = new
      BY <2>2, <3>4
    <3> QED BY <3>1, <3>2, <3>3, <3>4
  <2> QED BY <2>4 DEF TreeOrdered
<1>11. ASSUME NEW s, s = lastSequence' \/ \E p \in snaps' : s = p.seq PROVE Faithful(fs, s)'
  <2>1. Faithful(tables, s)
    BY <1>1, <1>11
  <2> QED BY <1>6, <2>1 DEF Faithful
<1> QED BY <1>1, <1>6, <1>8, <1>9, <1>10, <1>11 DEF Readable

LEMMA ReadsPublished ==
    ASSUME TypeOK, TypeOK', LocksAndLocals, NumbersInv, SingleWriter, ReadsInv, NEW t \in Threads,
           PublishLogNumber(t)
    PROVE  ReadsInv'
<1>0. PICK o \in Job : o = job[t]
  BY DEF TypeOK
<1>1. /\ o.pc = "log" /\ Set(t, Idle) /\ nextFile' = nextFile + 1 /\ held' = <<>>
      /\ tables' = tables \cup {[level |-> 0, num |-> o.num]}
      /\ UNCHANGED <<mutable, immutables, lastSequence, version, content, history, snaps>>
  BY <1>0 DEF PublishLogNumber, files, ghosts
<1>2. Maintains(t) /\ WriterReads(o) /\ StoreReads
  BY <1>0, <1>1, WriterNow DEF ReaderPcs
<1>3. o.num \in 1..MaxFileNumber /\ o.num < nextFile /\ Len(held) = 1
  <2>1. o.num \in 1..MaxFileNumber
    BY <1>1, JobShapes
  <2>2. o.num < nextFile
    BY <1>0, <1>1 DEF NumbersInv
  <2>3. Len(held) = 1
    BY <1>0, <1>1 DEF LocksAndLocals, LocalsInRange
  <2> QED BY <2>1, <2>2, <2>3
<1>4. /\ \A f \in tables : f.num < o.num
      /\ content[o.num] = held[1]
      /\ version = tables \cup {[level |-> 0, num |-> o.num]}
  BY <1>1, <1>2 DEF WriterReads, JobReads, FlushOrdered, FlushPcs
<1>5. PICK num, new, fs : num = o.num /\ new = [level |-> 0, num |-> num] /\ fs = tables \cup {new}
  OBVIOUS
<1>6. Readable(fs)' /\ MemOrdered'
  <2>1. num \in 1..MaxFileNumber /\ (\A f \in tables : f.num < num) /\ content[num] = held[1]
    BY <1>3, <1>4, <1>5
  <2> QED BY <1>1, <1>2, <1>3, <1>5, <2>1, FlushedReadable
<1>7. Readable(tables)'
  BY <1>1, <1>5, <1>6
<1>8. StoreReads'
  <2>1. \A f \in tables' : f.num < nextFile'
    <3>1. \A f \in tables : f.num \in Nat /\ f.num < nextFile
      BY <1>2, FileFacts DEF StoreReads, TypeOK
    <3>2. nextFile \in Nat /\ o.num \in Nat
      <4>1. nextFile \in Nat
        BY DEF TypeOK
      <4>2. o.num \in Nat
        BY <1>3
      <4> QED BY <4>1, <4>2
    <3>3. \A f \in tables : f.num < nextFile'
      BY <1>1, <3>1, <3>2
    <3>4. o.num < nextFile'
      BY <1>1, <1>3, <3>2
    <3> QED BY <1>1, <3>3, <3>4
  <2> QED BY <1>1, <1>2, <1>6, <1>7, <2>1 DEF StoreReads
<1>9. PICK j : j = Idle
  OBVIOUS
<1>10. Set(t, j) /\ j \in Job /\ j.pc = "idle"
  BY <1>1, <1>9, SetIsJob DEF Idle
<1>11. WriterReads(j)' /\ GetSees(j)'
  <2>1. version' = tables' /\ held' = <<>>
    BY <1>1, <1>4
  <2>2. GetSees(j)'
    BY <1>10 DEF GetSees
  <2> QED BY <1>10, <2>1, <2>2, NothingInHand DEF ReaderPcs
<1>12. KeepsOldTables /\ HistoryGrows
  BY <1>1 DEF KeepsOldTables, HistoryGrows, TypeOK
<1>13. NewNumbers
  <2>1. \A u \in Threads : job'[u] = IF u = t THEN j ELSE job[u]
    BY <1>10 DEF Set, TypeOK
  <2>2. nextFile <= nextFile'
    BY <1>1 DEF TypeOK
  <2>3. ASSUME NEW u \in Threads, job'[u].pc \in FlushPcs
        PROVE  job[u].pc \in FlushPcs /\ job[u].num = job'[u].num
    BY <1>10, <2>1, <2>3 DEF FlushPcs
  <2> QED BY <2>2, <2>3 DEF NewNumbers
<1> QED BY <1>2, <1>8, <1>10, <1>11, <1>12, <1>13, WriterStep

\* A flush takes the oldest memtable, and puts it back when it fails.
LEMMA TakenFromFront ==
    ASSUME TypeOK, MemOrdered, held = <<>>, immutables # <<>>,
           held' = <<Head(immutables)>>, immutables' = Tail(immutables), mutable' = mutable
    PROVE  MemOrdered' /\ MemEntries' = MemEntries
<1> DEFINE n == Len(immutables)
<1>1. /\ n \in Nat /\ n >= 1 /\ DOMAIN immutables = 1..n /\ DOMAIN held = {}
      /\ DOMAIN held' = {1} /\ held'[1] = immutables[1]
      /\ DOMAIN immutables' = 1..(n - 1)
  BY DEF TypeOK
<1>2. \A i \in 1..(n - 1) : immutables'[i] = immutables[i + 1]
  BY DEF TypeOK
<1> HIDE DEF n
<1>3. \A i \in 1..(n - 1) : i + 1 \in 1..n /\ 1 < i + 1
  BY <1>1
<1>4. 1 \in 1..n
  BY <1>1
<1>5. \A i \in DOMAIN held' :
        /\ Older(held'[i], mutable')
        /\ \A l \in DOMAIN immutables' : Older(held'[i], immutables'[l])
  <2>1. Older(immutables[1], mutable) /\ \A l \in 1..n : 1 < l => Older(immutables[1], immutables[l])
    BY <1>1, <1>4 DEF MemOrdered
  <2> QED BY <1>1, <1>2, <1>3, <2>1
<1>6. \A i \in DOMAIN immutables' :
        /\ Older(immutables'[i], mutable')
        /\ \A l \in DOMAIN immutables' : i < l => Older(immutables'[i], immutables'[l])
  <2>1. ASSUME NEW i \in 1..(n - 1), NEW l \in 1..(n - 1), i < l PROVE i + 1 < l + 1
    BY <1>1, <2>1
  <2>2. \A i \in 1..n : /\ Older(immutables[i], mutable)
                        /\ \A l \in 1..n : i < l => Older(immutables[i], immutables[l])
    BY <1>1 DEF MemOrdered
  <2> QED BY <1>1, <1>2, <1>3, <2>1, <2>2
<1>7. MemEntries' = MemEntries
  <2>1. ASSUME NEW i \in 1..n, i # 1 PROVE i - 1 \in 1..(n - 1) /\ immutables'[i - 1] = immutables[i]
    <3>1. i - 1 \in 1..(n - 1) /\ (i - 1) + 1 = i
      BY <1>1, <2>1
    <3> QED BY <1>2, <3>1
  <2>2. ASSUME NEW e \in MemEntries PROVE e \in MemEntries'
    <3>1. e \in mutable \/ \E i \in 1..n : e \in immutables[i]
      BY <1>1, <2>2 DEF MemEntries
    <3>2. ASSUME NEW i \in 1..n, e \in immutables[i]
          PROVE  (\E l \in DOMAIN held' : e \in held'[l]) \/ \E l \in DOMAIN immutables' : e \in immutables'[l]
      <4>1. CASE i = 1
        BY <1>1, <3>2, <4>1
      <4>2. CASE i # 1
        BY <1>1, <2>1, <3>2, <4>2
      <4> QED BY <4>1, <4>2
    <3> QED BY <3>1, <3>2 DEF MemEntries
  <2>3. ASSUME NEW e \in MemEntries' PROVE e \in MemEntries
    <3>1. \/ e \in mutable \/ e \in immutables[1]
          \/ \E i \in 1..(n - 1) : e \in immutables[i + 1]
      BY <1>1, <1>2, <2>3 DEF MemEntries
    <3>2. e \in mutable \/ \E i \in 1..n : e \in immutables[i]
      BY <1>3, <1>4, <3>1
    <3> QED BY <1>1, <3>2 DEF MemEntries
  <2> QED BY <2>2, <2>3
<1> QED BY <1>5, <1>6, <1>7 DEF MemOrdered

LEMMA TakenMutable ==
    ASSUME TypeOK, held = <<>>, immutables = <<>>,
           held' = <<mutable>>, immutables' = immutables, mutable' = {}
    PROVE  MemOrdered' /\ MemEntries' = MemEntries
<1>1. /\ DOMAIN held = {} /\ DOMAIN immutables = {} /\ DOMAIN immutables' = {}
      /\ DOMAIN held' = {1} /\ held'[1] = mutable
  OBVIOUS
<1> QED BY <1>1 DEF MemOrdered, MemEntries, Older

LEMMA RestoredToFront ==
    ASSUME TypeOK, MemOrdered, Len(held) = 1,
           held' = <<>>, immutables' = held \o immutables, mutable' = mutable
    PROVE  MemOrdered' /\ MemEntries' = MemEntries
<1> DEFINE n == Len(immutables)
<1>1. /\ n \in Nat /\ DOMAIN immutables = 1..n /\ DOMAIN held = {1} /\ DOMAIN held' = {}
  BY DEF TypeOK
<1>2. /\ DOMAIN immutables' = 1..(1 + n)
      /\ \A i \in 1..(1 + n) : immutables'[i] = IF i <= 1 THEN held[i] ELSE immutables[i - 1]
  <2>1. held \in Seq(SUBSET Entry) /\ immutables \in Seq(SUBSET Entry)
    BY DEF TypeOK
  <2>2. PICK h \in Seq(SUBSET Entry), u \in Seq(SUBSET Entry) : h = held /\ u = immutables
    BY <2>1
  <2>3. DOMAIN (h \o u) = 1..(Len(h) + Len(u))
    BY ConcatFacts
  <2>4. \A i \in 1..(Len(h) + Len(u)) : (h \o u)[i] = IF i <= Len(h) THEN h[i] ELSE u[i - Len(h)]
    BY ConcatFacts
  <2>5. Len(h) = 1 /\ Len(u) = n /\ immutables' = h \o u
    BY <2>2
  <2> QED BY <2>2, <2>3, <2>4, <2>5
<1> HIDE DEF n
<1>3. \A i \in 1..(1 + n) : i = 1 \/ (i - 1 \in 1..n /\ immutables'[i] = immutables[i - 1] /\ 1 < i)
  BY <1>1, <1>2
<1>4. immutables'[1] = held[1] /\ 1 \in 1..(1 + n)
  BY <1>1, <1>2
<1>5. ASSUME NEW i \in 1..(1 + n), NEW l \in 1..(1 + n), i < l
      PROVE  Older(immutables'[i], immutables'[l])
  <2>1. l - 1 \in 1..n /\ immutables'[l] = immutables[l - 1]
    BY <1>1, <1>3, <1>5
  <2>2. CASE i = 1
    BY <1>1, <1>4, <2>1, <2>2 DEF MemOrdered
  <2>3. CASE i # 1
    <3>1. i - 1 \in 1..n /\ immutables'[i] = immutables[i - 1] /\ i - 1 < l - 1
      BY <1>1, <1>3, <1>5, <2>3
    <3> QED BY <1>1, <2>1, <3>1 DEF MemOrdered
  <2> QED BY <2>2, <2>3
<1>6. ASSUME NEW i \in 1..(1 + n) PROVE Older(immutables'[i], mutable)
  <2>1. CASE i = 1
    BY <1>1, <1>4, <2>1 DEF MemOrdered
  <2>2. CASE i # 1
    BY <1>1, <1>3, <2>2 DEF MemOrdered
  <2> QED BY <2>1, <2>2
<1>7. MemOrdered'
  BY <1>1, <1>2, <1>5, <1>6 DEF MemOrdered
<1>8. MemEntries' = MemEntries
  <2>1. \A i \in 1..n : i + 1 \in 1..(1 + n) /\ immutables'[i + 1] = immutables[i]
    BY <1>1, <1>2
  <2>2. ASSUME NEW e \in MemEntries PROVE e \in MemEntries'
    <3>1. e \in mutable \/ e \in held[1] \/ \E i \in 1..n : e \in immutables[i]
      BY <1>1, <2>2 DEF MemEntries
    <3>2. e \in mutable' \/ \E i \in DOMAIN immutables' : e \in immutables'[i]
      BY <1>2, <1>4, <2>1, <3>1
    <3> QED BY <3>2 DEF MemEntries
  <2>3. ASSUME NEW e \in MemEntries' PROVE e \in MemEntries
    <3>1. e \in mutable \/ \E i \in 1..(1 + n) : e \in immutables'[i]
      BY <1>1, <1>2, <2>3 DEF MemEntries
    <3>2. e \in mutable \/ e \in held[1] \/ \E i \in 1..n : e \in immutables[i]
      BY <1>3, <1>4, <3>1
    <3> QED BY <1>1, <3>2 DEF MemEntries
  <2> QED BY <2>2, <2>3
<1> QED BY <1>7, <1>8

LEMMA RestoredMutable ==
    ASSUME TypeOK, Len(held) = 1, mutable = {}, immutables = <<>>,
           held' = <<>>, immutables' = immutables, mutable' = held[1]
    PROVE  MemOrdered' /\ MemEntries' = MemEntries
<1>1. /\ DOMAIN held = {1} /\ DOMAIN immutables = {} /\ DOMAIN immutables' = {} /\ DOMAIN held' = {}
  BY DEF TypeOK
<1> QED BY <1>1 DEF MemOrdered, MemEntries, Older

\* A step of the writer that leaves the tables, the version and what was
\* written alone and only moves memtables.
LEMMA FlushStep ==
    ASSUME TypeOK, TypeOK', SingleWriter, ReadsInv,
           NEW t \in Threads, Maintains(t), NEW j, Set(t, j), WriterReads(j)', GetSees(j)',
           MemEntries' = MemEntries, MemOrdered',
           UNCHANGED <<tables, lastSequence, history, snaps>>,
           \A f \in tables : content'[f.num] = content[f.num], KeepsOldTables, nextFile <= nextFile',
           j.pc \in FlushPcs => j.num >= nextFile \/ (job[t].pc \in FlushPcs /\ j.num = job[t].num)
    PROVE  ReadsInv'
<1>1. \A u \in Threads : job'[u] = IF u = t THEN j ELSE job[u]
  BY DEF TypeOK, Set
<1>2. j \in Job
  BY SetIsJob
<1>3. HistoryGrows /\ SnapsLive /\ nextFile' \in Nat
  BY DEF HistoryGrows, SnapsLive, TypeOK
<1>4. NewNumbers
  <2>1. ASSUME NEW u \in Threads, job'[u].pc \in FlushPcs
        PROVE  \/ job'[u].num >= nextFile
               \/ \E w \in Threads : job[w].pc \in FlushPcs /\ job[w].num = job'[u].num
    BY <1>1, <2>1
  <2> QED BY <2>1 DEF NewNumbers
<1>5. StoreReads'
  BY <1>3, StoreMoved DEF ReadsInv
<1> QED BY <1>2, <1>3, <1>4, <1>5, WriterStep

LEMMA ReadsBeginFlush ==
    ASSUME TypeOK, TypeOK', SingleWriter, ReadsInv, NEW t \in Threads, BeginFlush(t)
    PROVE  ReadsInv'
<1>1. Maintains(t) /\ WriterReads(job[t]) /\ StoreReads /\ job[t].pc \in {"idle", "flush"}
  <2>1. \/ job[t].pc = "flush"
        \/ job[t].pc = "idle" /\ "flush" \in Ops[t]
    BY DEF BeginFlush, MayFlush, Idle
  <2>2. job[t].pc \notin ReaderPcs \/ Maintains(t)
    BY <2>1 DEF ReaderPcs, Maintains
  <2> QED BY <2>1, <2>2, WriterNow
<1>2. version = tables /\ held = <<>>
  BY <1>1 DEF WriterReads, UnsettledPcs, FlushPcs
<1>3. nextFile \in Nat /\ nextFile' = nextFile + 1 /\ MemOrdered
  BY <1>1 DEF BeginFlush, TypeOK, StoreReads
<1>4. UNCHANGED <<tables, lastSequence, history, snaps, version, content>>
  BY DEF BeginFlush, files, ghosts
<1>5. PICK source : /\ source \in {"mutable", "immutable"}
                    /\ Set(t, [pc |-> "sst", num |-> nextFile, source |-> source])
                    /\ MemOrdered' /\ MemEntries' = MemEntries
                    /\ source = "mutable" => mutable' = {} /\ immutables' = <<>>
  <2>1. CASE immutables # <<>>
    <3>1. /\ held' = <<Head(immutables)>> /\ immutables' = Tail(immutables) /\ mutable' = mutable
          /\ Set(t, [pc |-> "sst", num |-> nextFile, source |-> "immutable"])
      BY <2>1 DEF BeginFlush
    <3>2. MemOrdered' /\ MemEntries' = MemEntries
      BY <1>2, <1>3, <2>1, <3>1, TakenFromFront
    <3> QED BY <3>1, <3>2
  <2>2. CASE immutables = <<>>
    <3>1. /\ held' = <<mutable>> /\ immutables' = immutables /\ mutable' = {}
          /\ Set(t, [pc |-> "sst", num |-> nextFile, source |-> "mutable"])
      BY <2>2 DEF BeginFlush
    <3>2. MemOrdered' /\ MemEntries' = MemEntries
      BY <1>2, <2>2, <3>1, TakenMutable
    <3> QED BY <2>2, <3>1, <3>2
  <2> QED BY <2>1, <2>2
<1>6. PICK j : j = [pc |-> "sst", num |-> nextFile, source |-> source]
  OBVIOUS
<1>7. Set(t, j) /\ j.pc = "sst" /\ j.num = nextFile /\ j.source = source /\ j.pc \in FlushPcs
  BY <1>5, <1>6 DEF FlushPcs
<1>8. FlushOrdered(j)'
  <2>1. \A f \in tables' : f.num < j.num
    BY <1>1, <1>4, <1>7 DEF StoreReads
  <2> QED BY <1>5, <1>7, <2>1 DEF FlushOrdered
<1>9. WriterReads(j)' /\ GetSees(j)'
  <2>1. version' = IF j.pc \in {"last", "log"} THEN tables' \cup {[level |-> 0, num |-> j.num]}
                   ELSE tables'
    BY <1>2, <1>4, <1>7
  <2> QED BY <1>7, <1>8, <2>1, WriterFlushes
<1>10. /\ \A f \in tables : content'[f.num] = content[f.num]
       /\ KeepsOldTables /\ nextFile <= nextFile' /\ j.num >= nextFile
  BY <1>3, <1>4, <1>7 DEF KeepsOldTables
<1> QED BY <1>1, <1>4, <1>5, <1>7, <1>9, <1>10, FlushStep

\* Only the file the flush has allocated is written.
LEMMA RenameKeeps ==
    ASSUME TypeOK, NEW t \in Threads, job[t].pc = "sst", WriterReads(job[t]),
           UNCHANGED content \/ RenameTable(job[t].num, held[1])
    PROVE  KeepsOldTables /\ \A f \in tables : content'[f.num] = content[f.num]
<1>1. PICK num : num = job[t].num
  OBVIOUS
<1>2. \A f \in tables : f.num < num
  BY <1>1 DEF WriterReads, JobReads, FlushOrdered, FlushPcs
<1>3. num \in Nat
  <2>1. PICK o \in Job : o = job[t]
    BY DEF TypeOK
  <2>2. o.num \in 1..MaxFileNumber
    BY <2>1, JobShapes
  <2> QED BY <1>1, <2>1, <2>2
<1>4. \A n \in 1..MaxFileNumber : n # num => content'[n] = content[n]
  BY <1>1 DEF RenameTable, TypeOK
<1>5. \A n \in 1..MaxFileNumber : n < num => content'[n] = content[n]
  BY <1>3, <1>4, SizesAssumption
<1>6. \A f \in tables : f.num \in 1..MaxFileNumber
  BY FileFacts DEF TypeOK
<1>7. KeepsOldTables
  BY <1>1, <1>5 DEF KeepsOldTables, FlushPcs
<1> QED BY <1>2, <1>5, <1>6, <1>7

LEMMA ReadsWriteTable ==
    ASSUME TypeOK, TypeOK', SingleWriter, ReadsInv, NEW t \in Threads, WriteL0Table(t)
    PROVE  ReadsInv'
<1>0. PICK o \in Job : o = job[t]
  BY DEF TypeOK
<1>1. /\ o.pc = "sst" /\ Set(t, FlushAt("add", o)) /\ RenameTable(o.num, held[1])
      /\ UNCHANGED <<memory, versions, ghosts, snaps>>
  BY <1>0 DEF WriteL0Table
<1>2. Maintains(t) /\ WriterReads(o) /\ WriterReads(job[t]) /\ StoreReads
  BY <1>0, <1>1, WriterNow DEF ReaderPcs
<1>3. o.num \in 1..MaxFileNumber
  BY <1>1, JobShapes
<1>4. content'[o.num] = held[1]
  BY <1>1, <1>3 DEF RenameTable, TypeOK
<1>5. KeepsOldTables /\ \A f \in tables : content'[f.num] = content[f.num]
  BY <1>0, <1>1, <1>2, RenameKeeps
<1>6. PICK j : j = FlushAt("add", o)
  OBVIOUS
<1>7. /\ Set(t, j) /\ j.pc = "add" /\ j.num = o.num /\ j.source = o.source /\ j.pc \in FlushPcs
      /\ o.pc \in FlushPcs
  BY <1>1, <1>6 DEF FlushPcs, FlushAt
<1>8. UNCHANGED <<mutable, immutables, held, tables, lastSequence, history, snaps, version, nextFile>>
  BY <1>1 DEF memory, versions, ghosts
<1>9. FlushOrdered(j)'
  <2>1. /\ \A f \in tables : f.num < o.num
        /\ o.source = "mutable" => mutable = {} /\ immutables = <<>>
    BY <1>2, <1>7 DEF WriterReads, JobReads, FlushOrdered
  <2> QED BY <1>4, <1>7, <1>8, <2>1 DEF FlushOrdered
<1>10. WriterReads(j)' /\ GetSees(j)'
  <2>1. version' = IF j.pc \in {"last", "log"} THEN tables' \cup {[level |-> 0, num |-> j.num]}
                   ELSE tables'
    BY <1>1, <1>2, <1>7, <1>8 DEF WriterReads, UnsettledPcs
  <2> QED BY <1>7, <1>9, <2>1, WriterFlushes
<1>11. MemEntries' = MemEntries /\ MemOrdered'
  BY <1>2, <1>8 DEF MemEntries, MemOrdered, StoreReads
<1>12. nextFile <= nextFile' /\ job[t].pc \in FlushPcs /\ j.num = job[t].num
  BY <1>0, <1>7, <1>8 DEF TypeOK
<1> QED BY <1>2, <1>5, <1>7, <1>8, <1>10, <1>11, <1>12, FlushStep

LEMMA ReadsFlushFails ==
    ASSUME TypeOK, TypeOK', LocksAndLocals, SingleWriter, ReadsInv, NEW t \in Threads, FlushFails(t)
    PROVE  ReadsInv'
<1>0. PICK o \in Job : o = job[t]
  BY DEF TypeOK
<1>1. /\ o.pc = "sst" /\ Set(t, Idle)
      /\ UNCHANGED content \/ RenameTable(o.num, held[1])
      /\ Restore(o.source) /\ UNCHANGED <<tables, lastSequence, versions, ghosts, snaps>>
  BY <1>0 DEF FlushFails, files
<1>2. Maintains(t) /\ WriterReads(o) /\ WriterReads(job[t]) /\ StoreReads
  BY <1>0, <1>1, WriterNow DEF ReaderPcs
<1>3. Len(held) = 1 /\ MemOrdered
  BY <1>0, <1>1, <1>2 DEF LocksAndLocals, LocalsInRange, StoreReads
<1>4. o.source \in {"mutable", "immutable"}
  BY <1>1, JobShapes
<1>5. MemOrdered' /\ MemEntries' = MemEntries /\ held' = <<>>
  <2>1. CASE o.source = "immutable"
    <3>1. held' = <<>> /\ immutables' = held \o immutables /\ mutable' = mutable
      BY <1>1, <2>1 DEF Restore
    <3> QED BY <1>3, <3>1, RestoredToFront
  <2>2. CASE o.source = "mutable"
    <3>1. mutable = {} /\ immutables = <<>>
      BY <1>1, <1>2, <2>2 DEF WriterReads, JobReads, FlushOrdered, FlushPcs
    <3>2. held' = <<>> /\ immutables' = immutables /\ mutable' = held[1]
      BY <1>1, <2>2, <3>1 DEF Restore
    <3> QED BY <1>3, <3>1, <3>2, RestoredMutable
  <2> QED BY <1>4, <2>1, <2>2
<1>6. KeepsOldTables /\ \A f \in tables : content'[f.num] = content[f.num]
  BY <1>0, <1>1, <1>2, RenameKeeps
<1>7. PICK j : j = Idle
  OBVIOUS
<1>8. Set(t, j) /\ j.pc = "idle" /\ j.pc \notin FlushPcs /\ j.pc \in ReaderPcs
  BY <1>1, <1>7 DEF Idle, FlushPcs, ReaderPcs
<1>9. version' = tables' /\ nextFile <= nextFile'
  BY <1>1, <1>2 DEF WriterReads, UnsettledPcs, versions, TypeOK
<1>10. WriterReads(j)' /\ GetSees(j)'
  <2>1. GetSees(j)'
    BY <1>8 DEF GetSees
  <2> QED BY <1>5, <1>8, <1>9, <2>1, NothingInHand
<1>11. UNCHANGED <<tables, lastSequence, history, snaps>>
  BY <1>1 DEF ghosts
<1> QED BY <1>2, <1>5, <1>6, <1>8, <1>9, <1>10, <1>11, FlushStep

-----------------------------------------------------------------------------
(* Writes *)

LEMMA BatchNumbers ==
    ASSUME NEW b \in Batch, NEW last \in Nat,
           NEW new, new = BatchEntries(b, last + 1)
    PROVE  /\ Len(b.recs) \in Nat /\ Len(b.recs) >= 1
           /\ new \subseteq Entry /\ UniqueSeqs(new)
           /\ \A e \in new : e.seq \in Nat /\ last < e.seq /\ e.seq <= last + Len(b.recs)
<1>1. /\ Len(b.recs) \in Nat /\ Len(b.recs) >= 1 /\ new \subseteq Entry
  <2>1. last + 1 \in Nat
    OBVIOUS
  <2> QED BY <2>1, BatchEntriesType
<1>2. DOMAIN b.recs = 1..Len(b.recs)
  BY DEF Batch
<1>3. \A e \in new : \E i \in 1..Len(b.recs) :
         e = [key |-> b.recs[i].key, seq |-> last + 1 + i - 1, type |-> b.recs[i].type]
  BY <1>2 DEF BatchEntries
<1>4. \A e \in new : e.seq \in Nat /\ last < e.seq /\ e.seq <= last + Len(b.recs)
  BY <1>1, <1>3
<1>5. UniqueSeqs(new)
  <2> SUFFICES ASSUME NEW e \in new, NEW f \in new, e.seq = f.seq PROVE e = f
    BY DEF UniqueSeqs
  <2>1. PICK i \in 1..Len(b.recs) :
           e = [key |-> b.recs[i].key, seq |-> last + 1 + i - 1, type |-> b.recs[i].type]
    BY <1>3
  <2>2. PICK l \in 1..Len(b.recs) :
           f = [key |-> b.recs[l].key, seq |-> last + 1 + l - 1, type |-> b.recs[l].type]
    BY <1>3
  <2>3. e.seq = last + 1 + i - 1 /\ f.seq = last + 1 + l - 1
    BY <2>1, <2>2
  <2>4. i \in Nat /\ l \in Nat
    BY <1>1
  <2>5. last + 1 + i - 1 = last + 1 + l - 1
    BY <2>3
  <2>6. i = l
    BY ONLY <2>4, <2>5, last \in Nat
  <2> QED BY <2>1, <2>2, <2>6
<1> QED BY <1>1, <1>4, <1>5

\* Whoever read what was written still does when both grow by newer entries.
LEMMA GrowthKeepsReads ==
    ASSUME NEW E, NEW H, E \subseteq H, H \subseteq Entry, UniqueSeqs(H),
           NEW last \in Nat, NEW later \in Nat, last <= later, \A e \in H : e.seq <= last,
           NEW new, new \subseteq Entry, UniqueSeqs(new),
           \A e \in new : last < e.seq /\ e.seq <= later,
           NEW k, Visible(Newest(E, k, last)) = Visible(Newest(H, k, last))
    PROVE  Visible(Newest(E \cup new, k, later)) = Visible(Newest(H \cup new, k, later))
<1>1. \A e \in H \cup new : e.seq \in Nat
  BY DEF Entry
<1>2. UniqueSeqs(H \cup new) /\ UniqueSeqs(E \cup new)
      /\ H \cup new \subseteq Entry /\ E \cup new \subseteq Entry
  BY <1>1 DEF UniqueSeqs
<1>3. CASE \E g \in new : g.key = k
  <2>1. PICK g \in new : g.key = k
    BY <1>3
  <2>2. Newest(new, k, later) # {}
    <3>1. \E e \in new : e \in Newest(new, k, later)
      BY <2>1, NewestExists
    <3> QED BY <3>1
  <2>3. ASSUME NEW X, X \subseteq H
        PROVE  Newest(X \cup new, k, later) = Newest(new, k, later)
    <3>1. PICK F : F = X \cup new
      OBVIOUS
    <3>2. /\ F \subseteq Entry /\ UniqueSeqs(F) /\ new \subseteq F
      BY <1>2, <2>3, <3>1 DEF UniqueSeqs
    <3>3. \A e \in F : e.key = k /\ e.seq <= later =>
             e \in new \/ \A d \in new : d.key = k => e.seq < d.seq
      BY <1>1, <2>3, <3>1
    <3>4. Newest(F, k, later) = Newest(new, k, later)
      BY <2>2, <3>2, <3>3, NewestInPart
    <3> QED BY <3>1, <3>4
  <2> QED BY <2>3
<1>4. CASE \A g \in new : g.key # k
  <2>1. ASSUME NEW X, X \subseteq H PROVE Newest(X \cup new, k, later) = Newest(X, k, last)
    <3>1. VersionsOf(X \cup new, k, later) = VersionsOf(X, k, last)
      BY <1>1, <1>4, <2>1 DEF VersionsOf
    <3> QED BY <3>1 DEF Newest
  <2> QED BY <2>1
<1> QED BY <1>3, <1>4

\* MemTable::put and delete, then freeze_mutable_if_needed.
LEMMA FilledOrdered ==
    ASSUME TypeOK, TypeOK', MemOrdered, held = <<>>, held' = <<>>,
           NEW new, NEW filled, filled = mutable \cup new, Older(MemEntries, new),
           NEW frozen, mutable' = IF frozen THEN {} ELSE filled,
           immutables' = IF frozen THEN Append(immutables, filled) ELSE immutables
    PROVE  MemOrdered' /\ MemEntries' = MemEntries \cup new
<1> DEFINE n == Len(immutables)
<1>1. n \in Nat /\ DOMAIN immutables = 1..n /\ DOMAIN held = {} /\ DOMAIN held' = {}
  BY DEF TypeOK
<1>2. \A i \in 1..n : Older(immutables[i], filled)
  <2>1. \A i \in 1..n : Older(immutables[i], mutable) /\ Older(immutables[i], new)
    <3>1. \A i \in 1..n : immutables[i] \subseteq MemEntries
      BY <1>1 DEF MemEntries
    <3> QED BY <1>1, <3>1 DEF MemOrdered, Older
  <2> QED BY <2>1 DEF Older
<1>3. CASE frozen
  <2>1. immutables' = Append(immutables, filled) /\ mutable' = {}
    BY <1>3
  <2>2. immutables \in Seq(SUBSET Entry) /\ filled \in SUBSET Entry
    <3>1. immutables' \in Seq(SUBSET Entry)
      BY DEF TypeOK
    <3>2. immutables \in Seq(SUBSET Entry)
      BY DEF TypeOK
    <3>3. Append(immutables, filled)[n + 1] = filled /\ DOMAIN Append(immutables, filled) = 1..(n + 1)
      BY <3>2
    <3> QED BY <1>1, <2>1, <3>1, <3>2, <3>3
  <2>3. DOMAIN immutables' = 1..(n + 1) /\ immutables'[n + 1] = filled
    BY <2>1, <2>2
  <2>4. \A i \in 1..n : immutables'[i] = immutables[i]
    BY <2>1, <2>2
  <2> HIDE DEF n
  <2>5. \A i \in 1..(n + 1) : i = n + 1 \/ i \in 1..n
    BY <1>1
  <2>6. \A i \in 1..n : i \in 1..(n + 1) /\ i < n + 1
    BY <1>1
  <2>7. n + 1 \in 1..(n + 1)
    BY <1>1
  <2>8. ASSUME NEW i \in 1..(n + 1), NEW l \in 1..(n + 1), i < l
        PROVE  Older(immutables'[i], immutables'[l])
    <3>1. i \in 1..n /\ immutables'[i] = immutables[i]
      BY <1>1, <2>4, <2>8
    <3>2. CASE l = n + 1
      BY <1>2, <2>3, <3>1, <3>2
    <3>3. CASE l \in 1..n
      BY <1>1, <2>4, <2>8, <3>1, <3>3 DEF MemOrdered
    <3> QED BY <2>5, <3>2, <3>3
  <2>9. MemOrdered'
    BY <1>1, <2>1, <2>3, <2>8 DEF MemOrdered, Older
  <2>10. MemEntries' = MemEntries \cup new
    <3>1. \A e : (\E i \in 1..(n + 1) : e \in immutables'[i])
                   <=> (e \in filled \/ \E i \in 1..n : e \in immutables[i])
      BY <2>3, <2>4, <2>5, <2>6, <2>7
    <3>2. MemEntries' = UNION {immutables'[i] : i \in 1..(n + 1)}
      BY <1>1, <2>1, <2>3 DEF MemEntries
    <3>3. MemEntries = mutable \cup (UNION {immutables[i] : i \in 1..n})
      BY <1>1 DEF MemEntries
    <3> QED BY <3>1, <3>2, <3>3
  <2> QED BY <2>9, <2>10
<1>4. CASE ~frozen
  <2>1. immutables' = immutables /\ mutable' = filled
    BY <1>4
  <2>2. MemOrdered'
    BY <1>1, <1>2, <2>1 DEF MemOrdered
  <2>3. MemEntries' = MemEntries \cup new
    BY <2>1 DEF MemEntries
  <2> QED BY <2>2, <2>3
<1> QED BY <1>3, <1>4

LEMMA AppliedReadable ==
    ASSUME TypeOK, TypeOK', StoreReads, NEW new, new \subseteq Entry, UniqueSeqs(new),
           lastSequence <= lastSequence',
           \A e \in new : lastSequence < e.seq /\ e.seq <= lastSequence',
           history' = history \cup new, MemEntries' = MemEntries \cup new,
           UNCHANGED <<tables, content, snaps>>
    PROVE  /\ Readable(tables)' /\ UniqueSeqs(history')
           /\ \A e \in history' : e.seq <= lastSequence'
           /\ \A p \in snaps' : p.seq <= lastSequence'
<1>1. /\ Reachable(tables) \subseteq history
      /\ TreeOrdered(content, tables) /\ Older(EntriesOf(content, tables), MemEntries)
      /\ \A s \in {lastSequence} \cup {p.seq : p \in snaps} : Faithful(tables, s)
      /\ UniqueSeqs(history) /\ \A e \in history : e.seq <= lastSequence
      /\ \A p \in snaps : p.seq <= lastSequence
  BY DEF StoreReads, Readable
<1>2. /\ lastSequence \in Nat /\ lastSequence' \in Nat /\ history \subseteq Entry
      /\ \A p \in snaps : p.seq \in Nat
  BY DEF TypeOK
<1>3. \A e \in history \cup new : e.seq \in Nat
  BY <1>2 DEF Entry
<1>4. PICK fs, E : fs = tables /\ E = Reachable(tables)
  OBVIOUS
<1>5. Reachable(fs)' = E \cup new
  BY <1>4 DEF Reachable
<1>6. EntriesOf(content', fs) = EntriesOf(content, tables) /\ EntriesOf(content, tables) \subseteq history
  BY <1>1, <1>4 DEF Reachable
<1>7. Older(EntriesOf(content', fs), MemEntries')
  BY <1>1, <1>2, <1>3, <1>6 DEF Older
<1>8. ASSUME NEW k \in Keys
      PROVE  Visible(Newest(E \cup new, k, lastSequence')) = Visible(Newest(history', k, lastSequence'))
  <2>1. PICK H, last, later : H = history /\ last = lastSequence /\ later = lastSequence'
    OBVIOUS
  <2>2. Visible(Newest(E, k, last)) = Visible(Newest(H, k, last))
    BY <1>1, <1>4, <2>1 DEF Faithful
  <2>3. /\ E \subseteq H /\ H \subseteq Entry /\ UniqueSeqs(H) /\ last \in Nat /\ later \in Nat
        /\ last <= later /\ \A e \in H : e.seq <= last
    BY <1>1, <1>2, <1>4, <2>1
  <2>4. \A e \in new : last < e.seq /\ e.seq <= later
    BY <2>1
  <2>5. Visible(Newest(E \cup new, k, later)) = Visible(Newest(H \cup new, k, later))
    BY <2>2, <2>3, <2>4, GrowthKeepsReads
  <2> QED BY <2>1, <2>5
<1>9. ASSUME NEW p \in snaps, NEW k \in Keys
      PROVE  Visible(Newest(E \cup new, k, p.seq)) = Visible(Newest(history', k, p.seq))
  <2>1. PICK s : s = p.seq
    OBVIOUS
  <2>2. \A e \in new : ~(e.seq <= s)
    BY <1>1, <1>2, <1>3, <2>1
  <2>3. /\ Newest(E \cup new, k, s) = Newest(E, k, s)
        /\ Newest(history \cup new, k, s) = Newest(history, k, s)
    <3>1. /\ VersionsOf(E \cup new, k, s) = VersionsOf(E, k, s)
          /\ VersionsOf(history \cup new, k, s) = VersionsOf(history, k, s)
      BY <2>2 DEF VersionsOf
    <3> QED BY <3>1 DEF Newest
  <2>4. Visible(Newest(E, k, s)) = Visible(Newest(history, k, s))
    BY <1>1, <1>4, <2>1 DEF Faithful
  <2> QED BY <2>1, <2>3, <2>4
<1>10. ASSUME NEW s, s = lastSequence' \/ \E p \in snaps' : s = p.seq PROVE Faithful(fs, s)'
  BY <1>5, <1>8, <1>9, <1>10 DEF Faithful
<1>11. Readable(fs)'
  <2>1. Reachable(fs)' \subseteq history'
    BY <1>1, <1>4, <1>5
  <2>2. TreeOrdered(content', fs)
    BY <1>1, <1>4
  <2> QED BY <1>7, <1>10, <2>1, <2>2 DEF Readable
<1>12. Readable(tables)'
  BY <1>4, <1>11
<1>13. UniqueSeqs(history')
  BY <1>1, <1>2, <1>3 DEF UniqueSeqs
<1>14. \A e \in history' : e.seq <= lastSequence'
  BY <1>1, <1>2, <1>3
<1>15. \A p \in snaps' : p.seq <= lastSequence'
  BY <1>1, <1>2
<1> QED BY <1>12, <1>13, <1>14, <1>15

LEMMA ReadsApply ==
    ASSUME TypeOK, TypeOK', LocksAndLocals, SingleWriter, ReadsInv, NEW t \in Threads, ApplyItem(t)
    PROVE  ReadsInv'
<1>0. PICK o \in Job : o = job[t]
  BY DEF TypeOK
<1>1. PICK b, start : b = o.group[o.item] /\ start = o.starts[o.item]
  OBVIOUS
<1>2. PICK new : new = BatchEntries(b, start)
  OBVIOUS
<1>3. PICK filled, frozen, flush :
         /\ filled = mutable \cup new /\ frozen = IsFull(filled)
         /\ flush = (o.shouldFlush \/ frozen)
  OBVIOUS
<1>4. PICK j : j = IF o.item < Len(o.group)
                   THEN [pc |-> "apply", group |-> o.group, starts |-> o.starts,
                         item |-> o.item + 1, shouldFlush |-> flush]
                   ELSE IF flush THEN [pc |-> "flush"] ELSE Idle
  OBVIOUS
<1>5. /\ o.pc = "apply"
      /\ mutable' = IF frozen THEN {} ELSE filled
      /\ immutables' = IF frozen THEN Append(immutables, filled) ELSE immutables
      /\ lastSequence' = MaxOf(lastSequence, start + Len(b.recs) - 1)
      /\ history' = history \cup new
      /\ UNCHANGED <<held, tables, versions, content, snaps>>
  BY <1>0, <1>1, <1>2, <1>3 DEF ApplyItem, Insert, files
<1>6. Set(t, j)
  BY <1>0, <1>1, <1>2, <1>3, <1>4, Zenon DEF ApplyItem, Insert
<1>7. Maintains(t) /\ WriterReads(o) /\ StoreReads
  BY <1>0, <1>5, WriterNow DEF ReaderPcs
<1>8. /\ version = tables /\ held = <<>> /\ StartsAfter(o)
      /\ start = lastSequence + 1 /\ lastSequence \in Nat
  BY <1>1, <1>5, <1>7 DEF WriterReads, UnsettledPcs, FlushPcs, StartsAfter, TypeOK
<1>9. o.item \in 1..Len(o.group) /\ Len(o.starts) = Len(o.group)
  BY <1>0, <1>5 DEF LocksAndLocals, LocalsInRange
<1>10. o.group \in Group /\ o.starts \in Seq(Nat)
  BY <1>5, JobShapes
<1>11. o.group \in Seq(Batch) /\ Len(o.group) \in Nat /\ b \in Batch
  BY <1>1, <1>9, <1>10, GroupFacts
<1>12. PICK n \in Nat : n = Len(b.recs)
  BY <1>8, <1>11, BatchNumbers
<1>13. /\ n >= 1 /\ new \subseteq Entry /\ UniqueSeqs(new)
       /\ \A e \in new : e.seq \in Nat /\ lastSequence < e.seq /\ e.seq <= lastSequence + n
  <2>1. PICK last \in Nat : last = lastSequence
    BY <1>8
  <2>2. new = BatchEntries(b, last + 1)
    BY <1>2, <1>8, <2>1
  <2>3. /\ Len(b.recs) >= 1 /\ new \subseteq Entry /\ UniqueSeqs(new)
        /\ \A e \in new : e.seq \in Nat /\ last < e.seq /\ e.seq <= last + Len(b.recs)
    BY <1>11, <2>2, BatchNumbers
  <2> QED BY <1>12, <2>1, <2>3
<1>14. lastSequence' = lastSequence + n
  <2>1. PICK last \in Nat, top \in Nat : last = lastSequence /\ top = last + n
    BY <1>8
  <2>2. last + 1 + n - 1 = top /\ (last > top => FALSE)
    BY <2>1
  <2>3. MaxOf(last, top) = top
    BY <2>1, <2>2 DEF MaxOf
  <2>4. start + Len(b.recs) - 1 = top
    BY <1>8, <1>12, <2>1, <2>2
  <2> QED BY <1>5, <2>1, <2>3, <2>4
<1>15. lastSequence <= lastSequence' /\ \A e \in new : lastSequence < e.seq /\ e.seq <= lastSequence'
  BY <1>8, <1>13, <1>14
<1>16. MemOrdered' /\ MemEntries' = MemEntries \cup new
  <2>1. \A e \in MemEntries : e \in history /\ e.seq <= lastSequence /\ e.seq \in Nat
    <3>1. MemEntries \subseteq history
      BY <1>7 DEF StoreReads, Readable, Reachable
    <3> QED BY <1>7, <3>1 DEF StoreReads, TypeOK, Entry
  <2>2. Older(MemEntries, new)
    BY <1>8, <1>13, <2>1 DEF Older
  <2>3. MemOrdered /\ held' = <<>>
    BY <1>5, <1>7, <1>8 DEF StoreReads
  <2> QED BY <1>3, <1>5, <1>8, <2>2, <2>3, FilledOrdered
<1>17. StoreReads'
  <2>1. /\ Readable(tables)' /\ UniqueSeqs(history')
        /\ \A e \in history' : e.seq <= lastSequence'
        /\ \A p \in snaps' : p.seq <= lastSequence'
    BY <1>5, <1>7, <1>13, <1>15, <1>16, AppliedReadable
  <2>2. \A f \in tables' : f.num < nextFile'
    BY <1>5, <1>7 DEF StoreReads, versions
  <2> QED BY <1>16, <2>1, <2>2 DEF StoreReads
<1>18. version' = tables' /\ held' = <<>>
  BY <1>5, <1>8 DEF versions
<1>19. WriterReads(j)' /\ GetSees(j)' /\ j.pc \in {"apply", "flush", "idle"}
  <2>1. CASE o.item < Len(o.group)
    <3>1. j.pc = "apply" /\ j.group = o.group /\ j.starts = o.starts /\ j.item = o.item + 1
      BY <1>4, <2>1
    <3>2. \A m \in 1..(Len(o.starts) - 1) : o.starts[m + 1] = o.starts[m] + Len(o.group[m].recs)
      BY <1>5, <1>8 DEF StartsAfter
    <3>3. o.item \in 1..(Len(o.starts) - 1)
      BY <1>9, <1>11, <2>1
    <3>4. o.starts[o.item + 1] = lastSequence + 1 + n
      BY <1>1, <1>8, <1>12, <3>2, <3>3
    <3>5. o.starts[o.item + 1] = lastSequence' + 1
      <4>1. PICK last \in Nat : last = lastSequence
        BY <1>8
      <4>2. last + 1 + n = (last + n) + 1
        OBVIOUS
      <4> QED BY <1>14, <3>4, <4>1, <4>2
    <3>6. StartsAfter(j)'
      BY <3>1, <3>2, <3>5 DEF StartsAfter
    <3>7. FlushOrdered(j)'
      BY <3>1 DEF FlushOrdered, FlushPcs
    <3>8. JobReads(j)' /\ GetSees(j)'
      BY <3>1, <3>7 DEF JobReads, GetSees, PickedPcs
    <3> QED BY <1>18, <3>1, <3>6, <3>8 DEF WriterReads
  <2>2. CASE ~(o.item < Len(o.group))
    <3>1. j.pc \in {"flush", "idle"}
      BY <1>4, <2>2 DEF Idle
    <3>2. j.pc \in ReaderPcs \cup {"flush", "pressure", "lock", "unlink"}
      BY <3>1 DEF ReaderPcs
    <3>3. GetSees(j)'
      BY <3>1 DEF GetSees
    <3> QED BY <1>18, <3>1, <3>2, <3>3, NothingInHand
  <2> QED BY <2>1, <2>2
<1>20. KeepsOldTables /\ HistoryGrows
  <2>1. HistoryGrows
    BY <1>5, <1>13, <1>15, <1>8 DEF HistoryGrows
  <2> QED BY <1>5, <2>1 DEF KeepsOldTables
<1>21. NewNumbers
  <2>1. \A u \in Threads : job'[u] = IF u = t THEN j ELSE job[u]
    BY <1>6 DEF Set, TypeOK
  <2>2. nextFile <= nextFile'
    BY <1>5 DEF versions, TypeOK
  <2>3. ASSUME NEW u \in Threads, job'[u].pc \in FlushPcs
        PROVE  job[u].pc \in FlushPcs /\ job[u].num = job'[u].num
    BY <1>19, <2>1, <2>3 DEF FlushPcs
  <2> QED BY <2>2, <2>3 DEF NewNumbers
<1>22. j \in Job
  BY <1>6, SetIsJob
<1> QED BY <1>6, <1>7, <1>17, <1>19, <1>20, <1>21, <1>22, WriterStep

-----------------------------------------------------------------------------
(* All steps *)

LEMMA ReadsInit == Init => ReadsInv
<1> SUFFICES ASSUME Init PROVE ReadsInv
  OBVIOUS
<1>1. /\ mutable = {} /\ immutables = <<>> /\ held = <<>> /\ tables = {} /\ version = {}
      /\ history = {} /\ snaps = {}
  BY DEF Init
<1>2. DOMAIN held = {} /\ DOMAIN immutables = {}
  BY <1>1
<1>3. MemEntries = {} /\ EntriesOf(content, tables) = {} /\ Reachable(tables) = {}
  BY <1>1, <1>2 DEF MemEntries, EntriesOf, Reachable
<1>4. \A s : Faithful(tables, s)
  BY <1>1, <1>3 DEF Faithful
<1>5. Readable(tables)
  BY <1>1, <1>3, <1>4 DEF Readable, TreeOrdered, Older
<1>6. MemOrdered
  BY <1>2 DEF MemOrdered
<1>7. StoreReads
  BY <1>1, <1>5, <1>6 DEF StoreReads, UniqueSeqs
<1>8. ASSUME NEW t \in Threads
      PROVE  job[t].pc \in ReaderPcs /\ WriterReads(job[t]) /\ GetSees(job[t])
  <2>1. PICK j : j = job[t]
    OBVIOUS
  <2>2. j.pc = "idle" /\ j.pc \in ReaderPcs
    BY <2>1 DEF Init, Idle, ReaderPcs
  <2>3. GetSees(j)
    BY <2>2 DEF GetSees
  <2>4. WriterReads(j)
    BY <1>1, <2>2, NothingInHand
  <2> QED BY <2>1, <2>2, <2>3, <2>4
<1> QED BY <1>7, <1>8 DEF ReadsInv

\* What the theorems about reads ask for: one thread writes, flushes and
\* compacts, and compacts the whole key space; no user key is empty; the
\* process does not crash, and of its I/O only appends to the WAL and table
\* writes fail.
ReadsAssumptions ==
    /\ SingleWriter /\ Ranges \subseteq {FullRange} /\ EmptyKey \notin Keys
    /\ Failures \subseteq {"wal", "table"}

LEMMA ReadsStep ==
    ASSUME ReadsAssumptions
    PROVE  TypeOK /\ LocksAndLocals /\ NumbersInv /\ ReadsInv /\ [Next]_vars => ReadsInv'
<1>0. /\ SingleWriter /\ Ranges \subseteq {FullRange} /\ EmptyKey \notin Keys
      /\ Failures \subseteq {"wal", "table"}
  BY DEF ReadsAssumptions
<1> SUFFICES ASSUME TypeOK, LocksAndLocals, NumbersInv, ReadsInv, [Next]_vars PROVE ReadsInv'
  OBVIOUS
<1>1. TypeOK'
  BY TypeStep
<1>2. CASE UNCHANGED vars
  <2>1. /\ SnapsLive
        /\ UNCHANGED <<mutable, immutables, held, tables, lastSequence, history, version,
                       content, nextFile, job>>
    BY <1>2 DEF vars, memory, versions, files, ghosts, SnapsLive
  <2> QED BY <1>1, <2>1, OutsideStep
<1>3. ASSUME NEW t \in Threads, ThreadStep(t) PROVE ReadsInv'
  <2>1. CASE \/ \E g \in Groups : BeginWrite(t, g)
             \/ WalFails(t) \/ FlushNothing(t) \/ FlushRefused(t)
             \/ CompactionFails(t) \/ DeleteObsoleteFiles(t)
    BY <1>1, <2>1, ReadsRest
  <2>2. CASE LockState(t) \/ AppendWal(t)
    BY <1>1, <2>2, ReadsLog
  <2>3. CASE ApplyItem(t)
    BY <1>0, <1>1, <2>3, ReadsApply
  <2>4. CASE BeginFlush(t)
    BY <1>0, <1>1, <2>4, ReadsBeginFlush
  <2>5. CASE WriteL0Table(t)
    BY <1>0, <1>1, <2>5, ReadsWriteTable
  <2>6. CASE FlushFails(t)
    BY <1>0, <1>1, <2>6, ReadsFlushFails
  <2>7. CASE PublishAddFile(t) \/ PublishLastSequence(t)
    BY <1>0, <1>1, <2>7, ReadsPublishEdits
  <2>8. CASE PublishLogNumber(t)
    BY <1>0, <1>1, <2>8, ReadsPublished
  <2>9. CASE (\E r \in Ranges : CompactRange(t, r)) \/ CompactUnderPressure(t)
    BY <1>0, <1>1, <2>9, ReadsPick
  <2>10. CASE ReadOldest(t) \/ ReadLastSequence(t) \/ CheckTombstones(t)
    BY <1>1, <2>10, ReadsWatermark
  <2>11. CASE TrivialMove(t) \/ WriteOutputs(t)
    BY <1>0, <1>1, <2>11, ReadsRun
  <2>12. CASE OutputsFail(t)
    BY <1>0, <1>1, <2>12, ReadsRunFails
  <2>13. CASE CommitDelete(t) \/ CommitAdd(t)
    BY <1>0, <1>1, <2>13, ReadsCommit
  <2>14. CASE LoadVersion(t) \/ InstallTables(t)
    BY <1>0, <1>1, <2>14, ReadsInstall
  <2>15. CASE \/ \E k \in Keys : \E pin \in {{}} \cup {{s} : s \in snaps} : GetMemtables(t, k, pin)
              \/ GetTables(t) \/ ReturnGet(t) \/ Close(t)
    BY <1>1, <2>15, ReadsReads
  <2>16. CASE PublishFails(t) \/ CommitFails(t)
    BY <1>0, <2>16 DEF PublishFails, CommitFails, Fail
  <2> QED BY <1>3, <2>1, <2>2, <2>3, <2>4, <2>5, <2>6, <2>7, <2>8, <2>9, <2>10, <2>11, <2>12,
             <2>13, <2>14, <2>15, <2>16, Zenon DEF ThreadStep
<1>4. ASSUME NEW h \in Holders, TakeSnapshot(h) \/ DropSnapshot(h) PROVE ReadsInv'
  BY <1>1, <1>4, ReadsSnapshots
<1>5. CASE CrashAndOpen
  BY <1>0, <1>5 DEF CrashAndOpen, Fail
<1> QED BY <1>2, <1>3, <1>4, <1>5, Zenon DEF Next

LEMMA ReadsHold ==
    ASSUME ReadsAssumptions PROVE Spec => [](TypeOK /\ StoreReads /\ ReadsInv)
<1>1. ReadsInv => StoreReads
  BY DEF ReadsInv
<1> QED BY <1>1, ReadsInit, ReadsStep, NumbersHold, PTL DEF Spec

LEMMA LookupAgrees ==
    ASSUME TypeOK, StoreReads, NEW k \in Keys,
           NEW s \in {lastSequence} \cup {p.seq : p \in snaps}
    PROVE  /\ Lookup(k, s) = Newest(Reachable(tables), k, s)
           /\ Visible(Lookup(k, s)) = Visible(Newest(history, k, s))
<1>1. s \in Nat
  BY DEF TypeOK
<1>2. Lookup(k, s) = Newest(Reachable(tables), k, s)
  BY <1>1, LookupIsNewest
<1>3. Faithful(tables, s)
  BY DEF StoreReads, Readable
<1> QED BY <1>2, <1>3 DEF Faithful

\* DB::get: whatever the writer has frozen, flushed or compacted, or is in the
\* middle of, a reader finds the last write of each key.
THEOREM ReadsAreLatest ==
    ASSUME ReadsAssumptions PROVE Spec => []ReadsLatest
<1>1. TypeOK /\ StoreReads => ReadsLatest
  <2> SUFFICES ASSUME TypeOK, StoreReads, NEW k \in Keys
               PROVE  Visible(Lookup(k, lastSequence)) = Visible(Newest(history, k, lastSequence))
    BY DEF ReadsLatest
  <2>1. PICK s : s = lastSequence
    OBVIOUS
  <2>2. Visible(Lookup(k, s)) = Visible(Newest(history, k, s))
    BY <2>1, LookupAgrees
  <2> QED BY <2>1, <2>2
<1> QED BY <1>1, ReadsHold, PTL

\* Snapshot and gc_watermark: no compaction collects a version that a live
\* snapshot reads, although the oldest active sequence and last_sequence are
\* read in two steps with writes and new snapshots between.
THEOREM SnapshotsAreStable ==
    ASSUME ReadsAssumptions PROVE Spec => []SnapshotsStable
<1>1. TypeOK /\ StoreReads => SnapshotsStable
  <2> SUFFICES ASSUME TypeOK, StoreReads, NEW p \in snaps, NEW k \in Keys
               PROVE  Visible(Lookup(k, p.seq)) = Visible(Newest(history, k, p.seq))
    BY DEF SnapshotsStable
  <2>1. PICK s : s = p.seq
    OBVIOUS
  <2>2. Visible(Lookup(k, s)) = Visible(Newest(history, k, s))
    BY <2>1, LookupAgrees
  <2> QED BY <2>1, <2>2
<1> QED BY <1>1, ReadsHold, PTL

\* get_opt searches the tables it remembered without the lock, while the
\* writer flushes, compacts and unlinks: what it returns was right at its
\* sequence.
THEOREM GetsAreLinearizable ==
    ASSUME ReadsAssumptions PROVE Spec => []GetsLinearizable
<1>1. ReadsInv => GetsLinearizable
  BY DEF ReadsInv, GetSees, GetsLinearizable
<1> QED BY <1>1, ReadsHold, PTL

\* DB::scan merges everything, DB::get stops at the first hit: both find the
\* same.
THEOREM ScansAlwaysAgreeWithGets ==
    ASSUME ReadsAssumptions PROVE Spec => []ScansAgreeWithGets
<1>1. TypeOK /\ StoreReads => ScansAgreeWithGets
  <2> SUFFICES ASSUME TypeOK, StoreReads, NEW k \in Keys,
                      NEW s \in {lastSequence} \cup {p.seq : p \in snaps}
               PROVE  ScanLookup(k, s) = Lookup(k, s)
    BY DEF ScansAgreeWithGets
  <2>1. Scanned = Reachable(tables)
    <3>1. Scanned = (UNION {Memtables[i] : i \in DOMAIN Memtables}) \cup EntriesOf(content, tables)
      BY DEF Scanned, Merged
    <3> QED BY <3>1, MemtablesUnion DEF Reachable
  <2>2. Lookup(k, s) = Newest(Reachable(tables), k, s)
    BY LookupAgrees
  <2> QED BY <2>1, <2>2 DEF ScanLookup
<1> QED BY <1>1, ReadsHold, PTL

-----------------------------------------------------------------------------
(* The refinement: where reads find what was written, the abstract map and *)
(* the views can be read from history, which no step of a flush or a       *)
(* compaction changes.                                                     *)

Shown(s) == [k \in Keys |-> Visible(Newest(history, k, s))]
ShownTo(h) == {Shown(p.seq) : p \in {q \in snaps : q.holder = h}}

\* The refinement mapping in terms of history.
MapsAreShown ==
    /\ [k \in Keys |-> Visible(Lookup(k, lastSequence))] = Shown(lastSequence)
    /\ [h \in Holders |->
          {[k \in Keys |-> Visible(Lookup(k, s.seq))] :
              s \in {p \in snaps : p.holder = h}}] = [h \in Holders |-> ShownTo(h)]

LEMMA MapIsHistory == ASSUME TypeOK, StoreReads PROVE MapsAreShown
<1>1. ASSUME NEW s \in {lastSequence} \cup {p.seq : p \in snaps}
      PROVE  [k \in Keys |-> Visible(Lookup(k, s))] = Shown(s)
  <2>1. \A k \in Keys : Visible(Lookup(k, s)) = Visible(Newest(history, k, s))
    BY LookupAgrees
  <2> QED BY <2>1 DEF Shown
<1>2. \A p \in snaps : [k \in Keys |-> Visible(Lookup(k, p.seq))] = Shown(p.seq)
  BY <1>1
<1>3. ASSUME NEW h \in Holders
      PROVE  {[k \in Keys |-> Visible(Lookup(k, s.seq))] : s \in {p \in snaps : p.holder = h}}
               = ShownTo(h)
  BY <1>2 DEF ShownTo
<1> QED BY <1>1, <1>3 DEF MapsAreShown

Greatest(S) == CHOOSE i \in S : \A j \in S : j <= i

\* The value of a key after a batch: that of its last record for the key, if
\* there is one.
Below(H, last) == H \subseteq Entry /\ UniqueSeqs(H) /\ \A e \in H : e.seq <= last
WithBatch(H, b, k, last) ==
    Visible(Newest(H \cup BatchEntries(b, last + 1), k, last + Len(b.recs)))
LastRecord(H, b, k, last) ==
    LET mine == {i \in DOMAIN b.recs : b.recs[i].key = k}
    IN  IF mine = {} THEN Visible(Newest(H, k, last))
        ELSE IF b.recs[Greatest(mine)].type = "put" THEN {last + Greatest(mine)}
        ELSE {}

LEMMA BatchIsApplied ==
    ASSUME NEW H, NEW last \in Nat, Below(H, last), NEW b \in Batch, NEW k \in Keys
    PROVE  WithBatch(H, b, k, last) = LastRecord(H, b, k, last)
<1>0. H \subseteq Entry /\ UniqueSeqs(H) /\ \A e \in H : e.seq <= last
  BY DEF Below
<1> USE <1>0
<1>m. PICK mine : mine = {i \in DOMAIN b.recs : b.recs[i].key = k}
  OBVIOUS
<1> SUFFICES Visible(Newest(H \cup BatchEntries(b, last + 1), k, last + Len(b.recs)))
             = IF mine = {} THEN Visible(Newest(H, k, last))
               ELSE IF b.recs[Greatest(mine)].type = "put" THEN {last + Greatest(mine)}
               ELSE {}
  BY <1>m DEF WithBatch, LastRecord
<1> USE <1>m
<1> DEFINE n == Len(b.recs)
           new == BatchEntries(b, last + 1)
           at(i) == [key |-> b.recs[i].key, seq |-> last + i, type |-> b.recs[i].type]
<1>1. /\ n \in Nat /\ new \subseteq Entry /\ UniqueSeqs(new)
      /\ \A e \in new : e.seq \in Nat /\ last < e.seq /\ e.seq <= last + n
  BY BatchNumbers
<1>2. DOMAIN b.recs = 1..n /\ \A i \in 1..n : b.recs[i] \in Record
  BY DEF Batch
<1>3. new = {at(i) : i \in 1..n}
  <2>1. \A i \in 1..n : last + 1 + i - 1 = last + i
    BY <1>1
  <2> QED BY <1>2, <2>1 DEF BatchEntries
<1>4. UniqueSeqs(H \cup new) /\ H \cup new \subseteq Entry /\ \A e \in H \cup new : e.seq \in Nat
  <2>1. \A e \in H : e.seq \in Nat
    BY DEF Entry
  <2> QED BY <1>1, <2>1 DEF UniqueSeqs
<1>5. CASE mine = {}
  <2>1. \A e \in new : e.key # k
    BY <1>2, <1>3, <1>5
  <2>2. VersionsOf(H \cup new, k, last + n) = VersionsOf(H, k, last)
    BY <1>1, <1>4, <2>1 DEF VersionsOf
  <2> QED BY <1>5, <2>2 DEF Newest
<1>6. CASE mine # {}
  <2>1. mine \subseteq Nat /\ \A i \in mine : i <= n
    BY <1>2
  <2>2. PICK top \in mine : top = Greatest(mine)
    <3>1. \E i \in mine : \A j \in mine : j <= i
      BY <1>1, <1>6, <2>1, GreatestElement
    <3> QED BY <3>1 DEF Greatest
  <2>3. \A j \in mine : j <= top
    <3>1. \E i \in mine : \A j \in mine : j <= i
      BY <1>1, <1>6, <2>1, GreatestElement
    <3> QED BY <2>2, <3>1 DEF Greatest
  <2>4. top \in 1..n /\ b.recs[top].key = k
    BY <1>2
  <2>5. at(top) \in Newest(H \cup new, k, last + n)
    <3>1. at(top) \in H \cup new /\ at(top).key = k /\ at(top).seq <= last + n
      BY <1>1, <1>3, <2>4
    <3>2. ASSUME NEW f \in H \cup new, f.key = k, f.seq <= last + n
          PROVE  f.seq <= at(top).seq
      <4>1. CASE f \in H
        BY <1>1, <1>4, <2>4, <4>1
      <4>2. CASE f \in new
        <5>1. PICK i \in 1..n : f = at(i)
          BY <1>3, <4>2
        <5>2. i \in mine
          BY <1>2, <3>2, <5>1
        <5>3. i <= top
          BY <2>3, <5>2
        <5>4. f.seq = last + i /\ at(top).seq = last + top /\ i \in Nat /\ top \in Nat
          BY <1>1, <2>4, <5>1
        <5> HIDE DEF at
        <5> QED BY <5>3, <5>4
      <4> QED BY <4>1, <4>2
    <3> QED BY <1>4, <3>1, <3>2, NewestIsGreatest
  <2>6. Newest(H \cup new, k, last + n) = {at(top)}
    BY <1>4, <2>5, NewestUnique
  <2>7. Visible({at(top)}) = IF b.recs[top].type = "put" THEN {last + top} ELSE {}
    <3>1. PICK e : e = at(top)
      OBVIOUS
    <3>2. e.type = b.recs[top].type /\ e.seq = last + top
      BY <3>1
    <3>3. Visible({e}) = IF e.type = "put" THEN {e.seq} ELSE {}
      BY DEF Visible
    <3> QED BY <3>1, <3>2, <3>3
  <2> QED BY <1>6, <2>2, <2>6, <2>7
<1> QED BY <1>5, <1>6

\* The refinement mapping in terms of history.
LEMMA AppliedIsWrite ==
    ASSUME TypeOK, LocksAndLocals, TypeOK', ReadsInv, NEW t \in Threads, ApplyItem(t)
    PROVE  \E rs \in UNION {{g[i].recs : i \in DOMAIN g} : g \in Groups} :
              /\ lastSequence' = lastSequence + Len(rs)
              /\ Shown(lastSequence)' = KV!Applied(Shown(lastSequence), rs, lastSequence)
              /\ \A h \in Holders : ShownTo(h)' = ShownTo(h)
<1>0. PICK o \in Job : o = job[t]
  BY DEF TypeOK
<1>1. PICK b, start : b = o.group[o.item] /\ start = o.starts[o.item]
  OBVIOUS
<1>2. PICK new : new = BatchEntries(b, start)
  OBVIOUS
<1>5. /\ o.pc = "apply"
      /\ lastSequence' = MaxOf(lastSequence, start + Len(b.recs) - 1)
      /\ history' = history \cup new
      /\ UNCHANGED snaps
  BY <1>0, <1>1, <1>2 DEF ApplyItem
<1>7. Maintains(t) /\ WriterReads(o) /\ StoreReads
  BY <1>0, <1>5, WriterNow DEF ReaderPcs
<1>8. /\ start = lastSequence + 1 /\ lastSequence \in Nat
  BY <1>1, <1>5, <1>7 DEF WriterReads, StartsAfter, TypeOK
<1>9. o.item \in 1..Len(o.group)
  BY <1>0, <1>5 DEF LocksAndLocals, LocalsInRange
<1>10. o.group \in Group
  BY <1>5, JobShapes
<1>11. o.group \in Seq(Batch) /\ Len(o.group) \in Nat /\ b \in Batch
  BY <1>1, <1>9, <1>10, GroupFacts
<1>12. b.recs \in UNION {{g[i].recs : i \in DOMAIN g} : g \in Groups}
  <2>1. o.group \in Groups
    BY <1>9, <1>10, <1>11 DEF Group
  <2> QED BY <1>1, <1>9, <1>11, <2>1
<1>13. PICK last \in Nat : last = lastSequence
  BY <1>8
<1>14. PICK n \in Nat : n = Len(b.recs)
  BY <1>8, <1>11, BatchNumbers
<1>15. /\ n >= 1 /\ \A e \in new : e.seq \in Nat /\ last < e.seq
  <2>1. new = BatchEntries(b, last + 1)
    BY <1>2, <1>8, <1>13
  <2> QED BY <1>11, <1>14, <2>1, BatchNumbers
<1>16. lastSequence' = last + n
  <2>1. last + 1 + n - 1 = last + n /\ ~(last > last + n)
    OBVIOUS
  <2>2. MaxOf(last, last + n) = last + n
    BY <2>1 DEF MaxOf
  <2> QED BY <1>5, <1>8, <1>13, <1>14, <2>1, <2>2
<1>17. /\ history \subseteq Entry /\ UniqueSeqs(history) /\ \A e \in history : e.seq <= last
       /\ \A p \in snaps : p.seq \in Nat /\ p.seq <= last
  BY <1>7, <1>13 DEF StoreReads, TypeOK
<1>18. Shown(lastSequence)' = KV!Applied(Shown(lastSequence), b.recs, lastSequence)
  <2>1. ASSUME NEW k \in Keys, NEW mine, mine = {i \in DOMAIN b.recs : b.recs[i].key = k}
        PROVE  Visible(Newest(history \cup new, k, last + n))
                 = IF mine = {} THEN Shown(last)[k]
                   ELSE IF b.recs[Greatest(mine)].type = "put" THEN {last + Greatest(mine)}
                   ELSE {}
    <3>1. new = BatchEntries(b, last + 1)
      BY <1>2, <1>8, <1>13
    <3>2. Shown(last)[k] = Visible(Newest(history, k, last))
      BY DEF Shown
    <3>3. Visible(Newest(history \cup BatchEntries(b, last + 1), k, last + Len(b.recs)))
             = IF mine = {} THEN Visible(Newest(history, k, last))
               ELSE IF b.recs[Greatest(mine)].type = "put" THEN {last + Greatest(mine)}
               ELSE {}
      <4>1. Below(history, last) /\ b \in Batch
        BY <1>11, <1>17 DEF Below
      <4>2. WithBatch(history, b, k, last) = LastRecord(history, b, k, last)
        BY <4>1, BatchIsApplied
      <4> QED BY <2>1, <4>2 DEF WithBatch, LastRecord
    <3> QED BY <1>14, <3>1, <3>2, <3>3, Zenon
  <2>2. KV!Applied(Shown(last), b.recs, last) = [k \in Keys |-> Visible(Newest(history \cup new, k, last + n))]
    BY <2>1 DEF KV!Applied, Greatest
  <2>3. Shown(lastSequence)' = [k \in Keys |-> Visible(Newest(history \cup new, k, last + n))]
    BY <1>5, <1>16 DEF Shown
  <2> QED BY <1>13, <2>2, <2>3
<1>19. \A h \in Holders : ShownTo(h)' = ShownTo(h)
  <2>1. \A p \in snaps : Shown(p.seq)' = Shown(p.seq)
    <3>1. \A p \in snaps, k \in Keys : Newest(history \cup new, k, p.seq) = Newest(history, k, p.seq)
      <4>1. ASSUME NEW s \in Nat, s <= last, NEW k \in Keys
            PROVE  Newest(history \cup new, k, s) = Newest(history, k, s)
        <5>1. \A e \in (history \cup new) \ history : ~(e.seq <= s)
          BY <1>15, <4>1
        <5> QED BY <5>1, NewestIgnoresNewer
      <4> QED BY <1>17, <4>1
    <3> QED BY <1>5, <3>1 DEF Shown
  <2> QED BY <1>5, <2>1 DEF ShownTo
<1> QED BY <1>12, <1>13, <1>14, <1>16, <1>18, <1>19

\* What a step does to the history that reads show.
LEMMA StepShows ==
    ASSUME ReadsAssumptions, TypeOK, LocksAndLocals, ReadsInv, TypeOK', [Next]_vars
    PROVE  \/ UNCHANGED <<history, lastSequence, snaps>>
           \/ \E h \in Holders :
                /\ UNCHANGED <<history, lastSequence>>
                /\ \/ /\ \A p \in snaps : p.holder # h
                      /\ snaps' = snaps \cup {[holder |-> h, seq |-> lastSequence]}
                   \/ snaps' = {p \in snaps : p.holder # h}
           \/ \E t \in Threads : ApplyItem(t)
<1>1. CASE UNCHANGED vars
  BY <1>1 DEF vars, memory, ghosts
<1>2. ASSUME NEW t \in Threads, ThreadStep(t), ~ApplyItem(t)
      PROVE  UNCHANGED <<history, lastSequence, snaps>>
  <2>1. CASE \/ \E g \in Groups : BeginWrite(t, g)
             \/ LockState(t) \/ AppendWal(t) \/ WalFails(t)
             \/ FlushNothing(t) \/ FlushRefused(t) \/ BeginFlush(t) \/ WriteL0Table(t)
    BY <2>1 DEF BeginWrite, LockState, AppendWal, WalFails, FlushNothing, FlushRefused,
                BeginFlush, WriteL0Table, memory, ghosts
  <2>2. CASE \/ PublishAddFile(t) \/ PublishLastSequence(t) \/ PublishLogNumber(t)
             \/ FlushFails(t) \/ PublishFails(t)
    BY <2>2 DEF PublishAddFile, PublishLastSequence, PublishLogNumber, FlushFails, PublishFails,
                memory, ghosts
  <2>3. CASE \/ \E r \in Ranges : CompactRange(t, r)
             \/ CompactUnderPressure(t) \/ ReadOldest(t) \/ ReadLastSequence(t)
             \/ CheckTombstones(t) \/ CompactionFails(t) \/ TrivialMove(t)
    BY <2>3 DEF CompactRange, CompactUnderPressure, Pick, ReadOldest, ReadLastSequence,
                CheckTombstones, CompactionFails, TrivialMove, memory, ghosts
  <2>4. CASE \/ WriteOutputs(t) \/ OutputsFail(t) \/ CommitDelete(t) \/ CommitAdd(t)
             \/ CommitFails(t) \/ LoadVersion(t) \/ InstallTables(t) \/ DeleteObsoleteFiles(t)
    BY <2>4 DEF WriteOutputs, OutputsFail, CommitDelete, CommitAdd, CommitFails, LoadVersion,
                InstallTables, DeleteObsoleteFiles, memory, ghosts
  <2>5. CASE \/ \E k \in Keys : \E pin \in {{}} \cup {{s} : s \in snaps} : GetMemtables(t, k, pin)
             \/ GetTables(t) \/ ReturnGet(t) \/ Close(t)
    BY <2>5 DEF GetMemtables, GetTables, ReturnGet, Close, memory, ghosts
  <2> QED BY <1>2, <2>1, <2>2, <2>3, <2>4, <2>5, Zenon DEF ThreadStep
<1>3. ASSUME NEW h \in Holders, TakeSnapshot(h)
      PROVE  /\ UNCHANGED <<history, lastSequence>>
             /\ \A p \in snaps : p.holder # h
             /\ snaps' = snaps \cup {[holder |-> h, seq |-> lastSequence]}
  BY <1>3 DEF TakeSnapshot, memory, ghosts
<1>4. ASSUME NEW h \in Holders, DropSnapshot(h)
      PROVE  UNCHANGED <<history, lastSequence>> /\ snaps' = {p \in snaps : p.holder # h}
  BY <1>4 DEF DropSnapshot, memory, ghosts
<1>5. ~CrashAndOpen
  BY DEF ReadsAssumptions, CrashAndOpen, Fail
<1> QED BY <1>1, <1>2, <1>3, <1>4, <1>5, Zenon DEF Next

LEMMA StepImplements ==
    ASSUME ReadsAssumptions, TypeOK, LocksAndLocals, ReadsInv, TypeOK', [Next]_vars,
           MapsAreShown, MapsAreShown'
    PROVE  [KV!Next]_<<[k \in Keys |-> Visible(Lookup(k, lastSequence))], lastSequence,
                       [h \in Holders |->
                          {[k \in Keys |-> Visible(Lookup(k, s.seq))] :
                              s \in {p \in snaps : p.holder = h}}]>>
<1> DEFINE store == [k \in Keys |-> Visible(Lookup(k, lastSequence))]
           views == [h \in Holders |->
                       {[k \in Keys |-> Visible(Lookup(k, s.seq))] :
                           s \in {p \in snaps : p.holder = h}}]
           seen == [h \in Holders |-> ShownTo(h)]
<1>1. store = Shown(lastSequence) /\ views = seen
  BY DEF MapsAreShown
<1>2. store' = Shown(lastSequence)' /\ views' = seen'
  BY DEF MapsAreShown
<1>3. ASSUME UNCHANGED <<history, lastSequence, snaps>>
      PROVE  UNCHANGED <<store, lastSequence, views>>
  <2>1. Shown(lastSequence)' = Shown(lastSequence) /\ seen' = seen
    BY <1>3 DEF Shown, ShownTo
  <2> QED BY <1>1, <1>2, <1>3, <2>1
<1>4. ASSUME NEW h \in Holders, UNCHANGED <<history, lastSequence>>,
             \A p \in snaps : p.holder # h,
             snaps' = snaps \cup {[holder |-> h, seq |-> lastSequence]}
      PROVE  KV!Next
  <2>1. store' = store
    <3>1. Shown(lastSequence)' = Shown(lastSequence)
      BY <1>4 DEF Shown
    <3> QED BY <1>1, <1>2, <3>1
  <2>2. views[h] = {}
    BY <1>1, <1>4 DEF ShownTo
  <2>3. views' = [views EXCEPT ![h] = {store}]
    <3>1. PICK p : p = [holder |-> h, seq |-> lastSequence]
      OBVIOUS
    <3>2. p.holder = h /\ p.seq = lastSequence /\ snaps' = snaps \cup {p}
      BY <1>4, <3>1
    <3>3. \A s : Shown(s)' = Shown(s)
      BY <1>4 DEF Shown
    <3>4. {q \in snaps' : q.holder = h} = {p}
      BY <1>4, <3>2
    <3>5. ShownTo(h)' = {Shown(lastSequence)}
      BY <3>2, <3>3, <3>4 DEF ShownTo
    <3>6. ASSUME NEW g \in Holders, g # h PROVE ShownTo(g)' = ShownTo(g)
      <4>1. {q \in snaps' : q.holder = g} = {q \in snaps : q.holder = g}
        BY <3>2, <3>6
      <4> QED BY <3>3, <4>1 DEF ShownTo
    <3>7. seen' = [seen EXCEPT ![h] = {Shown(lastSequence)}]
      BY <3>5, <3>6
    <3> QED BY <1>1, <1>2, <3>7
  <2>4. KV!TakeSnapshot(h)
    BY <1>4, <2>1, <2>2, <2>3 DEF KV!TakeSnapshot
  <2> QED BY <2>4 DEF KV!Next
<1>5. ASSUME NEW h \in Holders, UNCHANGED <<history, lastSequence>>,
             snaps' = {p \in snaps : p.holder # h}
      PROVE  KV!Next
  <2>1. store' = store
    <3>1. Shown(lastSequence)' = Shown(lastSequence)
      BY <1>5 DEF Shown
    <3> QED BY <1>1, <1>2, <3>1
  <2>2. views' = [views EXCEPT ![h] = {}]
    <3>1. \A s : Shown(s)' = Shown(s)
      BY <1>5 DEF Shown
    <3>2. ShownTo(h)' = {}
      BY <1>5 DEF ShownTo
    <3>3. ASSUME NEW g \in Holders, g # h PROVE ShownTo(g)' = ShownTo(g)
      <4>1. {q \in snaps' : q.holder = g} = {q \in snaps : q.holder = g}
        BY <1>5, <3>3
      <4> QED BY <3>1, <4>1 DEF ShownTo
    <3>4. seen' = [seen EXCEPT ![h] = {}]
      BY <3>2, <3>3
    <3> QED BY <1>1, <1>2, <3>4
  <2>3. KV!DropSnapshot(h)
    BY <1>5, <2>1, <2>2 DEF KV!DropSnapshot
  <2> QED BY <2>3 DEF KV!Next
<1>6. ASSUME NEW t \in Threads, ApplyItem(t) PROVE KV!Next
  <2>1. PICK rs \in UNION {{g[i].recs : i \in DOMAIN g} : g \in Groups} :
              /\ lastSequence' = lastSequence + Len(rs)
              /\ Shown(lastSequence)' = KV!Applied(Shown(lastSequence), rs, lastSequence)
              /\ \A h \in Holders : ShownTo(h)' = ShownTo(h)
    BY <1>6, AppliedIsWrite
  <2>2. seen' = seen
    BY <2>1
  <2>3. KV!Write(rs)
    BY <1>1, <1>2, <2>1, <2>2 DEF KV!Write
  <2> QED BY <2>1, <2>3 DEF KV!Next
<1> HIDE DEF store, views
<1>7. KV!Next \/ UNCHANGED <<store, lastSequence, views>>
  <2>1. CASE UNCHANGED <<history, lastSequence, snaps>>
    BY <1>3, <2>1
  <2>2. CASE \E h \in Holders :
               /\ UNCHANGED <<history, lastSequence>>
               /\ \/ /\ \A p \in snaps : p.holder # h
                     /\ snaps' = snaps \cup {[holder |-> h, seq |-> lastSequence]}
                  \/ snaps' = {p \in snaps : p.holder # h}
    <3>1. PICK h \in Holders :
               /\ UNCHANGED <<history, lastSequence>>
               /\ \/ /\ \A p \in snaps : p.holder # h
                     /\ snaps' = snaps \cup {[holder |-> h, seq |-> lastSequence]}
                  \/ snaps' = {p \in snaps : p.holder # h}
      BY <2>2
    <3>2. CASE /\ \A p \in snaps : p.holder # h
               /\ snaps' = snaps \cup {[holder |-> h, seq |-> lastSequence]}
      BY <1>4, <3>1, <3>2
    <3>3. CASE snaps' = {p \in snaps : p.holder # h}
      BY <1>5, <3>1, <3>3
    <3> QED BY <3>1, <3>2, <3>3
  <2>3. CASE \E t \in Threads : ApplyItem(t)
    BY <1>6, <2>3
  <2> QED BY <2>1, <2>2, <2>3, StepShows
<1> QED BY <1>7 DEF store, views

\* Clients cannot tell the engine from KVStore, while one thread writes,
\* flushes and compacts and any number of others get and hold snapshots: a
\* batch takes effect at once, and no flush, compaction or failed call shows.
THEOREM EngineImplementsKVStore ==
    ASSUME ReadsAssumptions PROVE Spec => ImplementsKVStore
<1>1. ASSUME Init PROVE KV!Init
  <2>1. history = {} /\ snaps = {} /\ lastSequence = 0 /\ TypeOK /\ StoreReads
    BY <1>1, TypeInit, ReadsInit DEF Init, ReadsInv
  <2>2. \A s : Shown(s) = [k \in Keys |-> {}]
    BY <2>1 DEF Shown, Newest, VersionsOf, Visible
  <2>3. \A h \in Holders : ShownTo(h) = {}
    BY <2>1 DEF ShownTo
  <2>4. [h \in Holders |-> ShownTo(h)] = [h \in Holders |-> {}]
    BY <2>3
  <2> QED BY <2>1, <2>2, <2>4, MapIsHistory DEF KV!Init, MapsAreShown
<1>2. TypeOK /\ ReadsInv => MapsAreShown
  BY MapIsHistory DEF ReadsInv
<1>3. TypeOK /\ LocksAndLocals /\ ReadsInv /\ TypeOK' /\ [Next]_vars /\ MapsAreShown /\ MapsAreShown'
        => [KV!Next]_<<[k \in Keys |-> Visible(Lookup(k, lastSequence))], lastSequence,
                       [h \in Holders |->
                          {[k \in Keys |-> Visible(Lookup(k, s.seq))] :
                              s \in {p \in snaps : p.holder = h}}]>>
  BY StepImplements
<1> QED BY <1>1, <1>2, <1>3, ReadsHold, NumbersHold, PTL DEF Spec, ImplementsKVStore, KV!Spec
=============================================================================
